--------------------------- MODULE MCBZFlagClient ---------------------------
(* Model values for the sockets of a BZFlagClient run.                    *)
EXTENDS BZFlagClient

CONSTANTS s1, s2, s3
====
