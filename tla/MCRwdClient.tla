---------------------------- MODULE MCRwdClient -----------------------------
(* Instantiates RwdClient for TLC: the constants come from the .cfg.      *)
EXTENDS RwdClient, TLC
CONSTANTS p1, p2, p3, r1, r2, t1, t2, k1
(* rwd processes and Transition objects only ever compare for identity.   *)
RwdSymmetry == Permutations({t1, t2})
=============================================================================
