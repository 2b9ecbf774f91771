------------------------------ MODULE FrameLink ------------------------------
(***************************************************************************)
(* What RwdClient of src/rasterwand/userspace/rwand.py promises about its *)
(* link to the rwd process, seen from above: it "renders frames           *)
(* synchronously".  The client talks to at most one rwd process at a      *)
(* time; opening a link to a fresh process puts exactly one frame in      *)
(* flight, and while the link stays up that one frame is always           *)
(* outstanding: each acknowledgement is answered by the next frame, never *)
(* by none (the display would freeze) and never by two (rwd's pipe would  *)
(* fill with frames it renders late).  A link is only ever dropped as a   *)
(* whole, and a frame that was outstanding when it dropped either stays   *)
(* in the dead process's pipe or was never written.                       *)
(***************************************************************************)
CONSTANTS Procs, NoProc

VARIABLES
  link,    \* the process the client talks to, or NoProc
  linked,  \* processes the client has ever talked to
  owed     \* owed[p]: frames of process p sent and not yet answered

frameVars == <<link, linked, owed>>

Init ==
  /\ link = NoProc
  /\ linked = {}
  /\ owed = [p \in Procs |-> 0]

(* Open a link to a process never used before, with its first frame.     *)
Open(p) ==
  /\ link = NoProc
  /\ p \notin linked
  /\ link' = p
  /\ linked' = linked \cup {p}
  /\ owed' = [owed EXCEPT ![p] = 1]

(* Drop the link; its outstanding frame stays where it is, or the write  *)
(* of the next frame failed and nothing is outstanding any more.          *)
Drop ==
  /\ link # NoProc
  /\ link' = NoProc
  /\ owed' \in {owed, [owed EXCEPT ![link] = 0]}
  /\ UNCHANGED linked

Next == Drop \/ \E p \in Procs : Open(p)

Spec == Init /\ [][Next]_frameVars

(* While a link is up, exactly one frame of it is outstanding.            *)
OneFrameInFlight ==
  link # NoProc => owed[link] = 1
====
