---------------------------- MODULE BZFlagSession ----------------------------
(***************************************************************************)
(* What a BZFlag client of src/pybzflag/BZFlag/Client.py promises about   *)
(* its sessions with the server, seen from above.  The client has at most *)
(* one session, on one socket.  A session starts with the handshake and   *)
(* is up once the server's Hello was accepted; starting a new session     *)
(* ends the current one.  A socket is used for one session only, and a    *)
(* session is never ended by closing its socket without having told the   *)
(* server with MsgExit ("sends a MsgExit first as a courtesy").           *)
(***************************************************************************)
CONSTANTS Socks, NoSock

VARIABLES
  cur,     \* the socket of the current session, or NoSock
  phase,   \* "idle", "handshake" or "up"
  closed,  \* sockets whose session has ended
  exited   \* sockets on which MsgExit has been written

sessionVars == <<cur, phase, closed, exited>>

Init ==
  /\ cur \in Socks
  /\ phase = "handshake"
  /\ closed = {} /\ exited = {}

(* The current session's socket, as a set.                                *)
Current == {cur} \ {NoSock}

(* End the current session, if any: MsgExit, then close.                 *)
EndCurrent ==
  /\ exited' = exited \cup Current
  /\ closed' = closed \cup Current

(* Start a session on a socket never used before.                         *)
Open(s) ==
  /\ s \notin closed \cup {cur}
  /\ EndCurrent
  /\ cur' = s
  /\ phase' = "handshake"

(* The server's Hello is accepted.                                        *)
Handshake ==
  /\ phase = "handshake"
  /\ phase' = "up"
  /\ UNCHANGED <<cur, closed, exited>>

(* The current session ends and none follows.                             *)
Close ==
  /\ cur # NoSock
  /\ EndCurrent
  /\ cur' = NoSock
  /\ phase' = "idle"

(* MsgExit is written without ending the session (exitGame).              *)
SayExit ==
  /\ cur # NoSock
  /\ exited' = exited \cup {cur}
  /\ UNCHANGED <<cur, phase, closed>>

Next == Handshake \/ Close \/ SayExit \/ \E s \in Socks : Open(s)

Spec == Init /\ [][Next]_sessionVars

(* Every ended session told the server.                                   *)
ExitBeforeClose == closed \subseteq exited
====
