---------------------------- MODULE ChannelRequest ----------------------------
(***************************************************************************)
(* The life of one channel in one BotAllocator of                         *)
(* src/cia/LibCIA/BotDaemon.py, seen from above: what the allocator's     *)
(* three records (newBotRequests, existingBotRequests, the channels dict) *)
(* promise about a channel, whatever happens to the bots underneath.     *)
(*                                                                         *)
(* A channel nobody asked for is "none".  addChannel queues it for a new  *)
(* bot ("queued") or asks an existing bot to join it ("requested"); a new *)
(* bot that signs on takes queued channels and is asked to join them; a   *)
(* requested channel becomes held by the bot whose JOIN confirmed it, and *)
(* keeps that bot until it is forgotten.  A channel is forgotten from any *)
(* state (delChannel, a PART, a lost connection) and can then start over. *)
(* A channel is never held without having been requested, never moves    *)
(* from one bot to another, and never goes back to a queue.              *)
(***************************************************************************)
CONSTANTS Bots

VARIABLE state  \* "none", "queued", "requested", or the bot holding it

Init == state = "none"

(* The moves from state s to state t.                                     *)
Queue(s, t)   == s = "none" /\ t = "queued"
Request(s, t) == s \in {"none", "queued"} /\ t = "requested"
Join(s, t)    == s = "requested" /\ t \in Bots
Forget(s, t)  == s # "none" /\ t = "none"

Moves(s, t) == Queue(s, t) \/ Request(s, t) \/ Join(s, t) \/ Forget(s, t)

Next == Moves(state, state')

Spec == Init /\ [][Next]_state
====
