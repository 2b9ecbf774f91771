----------------------------- MODULE RwdClient ------------------------------
(***************************************************************************)
(* RwdClient of src/rasterwand/userspace/rwand.py: a threading.Thread      *)
(* whose run() loop polls an 'rwd' child process over two pipes, restarts *)
(* it when it dies, and keeps one frame in flight: connected() sends the   *)
(* first frame and every "frame_ack" line from rwd is answered with the    *)
(* next one, rendered by the current renderer.  A second thread, the      *)
(* application, calls stop() and swaps rwdc.renderer "freely at runtime", *)
(* including installing Transition objects, whose render() installs their *)
(* toRenderer when they finish.                                            *)
(*                                                                         *)
(* The client thread is a program counter over the statements of run(),    *)
(* poll() and Transition.render; a step is one statement group that no    *)
(* other thread can observe half done.  rwd (not part of this repository) *)
(* is modelled by what the client expects of it: it answers each frame    *)
(* with a frame_ack line, may report buttons, and may exit at any time,   *)
(* after which its output pipe reaches end of file.  Frame contents,      *)
(* button names and settings are abstracted to model values.              *)
(***************************************************************************)
EXTENDS Naturals, Sequences, FiniteSets

CONSTANTS
  Procs,         \* rwd process instances; each connect() spawns a fresh one
  Plain,         \* renderers that are not transitions (None included)
  Trans,         \* Transition objects the application may create
  Duration,      \* Transition.duration
  Buttons,       \* button names rwd may report
  MaxInstalls,   \* bound on the application's renderer assignments
  MaxReports,    \* bound on unsolicited "buttons" lines from rwd
  NoProc         \* self.rwd = None

ASSUME Duration \in Nat /\ MaxInstalls \in Nat /\ MaxReports \in Nat
ASSUME NoProc \notin Procs /\ Plain \cap Trans = {}

VARIABLES
  pc,         \* where the client thread is in run()/poll()/render()
  ret,        \* where the client thread resumes after a transition swap
  swapT,      \* the Transition whose render() is between lines 281 and 282
  running,    \* self._running: "unset" until run() assigns it
  rwd,        \* self.rwd
  spawned,    \* rwd processes started so far
  alive,      \* is the rwd process still running?
  toChild,    \* lines written to rwd's stdin, not yet read by rwd
  fromChild,  \* lines written by rwd, not yet read by the client
  device,     \* is a Raster Wand attached (what _findDevice sees)?
  renderer,   \* self.renderer
  tfrom, tto, \* Transition.fromRenderer / toRenderer of each object
  tframe,     \* Transition.frameNum of each object
  buttons,    \* self.buttons
  stopped,    \* has the application called stop()?
  installed,  \* the renderer the application assigned last
  installs,   \* number of renderer assignments by the application
  made,       \* Transition objects the application has created
  reports     \* number of buttons lines rwd has written

clientVars == <<pc, ret, swapT, running, rwd, buttons>>
childVars  == <<spawned, alive, toChild, fromChild, device, reports>>
renderVars == <<renderer, tfrom, tto, tframe>>
appVars    == <<stopped, installed, installs, made>>
vars       == <<clientVars, childVars, renderVars, appVars>>

Lines == {<<"frame_ack">>} \cup {<<"buttons", S>> : S \in SUBSET Buttons}

Init ==
  /\ pc = "init" /\ ret = "loop" /\ swapT = CHOOSE t \in Trans : TRUE
  /\ running = "unset"
  /\ rwd = NoProc /\ spawned = {}
  /\ alive = [p \in Procs |-> FALSE]
  /\ toChild = [p \in Procs |-> <<>>]
  /\ fromChild = [p \in Procs |-> <<>>]
  /\ device \in BOOLEAN
  /\ renderer \in Plain
  /\ tfrom = [t \in Trans |-> renderer] /\ tto = [t \in Trans |-> renderer]
  /\ tframe = [t \in Trans |-> 0]
  /\ buttons = {}
  /\ stopped = FALSE /\ installed = renderer /\ installs = 0 /\ reports = 0
  /\ made = {}

(* send_frame -> send_command on process p (self.rwd), running iff up:    *)
(* the frame line goes down the pipe, or the write raises IOError because *)
(* rwd has exited, and send_command sets self.rwd to None.                *)
SendFrame(p, up) ==
  IF up
    THEN /\ toChild' = [toChild EXCEPT ![p] = Append(@, "frame")]
         /\ rwd' = p
    ELSE /\ rwd' = NoProc
         /\ UNCHANGED toChild

(* Mutant of RenderFrame: Transition.render does not advance frameNum.   *)
RenderFrame_NoAdvance(p, up, k) ==
  LET r == renderer IN
  IF r \in Trans /\ tframe[r] >= Duration
    THEN /\ pc' = "swap" /\ swapT' = r /\ ret' = k /\ rwd' = p
         /\ UNCHANGED <<toChild, tframe>>
    ELSE /\ SendFrame(p, up)
         /\ pc' = k
         /\ UNCHANGED <<ret, swapT, tframe>>

(* Mutant of RenderFrame: 'if self.frameNum > self.duration' at line 280. *)
RenderFrame_LateSwap(p, up, k) ==
  LET r == renderer IN
  IF r \in Trans /\ tframe[r] > Duration
    THEN /\ pc' = "swap" /\ swapT' = r /\ ret' = k /\ rwd' = p
         /\ UNCHANGED <<toChild, tframe>>
    ELSE /\ SendFrame(p, up)
         /\ tframe' = IF r \in Trans THEN [tframe EXCEPT ![r] = @ + 1] ELSE tframe
         /\ pc' = k
         /\ UNCHANGED <<ret, swapT>>

(* recv_frame_ack / connected(): render the current renderer and send the *)
(* frame to process p, then resume at k.  A Transition that has run its   *)
(* duration first checks that it is still rwdc.renderer (line 281); the   *)
(* assignment of line 282 is the separate step Swap.  A running           *)
(* Transition renders both inputs, tweens them and advances frameNum.     *)
RenderFrame(p, up, k) ==
  LET r == renderer IN
  IF r \in Trans /\ tframe[r] >= Duration
    THEN /\ pc' = "swap" /\ swapT' = r /\ ret' = k /\ rwd' = p
         /\ UNCHANGED <<toChild, tframe>>
    ELSE /\ SendFrame(p, up)
         /\ tframe' = IF r \in Trans THEN [tframe EXCEPT ![r] = @ + 1] ELSE tframe
         /\ pc' = k
         /\ UNCHANGED <<ret, swapT>>
-----------------------------------------------------------------------------
(* The client thread: run() and poll().                                   *)

(* run(): self._running = True, then the while loop.                     *)
Run ==
  /\ pc = "init"
  /\ running' = "True"
  /\ pc' = "loop"
  /\ UNCHANGED <<ret, swapT, rwd, buttons, childVars, renderVars, appVars>>

LoopTest ==
  /\ pc = "loop"
  /\ pc' = IF running = "True" THEN "poll" ELSE "done"
  /\ UNCHANGED <<ret, swapT, running, rwd, buttons, childVars, renderVars, appVars>>

(* Mutant of CheckDead: the exit test reads 'self.rwd.poll() == -1'.     *)
CheckDead_Inverted ==
  /\ pc = "poll"
  /\ rwd' = IF rwd # NoProc /\ alive[rwd] THEN NoProc ELSE rwd
  /\ pc' = "reconnect"
  /\ UNCHANGED <<ret, swapT, running, buttons, childVars, renderVars, appVars>>

(* poll(): forget an rwd process whose poll() shows it has exited.       *)
CheckDead ==
  /\ pc = "poll"
  /\ rwd' = IF rwd # NoProc /\ ~alive[rwd] THEN NoProc ELSE rwd
  /\ pc' = "reconnect"
  /\ UNCHANGED <<ret, swapT, running, buttons, childVars, renderVars, appVars>>

(* poll()'s 'while not self.rwd' loop: connect() finds the device and     *)
(* spawns rwd, and connected() sends the first frame; with no device     *)
(* connect() leaves self.rwd None and the loop sleeps and retries, which *)
(* changes no state.  Once self.rwd is set the loop exits to readline.   *)
Reconnect ==
  /\ pc = "reconnect"
  /\ \/ /\ rwd # NoProc
        /\ pc' = "read"
        /\ UNCHANGED <<ret, swapT, rwd, childVars, renderVars>>
     \/ /\ rwd = NoProc
        /\ device
        /\ \E p \in Procs \ spawned :
             /\ spawned' = spawned \cup {p}
             /\ alive' = [alive EXCEPT ![p] = TRUE]
             /\ rwd' = p
             /\ RenderFrame(p, TRUE, "reconnect")
             /\ UNCHANGED <<fromChild, device, reports, renderer, tfrom, tto>>
  /\ UNCHANGED <<running, buttons, appVars>>

(* recv_buttons: the listeners are told of the presses and releases, top *)
(* of the stack first (they hold no state of the client), and the new set *)
(* replaces self.buttons.                                                 *)
RecvButtons(S) == buttons' = S

(* readline() on rwd's output, and dispatch to recv_<first token>.  At    *)
(* end of file (rwd exited and its output is drained) self.rwd = None.   *)
Read ==
  LET p == rwd IN
  /\ pc = "read"
  /\ \/ /\ fromChild[p] # <<>>
        /\ fromChild' = [fromChild EXCEPT ![p] = Tail(@)]
        /\ \/ /\ Head(fromChild[p])[1] = "frame_ack"
              /\ RenderFrame(p, alive[p], "loop")
              /\ UNCHANGED buttons
           \/ /\ Head(fromChild[p])[1] = "buttons"
              /\ RecvButtons(Head(fromChild[p])[2])
              /\ pc' = "loop"
              /\ UNCHANGED <<ret, swapT, rwd, toChild, tframe>>
     \/ /\ fromChild[p] = <<>>
        /\ ~alive[p]
        /\ rwd' = NoProc
        /\ pc' = "loop"
        /\ UNCHANGED <<ret, swapT, buttons, fromChild, toChild, tframe>>
  /\ UNCHANGED <<running, spawned, alive, device, reports,
                 renderer, tfrom, tto, appVars>>

(* Mutant of Swap: the toRenderer is installed but its frame not sent.   *)
Swap_NoSend ==
  /\ pc = "swap"
  /\ renderer' = tto[swapT]
  /\ pc' = ret
  /\ UNCHANGED <<ret, swapT, running, rwd, buttons, spawned, alive, toChild,
                 fromChild, device, reports, tfrom, tto, tframe, appVars>>

(* Transition.render, line 282: install toRenderer, then render and send  *)
(* it (line 283).                                                         *)
Swap ==
  /\ pc = "swap"
  /\ renderer' = tto[swapT]
  /\ SendFrame(rwd, alive[rwd])
  /\ pc' = ret
  /\ UNCHANGED <<ret, swapT, running, buttons, spawned, alive, fromChild,
                 device, reports, tfrom, tto, tframe, appVars>>
-----------------------------------------------------------------------------
(* rwd and the device, as the client expects them to behave.              *)

(* rwd reads a frame line and answers it with frame_ack.                  *)
ChildAck(p) ==
  /\ alive[p]
  /\ toChild[p] # <<>>
  /\ toChild' = [toChild EXCEPT ![p] = Tail(@)]
  /\ fromChild' = [fromChild EXCEPT ![p] = Append(@, <<"frame_ack">>)]
  /\ UNCHANGED <<clientVars, spawned, alive, device, reports, renderVars, appVars>>

(* rwd reports the set of buttons now held.                               *)
ChildButtons(p, S) ==
  /\ alive[p]
  /\ reports < MaxReports
  /\ reports' = reports + 1
  /\ fromChild' = [fromChild EXCEPT ![p] = Append(@, <<"buttons", S>>)]
  /\ UNCHANGED <<clientVars, spawned, alive, toChild, device, renderVars, appVars>>

(* rwd exits (crash, or the wand is unplugged, which also hides it from   *)
(* _findDevice).  Only while a fresh process id is left for the restart. *)
ChildExit(p) ==
  /\ alive[p]
  /\ spawned # Procs
  /\ alive' = [alive EXCEPT ![p] = FALSE]
  /\ device' \in BOOLEAN
  /\ UNCHANGED <<clientVars, spawned, toChild, fromChild, reports, renderVars, appVars>>

Plug ==
  /\ ~device
  /\ device' = TRUE
  /\ UNCHANGED <<clientVars, spawned, alive, toChild, fromChild, reports, renderVars, appVars>>

-----------------------------------------------------------------------------
(* The application thread.                                                *)

(* stop(): self._running = False.                                         *)
Stop ==
  /\ ~stopped
  /\ stopped' = TRUE
  /\ running' = "False"
  /\ UNCHANGED <<pc, ret, swapT, rwd, buttons, childVars, renderVars,
                 installed, installs, made>>

(* rwdc.renderer = r for a plain renderer r.                              *)
InstallPlain(r) ==
  /\ installs < MaxInstalls
  /\ installs' = installs + 1
  /\ renderer' = r
  /\ installed' = r
  /\ UNCHANGED <<clientVars, childVars, tfrom, tto, tframe, stopped, made>>

(* rwdc.renderer = Transition(fromRenderer, toRenderer, duration): a new  *)
(* object with frameNum 0 (Transition.__init__).                          *)
InstallTransition(t, from, to) ==
  /\ installs < MaxInstalls
  /\ t \notin made
  /\ installs' = installs + 1
  /\ made' = made \cup {t}
  /\ tfrom' = [tfrom EXCEPT ![t] = from]
  /\ tto' = [tto EXCEPT ![t] = to]
  /\ tframe' = [tframe EXCEPT ![t] = 0]
  /\ renderer' = t
  /\ installed' = t
  /\ UNCHANGED <<clientVars, childVars, stopped>>

-----------------------------------------------------------------------------
Client == Run \/ LoopTest \/ CheckDead \/ Reconnect \/ Read \/ Swap

Next ==
  \/ Client
  \/ \E p \in Procs : \/ ChildAck(p) \/ ChildExit(p)
                     \/ \E S \in SUBSET Buttons : ChildButtons(p, S)
  \/ Plug
  \/ Stop
  \/ \E r \in Plain : InstallPlain(r)
  \/ \E t \in Trans, from \in Plain, to \in Plain : InstallTransition(t, from, to)

(* The client thread is scheduled whenever it is runnable, a running rwd *)
(* answers every frame, and a wand that was unplugged is plugged back in. *)
Fairness ==
  /\ WF_vars(Client)
  /\ \A p \in Procs : WF_vars(ChildAck(p))
  /\ WF_vars(Plug)

Spec == Init /\ [][Next]_vars /\ Fairness
-----------------------------------------------------------------------------
(* Refinement of FrameLink.  A frame of process p is outstanding while it *)
(* sits in rwd's input pipe, while rwd's frame_ack for it sits in the     *)
(* output pipe, and while the client has read that ack and holds the next *)
(* frame back for a Transition's swap (pc = "swap").  self.rwd is the     *)
(* link, and every process connect() spawned has been linked.            *)
IsFrameAck(l) == l[1] = "frame_ack"

Outstanding(p) ==
  Len(toChild[p]) + Len(SelectSeq(fromChild[p], IsFrameAck))
    + (IF pc = "swap" /\ rwd = p THEN 1 ELSE 0)

Link == INSTANCE FrameLink WITH
          link <- rwd, linked <- spawned,
          owed <- [p \in Procs |-> Outstanding(p)]
-----------------------------------------------------------------------------
(* Properties.                                                            *)

TypeOK ==
  /\ pc \in {"init", "loop", "poll", "reconnect", "read", "swap", "done"}
  /\ running \in {"unset", "True", "False"}
  /\ rwd \in Procs \cup {NoProc}
  /\ spawned \subseteq Procs
  /\ \A p \in Procs : /\ toChild[p] \in Seq({"frame"})
                     /\ fromChild[p] \in Seq(Lines)
  /\ renderer \in Plain \cup Trans
  /\ tframe \in [Trans -> 0..Duration]
  /\ buttons \subseteq Buttons

(* poll() lets go of self.rwd only once that rwd process has exited (its  *)
(* poll() status, end of file on its output, or EPIPE on a write), so the *)
(* client never starts a second rwd while one is still driving the wand. *)
SingleRwd ==
  \A p \in Procs : alive[p] => p = rwd

(* An installed Transition runs to its end and hands over to its          *)
(* toRenderer, unless the application replaces it or stop() ends run():  *)
(* the frame_ack loop, restarted by connected() after every reconnect,   *)
(* keeps calling render().                                                *)
TransitionCompletes ==
  \A t \in Trans : renderer = t ~> (renderer # t \/ pc = "done")

(* The docstring promises renderers "may be swapped freely at runtime":   *)
(* the renderer is the one the application assigned last, or the target *)
(* of the Transition it assigned last.                                    *)
RendererKept ==
  \/ renderer = installed
  \/ installed \in Trans /\ renderer = tto[installed]

(* stop() ends the run() loop: once it is called, run() eventually        *)
(* returns.                                                               *)
StopTerminates ==
  stopped ~> pc = "done"

(* run() renders frames synchronously: every step of the client, rwd and *)
(* the application is a step of FrameLink, so the frame_ack handshake of  *)
(* recv_frame_ack, connected() and Transition.render's swap always keeps  *)
(* exactly one frame in flight on the live rwd, across reconnects, EPIPE  *)
(* and transitions that end between two acks.                             *)
FrameFlowRefined == Link!Spec

====
