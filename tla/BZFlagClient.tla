---------------------------- MODULE BZFlagClient ----------------------------
(***************************************************************************)
(* BZFlag.Client.PlayerClient of src/pybzflag/BZFlag/Client.py, with the  *)
(* BaseClient and StatefulClient handlers it inherits, against a bzfs     *)
(* server.                                                                 *)
(*                                                                         *)
(* One thread runs everything: the application calls connect(),           *)
(* disconnect(), exitGame() and run(); run() hands the sockets of         *)
(* getSockets() to Network.EventLoop, which calls socket.handler for      *)
(* every socket with data until an exception leaves it.  Each handler     *)
(* call is one step and reads one whole message (a partial message is    *)
(* re-buffered and changes nothing).  Network (sockets and the event      *)
(* loop) and the server are not part of this repository and are modelled *)
(* by what the client relies on: a socket delivers the server's messages *)
(* in order, and bzfs sends a Hello first, answers MsgEnter with          *)
(* MsgAccept or MsgReject, and may send any other message after Hello.    *)
(* self.udp is never assigned anything but None here and is left out.     *)
(***************************************************************************)
EXTENDS Naturals, Sequences

CONSTANTS
  Socks,       \* Network.Socket objects; each connect() creates a fresh one
  NoSock,      \* None
  MaxMsgs,     \* bound on the messages the server sends unasked
  BadHello,    \* may the server speak another protocol version?
  MaxCalls     \* bound on the application's calls

ASSUME NoSock \notin Socks /\ MaxMsgs \in Nat /\ MaxCalls \in Nat /\ BadHello \in BOOLEAN

(* FromServer messages: the ones BaseClient, StatefulClient and           *)
(* PlayerClient have an onMsg handler for, one that stands for the eight *)
(* StatefulClient handlers that do nothing, and one without a handler.   *)
Pushed == {"MsgSuperKill", "MsgLagPing", "MsgNetworkRelay", "MsgUpdate", "MsgOther"}
Answers == {"MsgAccept", "MsgReject"}

VARIABLES
  tcp,         \* self.tcp
  multicast,   \* self.multicast
  connected,   \* self.connected
  handler,     \* socket.handler: "hello" or "message"
  used,        \* the sockets created so far
  open,        \* the sockets created and not yet closed
  toClient,    \* per socket, the server's messages not yet read
  toServer,    \* per socket, everything the client has written to it
  srvRead,     \* per socket, how many of those the server has read
  helloSent,   \* has the server sent its Hello on the socket?
  srvCount,    \* per socket, messages the server sent after its Hello
  watched,     \* the socket list EventLoop.run polls, {} when not in run()
  exc,         \* the exception the last call the application made raised
  calls        \* the application's calls so far

clientVars == <<tcp, multicast, connected, handler, used, open, toServer, watched, exc>>
serverVars == <<toClient, srvRead, helloSent, srvCount>>
vars == <<clientVars, serverVars, calls>>

Exceptions == {"none", "ProtocolException", "GameException", "AttributeError"}

(* PlayerClient.__init__ with a server: BaseClient.__init__ sets tcp and  *)
(* connected and calls connect(), which creates the first socket.        *)
Init ==
  LET s == CHOOSE x \in Socks : TRUE IN
    /\ tcp = s /\ multicast = s /\ connected = FALSE
    /\ handler = [x \in Socks |-> "hello"]
    /\ used = {s} /\ open = {s}
    /\ toClient = [x \in Socks |-> <<>>] /\ toServer = [x \in Socks |-> <<>>]
    /\ srvRead = [x \in Socks |-> 0] /\ helloSent = [x \in Socks |-> FALSE]
    /\ srvCount = [x \in Socks |-> 0]
    /\ watched = {} /\ exc = "none" /\ calls = 0

(* self.tcp.write(m).                                                     *)
Write(s, m) == toServer' = [toServer EXCEPT ![s] = Append(@, m)]
-----------------------------------------------------------------------------
(* The application's calls, made while run() is not running.              *)

AppCall == watched = {} /\ calls < MaxCalls /\ calls' = calls + 1

(* Mutant of DisconnectBody: connected is not reset.                      *)
DisconnectBody_KeepConnected ==
  /\ Write(tcp, "MsgExit")
  /\ open' = open \ {tcp}
  /\ tcp' = NoSock /\ multicast' = NoSock /\ UNCHANGED connected

(* disconnect() on a client with a socket: write MsgExit, close the       *)
(* socket, drop it and reset multicast and connected.                    *)
DisconnectBody ==
  /\ Write(tcp, "MsgExit")
  /\ open' = open \ {tcp}
  /\ tcp' = NoSock /\ multicast' = NoSock /\ connected' = FALSE

(* disconnect(): the write on line 77 comes before the 'if self.tcp' test, *)
(* so on a client without a socket it raises AttributeError and changes  *)
(* nothing.                                                               *)
Disconnect ==
  /\ AppCall
  /\ \/ tcp # NoSock /\ DisconnectBody /\ exc' = "none"
     \/ tcp = NoSock /\ exc' = "AttributeError" /\ UNCHANGED <<tcp, multicast, connected, open, toServer>>
  /\ UNCHANGED <<handler, used, watched, serverVars>>

(* Mutant of Connect: a reconnect leaves self.connected as it was.        *)
Connect_KeepConnected ==
  /\ AppCall
  /\ \E s \in Socks \ used :
       /\ IF tcp # NoSock
            THEN /\ toServer' = [toServer EXCEPT ![tcp] = Append(@, "MsgExit")]
                 /\ open' = (open \ {tcp}) \cup {s}
            ELSE /\ open' = open \cup {s}
                 /\ UNCHANGED toServer
       /\ tcp' = s /\ multicast' = s
       /\ used' = used \cup {s}
       /\ handler' = [handler EXCEPT ![s] = "hello"]
  /\ exc' = "none"
  /\ UNCHANGED <<connected, watched, serverVars>>

(* connect(): disconnect() a socket it already has, then create a socket, *)
(* connect it, make multicast the TCP socket and wait for the Hello.      *)
Connect ==
  /\ AppCall
  /\ \E s \in Socks \ used :
       /\ IF tcp # NoSock
            THEN /\ toServer' = [toServer EXCEPT ![tcp] = Append(@, "MsgExit")]
                 /\ open' = (open \ {tcp}) \cup {s}
                 /\ connected' = FALSE
            ELSE /\ open' = open \cup {s}
                 /\ UNCHANGED <<toServer, connected>>
       /\ tcp' = s /\ multicast' = s
       /\ used' = used \cup {s}
       /\ handler' = [handler EXCEPT ![s] = "hello"]
  /\ exc' = "none"
  /\ UNCHANGED <<watched, serverVars>>

(* exitGame(): self.tcp.write(MsgExit), AttributeError without a socket.   *)
ExitGame ==
  /\ AppCall
  /\ \/ tcp # NoSock /\ Write(tcp, "MsgExit") /\ exc' = "none"
     \/ tcp = NoSock /\ exc' = "AttributeError" /\ UNCHANGED toServer
  /\ UNCHANGED <<tcp, multicast, connected, handler, used, open, watched, serverVars>>

(* run(): EventLoop().run(self.getSockets()); the list is [self.tcp], or  *)
(* empty without a socket, and is taken once, when run() starts.          *)
Run ==
  /\ AppCall
  /\ tcp # NoSock
  /\ watched' = {tcp}
  /\ exc' = "none"
  /\ UNCHANGED <<tcp, multicast, connected, handler, used, open, toServer, serverVars>>

(* EventLoop.run may return once none of its sockets is open.              *)
LoopReturns ==
  /\ watched # {}
  /\ watched \cap open = {}
  /\ watched' = {}
  /\ UNCHANGED <<tcp, multicast, connected, handler, used, open, toServer, exc, serverVars, calls>>
-----------------------------------------------------------------------------
(* The socket handlers, called by the event loop.  An exception a handler *)
(* raises leaves EventLoop.run and run(), and reaches the application.   *)

Raise(e) == watched' = {} /\ exc' = e

Consume(s) == toClient' = [toClient EXCEPT ![s] = Tail(@)]

(* handleHelloPacket: a Hello of another protocol version raises           *)
(* ProtocolException; otherwise the client is connected, switches the     *)
(* socket to handleMessage and calls onConnect, which in PlayerClient is  *)
(* enterGame(): MsgEnter written to self.tcp.                             *)
HandleHelloPacket(s) ==
  /\ handler[s] = "hello"
  /\ \/ /\ Head(toClient[s]) = "HelloOk"
        /\ connected' = TRUE
        /\ handler' = [handler EXCEPT ![s] = "message"]
        /\ Write(tcp, "MsgEnter")
        /\ UNCHANGED <<watched, exc>>
     \/ /\ Head(toClient[s]) # "HelloOk"
        /\ Raise("ProtocolException")
        /\ UNCHANGED <<connected, handler, toServer>>
  /\ UNCHANGED <<tcp, multicast, open>>

(* Mutant of HandleMessage: onMsgNetworkRelay also echoes the message.  *)
HandleMessage_EchoRelay(s) ==
  LET m == Head(toClient[s]) IN
  /\ handler[s] = "message"
  /\ CASE m = "MsgSuperKill" ->
            DisconnectBody /\ UNCHANGED <<watched, exc>>
       [] m \in {"MsgLagPing", "MsgNetworkRelay"} ->
            Write(s, m) /\ UNCHANGED <<tcp, multicast, connected, open, watched, exc>>
       [] m \in {"MsgUpdate", "MsgAccept"} ->
            UNCHANGED <<tcp, multicast, connected, open, toServer, watched, exc>>
       [] m = "MsgReject" ->
            Raise("GameException") /\ UNCHANGED <<tcp, multicast, connected, open, toServer>>
       [] OTHER ->
            Raise("ProtocolException") /\ UNCHANGED <<tcp, multicast, connected, open, toServer>>
  /\ UNCHANGED handler

(* handleMessage: onAnyMessage returns None, so the message goes to its   *)
(* onMsg handler, or to onUnhandledMessage, which raises.                 *)
HandleMessage(s) ==
  LET m == Head(toClient[s]) IN
  /\ handler[s] = "message"
  /\ CASE m = "MsgSuperKill" ->
            DisconnectBody /\ UNCHANGED <<watched, exc>>
       [] m = "MsgLagPing" ->
            Write(s, m) /\ UNCHANGED <<tcp, multicast, connected, open, watched, exc>>
       [] m = "MsgNetworkRelay" ->
            multicast' = tcp /\ UNCHANGED <<tcp, connected, open, toServer, watched, exc>>
       [] m \in {"MsgUpdate", "MsgAccept"} ->
            UNCHANGED <<tcp, multicast, connected, open, toServer, watched, exc>>
       [] m = "MsgReject" ->
            Raise("GameException") /\ UNCHANGED <<tcp, multicast, connected, open, toServer>>
       [] OTHER ->
            Raise("ProtocolException") /\ UNCHANGED <<tcp, multicast, connected, open, toServer>>
  /\ UNCHANGED handler

(* The event loop finds data on a socket it polls and calls its handler. *)
Dispatch(s) ==
  /\ s \in watched \cap open
  /\ toClient[s] # <<>>
  /\ Consume(s)
  /\ HandleHelloPacket(s) \/ HandleMessage(s)
  /\ UNCHANGED <<used, srvRead, helloSent, srvCount, calls>>
-----------------------------------------------------------------------------
(* The server end of each connection.                                     *)

(* bzfs accepts the connection and sends its Hello.  bzfs sends nothing   *)
(* on a connection the client has closed; what the client wrote before    *)
(* closing it still reaches bzfs.                                         *)
SrvHello(s) ==
  /\ s \in open /\ ~helloSent[s]
  /\ \E h \in IF BadHello THEN {"HelloOk", "HelloBad"} ELSE {"HelloOk"} :
       toClient' = [toClient EXCEPT ![s] = Append(@, h)]
  /\ helloSent' = [helloSent EXCEPT ![s] = TRUE]
  /\ UNCHANGED <<clientVars, srvRead, srvCount, calls>>

(* bzfs sends a message of its own accord.                                *)
SrvPush(s, m) ==
  /\ s \in open /\ helloSent[s] /\ srvCount[s] < MaxMsgs
  /\ "MsgExit" \notin {toServer[s][i] : i \in 1..srvRead[s]}
  /\ toClient' = [toClient EXCEPT ![s] = Append(@, m)]
  /\ srvCount' = [srvCount EXCEPT ![s] = @ + 1]
  /\ UNCHANGED <<clientVars, srvRead, helloSent, calls>>

(* bzfs reads the next message the client wrote: MsgEnter is answered     *)
(* with MsgAccept or MsgReject, the others need no answer.                *)
SrvRead(s) ==
  /\ srvRead[s] < Len(toServer[s])
  /\ srvRead' = [srvRead EXCEPT ![s] = @ + 1]
  /\ IF toServer[s][srvRead[s] + 1] = "MsgEnter"
       THEN \E m \in Answers : toClient' = [toClient EXCEPT ![s] = Append(@, m)]
       ELSE UNCHANGED toClient
  /\ UNCHANGED <<clientVars, helloSent, srvCount, calls>>
-----------------------------------------------------------------------------
App == Connect \/ Disconnect \/ ExitGame \/ Run \/ LoopReturns

Next ==
  \/ App
  \/ \E s \in Socks : Dispatch(s) \/ SrvHello(s) \/ SrvRead(s)
  \/ \E s \in Socks, m \in Pushed : SrvPush(s, m)

(* EventLoop keeps polling its sockets, and bzfs sends its Hello and      *)
(* reads what the client writes.  The application is not assumed to do    *)
(* anything.                                                              *)
Fairness ==
  \A s \in Socks : WF_vars(Dispatch(s)) /\ WF_vars(SrvHello(s)) /\ WF_vars(SrvRead(s))

Spec == Init /\ [][Next]_vars /\ Fairness
-----------------------------------------------------------------------------
(* Refinement of BZFlagSession.  The session is self.tcp; it is up when   *)
(* self.connected is set and in its handshake otherwise; a session has    *)
(* ended once its socket is closed, and told the server once MsgExit is   *)
(* among the client's writes on it.                                       *)
SessionPhase ==
  IF tcp = NoSock THEN "idle" ELSE IF connected THEN "up" ELSE "handshake"

ExitWritten ==
  {s \in used : "MsgExit" \in {toServer[s][i] : i \in 1..Len(toServer[s])}}

Session == INSTANCE BZFlagSession WITH
             cur <- tcp, phase <- SessionPhase,
             closed <- used \ open, exited <- ExitWritten
-----------------------------------------------------------------------------
(* Properties.                                                            *)

TypeOK ==
  /\ tcp \in Socks \cup {NoSock} /\ multicast \in Socks \cup {NoSock}
  /\ connected \in BOOLEAN
  /\ handler \in [Socks -> {"hello", "message"}]
  /\ open \subseteq used /\ used \subseteq Socks /\ watched \subseteq Socks
  /\ toServer \in [Socks -> Seq({"MsgEnter", "MsgExit", "MsgLagPing"})]
  /\ exc \in Exceptions

(* self.connected is 1 only while self.tcp is a socket whose Hello had    *)
(* this protocol version, which is past the handshake and on which        *)
(* enterGame has written MsgEnter: neither a reconnect nor a MsgSuperKill *)
(* leaves a stale connected flag from the previous connection.            *)
ConnectedMeansHandshaken ==
  connected =>
    /\ tcp \in open
    /\ handler[tcp] = "message"
    /\ "MsgEnter" \in {toServer[tcp][i] : i \in 1..Len(toServer[tcp])}

(* The client's sessions are those of BZFlagSession: connect(),           *)
(* disconnect(), the Hello handler and MsgSuperKill only ever start a     *)
(* session on a fresh socket, complete its handshake once, and end it     *)
(* with MsgExit written before the close, whichever of the application's  *)
(* calls and the server's messages interleave.                            *)
SessionRefined == Session!Spec
====
