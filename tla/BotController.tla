---------------------------- MODULE BotController ---------------------------
(***************************************************************************)
(* The XML-RPC control plane of LibCIA.BotDaemon: BotController keeps a    *)
(* dict from (host, port) to BotAllocator, creates an allocator on the    *)
(* first addChannel for a server and drops it from the dict when a        *)
(* delChannel leaves its channels dict empty.  A dropped allocator is not *)
(* stopped: its factories and bots keep running and keep calling it.       *)
(*                                                                         *)
(* Allocator instances are the elements of Allocs; an id is never reused,  *)
(* so |Allocs| bounds how many allocators the run creates.  The read-only *)
(* calls (getServers, getChannels, getBots, getBotChannels) and msg change *)
(* no state and are not actions.                                          *)
(***************************************************************************)
EXTENDS BotAllocator

CONSTANTS
  Servers,         \* (host, port) pairs, after tuple() normalisation
  NoServer         \* marks an allocator id not yet created

ASSUME NoServer \notin Servers

(* BotAllocator models the nickname table of one IRC server, which all   *)
(* allocators share: the model has one server.                            *)
ASSUME Cardinality(Servers) = 1

VARIABLES
  servers,         \* BotController.servers
  allocServer      \* BotAllocator.host, port of each created allocator

ctlVars == <<servers, allocServer>>
allVars == <<vars, ctlVars>>

Created == {a \in Allocs : allocServer[a] # NoServer}

CtlInit ==
  /\ Init
  /\ servers = [s \in Servers |-> NoAlloc]
  /\ allocServer = [a \in Allocs |-> NoServer]

(* xmlrpc_addChannel: create the server's allocator if there is none,    *)
(* then addChannel on it.                                                 *)
XmlrpcAddChannel(s, c) ==
  \/ /\ servers[s] # NoAlloc
     /\ AddChannel(servers[s], c)
     /\ UNCHANGED ctlVars
  \/ /\ servers[s] = NoAlloc
     /\ \E a \in Allocs \ Created :
          /\ servers' = [servers EXCEPT ![s] = a]
          /\ allocServer' = [allocServer EXCEPT ![a] = s]
          /\ AddChannel(a, c)

(* xmlrpc_delChannel: delChannel on the server's allocator, then drop the *)
(* allocator from the dict if its channels dict is empty.  For a server   *)
(* not in the dict the call raises KeyError and changes nothing.          *)
XmlrpcDelChannel(s, c) ==
  LET a == servers[s] IN
  /\ a # NoAlloc
  /\ DelChannel(a, c)
  /\ servers' = IF Active(a) = {} THEN [servers EXCEPT ![s] = NoAlloc] ELSE servers
  /\ UNCHANGED allocServer

CtlNext ==
  \/ \E s \in Servers, c \in Channels : XmlrpcAddChannel(s, c) \/ XmlrpcDelChannel(s, c)
  \/ \E f \in Bots : BotEvent(f) /\ UNCHANGED ctlVars

CtlSpec == CtlInit /\ [][CtlNext]_allVars /\ Fairness

-----------------------------------------------------------------------------
(* Properties.                                                            *)

CtlTypeOK ==
  /\ TypeOK
  /\ servers \in [Servers -> Allocs \cup {NoAlloc}]
  /\ allocServer \in [Allocs -> Servers \cup {NoServer}]

(* Spec section 8: for every server, no channel is active or pending on   *)
(* more than one connection -- here, in more than one allocator of the    *)
(* server, counting allocators the dict has dropped but whose bots run.   *)
ChannelManagedOnce ==
  \A s \in Servers, c \in Channels :
    Cardinality({a \in Created : allocServer[a] = s /\ c \in Active(a) \cup Requested(a)}) <= 1

=============================================================================
