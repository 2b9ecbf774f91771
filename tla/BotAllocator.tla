---------------------------- MODULE BotAllocator ----------------------------
(***************************************************************************)
(* The IRC bot allocator of LibCIA.BotDaemon (src/cia/LibCIA/BotDaemon.py) *)
(* together with the Bot protocol instances and BotFactory objects it      *)
(* spawns, and the IRC server as seen through the replies it sends.        *)
(*                                                                         *)
(* Everything runs on one Twisted reactor, so every callback below is one  *)
(* atomic step; steps of different bots, of different allocators and of   *)
(* the control plane interleave arbitrarily.                               *)
(*                                                                         *)
(* A BotFactory and the Bot protocol instance of its current connection   *)
(* are one element of Bots: a reconnect builds a fresh Bot instance whose *)
(* channel list starts empty (Bot.connectionMade), which the model does by *)
(* resetting chans[f].  A nickname "CIA-n" followed by k underscores is  *)
(* the pair <<n, k>>; the allocator's 'bots' dict is keyed by nickname as *)
(* in the code.  All allocators of a model talk to one IRC server, whose  *)
(* table of registered nicknames they share.                               *)
(*                                                                         *)
(* Commands a bot sends to the IRC server travel on one TCP stream, so the *)
(* server handles them in order; outbox[f] is that stream.  The server's  *)
(* handling of a command and the arrival of its reply at the bot are one  *)
(* step: nothing observes the server between the two.                     *)
(***************************************************************************)
EXTENDS Naturals, Sequences, SequencesExt, FiniteSets, Functions

CONSTANTS
  Channels,        \* channel names (model values)
  Bots,            \* BotFactory ids; bounds how many factories exist at once
  Allocs,          \* BotAllocator instances
  ChannelsPerBot,  \* BotAllocator.channelsPerBot
  MaxOps,          \* bound on control-plane calls (addChannel/delChannel)
  NetFailures,     \* may TCP connections fail or drop unexpectedly?
  JoinRefusals,    \* may the IRC server refuse a JOIN (ban, +i, +k)?
  NoBot,           \* "no bot": channels[a][c] = NoBot means c not in the dict
  NoAlloc          \* owner of a factory id that is not in use

ASSUME ChannelsPerBot \in Nat \ {0}
ASSUME MaxOps \in Nat
ASSUME NetFailures \in BOOLEAN /\ JoinRefusals \in BOOLEAN
ASSUME NoBot \notin Bots /\ NoAlloc \notin Allocs

VARIABLES
  fstate,               \* factory/connection state of each id
  nick,                 \* Bot.nickname of the current connection
  nickOk,               \* the server has registered that nickname for it
  owner,                \* BotFactory.allocator
  reconnect,            \* BotFactory.reconnect
  chans,                \* Bot.channels of the current connection
  outbox,               \* commands sent on the connection, not yet handled
  bots,                 \* BotAllocator.bots: nickname -> bot, or NoBot
  channels,             \* BotAllocator.channels
  existingBotRequests,  \* BotAllocator.existingBotRequests
  newBotRequests,       \* BotAllocator.newBotRequests
  wanted,               \* ghost: channels added and not since deleted
  ops                   \* number of control-plane calls so far

factoryVars == <<fstate, nick, nickOk, owner, reconnect, chans, outbox>>
allocVars   == <<bots, channels, existingBotRequests, newBotRequests>>
vars        == <<factoryVars, allocVars, wanted, ops>>

(* "free": no live factory holds the id (never created, or its connection *)
(* ended without reconnect).  "connecting": connectTCP in progress.       *)
(* "registering": connectionMade ran, waiting for signedOn.               *)
FStates == {"free", "connecting", "registering", "online"}

Cmds == {<<"JOIN", c>> : c \in Channels} \cup {<<"PART", c>> : c \in Channels}
          \cup {<<"QUIT">>}

FreeIds == {f \in Bots : fstate[f] = "free"}

(* Nicknames.  allocateNick never needs a number above |Bots| + 1, since  *)
(* the dict holds at most one entry per bot; a chain of ERR_NICKNAMEINUSE *)
(* renames needs one live holder per underscore, so at most |Bots| - 1.   *)
MaxUnderscores == Cardinality(Bots)
Nicks == (1..(Cardinality(Bots) + 1)) \X (0..MaxUnderscores)
NoNick == <<0, 0>>

(* The bots of the dict: bots.itervalues().                               *)
BotsOf(a) == Range(bots[a]) \ {NoBot}

(* Nicknames the IRC server has registered to a live connection.          *)
HeldNicks == {nick[g] : g \in {g \in Bots : fstate[g] \in {"registering", "online"}
                                              /\ nickOk[g]}}

(* BotAllocator.allocateNick: the first "CIA-%d" with no entry in the     *)
(* dict (nickInUse looks at our own signed-on bots only).                 *)
AllocateNick(a) ==
  <<Min({n \in 1..(Cardinality(Bots) + 1) : bots[a][<<n, 0>>] = NoBot}), 0>>

Active(a) == {c \in Channels : channels[a][c] # NoBot}

Requested(a) == ToSet(existingBotRequests[a]) \cup ToSet(newBotRequests[a])

Send(f, cmds) == outbox' = [outbox EXCEPT ![f] = @ \o cmds]

(* BotFactory.__init__: reconnect on, connectTCP to the allocator's server. *)
(* fs is the factory-state function the same step leaves otherwise.       *)
SpawnFactory(a, fs) ==
  \E g \in FreeIds :
    /\ fstate'    = [fs EXCEPT ![g] = "connecting"]
    /\ owner'     = [owner EXCEPT ![g] = a]
    /\ reconnect' = [reconnect EXCEPT ![g] = TRUE]

Init ==
  /\ fstate = [f \in Bots |-> "free"]
  /\ nick = [f \in Bots |-> NoNick]
  /\ nickOk = [f \in Bots |-> FALSE]
  /\ owner = [f \in Bots |-> NoAlloc]
  /\ reconnect = [f \in Bots |-> TRUE]
  /\ chans = [f \in Bots |-> {}]
  /\ outbox = [f \in Bots |-> <<>>]
  /\ bots = [a \in Allocs |-> [n \in Nicks |-> NoBot]]
  /\ channels = [a \in Allocs |-> [c \in Channels |-> NoBot]]
  /\ existingBotRequests = [a \in Allocs |-> <<>>]
  /\ newBotRequests = [a \in Allocs |-> <<>>]
  /\ wanted = [a \in Allocs |-> {}]
  /\ ops = 0

-----------------------------------------------------------------------------
(* Control-plane operations of one allocator.                             *)

(* Mutant of AddChannelOp: the "already requesting from an existing bot" *)
(* early return is missing.                                               *)
AddChannelOp_NoExistingCheck(a, c) ==
  LET known == Active(a) \cup ToSet(newBotRequests[a]) IN
  /\ UNCHANGED <<nick, nickOk, bots, channels, chans>>
  /\ \/ /\ c \in known
        /\ UNCHANGED <<fstate, owner, reconnect, outbox,
                       existingBotRequests, newBotRequests>>
     \/ /\ c \notin known
        /\ \E b \in BotsOf(a) :
             /\ Cardinality(chans[b]) < ChannelsPerBot
             /\ Send(b, <<<<"JOIN", c>>>>)
        /\ existingBotRequests' =
             [existingBotRequests EXCEPT ![a] = Append(@, c)]
        /\ UNCHANGED <<fstate, owner, reconnect, newBotRequests>>
     \/ /\ c \notin known
        /\ \A b \in BotsOf(a) : Cardinality(chans[b]) >= ChannelsPerBot
        /\ newBotRequests' = [newBotRequests EXCEPT ![a] = Append(@, c)]
        /\ IF newBotRequests[a] = <<>>
             THEN SpawnFactory(a, fstate)
             ELSE UNCHANGED <<fstate, owner, reconnect>>
        /\ UNCHANGED <<outbox, existingBotRequests>>

(* BotAllocator.addChannel.  Bots are scanned in dict order, which is an  *)
(* arbitrary order of nicknames: any bot with room may be the first one.  *)
(* Room is judged by len(bot.channels), the channels already joined.      *)
AddChannelOp(a, c) ==
  /\ UNCHANGED <<nick, nickOk, bots, channels, chans>>
  /\ \/ /\ c \in Active(a) \cup Requested(a)
        /\ UNCHANGED <<fstate, owner, reconnect, outbox,
                       existingBotRequests, newBotRequests>>
     \/ /\ c \notin Active(a) \cup Requested(a)
        /\ \E b \in BotsOf(a) :
             /\ Cardinality(chans[b]) < ChannelsPerBot
             /\ Send(b, <<<<"JOIN", c>>>>)
        /\ existingBotRequests' =
             [existingBotRequests EXCEPT ![a] = Append(@, c)]
        /\ UNCHANGED <<fstate, owner, reconnect, newBotRequests>>
     \/ /\ c \notin Active(a) \cup Requested(a)
        /\ \A b \in BotsOf(a) : Cardinality(chans[b]) >= ChannelsPerBot
        /\ newBotRequests' = [newBotRequests EXCEPT ![a] = Append(@, c)]
        /\ IF newBotRequests[a] = <<>>
             THEN SpawnFactory(a, fstate)
             ELSE UNCHANGED <<fstate, owner, reconnect>>
        /\ UNCHANGED <<outbox, existingBotRequests>>

(* BotAllocator.delChannel: drop the channel from both request lists; if  *)
(* it is in the channels dict, ask its bot to leave.                      *)
DelChannelOp(a, c) ==
  /\ existingBotRequests' = [existingBotRequests EXCEPT ![a] = RemoveFirst(@, c)]
  /\ newBotRequests' = [newBotRequests EXCEPT ![a] = RemoveFirst(@, c)]
  /\ IF channels[a][c] # NoBot
       THEN Send(channels[a][c], <<<<"PART", c>>>>)
       ELSE UNCHANGED outbox
  /\ UNCHANGED <<fstate, nick, nickOk, owner, reconnect, chans, bots, channels>>

(* Bookkeeping of one control-plane call on allocator a: the call budget *)
(* and the ghost record of wanted channels.                               *)
ControlCall(a, w) ==
  /\ ops < MaxOps
  /\ ops' = ops + 1
  /\ wanted' = [wanted EXCEPT ![a] = w]

AddChannel(a, c) == ControlCall(a, wanted[a] \cup {c}) /\ AddChannelOp(a, c)

DelChannel(a, c) == ControlCall(a, wanted[a] \ {c}) /\ DelChannelOp(a, c)

-----------------------------------------------------------------------------
(* Connection events of one bot.                                          *)

(* Bot.connectionMade: a new Bot instance with an empty channel list and *)
(* the nickname allocateNick gives, which IRCClient.connectionMade        *)
(* registers.  The server handles that NICK in the same step: it refuses  *)
(* a nickname another live connection has registered.                     *)
ConnectionMade(f) ==
  LET n == AllocateNick(owner[f]) IN
  /\ fstate[f] = "connecting"
  /\ fstate' = [fstate EXCEPT ![f] = "registering"]
  /\ nick' = [nick EXCEPT ![f] = n]
  /\ nickOk' = [nickOk EXCEPT ![f] = n \notin HeldNicks]
  /\ chans' = [chans EXCEPT ![f] = {}]
  /\ outbox' = [outbox EXCEPT ![f] = <<>>]
  /\ UNCHANGED <<owner, reconnect, allocVars, wanted, ops>>

(* The server's ERR_NICKNAMEINUSE reaches the bot: IRCClient registers    *)
(* again as nickname + '_', which the server handles in the same step.    *)
NickInUse(f) ==
  LET n == <<nick[f][1], nick[f][2] + 1>> IN
  /\ fstate[f] = "registering"
  /\ ~nickOk[f]
  /\ nick[f][2] < MaxUnderscores
  /\ nick' = [nick EXCEPT ![f] = n]
  /\ nickOk' = [nickOk EXCEPT ![f] = n \notin HeldNicks]
  /\ UNCHANGED <<fstate, owner, reconnect, chans, outbox, allocVars, wanted, ops>>

(* The TCP connect fails.  BotFactory has no clientConnectionFailed, so   *)
(* the factory is simply abandoned.                                       *)
ConnectFailed(f) ==
  /\ NetFailures
  /\ fstate[f] = "connecting"
  /\ fstate' = [fstate EXCEPT ![f] = "free"]
  /\ owner' = [owner EXCEPT ![f] = NoAlloc]
  /\ UNCHANGED <<nick, nickOk, reconnect, chans, outbox, allocVars, wanted, ops>>

(* Mutant of SignedOn: botConnected does not start another factory for  *)
(* the requests beyond this bot's capacity.                               *)
SignedOn_NoRespawn(f) ==
  LET a     == owner[f]
      reqs  == newBotRequests[a]
      k     == IF Len(reqs) < ChannelsPerBot THEN Len(reqs) ELSE ChannelsPerBot
      taken == SubSeq(reqs, 1, k)
  IN
  /\ fstate[f] = "registering"
  /\ nickOk[f]
  /\ bots' = [bots EXCEPT ![a][nick[f]] = f]
  /\ Send(f, [i \in 1..k |-> <<"JOIN", taken[i]>>])
  /\ existingBotRequests' = [existingBotRequests EXCEPT ![a] = @ \o taken]
  /\ newBotRequests' = [newBotRequests EXCEPT ![a] = SubSeq(reqs, k + 1, Len(reqs))]
  /\ fstate' = [fstate EXCEPT ![f] = "online"]
  /\ UNCHANGED <<nick, nickOk, owner, reconnect, chans, channels, wanted, ops>>

(* Mutant of SignedOn: botConnected slices newBotRequests[1:channelsPerBot] *)
(* and so never hands out the head of the queue.                          *)
SignedOn_SkipHead(f) ==
  LET a     == owner[f]
      reqs  == newBotRequests[a]
      k     == IF Len(reqs) < ChannelsPerBot THEN Len(reqs) ELSE ChannelsPerBot
      taken == IF k < 2 THEN <<>> ELSE SubSeq(reqs, 2, k)
      rest  == IF reqs = <<>> THEN <<>> ELSE <<Head(reqs)>> \o SubSeq(reqs, k + 1, Len(reqs))
  IN
  /\ fstate[f] = "registering"
  /\ nickOk[f]
  /\ bots' = [bots EXCEPT ![a][nick[f]] = f]
  /\ Send(f, [i \in 1..Len(taken) |-> <<"JOIN", taken[i]>>])
  /\ existingBotRequests' = [existingBotRequests EXCEPT ![a] = @ \o taken]
  /\ newBotRequests' = [newBotRequests EXCEPT ![a] = rest]
  /\ IF rest # <<>>
       THEN SpawnFactory(a, [fstate EXCEPT ![f] = "online"])
       ELSE /\ fstate' = [fstate EXCEPT ![f] = "online"]
            /\ UNCHANGED <<owner, reconnect>>
  /\ UNCHANGED <<nick, nickOk, chans, channels, wanted, ops>>

(* Mutant of SignedOn: botConnected files the bot under a fresh          *)
(* allocateNick() instead of the nickname the server registered.          *)
SignedOn_KeyByAlloc(f) ==
  LET a     == owner[f]
      reqs  == newBotRequests[a]
      k     == IF Len(reqs) < ChannelsPerBot THEN Len(reqs) ELSE ChannelsPerBot
      taken == SubSeq(reqs, 1, k)
  IN
  /\ fstate[f] = "registering"
  /\ nickOk[f]
  /\ bots' = [bots EXCEPT ![a][AllocateNick(a)] = f]
  /\ Send(f, [i \in 1..k |-> <<"JOIN", taken[i]>>])
  /\ existingBotRequests' = [existingBotRequests EXCEPT ![a] = @ \o taken]
  /\ newBotRequests' = [newBotRequests EXCEPT ![a] = SubSeq(reqs, k + 1, Len(reqs))]
  /\ IF Len(reqs) > k
       THEN SpawnFactory(a, [fstate EXCEPT ![f] = "online"])
       ELSE /\ fstate' = [fstate EXCEPT ![f] = "online"]
            /\ UNCHANGED <<owner, reconnect>>
  /\ UNCHANGED <<nick, nickOk, chans, channels, wanted, ops>>

(* Bot.signedOn -> BotAllocator.botConnected: register the bot, hand it   *)
(* the first channelsPerBot new-bot requests, and start one more factory  *)
(* if requests remain.                                                    *)
SignedOn(f) ==
  LET a     == owner[f]
      reqs  == newBotRequests[a]
      k     == IF Len(reqs) < ChannelsPerBot THEN Len(reqs) ELSE ChannelsPerBot
      taken == SubSeq(reqs, 1, k)
  IN
  /\ fstate[f] = "registering"
  /\ nickOk[f]
  /\ bots' = [bots EXCEPT ![a][nick[f]] = f]
  /\ Send(f, [i \in 1..k |-> <<"JOIN", taken[i]>>])
  /\ existingBotRequests' = [existingBotRequests EXCEPT ![a] = @ \o taken]
  /\ newBotRequests' = [newBotRequests EXCEPT ![a] = SubSeq(reqs, k + 1, Len(reqs))]
  /\ IF Len(reqs) > k
       THEN SpawnFactory(a, [fstate EXCEPT ![f] = "online"])
       ELSE /\ fstate' = [fstate EXCEPT ![f] = "online"]
            /\ UNCHANGED <<owner, reconnect>>
  /\ UNCHANGED <<nick, nickOk, chans, channels, wanted, ops>>

(* The connection of f ends: Bot.connectionLost -> botDisconnected, then  *)
(* BotFactory.clientConnectionLost.  The Bot instance and its nickname   *)
(* are gone, and the server forgets the nickname.                         *)
(* botDisconnected deletes whatever entry the dict has under the bot's    *)
(* nickname, which is another bot's when this one never signed on under  *)
(* it.  With no entry, 'del' raises KeyError before the channels are      *)
(* cleared; the exception escapes the protocol's connectionLost, and      *)
(* whether Twisted still reaches clientConnectionLost is left open.       *)
Disconnect(f) ==
  LET a == owner[f]
      Ended(reconnecting) ==
        /\ fstate' = [fstate EXCEPT ![f] = IF reconnecting THEN "connecting" ELSE "free"]
        /\ owner' = [owner EXCEPT ![f] = IF reconnecting THEN a ELSE NoAlloc]
  IN
  /\ chans' = [chans EXCEPT ![f] = {}]
  /\ outbox' = [outbox EXCEPT ![f] = <<>>]
  /\ nick' = [nick EXCEPT ![f] = NoNick]
  /\ nickOk' = [nickOk EXCEPT ![f] = FALSE]
  /\ UNCHANGED <<reconnect, existingBotRequests, newBotRequests, wanted, ops>>
  /\ IF bots[a][nick[f]] # NoBot
       THEN /\ bots' = [bots EXCEPT ![a][nick[f]] = NoBot]
            /\ channels' = [channels EXCEPT ![a] =
                              [c \in Channels |-> IF @[c] = f THEN NoBot ELSE @[c]]]
            /\ Ended(reconnect[f])
       ELSE /\ UNCHANGED <<bots, channels>>
            /\ \E r \in {FALSE, reconnect[f]} : Ended(r)

(* The connection drops without a QUIT (network failure, server kill).    *)
ConnectionLost(f) ==
  /\ NetFailures
  /\ fstate[f] \in {"registering", "online"}
  /\ Disconnect(f)

-----------------------------------------------------------------------------
(* The IRC server handles the next command on f's connection.             *)

(* Mutant of HandleJoin: botJoined records the bot in the channels dict  *)
(* even when the channel is no longer requested.                          *)
HandleJoin_RecordAny(f, c) ==
  LET a == owner[f] IN
  /\ c \notin chans[f]
  /\ chans' = [chans EXCEPT ![f] = @ \cup {c}]
  /\ existingBotRequests' = [existingBotRequests EXCEPT ![a] = RemoveFirst(@, c)]
  /\ channels' = [channels EXCEPT ![a][c] = f]
  /\ outbox' = [outbox EXCEPT ![f] = Tail(@)]
  /\ UNCHANGED <<reconnect>>

(* JOIN: the server answers with the JOIN echo, and IRCClient calls       *)
(* Bot.joined -> botJoined.  botJoined's existingBotRequests.remove       *)
(* raises ValueError when the channel is no longer requested; IRCClient   *)
(* logs the exception and the rest of botJoined is skipped.               *)
HandleJoin(f, c) ==
  LET a == owner[f] IN
  /\ c \notin chans[f]
  /\ chans' = [chans EXCEPT ![f] = @ \cup {c}]
  /\ IF c \in ToSet(existingBotRequests[a])
       THEN /\ existingBotRequests' = [existingBotRequests EXCEPT ![a] = RemoveFirst(@, c)]
            /\ channels' = [channels EXCEPT ![a][c] = f]
       ELSE UNCHANGED <<existingBotRequests, channels>>
  /\ outbox' = [outbox EXCEPT ![f] = Tail(@)]
  /\ UNCHANGED <<reconnect>>

(* Mutant of HandlePart: Bot.left writes                                  *)
(* 'self.channels = self.channels.remove(channel)'; list.remove returns    *)
(* None (NoBot here), which is falsy, so reconnect goes off and botLeft    *)
(* quits.                                                                 *)
HandlePart_AssignRemove(f, c) ==
  LET a == owner[f] IN
  /\ c \in chans[f]
  /\ chans' = [chans EXCEPT ![f] = NoBot]
  /\ reconnect' = [reconnect EXCEPT ![f] = FALSE]
  /\ IF channels[a][c] # NoBot
       THEN /\ channels' = [channels EXCEPT ![a][c] = NoBot]
            /\ outbox' = [outbox EXCEPT ![f] = Append(Tail(@), <<"QUIT">>)]
       ELSE /\ UNCHANGED channels
            /\ outbox' = [outbox EXCEPT ![f] = Tail(@)]
  /\ UNCHANGED existingBotRequests

(* PART: Bot.left drops the channel and, when none is left, turns off      *)
(* reconnect; botLeft deletes the channel from the dict (KeyError if it is *)
(* not there, skipping the rest) and sends QUIT when the bot is empty.    *)
HandlePart(f, c) ==
  LET a    == owner[f]
      left == chans[f] \ {c}
  IN
  /\ c \in chans[f]
  /\ chans' = [chans EXCEPT ![f] = left]
  /\ reconnect' = [reconnect EXCEPT ![f] = IF left = {} THEN FALSE ELSE @]
  /\ IF channels[a][c] # NoBot
       THEN /\ channels' = [channels EXCEPT ![a][c] = NoBot]
            /\ outbox' = [outbox EXCEPT ![f] =
                            IF left = {} THEN Append(Tail(@), <<"QUIT">>) ELSE Tail(@)]
       ELSE /\ UNCHANGED channels
            /\ outbox' = [outbox EXCEPT ![f] = Tail(@)]
  /\ UNCHANGED existingBotRequests

(* A command the server answers with an error numeric, which IRCClient    *)
(* does not report to Bot: a JOIN of a channel the bot is already in, a   *)
(* refused JOIN, a PART of a channel the bot is not in.                   *)
HandleIgnored(f) ==
  LET cmd == Head(outbox[f]) IN
  /\ \/ cmd[1] = "JOIN" /\ (cmd[2] \in chans[f] \/ JoinRefusals)
     \/ cmd[1] = "PART" /\ cmd[2] \notin chans[f]
  /\ outbox' = [outbox EXCEPT ![f] = Tail(@)]
  /\ UNCHANGED <<chans, reconnect, existingBotRequests, channels>>

Deliver(f) ==
  /\ fstate[f] = "online"
  /\ outbox[f] # <<>>
  /\ \/ /\ Head(outbox[f])[1] = "QUIT"
        /\ Disconnect(f)
     \/ /\ \/ Head(outbox[f])[1] = "JOIN" /\ HandleJoin(f, Head(outbox[f])[2])
           \/ Head(outbox[f])[1] = "PART" /\ HandlePart(f, Head(outbox[f])[2])
           \/ HandleIgnored(f)
        /\ UNCHANGED <<fstate, nick, nickOk, owner, bots, newBotRequests, wanted, ops>>

-----------------------------------------------------------------------------
BotEvent(f) ==
  \/ ConnectionMade(f)
  \/ ConnectFailed(f)
  \/ NickInUse(f)
  \/ SignedOn(f)
  \/ Deliver(f)
  \/ ConnectionLost(f)

Next ==
  \/ \E a \in Allocs, c \in Channels : AddChannel(a, c) \/ DelChannel(a, c)
  \/ \E f \in Bots : BotEvent(f)

(* The reactor keeps dispatching I/O and the server keeps answering, so a *)
(* connection that can make progress eventually does.  Control-plane      *)
(* calls and failures are not required to happen.                         *)
Fairness ==
  \A f \in Bots : /\ WF_vars(ConnectionMade(f))
                  /\ WF_vars(NickInUse(f))
                  /\ WF_vars(SignedOn(f))
                  /\ WF_vars(Deliver(f))

Spec == Init /\ [][Next]_vars /\ Fairness

-----------------------------------------------------------------------------
(* Refinement of ChannelRequest, one instance per allocator and channel.  *)
(* The channel's state is read off the allocator's records: the bot the   *)
(* channels dict maps it to, else "requested" while it is in              *)
(* existingBotRequests, else "queued" while it is in newBotRequests.      *)
ChannelState(a, c) ==
  IF channels[a][c] # NoBot THEN channels[a][c]
  ELSE IF c \in ToSet(existingBotRequests[a]) THEN "requested"
  ELSE IF c \in ToSet(newBotRequests[a]) THEN "queued"
  ELSE "none"

ChanLife(a, c) == INSTANCE ChannelRequest WITH state <- ChannelState(a, c)
-----------------------------------------------------------------------------
(* Properties.                                                            *)

Connecting(a) == {f \in Bots : owner[f] = a /\ fstate[f] \in {"connecting", "registering"}}

TypeOK ==
  /\ fstate \in [Bots -> FStates]
  /\ nick \in [Bots -> Nicks \cup {NoNick}]
  /\ nickOk \in [Bots -> BOOLEAN]
  /\ owner \in [Bots -> Allocs \cup {NoAlloc}]
  /\ reconnect \in [Bots -> BOOLEAN]
  /\ \A f \in Bots : \E S \in SUBSET Channels : chans[f] = S
  /\ outbox \in [Bots -> Seq(Cmds)]
  /\ bots \in [Allocs -> [Nicks -> Bots \cup {NoBot}]]
  /\ channels \in [Allocs -> [Channels -> Bots \cup {NoBot}]]
  /\ existingBotRequests \in [Allocs -> Seq(Channels)]
  /\ newBotRequests \in [Allocs -> Seq(Channels)]
  /\ wanted \in [Allocs -> SUBSET Channels]
  /\ ops \in 0..MaxOps

(* addChannel, botConnected, botJoined and delChannel together keep every *)
(* channel in at most one of the allocator's three records (the channels  *)
(* dict, existingBotRequests, newBotRequests) and at most once in each    *)
(* list, whatever order control calls and server replies arrive in.       *)
RecordsDisjoint ==
  \A a \in Allocs :
    /\ IsInjective(existingBotRequests[a])
    /\ IsInjective(newBotRequests[a])
    /\ ToSet(existingBotRequests[a]) \cap ToSet(newBotRequests[a]) = {}
    /\ Active(a) \cap Requested(a) = {}

(* botConnected files a bot under its nickname and botDisconnected       *)
(* deletes the entry under the nickname the bot has when it goes, while   *)
(* nicknames collide and are renamed during registration: every entry of  *)
(* the dict is a connection that is signed on, belongs to this allocator  *)
(* and is registered under that very nickname, so addChannel's scan of    *)
(* bots.itervalues() never sends a JOIN to a dead connection.             *)
BotsDictLive ==
  \A a \in Allocs, n \in Nicks :
    LET f == bots[a][n] IN
    f # NoBot => /\ fstate[f] = "online"
                 /\ owner[f] = a
                 /\ nick[f] = n

(* The comment on newBotRequests: "If this is non-empty, we should        *)
(* already have a new bot in the process of connecting."  addChannel      *)
(* starts a factory only for the first queued channel and botConnected    *)
(* only when it leaves channels behind.                                   *)
InFlightWhilePending ==
  \A a \in Allocs : newBotRequests[a] # <<>> => Connecting(a) # {}

(* Every channel queued for a new bot eventually leaves the queue: some   *)
(* bot signs on and takes it (or it is deleted).                          *)
NewRequestsServed ==
  \A a \in Allocs : newBotRequests[a] # <<>> ~> newBotRequests[a] = <<>>

(* Spec section 7: no operation silently drops a channel without either   *)
(* activating it or keeping it queued -- a channel added and not deleted  *)
(* stays in the channels dict or one of the request lists.                *)
NoSilentDrop ==
  \A a \in Allocs : wanted[a] \subseteq Active(a) \cup Requested(a)

(* Spec section 8: a connection never holds more than channelsPerBot     *)
(* channels.                                                              *)
JoinedWithinCapacity ==
  \A f \in Bots : Cardinality(chans[f]) <= ChannelsPerBot

(* Spec section 3: a channel is held by at most one connection, and the   *)
(* connection that holds it is the one the allocator maps it to.          *)
OneBotPerChannel ==
  \A f \in Bots : \A c \in chans[f] :
    fstate[f] = "online" => channels[owner[f]][c] = f

(* Spec section 3: a channel pending on an existing bot is one that bot   *)
(* has been asked to join and has not yet confirmed.                      *)
RequestHasCarrier ==
  \A a \in Allocs, c \in Channels :
    c \in ToSet(existingBotRequests[a]) =>
      \E f \in BotsOf(a) : <<"JOIN", c>> \in ToSet(outbox[f])

(* Every allocator moves every channel through the life of ChannelRequest: *)
(* addChannel, botConnected, botJoined, delChannel, botLeft and           *)
(* botDisconnected, in whatever order the control plane and the server's  *)
(* replies interleave, never record a channel for a bot that was not      *)
(* asked to join it, never move it from one bot to another, and never     *)
(* put a requested or held channel back in the new-bot queue.             *)
ChannelsRefined ==
  /\ \A a \in Allocs, c \in Channels : ChanLife(a, c)!Init
  /\ [][LET now == [a \in Allocs, c \in Channels |-> ChannelState(a, c)]
            nxt == now'
        IN \A a \in Allocs, c \in Channels :
             \/ nxt[a, c] = now[a, c]
             \/ ChanLife(a, c)!Moves(now[a, c], nxt[a, c])]_vars

=============================================================================
