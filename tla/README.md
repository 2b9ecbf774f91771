# TLA+ models of navi-misc

This directory holds TLA+ models of the parts of the navi-misc repository whose
behaviour depends on the order of events. The core is the CIA IRC bot daemon in
`src/cia/LibCIA/BotDaemon.py`: a pool of IRC connections ("bots") that the bot
frontend drives over XML-RPC. The daemon packs channels onto bots and spawns
bots on demand. The modules are written from the Python source. `spec.md`
states what the system is meant to do, and the properties below quote it where
the code and the spec disagree.

## Inventory

### BotDaemon.py

**The interactions.** Everything runs on one Twisted reactor thread.
- Each XML-RPC call runs to completion as one step.
- Each IRC callback runs to completion as one step.
- No locks are needed, but the order of steps is arbitrary:
  - control calls interleave with replies from the IRC server;
  - the replies of different bots interleave with each other;
  - the commands a bot sends are queued on its TCP stream, so the allocator's
    view and the server's view differ while commands are in flight.

**Bot** (an `irc.IRCClient`, lines 38-65). One instance per TCP connection.
- State: `channels`, a list of the channels this connection has joined, and a
  nickname.
- Operations:
  - `connectionMade`: allocates a nick and starts an empty channel list.
  - `signedOn` → `botConnected`.
  - `joined` → `botJoined`.
  - `left` → `botLeft`. If the bot is left in no channel, this also turns off
    reconnect.
  - `connectionLost` → `botDisconnected`.

**BotFactory** (lines 67-78). Its creation calls `connectTCP`.
- State: `reconnect` (initially True).
- `clientConnectionLost` reconnects while `reconnect` holds.
- A reconnect creates a fresh Bot instance.
- It has no `clientConnectionFailed`, so a failed connect abandons the factory.

**BotAllocator** (lines 81-209). One instance per IRC server.
- State:
  - `bots`: nick → signed-on bot;
  - `channels`: channel → bot, for joined channels;
  - `existingBotRequests`: JOINs sent to signed-on bots and not yet confirmed;
  - `newBotRequests`: channels waiting for a bot that is still connecting;
  - `channelsPerBot`.
- Operations:
  - `addChannel` / `delChannel`: called from the control plane.
  - `botConnected`, `botJoined`, `botLeft`, `botDisconnected`: called by bots.
  - `allocateNick`: called when a connection is made.
  - `msg`: a read that writes to a bot.

**BotController** (lines 212-265). The XML-RPC facade.
- State: `servers`, a map from (host, port) to BotAllocator.
- `xmlrpc_addChannel` creates an allocator the first time a server is used.
- `xmlrpc_delChannel` drops the allocator once its `channels` dict is empty.
- The four `get*` calls and `xmlrpc_msg` are reads.

**Hard behaviours.**
- A control call lands between a command and its reply.
- A JOIN reply arrives after its request was withdrawn.
- A bot that is quitting is chosen for new work.
- A connect fails, or a connection drops before or after sign-on.
- The server refuses a JOIN.
- add/del cycles leak factories.
- An allocator is dropped from `servers` while its bots still run.

### rasterwand client (`src/rasterwand/userspace/rwand.py`)

**The interactions.** Two threads and a child process take part.
- `RwdClient` is a `threading.Thread`. Its `run()`/`poll()` loop (lines 47-140)
  talks to an `rwd` child process over two pipes, and restarts the child when
  it dies.
- Exactly one frame is in flight at a time:
  - `connected()` sends the first frame;
  - every `frame_ack` line is answered with the next frame.
- The application thread calls `stop()` and assigns `rwdc.renderer` at any
  time. It may assign a `Transition`.
- A `Transition`'s `render()` runs on the client thread. When the transition
  finishes, `render()` installs `toRenderer` (lines 279-299).
- `VScroll` and `Dissolve` (lines 302-356) are pure frame computations.

### BZFlag client (`src/pybzflag/BZFlag/Client.py`)

`PlayerClient` extends `StatefulClient`, which extends `BaseClient`.
Everything runs on one thread:
- The application calls `connect`, `disconnect`, `exitGame` and `run`.
- `run()` hands the list `getSockets()` returns to `Network.EventLoop`. That
  list is taken once, when `run()` starts.
- The loop calls each socket's `handler`:
  - `handleHelloPacket` until the server's Hello arrives;
  - then `handleMessage`, which dispatches to the `onMsg*` handlers.
- An exception in a handler leaves `run()`:
  - a wrong protocol version, `MsgReject` and unhandled messages raise;
  - `MsgSuperKill` calls `disconnect()` from inside the loop.

### The rest of the repository

The rest is mostly single-threaded library code:
- XML and IRC-colour helpers;
- device wrappers;
- a GUI sheet builder;
- a game client;
- motion-capture graph code;
- a web page.

The parts with control worth checking are:
- the recursive `codeWrap` (`Formatting.py`) and the XML parser dispatch
  (`XML.py`). These cannot run as written; see "Not modelled".
- the rcpod device's open/close and its try/finally paths;
- `ParallelBFS` of the motion graph code.

PROJECT.json lists each of them with its status.

## Modules

### `BotAllocator.tla`

Models Bots, BotFactories and one or more BotAllocators.

**State.** A factory id in `Bots` stands for a BotFactory together with the Bot
of its current connection. Per factory id:

| Variable | What it holds |
|---|---|
| `fstate` | free, connecting, registering or online |
| `nick` | `Bot.nickname`: `<<n, k>>` stands for "CIA-n" followed by k underscores |
| `nickOk` | the server has registered that nickname for this connection |
| `owner` | the factory's allocator |
| `reconnect` | the factory's reconnect flag |
| `chans` | `Bot.channels` |
| `outbox` | the commands on the TCP stream that the server has not yet handled |

Per allocator, the model keeps the four fields listed in the inventory.
- `bots` is the dict from nickname to bot, as in the code.
- All allocators of a model talk to one IRC server. They share its table of
  registered nicknames (`HeldNicks`).
- The ghost variable `wanted` records the channels the control plane has added
  and not since deleted.
- `ops` counts control calls, up to `MaxOps`.

**Actions.** Each action is one reactor callback, and the whole handler:

| Action | Code |
|---|---|
| `AddChannel`, `DelChannel` | `addChannel`, `delChannel` |
| `ConnectionMade` | `Bot.connectionMade`: `allocateNick`, and the server registers the nickname or refuses it |
| `NickInUse` | the server's ERR_NICKNAMEINUSE reaches the bot; IRCClient registers again as nickname + `_` |
| `ConnectFailed` | a `connectTCP` that fails |
| `SignedOn` | `botConnected`, including the spawn of the next factory |
| `ConnectionLost` / `Disconnect` | `connectionLost` → `botDisconnected` → `clientConnectionLost` |
| `Deliver` | the server handles the head of the outbox and the reply runs its callback |

`Deliver` dispatches to one of four handlers:
- `HandleJoin`: `joined` + `botJoined`;
- `HandlePart`: `left` + `botLeft`, including the QUIT sent when the bot has
  no channels left;
- `HandleIgnored`: refused or redundant commands, which IRCClient does not
  report;
- a QUIT closes the connection.

**Exceptions.** An exception raised inside an IRC callback (the ValueError in
`botJoined`, the KeyError in `botLeft`) is caught by IRCClient. The model
therefore skips the rest of that handler. `botDisconnected` deletes whatever
entry the dict has under the bot's nickname, even another bot's. With no entry,
its KeyError skips the clearing of the bot's channels. The model takes both
outcomes: the factory reconnects, or it does not.

### `BotController.tla`

Extends BotAllocator with `servers` and `allocServer`.
- `allocServer` is the server each allocator instance was created for.
  Allocator ids are never reused.
- `XmlrpcAddChannel` creates an allocator on demand.
- `XmlrpcDelChannel` drops the allocator when its `channels` dict is empty.
- Bots of a dropped allocator keep running and keep calling that allocator.
- The model has one server (an ASSUME). BotAllocator's nickname table is that
  server's.

### `RwdClient.tla`

Models the client thread, the application thread and the rwd processes.

**The client thread.** It is a program counter `pc` over the statement groups
of `run()`, `poll()` and `Transition.render`:
- `Run`: line 49, `self._running = True`.
- `LoopTest`: the `while` test.
- `CheckDead`: the child's exit status.
- `Reconnect`: spawn a child and send the first frame.
- `Read`: the line dispatch, including the end of file.
- `Swap`: `Transition.render`'s test at line 281 and its assignment at line 282
  are two steps. The application can run between them.

`RenderFrame` renders the next frame. It advances a transition's `frameNum`
and writes the frame, or starts the swap. A write to a dead child is the
EPIPE path, which sets `self.rwd = None`.

**The other actors.**
- A child process `p` answers frames (`ChildAck`), reports buttons
  (`ChildButtons`), and may exit at any time (`ChildExit`). An exit may also
  unplug the wand, and `Plug` plugs it back in.
- The application thread calls `Stop`, `InstallPlain` and `InstallTransition`,
  up to `MaxInstalls` times.
- rwd itself is outside this repository. It is modelled by what the client
  expects of it.

**Fairness.**
- `WF` on the client thread: the thread is runnable whenever it has work.
- `WF` on `ChildAck(p)`: a running rwd answers every frame.
- `WF` on `Plug`: an unplugged wand is eventually plugged back in. Without
  this, no frame could ever be sent again.

The application and child exits get no fairness.

### `Transition.tla`

Models one `Transition` object from construction to its hand-over.
- Each `Render` step is a whole `render()` call:
  - pad the two frames with `str.center`, using CPython's left-margin rule;
  - compute the tween;
  - advance `frameNum`.
- `VScrollTween` is the byte shift and mask of `VScroll.tween`.
- `Grow` is the RECURSIVE loop by which `Dissolve.tween` extends its stencil
  up to `frameNum * 64 / duration` pixels.
- `Blend` applies the stencil.
- The renderers' outputs and the shuffle of the 64 pixels are drawn from small
  constant sets.

### `BZFlagClient.tla`

Models the client, the event loop it runs, and one bzfs server.
- The client's variables are `self.tcp`, `self.multicast`, `self.connected`
  and each socket's `handler`.
- The sockets created and the sockets still open are tracked.
- What was written on each socket is kept, and the event loop's socket list is
  `watched`.

**Actions.**

| Action | Code |
|---|---|
| `Connect` | `connect()`, including its `disconnect()` of an old socket |
| `Disconnect` | `disconnect()`: on a client without a socket, the write on line 77 raises `AttributeError` first |
| `ExitGame` | `exitGame()` |
| `Run` | `run()` and `getSockets()` |
| `Dispatch` | one handler call: `HandleHelloPacket`, with `onConnect` → `enterGame` writing `MsgEnter`; or `HandleMessage`, with every `onMsg*` handler |

- The eight `StatefulClient` handlers do nothing and are one message kind.
- `self.udp` is only ever `None` in this file and is left out.

**The server.** bzfs and `Network` are not part of the repository. They are
modelled by what the client relies on:
- messages arrive in order on each socket;
- bzfs sends a Hello first, of the right or a wrong version;
- it answers `MsgEnter` with `MsgAccept` or `MsgReject`;
- after the Hello it may push any message, up to `MaxMsgs` unasked messages
  per connection;
- it sends nothing on a connection the client has closed;
- it still reads what the client wrote before closing.

`EventLoop.run` may return once none of its sockets is open.

**Fairness.** Weak fairness on:
- `Dispatch`: the loop polls its sockets;
- the server's Hello and its reads.

The application is not assumed to do anything.

### Refinements: `FrameLink.tla`, `BZFlagSession.tla`, `ChannelRequest.tla`

Three abstract modules state what a component promises, without its mechanism.
The detailed module instantiates each one with a refinement mapping, and a run
checks the abstract `Spec` as a PROPERTY.

**`FrameLink`** is the promise behind rwand's "render frames synchronously".
- State: the `link` to one rwd process, the processes `linked` so far, and
  `owed[p]`, the frames of `p` in flight.
- `Open(p)`: link a fresh process, with one frame in flight.
- `Drop`: the link goes as a whole. Its frame stays in the dead process's pipe,
  or was never written (EPIPE).
- No step changes `owed` of a live link, so exactly one frame is in flight on
  it: never none, which would freeze the display, and never two.

`RwdClient` maps `link <- rwd` and `linked <- spawned`. `Outstanding(p)` counts:
- the frames in rwd's input pipe;
- the `frame_ack` lines in its output pipe;
- the frame held back while a finished Transition swaps (`pc = "swap"`).

Every ack the client reads, every reconnect and every swap must then be a
stutter, an `Open` or a `Drop`.

**`BZFlagSession`** is the session lifecycle of the BZFlag client.
- At most one session, `cur`, in phase `handshake` or `up`.
- `Open(s)` starts a session on a socket never used, ending the current one.
- `Handshake` happens once per session.
- `Close` ends the session; `SayExit` is `exitGame`.
- A session ends only by `EndCurrent`, which writes MsgExit and closes.

`BZFlagClient` maps:
- `cur <- tcp`;
- `phase` from `self.connected` (`SessionPhase`);
- `closed <- used \ open`;
- `exited` to the sockets with `MsgExit` among their writes (`ExitWritten`).

**`ChannelRequest`** is the life of one channel in one allocator.
- Its state is `"none"`, `"queued"` (waiting for a new bot), `"requested"`
  (a bot was asked to join), or the bot holding it.
- Moves: `Queue` and `Request` (addChannel; botConnected takes queued
  channels); `Join` (a requested channel gets a holder); `Forget` from any
  state (delChannel, botLeft, botDisconnected).
- So a channel is never held without a request, never moves from one bot to
  another, and never goes back to a queue.

`BotAllocator` instantiates it once per allocator and channel. This is
`ChanLife(a, c)`, in the way lightning-tla instantiates one ideal user per id.
`ChannelState(a, c)` reads the state off the allocator's three records: the
channels dict, then existingBotRequests, then newBotRequests.
- TLC does not accept a quantifier over instantiated `Spec`s.
- `ChannelsRefined` therefore states the conjunction of the instances'
  `Init`s, and one box over every pair's step, `[Next]_state`, written with
  ChannelRequest's two-state operator `Moves`.

### MC modules

- `MCBotAllocator.tla` and `MCBotController.tla` declare the model values and
  a symmetry over channels and factory ids. The model only ever compares names
  for equality.
- `MCRwdClient.tla` declares processes, renderers, transitions and buttons as
  model values.
- `MCTransition.tla` gives the frames and the pixel orders.
- `MCBZFlagClient.tla` declares the sockets as model values.

## Runs

### `daemon_safety` (pass)

- **Spec:** the whole daemon, `MCBotController` with `CtlNext`.
- **Bounds:**
  - 1 server, 2 allocator ids, 2 factory ids, 3 channels;
  - capacity 2;
  - 6 control calls;
  - connect failures, dropped connections and refused JOINs all enabled.
- **Properties:**
  - `RecordsDisjoint`: the request lists hold no duplicates, and are disjoint
    from each other and from the active channels.
  - `BotsDictLive`: every entry of an allocator's `bots` dict is a connection
    that is signed on, belongs to that allocator, and is registered under that
    very nickname. This holds while nicknames collide, are renamed, and
    connections drop mid-registration. `addChannel` therefore never picks a dead
    bot. Mutant: `botConnected` files the bot under a fresh `allocateNick()`.
- **Result:** about 1.13M distinct states, in about two minutes. Two factory
  ids suffice for the collision below; three ids took over 15 minutes.
- **What does not hold: the routing of `msg`.** The converse of `BotsDictLive`
  would say that every channel in the `channels` dict names a live bot of the
  allocator, which is what `msg` (line 209) relies on. The code breaks it, and
  TLC finds this trace in the `daemon_safety` configuration:
  1. `addChannel(c1)`, `delChannel(c1)`, `addChannel(c2)` start two factories
     (line 183).
  2. Both connect while no bot is signed on, so `allocateNick` (line 149)
     gives both "CIA-1".
  3. The server registers it for b1; b1 signs on and joins c2.
  4. b2's connection drops before ERR_NICKNAMEINUSE renames it.
     `del self.bots[bot.nickname]` (line 133) deletes b1's entry.
  5. When b1 later disconnects, line 133 raises KeyError before lines 134-136
     run. `channels[c2]` keeps naming the dead b1, and `addChannel(c2)`
     reports it as active.

  It is recorded as the hazard at BotDaemon.py line 133 in PROJECT.json.

### `daemon_reliable` (pass)

- **Spec:** the whole daemon with fairness, `CtlSpec`.
- **Bounds:**
  - 1 allocator id: a dropped allocator is never re-created, but its bots are
    still served;
  - 4 factory ids, 3 channels;
  - capacity 1, so every add after the first needs another bot;
  - 5 calls;
  - no network failures.
- **Properties:**
  - `InFlightWhilePending`: a non-empty new-bot queue always has a factory
    connecting.
  - `NewRequestsServed` (liveness): the new-bot queue is eventually drained.
  - `ChannelsRefined`: every channel of the allocator follows
    `ChannelRequest`. A JOIN reply that arrives after delChannel withdrew the
    request (BotDaemon.py line 120) is not recorded, and nothing moves a
    channel between bots or back to a queue. Mutant: botJoined records the bot
    even when the channel is no longer requested.
    - It is checked here and not in `daemon_safety`. There it runs the whole
      state space again as action checks, and takes over four minutes.
- **Fairness:** weak fairness on `ConnectionMade`, `SignedOn` and `Deliver`.
  - This is justified because the reactor keeps dispatching ready I/O, and a
    live IRC server answers every command.
  - Control calls and failures are not assumed to happen.
  - With network failures, a factory whose connect fails is abandoned
    (BotFactory has no `clientConnectionFailed`). The queue then stalls, which
    spec section 5 accepts as a limitation.

### `rwd_main` (pass)

- **Bounds:**
  - 2 rwd processes, 2 plain renderers, 1 transition of duration 2;
  - 2 renderer assignments;
  - 1 unsolicited button report.
- **Properties:**
  - `SingleRwd`: only the process in `self.rwd` is ever alive. The client never
    starts a second rwd while one still drives the wand.
  - `TransitionCompletes`: an installed transition eventually hands over,
    unless it is replaced or `run()` returns.
  - `FrameFlowRefined`: `RwdClient` implements `FrameLink`. Across reconnects,
    EPIPE and transitions that end between two acks, exactly one frame is in
    flight on the live rwd. Mutant: a `Swap` that installs `toRenderer`
    without sending its frame.
- **Result:** about 223k distinct states, in under 30 s.

### `transition_tweens` (pass)

- **Bounds:**
  - all three kinds of transition;
  - durations 3, 8 and 16;
  - frames of widths 0 to 3 with edge bytes (0x01, 0x80, 0xFF);
  - three pixel orders, including the identity and its reverse.
- **Properties:**
  - `ScrollIsWindow`: every VScroll frame equals the 8-row window, at the
    current offset, into the old column stacked on the new one. This means the
    mask drops no bit and the halves never overlap.
  - `DissolveIsPrefix`: the incrementally grown stencil is exactly the first
    `frameNum*64/duration` pixels of the shuffle, and the frame blends by it.

### `bzflag_main` (pass)

- **Bounds:**
  - 2 sockets, so there is one reconnect;
  - 1 unasked server message per connection, of any kind;
  - wrong-version Hellos and rejections enabled;
  - 5 application calls in any order.
- **Properties:**
  - `ConnectedMeansHandshaken`: `connected` holds only while `self.tcp` is past
    its Hello and has had `MsgEnter` written. No reconnect, `MsgSuperKill` or
    bad Hello leaves a stale flag.
  - `SessionRefined`: `BZFlagClient` implements `BZFlagSession`. Sessions
    start on fresh sockets, handshake once, and end only with MsgExit written
    before the close. Mutant: a reconnect that keeps `connected`, so the new
    session starts "up".
  - That no socket but `self.tcp` is open, and that the server eventually
    reads every MsgExit, are not stated separately. The first is
    `BZFlagSession`'s one current session. The second follows from the
    refinement and the fairness on `SrvRead`.
- **Result:** about 294k distinct states, in about a minute.
- **Not stated as a property:** `disconnect()` after a `MsgSuperKill`, or a
  second `disconnect()`, raises `AttributeError` (line 77 writes before testing
  `self.tcp`). The model takes this path and the properties hold along it.

### Violation runs

Each violation run checks one property, taken from `spec.md` or a docstring,
with small bounds. TLC finds a trace
that breaks each one. The findings in PROJECT.json give the code lines.

| Run | What the trace shows |
|---|---|
| `allocator_NoSilentDrop` | del then add while the PART is in flight: the channel is silently dropped (spec §7). |
| `allocator_RequestHasCarrier` | A JOIN is queued behind a QUIT: the request is stranded forever. |
| `allocator_OneBotPerChannel` | del while a JOIN is pending: the bot sits in a channel nobody records (spec §3). |
| `allocator_JoinedWithinCapacity` | Capacity counts only confirmed joins: a bot exceeds `channelsPerBot` (spec §8). |
| `controller_ChannelManagedOnce` | delChannel drops an allocator with pending requests: a second allocator requests the same channel (spec §8). |
| `rwd_RendererKept` | The application assigns a renderer between `render()`'s `renderer is self` test (line 281) and its `renderer = toRenderer` (line 282). The finished transition overwrites it. |
| `rwd_StopTerminates` | `stop()` after `start()` but before `run()` sets `_running = True` (line 49). The loop never ends. |

### Why the bounds are enough

Every daemon trace above needs at most 5 control calls and 2 channels. The
daemon's passing runs give at least 5 calls, up to 3 channels, and 2 or 4 ids, with
capacity 1 or 2. This covers:
- full bots;
- spawn chains;
- reconnects and refused joins;
- allocator drop and re-creation.

For rwand:
- 2 processes suffice for a restart with an old child still draining.
- A transition of duration 2 reaches both its running and its finishing frames.
- 2 renderer assignments let the application replace a transition at any step.

The id bound also stops spawning. Each add/del cycle of a channel for a new bot
leaks one factory that is still connecting. The bound of 4 ids is therefore
named explicitly. In the reliable run, a needed spawn is never blocked by it.

## Not modelled, and why

- Nicknames held by other IRC users. `nickInUse` checks only our own bots, and
  the server refuses the others' nicknames too. The model's server knows only
  our bots, so those refusals do not happen in it.
- Message text, and `msg`, which changes no state. Where it writes is discussed
  under `daemon_safety`.
- Kicks. IRCClient does not report them to Bot.
- The XML-RPC transport and `main`.
- rwand's settings plumbing (`getSettings`/`setSettings`). It writes lines to
  the pipe and has no state of its own beyond them.
- In `BZFlagClient`: a TCP connect that fails inside `connect()`, and partial
  messages. A failed connect leaves `self.tcp` set to an unconnected socket,
  and what happens next depends on `Network`, which is not in the repository. A
  partial message is re-buffered and changes nothing.
- Frame contents in `RwdClient`. `Transition.tla` checks them separately.
- rwand's renderer read in `recv_frame_ack` (line 161). It reads
  `self.renderer` twice, so an application that sets it to `None` between the
  reads crashes the thread. The model reads the renderer once per render.
- `KeyListener` dispatch in `recv_buttons`, `Font` and `TextRenderer`. The
  listeners are application objects, and the rest is text layout.
- `Formatting.py` (IRC colours). `ColortextFormatter` inherits
  `XMLObjectParser.parseString(self, s)`, but `XML.parse` passes it an extra
  `codeStack` argument (`XML.py` lines 104 and 120). Every text node therefore
  raises `TypeError`, and `element_color` (line 157) uses the undefined name
  `fg`. The formatter cannot run as written, so there is no behaviour to model
  faithfully. Its doctests (lines 86-97) cannot pass.
- `XML.py`. Its parser dispatch serves only that formatter, and its text
  helpers are string formatting. `shallowText` (line 172) calls itself
  instead of `shallowTextGenerator`, and recurses without end.
- The motion graph code, the Dance sequences, rcpod and unicone, for want of
  a run: the project is at its limit of twelve runs, all spent on the
  concurrent components and their findings. Two observations on `ParallelBFS`
  were made while reading it and are not checked:
  - `search` loops until every graph's BFS ends on its target at the same
    depth, and never stops when no common path length exists.
  - `computeProbability` multiplies the weights of `range(len(path) - 2)`
    edges and leaves out the last edge.

## Plan

1. A per-channel liveness promise on top of `ChannelRequest`: a requested
   channel is eventually held or forgotten. The `allocator_RequestHasCarrier`
   trace shows it fails when a JOIN is queued behind a QUIT. It can only be
   checked once that finding is fixed in the code.
2. `ParallelBFS` and the rcpod device, if a run can be freed. This means
   folding runs together, not dropping findings.
3. A violation run for the routing invariant that the nickname collision
   breaks (see `daemon_safety`), under the same condition.
