\* A reliable network and a server that accepts every JOIN, one channel per
\* bot so that channels keep needing new bots: the new-bot queue of every
\* allocator, the dropped ones included, is served.
CONSTANTS
  c1 = c1  c2 = c2  c3 = c3
  b1 = b1  b2 = b2  b3 = b3  b4 = b4
  a1 = a1  a2 = a2  s1 = s1
  Channels = {c1, c2, c3}
  Bots = {b1, b2, b3, b4}
  Allocs = {a1}
  Servers = {s1}
  NoServer = NoServer
  ChannelsPerBot = 1
  MaxOps = 5
  NetFailures = FALSE
  JoinRefusals = FALSE
  NoBot = NoBot
  NoAlloc = NoAlloc
SPECIFICATION CtlSpec
CHECK_DEADLOCK FALSE
INVARIANT InFlightWhilePending
PROPERTY NewRequestsServed
PROPERTY ChannelsRefined
