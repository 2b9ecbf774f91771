\* One server, two allocator instances: the dict may drop an allocator
\* and create another for the same server while the first one's bots run.
CONSTANTS
  c1 = c1  c2 = c2  c3 = c3
  b1 = b1  b2 = b2  b3 = b3  b4 = b4
  a1 = a1  a2 = a2  s1 = s1
  Channels = {c1, c2}
  Bots = {b1, b2, b3}
  Allocs = {a1, a2}
  Servers = {s1}
  NoServer = NoServer
  ChannelsPerBot = 1
  MaxOps = 5
  NetFailures = FALSE
  JoinRefusals = FALSE
  NoBot = NoBot
  NoAlloc = NoAlloc
INIT CtlInit
NEXT CtlNext
SYMMETRY CtlSymmetry
CHECK_DEADLOCK FALSE
INVARIANT ChannelManagedOnce
