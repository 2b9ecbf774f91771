\* Reliable network and server: OneBotPerChannel is violated by the allocator itself.
CONSTANTS
  c1 = c1  c2 = c2  c3 = c3
  b1 = b1  b2 = b2  b3 = b3  b4 = b4
  a1 = a1  a2 = a2
  Channels = {c1, c2}
  Bots = {b1, b2, b3}
  Allocs = {a1}
  ChannelsPerBot = 1
  MaxOps = 4
  NetFailures = FALSE
  JoinRefusals = FALSE
  NoBot = NoBot
  NoAlloc = NoAlloc
INIT Init
NEXT Next
SYMMETRY Symmetry
INVARIANT OneBotPerChannel
CHECK_DEADLOCK FALSE
