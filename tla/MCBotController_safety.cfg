\* One server and two allocator instances on an unreliable network with a
\* refusing server, while the controller drops and re-creates the server's
\* allocator: the allocators' request bookkeeping and their nickname-keyed
\* bots dicts.  Two factory ids are enough for two bots to collide on a
\* nickname and for a drop to interleave with the rename.
CONSTANTS
  c1 = c1  c2 = c2  c3 = c3
  b1 = b1  b2 = b2  b3 = b3  b4 = b4
  a1 = a1  a2 = a2  s1 = s1
  Channels = {c1, c2, c3}
  Bots = {b1, b2}
  Allocs = {a1, a2}
  Servers = {s1}
  NoServer = NoServer
  ChannelsPerBot = 2
  MaxOps = 6
  NetFailures = TRUE
  JoinRefusals = TRUE
  NoBot = NoBot
  NoAlloc = NoAlloc
INIT CtlInit
NEXT CtlNext
SYMMETRY CtlSymmetry
CHECK_DEADLOCK FALSE
INVARIANT CtlTypeOK
INVARIANT RecordsDisjoint
INVARIANT BotsDictLive
