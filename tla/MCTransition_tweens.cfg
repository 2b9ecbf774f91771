\* Every kind of Transition, for the default durations (VScroll 8,
\* Dissolve 16) and one that does not divide 8 or 64.
CONSTANTS
  Kinds = {"up", "down", "dissolve"}
  Durations = {3, 8, 16}
  Frames <- MCFrames
  Shuffles <- MCShuffles
SPECIFICATION Spec
CHECK_DEADLOCK FALSE
INVARIANT TypeOK
INVARIANT ScrollIsWindow
INVARIANT DissolveIsPrefix
