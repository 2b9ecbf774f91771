--------------------------- MODULE MCBotController --------------------------
(* Instantiates BotController for TLC: the constants come from the .cfg.  *)
EXTENDS BotController, TLC
CONSTANTS c1, c2, c3, b1, b2, b3, b4, a1, a2, s1
(* Channel names and factory ids only ever compare for equality.          *)
CtlSymmetry == Permutations(Channels) \cup Permutations(Bots)
=============================================================================
