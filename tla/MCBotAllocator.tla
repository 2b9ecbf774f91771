--------------------------- MODULE MCBotAllocator ---------------------------
(* Instantiates BotAllocator for TLC: the constants come from the .cfg.    *)
EXTENDS BotAllocator, TLC

CONSTANTS c1, c2, c3, b1, b2, b3, b4, a1, a2

(* Channel names and factory ids only ever compare for equality.          *)
Symmetry == Permutations({c1, c2, c3}) \cup Permutations({b1, b2, b3, b4})

=============================================================================
