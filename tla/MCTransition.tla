--------------------------- MODULE MCTransition -----------------------------
(* Instantiates Transition for TLC.                                       *)
EXTENDS Transition, TLC

(* Three of the orders random.shuffle can produce: the construction      *)
(* order, its reverse, and the tile read column by column.               *)
MCShuffles ==
  { Tile,
    [i \in 1..64 |-> Tile[65 - i]],
    [i \in 1..64 |-> <<(i - 1) \div 8, 2^((i - 1) % 8)>>] }

(* Frames of widths 0 to 3, so that padding meets both parities of       *)
(* width and margin, with bytes whose high and low bits differ.          *)
MCFrames == { <<>>, <<165>>, <<255, 1>>, <<128, 60, 7>> }
=============================================================================
