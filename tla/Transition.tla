----------------------------- MODULE Transition -----------------------------
(***************************************************************************)
(* The frame computation of a Transition in src/rasterwand/userspace/      *)
(* rwand.py: render() pads the two input frames to one width, tweens them *)
(* and advances frameNum; once frameNum reaches duration it installs and  *)
(* renders toRenderer.  A frame is a sequence of bytes, one 8-pixel       *)
(* column each, bit y being pixel row y.  VScroll shifts the columns;     *)
(* Dissolve keeps a stencil of eight column masks that render() grows     *)
(* incrementally from a shuffled list of the 64 pixels of an 8x8 tile.    *)
(*                                                                         *)
(* The renderers' outputs may change from frame to frame, so each step    *)
(* draws them from Frames.  Python 2 integer '/' is floor division.       *)
(***************************************************************************)
EXTENDS Naturals, Sequences, Bitwise, FiniteSetsExt

CONSTANTS
  Kinds,      \* "up" / "down" (VScroll.UP, VScroll.DOWN), "dissolve"
  Durations,  \* durations a Transition may be constructed with
  Frames,     \* outputs the two renderers may produce
  Shuffles    \* orders random.shuffle may leave self.pixels in

ASSUME Kinds \subseteq {"up", "down", "dissolve"} /\ Durations \subseteq Nat \ {0}

VARIABLES
  kind,       \* which Transition subclass, and VScroll.dir
  duration,   \* self.duration
  frameNum,   \* self.frameNum
  stencil,    \* Dissolve.stencil
  pixelIndex, \* Dissolve.pixelIndex
  pixels,     \* Dissolve.pixels
  finished,   \* has render() installed toRenderer in the client?
  inFrom,     \* the padded fromFrame of the last tween
  inTo,       \* the padded toFrame of the last tween
  out         \* the frame the last render() returned

vars == <<kind, duration, frameNum, stencil, pixelIndex, pixels, finished, inFrom, inTo, out>>

(* The 8x8 tile in the order Dissolve.__init__ builds it: (x, 1 << y).    *)
Tile == [i \in 1..64 |-> <<(i - 1) % 8, 2^((i - 1) \div 8)>>]

(* str.center(width, '\0'): CPython puts marg // 2 + (marg & width & 1)   *)
(* of the marg fill characters on the left.                               *)
Center(s, width) ==
  IF Len(s) >= width THEN s
  ELSE LET marg == width - Len(s)
           left == marg \div 2 + (marg & (width & 1))
       IN [i \in 1..left |-> 0] \o s \o [i \in 1..(marg - left) |-> 0]

(* Transition.render, lines 291-295: pad the narrower frame.              *)
Pad(f, g) ==
  <<IF Len(f) < Len(g) THEN Center(f, Len(g)) ELSE f,
    IF Len(g) < Len(f) THEN Center(g, Len(f)) ELSE g>>

(* Mutant of VScrollTween: the '0xFF &' mask is dropped.                 *)
VScrollTween_NoMask(dir, n, f, g) ==
  LET shift == (n * 8) \div duration IN
  [i \in 1..Len(f) |->
     IF dir = "up"
       THEN shiftR(f[i], shift) | (g[i] * 2^(8 - shift))
       ELSE (f[i] * 2^shift) | shiftR(g[i], 8 - shift)]

(* Mutant of VScrollTween: the new frame is shifted by 7 - shift.         *)
VScrollTween_OffByOne(dir, n, f, g) ==
  LET shift == (n * 8) \div duration IN
  [i \in 1..Len(f) |->
     IF dir = "up"
       THEN shiftR(f[i], shift) | ((g[i] * 2^(7 - shift)) % 256)
       ELSE ((f[i] * 2^shift) % 256) | shiftR(g[i], 7 - shift)]

(* VScroll.tween: shift = frameNum * 8 / duration; each column of the    *)
(* result is 0xFF & (a >> shift | b << (8 - shift)) for UP and           *)
(* 0xFF & (a << shift | b >> (8 - shift)) for DOWN.                      *)
VScrollTween(dir, n, f, g) ==
  LET shift == (n * 8) \div duration IN
  [i \in 1..Len(f) |->
     IF dir = "up"
       THEN shiftR(f[i], shift) | ((g[i] * 2^(8 - shift)) % 256)
       ELSE ((f[i] * 2^shift) % 256) | shiftR(g[i], 8 - shift)]

(* Mutant of Grow: the loop runs while pixelIndex <= newPixelIndex.      *)
RECURSIVE Grow_Inclusive(_, _, _)
Grow_Inclusive(st, from, upto) ==
  IF from > upto THEN st
  ELSE Grow_Inclusive([st EXCEPT ![pixels[from + 1][1]] = @ | pixels[from + 1][2]], from + 1, upto)

(* Dissolve.tween, lines 345-349: add the pixels up to newPixelIndex to   *)
(* the stencil.                                                           *)
RECURSIVE Grow(_, _, _)
Grow(st, from, upto) ==
  IF from >= upto THEN st
  ELSE Grow([st EXCEPT ![pixels[from + 1][1]] = @ | pixels[from + 1][2]], from + 1, upto)

(* Dissolve.tween, lines 351-356: each column takes the stencil's bits    *)
(* from toFrame and the others from fromFrame; ~mask is 255 - mask here *)
(* since columns are bytes.                                               *)
Blend(st, f, g) ==
  [i \in 1..Len(f) |->
     LET mask == st[(i - 1) & 7] IN (f[i] & (255 - mask)) | (g[i] & mask)]

(* Construction: VScroll.__init__ / Dissolve.__init__ and                *)
(* Transition.__init__.                                                   *)
Init ==
  /\ kind \in Kinds
  /\ duration \in Durations
  /\ frameNum = 0
  /\ stencil = [x \in 0..7 |-> 0]
  /\ pixelIndex = 0
  /\ pixels \in (IF kind = "dissolve" THEN Shuffles ELSE {Tile})
  /\ finished = FALSE
  /\ inFrom = <<>> /\ inTo = <<>> /\ out = <<>>

(* One call of Transition.render while the transition is running.        *)
Render ==
  /\ frameNum < duration
  /\ \E f0, g0 \in Frames :
       LET fg == Pad(f0, g0)
           f  == fg[1]
           g  == fg[2]
           np == (frameNum * 64) \div duration
           st == IF kind = "dissolve" /\ pixelIndex < np
                   THEN Grow(stencil, pixelIndex, np) ELSE stencil
       IN
       /\ inFrom' = f /\ inTo' = g
       /\ stencil' = st
       /\ pixelIndex' = IF kind = "dissolve" /\ pixelIndex < np THEN np ELSE pixelIndex
       /\ out' = IF kind = "dissolve" THEN Blend(st, f, g)
                 ELSE VScrollTween(kind, frameNum, f, g)
  /\ frameNum' = frameNum + 1
  /\ UNCHANGED <<kind, duration, pixels, finished>>

(* render() once frameNum >= duration: install and render toRenderer.    *)
Finish ==
  /\ frameNum >= duration
  /\ ~finished
  /\ finished' = TRUE
  /\ \E g \in Frames : out' = g
  /\ UNCHANGED <<kind, duration, frameNum, stencil, pixelIndex, pixels, inFrom, inTo>>

Next == Render \/ Finish

Spec == Init /\ [][Next]_vars
-----------------------------------------------------------------------------
(* Properties.                                                            *)

Bytes == 0..255

TypeOK ==
  /\ kind \in Kinds /\ duration \in Durations
  /\ frameNum \in 0..duration
  /\ stencil \in [0..7 -> Bytes]
  /\ pixelIndex \in 0..64
  /\ out \in Seq(Bytes)

(* Rendering rows lo.. lo+7 of a 16-row column whose rows 0-7 are lower  *)
(* and rows 8-15 are upper.                                               *)
Window(lower, upper, lo) == ((lower + 256 * upper) \div 2^lo) % 256

(* A VScroll frame at step n shows, in every column, the 8-row window    *)
(* starting n * 8 / duration rows into the old column stacked on the new *)
(* one (UP), or into the new one stacked on the old (DOWN): the two      *)
(* shifted halves never overlap and no bit is lost to the 0xFF masking.  *)
ScrollIsWindow ==
  kind \in {"up", "down"} /\ frameNum > 0 /\ ~finished =>
    LET s == ((frameNum - 1) * 8) \div duration IN
    /\ Len(inFrom) = Len(inTo)
    /\ out = [i \in 1..Len(inFrom) |->
                IF kind = "up" THEN Window(inFrom[i], inTo[i], s)
                               ELSE Window(inTo[i], inFrom[i], 8 - s)]

Bit(v, y) == (v \div 2^y) % 2

(* The stencil of the first n pixels of the shuffled tile.                *)
RefStencil(n) ==
  [x \in 0..7 |-> SumSet({2^y : y \in {y \in 0..7 : \E i \in 1..n : pixels[i] = <<x, 2^y>>}})]

(* A Dissolve frame at step n shows exactly the first n * 64 / duration  *)
(* pixels of the shuffled tile, repeated every 8 columns, from the new   *)
(* frame and every other pixel from the old one, although the stencil is *)
(* grown a few pixels per call and carried from call to call.            *)
DissolveIsPrefix ==
  kind = "dissolve" /\ frameNum > 0 /\ ~finished =>
    LET st == RefStencil(((frameNum - 1) * 64) \div duration) IN
    /\ stencil = st
    /\ out = [i \in 1..Len(inFrom) |->
                SumSet({2^y * (IF Bit(st[(i - 1) % 8], y) = 1 THEN Bit(inTo[i], y)
                                                              ELSE Bit(inFrom[i], y))
                        : y \in 0..7})]

====
