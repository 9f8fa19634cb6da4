------------------------------ MODULE Bitmaps -------------------------------
(***************************************************************************)
(* The pixel loops of the project: the conversion of a 32 bit BMP file,    *)
(* whose rows are stored from the bottom up, and alpha blending.  A pixel  *)
(* is [c, a]: one colour channel, all three are computed alike, and the    *)
(* alpha channel kept in the Reserved byte.  Pixels are numbered from 0,   *)
(* row by row.                                                             *)
(***************************************************************************)
EXTENDS Integers

CONSTANTS
  Opaque,  \* the largest byte: 255
  Word     \* UINT32 counts up to this: 2^32

ASSUME BitmapsAssumption == Opaque \in Nat \ {0} /\ Word \in Nat \ {0}

Byte == 0 .. Opaque
Pixel == [c : Byte, a : Byte]

(* The number of pixels for which a block is allocated.                    *)
PixelCount(w, h) == (w * h) % Word

Source_NotTurned(w, h, i) == i

(* The pixel of the file that pixel i of the picture is taken from.        *)
Source(w, h, i) == (h - 1 - (i \div w)) * w + (i % w)

Convert(bmp, w, h) == [i \in 0 .. w * h - 1 |-> bmp[Source(w, h, i)]]

Blend_Swapped(front, back) ==
  (back.c * front.a + front.c * (Opaque - front.a)) \div Opaque

(* What is seen of a pixel in front of another.                            *)
Blend(front, back) ==
  (front.c * front.a + back.c * (Opaque - front.a)) \div Opaque
=============================================================================
