---------------------------- MODULE MCSmallApps -----------------------------
(* SmallApps with a byte of two bits, a word that counts up to four pixels *)
(* and pictures that fit on the screen, do not, and have too many pixels.  *)
EXTENDS SmallApps

SomeSizes == {<<1, 1>>, <<1, 2>>, <<2, 1>>, <<2, 2>>, <<1, 3>>, <<2, 3>>}
SomePixels == {[c |-> 3, a |-> 0], [c |-> 3, a |-> 2], [c |-> 1, a |-> 3]}
SomeBackdrops == {[c |-> 0, a |-> 0], [c |-> 2, a |-> 0]}
=============================================================================
