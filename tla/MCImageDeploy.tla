--------------------------- MODULE MCImageDeploy ----------------------------
(* Deployment of two icons and a background, run up to four times.         *)
EXTENDS ImageDeploy, TLC

CONSTANTS i1, i2, b1

SomeIcons == {i1, i2}
SomeBackgrounds == {b1}
Interchangeable == Permutations(SomeIcons)
=============================================================================
