----------------------------- MODULE MCMenuFits -----------------------------
(* TianjiMenu on a screen wide enough for every menu it may show, with all *)
(* the icon files in place: the hypotheses of the theorems about it.       *)
EXTENDS TianjiMenu

ASSUME FitsAssumption ==
  /\ \A n \in Counts : LayoutFits(n)
  /\ LoadableNames = Names
=============================================================================
