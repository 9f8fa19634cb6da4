------------------------------ MODULE MCHotKeys -----------------------------
(* HotKeys with two keyboards, a sequence of two keys, and a key with a    *)
(* modifier that may also end this sequence on a keyboard that reports no  *)
(* modifiers.  Keyboards, and what a boot option holds, may be exchanged:  *)
(* nothing is chosen among them but by what was typed and defined.         *)
EXTENDS HotKeys

CONSTANTS A, B, Shift

WithShift == [keys |-> <<B>>, mods |-> {Shift}]

SomeCodes == {[keys |-> <<A, B>>, mods |-> {}], WithShift}

SomeContinueCodes == {WithShift}

Exchanges == Permutations(Consoles) \union Permutations(Contents)
=============================================================================
