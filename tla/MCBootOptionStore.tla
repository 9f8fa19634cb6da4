------------------------- MODULE MCBootOptionStore --------------------------
(* BootOptionStore with option numbers from 0 to a small MaxNumber, so that *)
(* all of them may be in use.                                              *)
EXTENDS BootOptionStore
=============================================================================
