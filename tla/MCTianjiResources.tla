-------------------------- MODULE MCTianjiResources --------------------------
(* TianjiResources with every service allowed to fail at the program       *)
(* points the cfg names.                                                   *)
EXTENDS TianjiResources
=============================================================================
