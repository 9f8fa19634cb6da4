---------------------------- MODULE MCBootAttempt ----------------------------
(* BootAttempt with a few load file instances and little room for disks.   *)
EXTENDS BootAttempt
=============================================================================
