---------------------------- MODULE MCBootSession ---------------------------
(* A session with an OpenCore entry beside boot options on local media and *)
(* on the network; the launcher's path leaves room for the relative file.  *)
EXTENDS BootSession

SomeMenus == {<<"media", "apple", "uri">>, <<"apple", "loadFile", "legacy">>}
SomeLaunchers == {[slash |-> TRUE, names |-> <<3, 6, 4, 11>>]}
=============================================================================
