---------------------------- MODULE MCMenuMisfits ---------------------------
(* TianjiMenu where its layout arithmetic wraps, or where it has no icon   *)
(* to put over an entry; the image sizes are the repository's own (icons   *)
(* of 156 pixels, a pointer of 50).                                        *)
EXTENDS TianjiMenu
=============================================================================
