-------------------------- MODULE MCOpenCoreLaunch --------------------------
(* OpenCoreLaunch with launchers of every depth the rewriting tells apart, *)
(* three levels deep with the cut-off text one character too short, just   *)
(* long enough and longer, each with and without a starting slash.         *)
EXTENDS OpenCoreLaunch

LauncherPaths ==
  [slash : BOOLEAN,
   names : {<<>>, <<11>>, <<4, 11>>, <<1, 10>>, <<4, 7>>, <<3, 1, 8>>,
            <<3, 1, 9>>, <<3, 1, 10>>, <<3, 4, 11>>, <<3, 6, 4, 11>>}]
=============================================================================
