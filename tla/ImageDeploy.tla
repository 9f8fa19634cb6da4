---------------------------- MODULE ImageDeploy -----------------------------
(***************************************************************************)
(* The deployment of the menu on the build machine: 生成EFI.py runs        *)
(* 生成图片.py, which converts icons and backgrounds into a staging        *)
(* directory, then copies the program and moves the images beside it,      *)
(* where the menu reads them.  Every step may fail and the scripts may be  *)
(* interrupted anywhere; nothing cleans up but the next run.               *)
(***************************************************************************)
EXTENDS Naturals, FiniteSets

CONSTANTS
  Icons,        \* files of bmp/
  Backgrounds,  \* files of 背景png/
  None,         \* no directory, no file
  Broken,       \* a file written in part
  MaxRuns       \* bound on the runs

Images == Icons \union Backgrounds

(* A directory holds for each image the file of some run, or no whole one. *)
Directory == [Images -> Nat \union {None, Broken}]

ASSUME DeployAssumption ==
  /\ Icons \intersect Backgrounds = {}
  /\ MaxRuns \in Nat
  /\ None \notin Nat /\ Broken \notin Nat /\ None # Broken
  /\ None \notin Directory

VARIABLES
  step,       \* what the scripts do
  run,        \* the number of this run, which its files carry
  staging,    \* 天玑项目/python/Image: the file of each image, or None
  target,     \* EFI/TianJI/Image
  program,    \* EFI/TianJI/天玑.中国
  todo,       \* the images this run has yet to convert
  errors,     \* the images whose conversion failed, which is only printed
  accidents,  \* history: runs that failed since the last one that did not
  sound       \* history: that one and all since have converted every image

dirs == <<staging, target>>
history == <<accidents, sound>>
vars == <<step, run, dirs, program, todo, errors, history>>

Empty == [i \in Images |-> None]

Over == {"idle", "done", "failed"}

Init ==
  /\ step = "idle" /\ run = 0
  /\ staging = None /\ target = None /\ program = None
  /\ todo = {} /\ errors = {}
  /\ accidents = 0 /\ sound = FALSE

(* Definitions named X_Y are variants of X with a plausible mistake Y; no  *)
(* specification uses them.                                                *)

Start_RemovesFirst ==
  /\ step \in Over
  /\ run < MaxRuns
  /\ run' = run + 1
  /\ staging' = Empty
  /\ todo' = Images /\ errors' = {}
  /\ target' = None
  /\ step' = "convert"
  /\ UNCHANGED <<program, history>>

(* A staging directory left by an interrupted run is used as it is.        *)
Start ==
  /\ step \in Over
  /\ run < MaxRuns  \* bound
  /\ run' = run + 1
  /\ staging' = IF staging = None THEN Empty ELSE staging
  /\ todo' = Images /\ errors' = {}
  /\ step' = "convert"
  /\ UNCHANGED <<target, program, history>>

(* First the icons, in any order, then the backgrounds.                    *)
Convert(image) ==
  /\ step = "convert"
  /\ image \in todo
  /\ image \in Backgrounds => todo \subseteq Backgrounds
  /\ todo' = todo \ {image}
  /\ \/ /\ staging' = [staging EXCEPT ![image] = run]
        /\ UNCHANGED <<errors, sound>>
     \/ /\ \E left \in {staging[image], Broken} :
             staging' = [staging EXCEPT ![image] = left]
        /\ errors' = errors \union {image} /\ sound' = FALSE
  /\ UNCHANGED <<step, run, target, program, accidents>>

CopyProgram ==
  /\ step = "convert" /\ todo = {}
  /\ program' = run
  /\ step' = "remove"
  /\ UNCHANGED <<run, dirs, todo, errors, history>>

(* rmtree removes one file after the other, then the directory.            *)
RemoveOld_Forgotten ==
  /\ step = "remove"
  /\ step' = "move"
  /\ UNCHANGED <<run, dirs, program, todo, errors, history>>

RemoveOld ==
  /\ step = "remove"
  /\ \/ /\ target \in {None, Empty}
        /\ target' = None
        /\ step' = "move"
     \/ /\ target # None
        /\ \E image \in Images :
             /\ target[image] # None
             /\ target' = [target EXCEPT ![image] = None]
        /\ UNCHANGED step
  /\ UNCHANGED <<run, staging, program, todo, errors, history>>

(* One directory is renamed to the other, or moved into it.                *)
MoveImages ==
  /\ step = "move"
  /\ target' = IF target = None THEN staging ELSE target
  /\ staging' = None
  /\ step' = "done"
  /\ accidents' = 0 /\ sound' = (errors = {})
  /\ UNCHANGED <<run, program, todo, errors>>

(* An exception, which ends the scripts, or an interruption: the file that *)
(* was being written is broken.                                            *)
Stop ==
  /\ step \notin Over
  /\ \/ UNCHANGED <<staging, program>>
     \/ /\ \E image \in todo : staging' = [staging EXCEPT ![image] = Broken]
        /\ UNCHANGED program
     \/ /\ step = "convert" /\ todo = {}
        /\ program' = Broken
        /\ UNCHANGED staging
  /\ todo' = {}
  /\ step' = "failed"
  /\ accidents' = accidents + 1
  /\ UNCHANGED <<run, target, errors, sound>>

Next ==
  \/ Start \/ \E image \in Images : Convert(image)
  \/ CopyProgram \/ RemoveOld \/ MoveImages \/ Stop

Spec == Init /\ [][Next]_vars
----------------------------------------------------------------------------
(* Properties. *)

(* A run that reports success has deployed what it made, whatever earlier  *)
(* runs left behind: the new program and, of every image that could be     *)
(* converted, the new file, where the menu looks for it.                   *)
SuccessDeploys ==
  step = "done" =>
    /\ program = run
    /\ staging = None /\ target # None
    /\ \A image \in Images \ errors : target[image] = run

Complete(dir) == dir # None /\ \A image \in Images : dir[image] \in Nat

(* Converting overwrites nothing that is in use: while every image can be  *)
(* converted, one failed or interrupted run, wherever it ended, and the    *)
(* run after it leave a complete set of images in one of the two           *)
(* directories at any time, of which the menu or a repetition of the move  *)
(* can live.  It takes two accidents to lose them.                         *)
ImagesSurviveAnAccident ==
  sound /\ accidents <= 1 => Complete(target) \/ Complete(staging)
=============================================================================
