------------------------- MODULE ImageDeployProofs --------------------------
(***************************************************************************)
(* What a deployment leaves behind, for any icons and backgrounds, any     *)
(* number of runs and any number of failures and interruptions.            *)
(***************************************************************************)
EXTENDS ImageDeploy, TLAPS

TypeOK ==
  /\ step \in Over \union {"convert", "remove", "move"}
  /\ run \in Nat
  /\ staging \in Directory \union {None}
  /\ target \in Directory \union {None}
  /\ todo \subseteq Images /\ errors \subseteq Images
  /\ accidents \in Nat /\ sound \in BOOLEAN

(* What this run has made so far.                                          *)
Made ==
  /\ step \in {"convert", "remove", "move"} =>
       /\ staging # None
       /\ \A image \in (Images \ todo) \ errors : staging[image] = run
  /\ step \in {"remove", "move"} => todo = {} /\ program = run
  /\ step = "move" => target = None

(* Where a complete set of images is: until the first accident in use, so  *)
(* that a run may leave staging broken; from then on in either place, but  *)
(* in staging as soon as the old set is being removed.                     *)
Kept ==
  sound /\ accidents <= 1 =>
    /\ errors = {}
    /\ accidents = 0 /\ step \in Over \union {"convert"} => Complete(target)
    /\ Complete(target) \/ Complete(staging)

IInv == TypeOK /\ Made /\ SuccessDeploys /\ Kept

----------------------------------------------------------------------------
LEMMA InitIInv == Init => IInv
<1> SUFFICES ASSUME Init PROVE IInv
  OBVIOUS
<1>1. TypeOK
  BY DEF Init, TypeOK, Over
<1>2. Made /\ SuccessDeploys /\ Kept
  BY DEF Init, Made, SuccessDeploys, Kept
<1> QED
  BY <1>1, <1>2 DEF IInv

LEMMA NextTypeOK == TypeOK /\ Made /\ [Next]_vars => TypeOK'
<1> SUFFICES ASSUME TypeOK, Made, [Next]_vars PROVE TypeOK'
  OBVIOUS
<1> USE DEF TypeOK, Over, Directory, dirs, history
<1>1. CASE Start
  BY <1>1 DEF Start, Empty
<1>2. ASSUME NEW image \in Images, Convert(image) PROVE TypeOK'
  BY <1>2 DEF Convert, Made
<1>3. CASE CopyProgram
  BY <1>3 DEF CopyProgram
<1>4. CASE RemoveOld
  BY <1>4 DEF RemoveOld
<1>5. CASE MoveImages
  BY <1>5 DEF MoveImages
<1>6. CASE Stop
  BY <1>6 DEF Stop, Made
<1>7. CASE UNCHANGED vars
  BY <1>7 DEF vars
<1> QED
  BY <1>1, <1>2, <1>3, <1>4, <1>5, <1>6, <1>7 DEF Next

LEMMA NextMade == IInv /\ [Next]_vars => Made' /\ SuccessDeploys'
<1> SUFFICES ASSUME IInv, [Next]_vars PROVE Made' /\ SuccessDeploys'
  OBVIOUS
<1> USE DeployAssumption DEF IInv, TypeOK, Over, Directory, Made, SuccessDeploys, dirs, history
<1>1. CASE Start
  BY <1>1 DEF Start, Empty
<1>2. ASSUME NEW image \in Images, Convert(image) PROVE Made' /\ SuccessDeploys'
  <2>1. step' = "convert" /\ run' = run
    BY <1>2 DEF Convert
  <2>2. staging' \in [Images -> Nat \union {None, Broken}]
    BY <1>2 DEF Convert
  <2>3. \A i \in (Images \ todo') \ errors' : staging'[i] = run
    BY <1>2 DEF Convert
  <2> QED
    BY <2>1, <2>2, <2>3
<1>3. CASE CopyProgram
  BY <1>3 DEF CopyProgram
<1>4. CASE RemoveOld
  BY <1>4 DEF RemoveOld
<1>5. CASE MoveImages
  BY <1>5 DEF MoveImages
<1>6. CASE Stop
  BY <1>6 DEF Stop
<1>7. CASE UNCHANGED vars
  BY <1>7 DEF vars
<1> QED
  BY <1>1, <1>2, <1>3, <1>4, <1>5, <1>6, <1>7 DEF Next

LEMMA NextKept == IInv /\ [Next]_vars => Kept'
<1> SUFFICES ASSUME IInv, [Next]_vars PROVE Kept'
  OBVIOUS
<1> USE DeployAssumption DEF IInv, TypeOK, Over, Directory, Made, SuccessDeploys, Kept,
        Complete, dirs, history
<1>1. CASE Start
  BY <1>1 DEF Start, Empty
<1>2. ASSUME NEW image \in Images, Convert(image) PROVE Kept'
  <2>1. SUFFICES ASSUME sound', accidents' <= 1 PROVE Kept'
    OBVIOUS
  <2>2. /\ staging' = [staging EXCEPT ![image] = run]
        /\ UNCHANGED <<errors, sound, target, accidents>>
        /\ step = "convert" /\ step' = "convert"
    BY <1>2, <2>1 DEF Convert
  <2> QED
    BY <2>1, <2>2
<1>3. CASE CopyProgram
  BY <1>3 DEF CopyProgram
<1>4. CASE RemoveOld
  BY <1>4 DEF RemoveOld
<1>5. CASE MoveImages
  BY <1>5 DEF MoveImages
<1>6. CASE Stop
  BY <1>6 DEF Stop
<1>7. CASE UNCHANGED vars
  BY <1>7 DEF vars
<1> QED
  BY <1>1, <1>2, <1>3, <1>4, <1>5, <1>6, <1>7 DEF Next

(* The type invariant and the history of the two directories hold in every *)
(* reachable state of the scripts.                                         *)
THEOREM DeploymentHolds == Spec => []IInv
<1>1. IInv /\ [Next]_vars => IInv'
  BY NextTypeOK, NextMade, NextKept DEF IInv
<1> QED
  BY <1>1, InitIInv, PTL DEF Spec

----------------------------------------------------------------------------
(* A run of the scripts that ends without an exception has brought program *)
(* and images to the place the menu reads them from.                       *)
THEOREM SuccessIsReal == Spec => []SuccessDeploys
  BY DeploymentHolds, PTL DEF IInv

(* One accident, at whatever point of the scripts, costs no image.         *)
THEOREM OneAccidentIsSurvived == Spec => []ImagesSurviveAnAccident
<1>1. IInv => ImagesSurviveAnAccident
  BY DEF IInv, Kept, ImagesSurviveAnAccident
<1> QED
  BY <1>1, DeploymentHolds, PTL
=============================================================================
