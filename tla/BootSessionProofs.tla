-------------------------- MODULE BootSessionProofs --------------------------
(***************************************************************************)
(* The chain-loader, and the session composed of it, the menu and the boot *)
(* manager: for all launchers, menus, failures and lengths of a session.   *)
(*                                                                         *)
(* The chain-loader's properties speak of one program point each.  The     *)
(* invariant says for every point what is held there, which a step of any  *)
(* other point has to leave alone; the session's invariant adds who is at  *)
(* work, and that the others are not.                                      *)
(***************************************************************************)
EXTENDS BootSession, WellFoundedInduction, TLAPS

(* The chain-loader by itself.                                             *)

ReadPoints == {"openVolume", "openFile", "fileSize", "fileData"}

(* Points at which no attempt has read anything yet.                       *)
IdlePoints == {"loop", "exited", "loadedImage", "fileSystem", "fullName",
               "rewrite"}

HeldFiles ==
  /\ volume = "open" => at = "openFile"
  /\ file = "open" => at \in {"fileSize", "fileData"}

HeldName ==
  loaderPath = "live" =>
    \/ at \in {"rewrite", "relativePath", "freeName"}
    \/ at \in ReadPoints /\ source = "relative"

HeldImage == "current" \in images => at \in {"start", "running"}

(* Before the fallback a file is held with its path or not at all.         *)
HeldBlocks ==
  /\ at \in IdlePoints \union ReadPoints =>
       buffer = "null" /\ imagePath = "null"
  /\ at = "relativePath" =>
       buffer = "relative" /\ size = "relative" /\ imagePath = "null"
  /\ at = "absolutePath" =>
       buffer = "absolute" /\ size = "absolute" /\ imagePath = "null"
  /\ at \in {"freeName", "fallback"} =>
       imagePath = buffer /\ (buffer # "null" => size = buffer)
  /\ at = "check" =>
       /\ buffer = "null" => imagePath = "null"
       /\ buffer # "null" => size = buffer /\ imagePath \in {"null", buffer}
  /\ at \in {"load", "start", "running", "release"} =>
       buffer # "null" /\ size = buffer /\ imagePath \in {"null", buffer}

Ledger ==
  /\ HeldFiles /\ HeldName /\ HeldImage /\ HeldBlocks
  /\ faults \subseteq {"imagePath"}

LaunchInv == TypeOK /\ Ledger

----------------------------------------------------------------------------
LEMMA InitLaunch == Init => LaunchInv
  BY DEF Init, LaunchInv, TypeOK, Ledger, HeldFiles, HeldName, HeldImage,
         HeldBlocks,
         IdlePoints, ReadPoints, Sources, Writable

(* Types are kept by every action; none needs the ledger.                  *)
LEMMA NextTypeOK == TypeOK /\ [Next]_vars => TypeOK'
<1> SUFFICES ASSUME TypeOK, [Next]_vars PROVE TypeOK'
  OBVIOUS
<1> USE DEF TypeOK, Sources, readVars, ledger
<1>1. CASE PressEnter
  BY <1>1 DEF PressEnter
<1>2. CASE LocateFileSystem
  BY <1>2 DEF LocateFileSystem
<1>3. CASE CopyFullName
  <2>1. /\ at' \in {"rewrite", "fallback"} /\ loaderPath' \in {"live", "null"}
        /\ written' = 0
    BY <1>3 DEF CopyFullName
  <2>2. UNCHANGED <<launcher, source, volume, file, images, faults>>
    BY <1>3 DEF CopyFullName
  <2>3. buffer' = "null" /\ size' = "zero" /\ imagePath' = "null"
    BY <1>3 DEF CopyFullName
  <2> QED
    BY <2>1, <2>2, <2>3 DEF Writable
<1>4. CASE RewritePath
  BY <1>4 DEF RewritePath, Writable
<1>5. CASE OpenVolume
  BY <1>5 DEF OpenVolume, ReadReturns
<1>6. CASE OpenFile
  BY <1>6 DEF OpenFile, ReadReturns
<1>7. CASE GetFileSize
  BY <1>7 DEF GetFileSize, ReadReturns
<1>8. CASE GetFileData
  BY <1>8 DEF GetFileData, ReadReturns
<1>9. CASE RelativePath
  BY <1>9 DEF RelativePath
<1>10. CASE FreeName
  BY <1>10 DEF FreeName
<1>11. CASE Fallback
  BY <1>11 DEF Fallback
<1>12. CASE AbsolutePath
  BY <1>12 DEF AbsolutePath
<1>13. CASE CheckBuffer
  BY <1>13 DEF CheckBuffer
<1>14. CASE LoadImage
  <2>1. /\ at' \in {"start", "release"}
        /\ images' \subseteq {"current", "refused"}
    BY <1>14 DEF LoadImage
  <2>2. UNCHANGED <<launcher, written, source, volume, file, loaderPath,
                    buffer, size, imagePath, faults>>
    BY <1>14 DEF LoadImage
  <2> QED
    BY <2>1, <2>2
<1>15. CASE StartImage
  BY <1>15 DEF StartImage
<1>16. CASE ImageReturns
  BY <1>16 DEF ImageReturns
<1>17. CASE Release
  BY <1>17 DEF Release
<1>18. CASE UNCHANGED vars
  BY <1>18 DEF vars
<1> QED
  BY <1>1, <1>2, <1>3, <1>4, <1>5, <1>6, <1>7, <1>8, <1>9, <1>10,
     <1>11, <1>12, <1>13, <1>14, <1>15, <1>16, <1>17, <1>18 DEF Next, Loading

LEMMA NextLedger == LaunchInv /\ [Next]_vars => Ledger'
<1> SUFFICES ASSUME LaunchInv, [Next]_vars PROVE Ledger'
  OBVIOUS
<1> USE DEF LaunchInv, TypeOK, Ledger, HeldFiles, HeldName, HeldImage,
            HeldBlocks, IdlePoints,
            ReadPoints, Sources, readVars, ledger
<1>1. CASE PressEnter \/ LocateFileSystem
  BY <1>1 DEF PressEnter, LocateFileSystem
<1>2. CASE CopyFullName
  BY <1>2 DEF CopyFullName
<1>3. CASE RewritePath
  BY <1>3 DEF RewritePath
<1>4. CASE OpenVolume
  BY <1>4 DEF OpenVolume, ReadReturns
<1>5. CASE OpenFile
  BY <1>5 DEF OpenFile, ReadReturns
<1>6. CASE GetFileSize
  BY <1>6 DEF GetFileSize, ReadReturns
<1>7. CASE GetFileData
  BY <1>7 DEF GetFileData, ReadReturns
<1>8. CASE RelativePath \/ FreeName
  BY <1>8 DEF RelativePath, FreeName
<1>9. CASE Fallback
  BY <1>9 DEF Fallback
<1>10. CASE AbsolutePath \/ CheckBuffer
  BY <1>10 DEF AbsolutePath, CheckBuffer
<1>11. CASE LoadImage \/ StartImage \/ ImageReturns
  BY <1>11 DEF LoadImage, StartImage, ImageReturns
<1>12. CASE Release
  BY <1>12 DEF Release
<1>13. CASE UNCHANGED vars
  BY <1>13 DEF vars
<1> QED
  BY <1>1, <1>2, <1>3, <1>4, <1>5, <1>6, <1>7, <1>8, <1>9, <1>10, <1>11,
     <1>12, <1>13 DEF Next, Loading

(* The chain-loader's type invariant and ledger hold in every reachable    *)
(* state of 启动OpenCore and its caller.                                    *)
THEOREM LaunchInvariant == Spec => []LaunchInv
<1>1. LaunchInv /\ [Next]_vars => LaunchInv'
  BY NextTypeOK, NextLedger DEF LaunchInv
<1> QED
  BY <1>1, InitLaunch, PTL DEF Spec

----------------------------------------------------------------------------
LEMMA LedgerSuffices == LaunchInv => LoopHoldsNothing /\ ImageIsConsistent
<1>1. LaunchInv => LoopHoldsNothing
  BY DEF LaunchInv, TypeOK, Ledger, HeldFiles, HeldName, HeldImage, HeldBlocks,
         IdlePoints, ReadPoints, Sources, LoopHoldsNothing
<1>2. LaunchInv => ImageIsConsistent
  BY DEF LaunchInv, TypeOK, Ledger, HeldBlocks, Sources, ImageIsConsistent,
         NoFileNoPath
<1> QED
  BY <1>1, <1>2

(* Back in the key loop nothing is held, whichever services failed: every  *)
(* exit of 启动OpenCore and OcReadFile releases what it acquired.           *)
THEOREM LoopIsClean == Spec => []LoopHoldsNothing
  BY LedgerSuffices, LaunchInvariant, PTL

(* The buffer, its size and the device path given to OcLoadAndRunImage     *)
(* belong to the same file.                                                *)
THEOREM ConsistentImage == Spec => []ImageIsConsistent
  BY LedgerSuffices, LaunchInvariant, PTL

(* The ASSERT (ImagePath == NULL) of 启动OpenCore never fires.              *)
THEOREM AssertionHolds == Spec => []NoFileNoPath
<1>1. LaunchInv => NoFileNoPath
  BY DEF LaunchInv, Ledger, HeldBlocks, NoFileNoPath
<1> QED
  BY <1>1, LaunchInvariant, PTL

(* The variables of the chain-loader keep their types for any set of       *)
(* launchers and failures: buffer, size and image path are each empty or   *)
(* of one of the two files, and no assertion beside those known fails.     *)
THEOREM TypeCorrect == Spec => []TypeOK
  BY LaunchInvariant, PTL DEF LaunchInv

----------------------------------------------------------------------------
(* A set of natural numbers that is not empty has a least element.         *)
LEMMA LeastNatural ==
  ASSUME NEW S, S \subseteq Nat, S # {}
  PROVE  \E k \in S : \A j \in S : k <= j
<1>1. PICK k \in S : \A j \in S : <<j, k>> \notin OpToRel(<, Nat)
  BY NatLessThanWellFounded, WFMin, Zenon
<1>2. ASSUME NEW j \in S PROVE k <= j
  <2>1. ~ (<<j, k>> \in {ss \in Nat \X Nat : ss[1] < ss[2]})
    BY <1>1, Zenon DEF OpToRel
  <2>2. ~ (j < k)
    BY <2>1
  <2> QED BY <2>2
<1> QED BY <1>2

(* Names have a number of characters: the sum of their lengths is defined  *)
(* for each beginning of the path.                                         *)
LEMMA CharactersType ==
  ASSUME NEW names \in Seq(Nat) PROVE Characters(names) \in Nat
<1> DEFINE L == Len(names)
           Sums(f, k) == \A n \in 0 .. k :
                           f[n] = IF n = 0 THEN 0 ELSE f[n - 1] + names[n]
           Bad == {k \in 0 .. L : \A f \in [0 .. k -> Nat] : ~Sums(f, k)}
           first[n \in 0 .. L] == IF n = 0 THEN 0 ELSE first[n - 1] + names[n]
<1>1. L \in Nat /\ \A n \in 1 .. L : names[n] \in Nat
  OBVIOUS
<1> HIDE DEF L
<1>2. Bad = {}
  <2>1. SUFFICES ASSUME Bad # {} PROVE FALSE
    OBVIOUS
  <2>2. PICK k \in Bad : \A m \in Bad : k <= m
    <3>1. Bad \subseteq Nat
      BY <1>1
    <3> HIDE DEF Bad
    <3> QED BY <2>1, <3>1, LeastNatural
  <2>3. k \in 0 .. L /\ \A f \in [0 .. k -> Nat] : ~Sums(f, k)
    BY <2>2
  <2>4. CASE k = 0
    <3>1. [n \in 0 .. 0 |-> 0] \in [0 .. 0 -> Nat]
      OBVIOUS
    <3>2. Sums([n \in 0 .. 0 |-> 0], 0)
      OBVIOUS
    <3> QED BY <2>3, <2>4, <3>1, <3>2
  <2>5. CASE k # 0
    <3>1. k - 1 \in 0 .. L /\ k - 1 \notin Bad
      <4>1. k \in Nat /\ k - 1 \in 0 .. L
        BY <1>1, <2>3, <2>5
      <4>2. \A m \in Bad : k <= m
        BY <2>2
      <4> HIDE DEF Bad
      <4>3. k - 1 \notin Bad
        BY <4>1, <4>2
      <4> QED BY <4>1, <4>3
    <3>2. PICK f \in [0 .. k - 1 -> Nat] : Sums(f, k - 1)
      BY <3>1
    <3> DEFINE g == [n \in 0 .. k |->
                       IF n = k THEN f[k - 1] + names[k] ELSE f[n]]
    <3>3. k \in Nat /\ names[k] \in Nat /\ f[k - 1] \in Nat
      BY <1>1, <2>3, <2>5, <3>2
    <3>4. g \in [0 .. k -> Nat]
      BY <3>2, <3>3
    <3>5. Sums(g, k)
      <4> SUFFICES ASSUME NEW n \in 0 .. k
                   PROVE  g[n] = IF n = 0 THEN 0 ELSE g[n - 1] + names[n]
        OBVIOUS
      <4>1. CASE n = k
        BY <2>5, <3>3, <4>1
      <4>2. CASE n # k
        <5>1. n \in 0 .. k - 1 /\ g[n] = f[n]
          BY <3>3, <4>2
        <5>2. n # 0 => g[n - 1] = f[n - 1]
          BY <3>3, <5>1
        <5> QED BY <3>2, <5>1, <5>2
      <4> QED BY <4>1, <4>2
    <3> QED BY <2>3, <3>4, <3>5
  <2> QED BY <2>4, <2>5
<1>3. \E f : f = [n \in 0 .. L |-> IF n = 0 THEN 0 ELSE f[n - 1] + names[n]]
  <2>1. L \in 0 .. L
    BY <1>1
  <2>2. PICK f \in [0 .. L -> Nat] : Sums(f, L)
    BY <1>2, <2>1
  <2>3. f = [n \in 0 .. L |-> IF n = 0 THEN 0 ELSE f[n - 1] + names[n]]
    BY <2>2
  <2> QED BY <2>3
<1>4. first = [n \in 0 .. L |-> IF n = 0 THEN 0 ELSE first[n - 1] + names[n]]
  BY <1>3
<1> HIDE DEF first
<1> DEFINE Wrong == {n \in 0 .. L : first[n] \notin Nat}
<1>5. Wrong = {}
  <2>1. SUFFICES ASSUME Wrong # {} PROVE FALSE
    OBVIOUS
  <2>2. PICK n \in Wrong : \A m \in Wrong : n <= m
    <3>1. Wrong \subseteq Nat
      BY <1>1
    <3> HIDE DEF Wrong
    <3> QED BY <2>1, <3>1, LeastNatural
  <2>3. n \in 0 .. L /\ first[n] = IF n = 0 THEN 0 ELSE first[n - 1] + names[n]
    BY <1>4, <2>2
  <2>4. n # 0
    BY <2>2, <2>3
  <2>5. n - 1 \in 0 .. L /\ n - 1 \notin Wrong
    BY <1>1, <2>2, <2>3, <2>4
  <2>6. names[n] \in Nat /\ first[n - 1] \in Nat
    BY <1>1, <2>3, <2>4, <2>5
  <2> QED BY <2>2, <2>3, <2>4, <2>6
<1>6. first[L] \in Nat
  BY <1>1, <1>5
<1> QED BY <1>6 DEF Characters, first, L

(* A path loaded from has a length, and so has what the rewriting leaves.  *)
LEMMA TextSizeType ==
  ASSUME NEW l \in Launchers
  PROVE  TextSize(l) \in Nat /\ TextSize(Grandparent(l)) \in Nat
<1>1. ASSUME NEW p, p.names \in Seq(Nat) PROVE TextSize(p) \in Nat
  <2>1. Characters(p.names) \in Nat
    BY <1>1, CharactersType
  <2> QED
    BY <1>1, <2>1 DEF TextSize
<1>2. l.names \in Seq(Nat)
  BY LaunchersAssumption
<1>3. ASSUME NEW p, p.names \in Seq(Nat) PROVE Parent(p).names \in Seq(Nat)
  <2>1. CASE p.names = <<>>
    BY <2>1 DEF Parent
  <2>2. CASE p.names # <<>>
    <3>1. Parent(p).names = SubSeq(p.names, 1, Len(p.names) - 1)
      BY <2>2 DEF Parent, Front
    <3> QED
      BY <1>3, <2>2, <3>1
  <2> QED BY <2>1, <2>2
<1>4. Grandparent(l).names \in Seq(Nat)
  BY <1>2, <1>3 DEF Grandparent
<1> QED
  BY <1>1, <1>2, <1>4

(* RewriteFits is exactly what keeps the name appended in place within the *)
(* block of the launcher's path: 启动OpenCore, wherever it was loaded from, *)
(* writes no character behind the path's old terminator.                   *)
THEOREM RewriteIsInside == Spec => []RewriteStaysInside
<1> DEFINE Inside == launcher \in Launchers /\ RewriteStaysInside
<1>1. Init => Inside
  <2> SUFFICES ASSUME Init PROVE Inside
    OBVIOUS
  <2>1. launcher \in Launchers /\ written = 0
    BY DEF Init
  <2>2. TextSize(launcher) \in Nat
    BY <2>1, TextSizeType
  <2> QED
    BY <2>1, <2>2 DEF RewriteStaysInside
<1>2. Inside /\ [Next]_vars => Inside'
  <2> SUFFICES ASSUME Inside, [Next]_vars PROVE Inside'
    OBVIOUS
  <2>1. launcher' = launcher
    BY DEF Next, Loading, vars, PressEnter,
         LocateFileSystem, CopyFullName, RewritePath,
         OpenVolume, OpenFile, GetFileSize,
         GetFileData, RelativePath, FreeName,
         Fallback, AbsolutePath, CheckBuffer,
         LoadImage, StartImage, ImageReturns,
         Release
  <2>2. \/ written' = written
        \/ written' = 0
        \/ RewriteFits(launcher) /\ written' = RewriteEnd(launcher)
    BY DEF Next, Loading, vars, PressEnter,
         LocateFileSystem, CopyFullName, RewritePath,
         OpenVolume, OpenFile, GetFileSize,
         GetFileData, RelativePath, FreeName,
         Fallback, AbsolutePath, CheckBuffer,
         LoadImage, StartImage, ImageReturns,
         Release
  <2>3. /\ TextSize(launcher) \in Nat
        /\ TextSize(Grandparent(launcher)) \in Nat
    BY TextSizeType
  <2>4. written' <= TextSize(launcher)
    <3>1. CASE written' = written
      BY <3>1 DEF RewriteStaysInside
    <3>2. CASE written' = 0
      BY <2>3, <3>2
    <3>3. CASE /\ RewriteFits(launcher)
               /\ written' = RewriteEnd(launcher)
      BY <2>3, <3>3, LaunchersAssumption DEF RewriteFits, RewriteEnd
    <3> QED BY <2>2, <3>1, <3>2, <3>3
  <2>5. TextSize(launcher)' = TextSize(launcher)
    BY <2>1
  <2> QED
    BY <2>1, <2>4, <2>5 DEF RewriteStaysInside
<1>3. Inside => RewriteStaysInside
  OBVIOUS
<1> QED
  BY <1>1, <1>2, <1>3, PTL DEF Spec

----------------------------------------------------------------------------
(* The session.                                                            *)

(* Who is at work, and that the others are not.                            *)
Turns ==
  /\ mode # "attempt" => attemptAt = "menu"
  /\ mode \in {"starting", "menu", "attempt"} => at = "loop"

(* What the boot manager holds between its steps.                          *)
AttemptHolds ==
  /\ image # "none" \/ ramDisk # Attempt!NoDisk =>
       attemptAt \in {"loadFailed", "start", "running"}
  /\ fileBuffer # "null" => attemptAt = "load"

(* Only a program still running, or one that was chain-loaded, leaves the  *)
(* watchdog armed.                                                         *)
WatchdogHolds ==
  watchdog = "armed" =>
    \/ mode \in {"starting", "closed"}
    \/ mode = "attempt" /\ attemptAt = "running"
    \/ armedBy = "launch"

SessionInv == Turns /\ AttemptHolds /\ LaunchInv /\ WatchdogHolds

----------------------------------------------------------------------------
(* The steps of the two components as they are.                            *)

LEMMA AttemptSteps ==
  ASSUME AttemptHolds, Attempt!Searching \/ Attempt!ImageReturns
  PROVE  /\ AttemptHolds'
         /\ attemptAt # "menu"
         /\ Attempt!Searching => attemptAt # "running"
<1> USE DEF AttemptHolds, Attempt!expansion, Attempt!rest, Attempt!NoDisk
<1>1. CASE Attempt!LegacyBoot \/ Attempt!ExpandMedia
  BY <1>1 DEF Attempt!LegacyBoot, Attempt!ExpandMedia
<1>2. CASE Attempt!ExpandLoadFile
  BY <1>2 DEF Attempt!ExpandLoadFile
<1>3. CASE Attempt!ExpandUri \/ Attempt!NoMoreLoaders
  BY <1>3 DEF Attempt!ExpandUri, Attempt!NoMoreLoaders
<1>4. CASE Attempt!SkipLoader \/ Attempt!TakeCandidate \/ Attempt!PassCandidate
  BY <1>4 DEF Attempt!SkipLoader, Attempt!TakeCandidate, Attempt!PassCandidate
<1>5. CASE Attempt!ReadImage \/ Attempt!NotFound
  BY <1>5 DEF Attempt!ReadImage, Attempt!NotFound
<1>6. CASE Attempt!LoadImage \/ Attempt!LoadFailed
  BY <1>6 DEF Attempt!LoadImage, Attempt!LoadFailed
<1>7. CASE Attempt!StartImage
  BY <1>7 DEF Attempt!StartImage
<1>8. CASE Attempt!ImageReturns
  <2>1. /\ attemptAt = "running" /\ attemptAt' = "menu"
        /\ image' = "none" /\ ramDisk' = Attempt!NoDisk
        /\ UNCHANGED fileBuffer
    BY <1>8 DEF Attempt!ImageReturns
  <2>2. ~Attempt!Searching
    BY <2>1 DEF Attempt!Searching, Attempt!LegacyBoot, Attempt!ExpandMedia,
         Attempt!ExpandLoadFile, Attempt!ExpandUri, Attempt!SkipLoader,
         Attempt!TakeCandidate, Attempt!PassCandidate, Attempt!NoMoreLoaders,
         Attempt!ReadImage, Attempt!NotFound, Attempt!LoadImage,
         Attempt!LoadFailed, Attempt!StartImage
  <2> QED
    BY <2>1, <2>2
<1> QED
  BY <1>1, <1>2, <1>3, <1>4, <1>5, <1>6, <1>7, <1>8 DEF Attempt!Searching

(* The boot manager arms the watchdog when it starts the image, and leaves *)
(* it alone before.                                                        *)
LEMMA AttemptWatchdog ==
  Attempt!Searching => attemptAt' = "running" \/ watchdog' = watchdog
BY DEF Attempt!Searching, Attempt!expansion, Attempt!rest, Attempt!LegacyBoot,
     Attempt!ExpandMedia, Attempt!ExpandLoadFile, Attempt!ExpandUri,
     Attempt!SkipLoader, Attempt!TakeCandidate, Attempt!PassCandidate,
     Attempt!NoMoreLoaders, Attempt!ReadImage, Attempt!NotFound,
     Attempt!LoadImage, Attempt!LoadFailed, Attempt!StartImage

(* The chain-loader's steps are steps of its own specification.            *)
LEMMA LaunchSteps ==
  ASSUME LaunchInv,
         PressEnter \/ Loading \/ ImageReturns
  PROVE  LaunchInv'
BY NextTypeOK, NextLedger DEF LaunchInv, Next

----------------------------------------------------------------------------
LEMMA InitSession == SessionInit => SessionInv
<1> SUFFICES ASSUME SessionInit PROVE SessionInv
  OBVIOUS
<1>1. LaunchInv
  BY InitLaunch DEF SessionInit
<1> QED
  BY <1>1 DEF SessionInit, SessionInv, Turns, AttemptHolds, WatchdogHolds, Init

LEMMA NextSession == SessionInv /\ [SessionNext]_sessionVars => SessionInv'
<1> SUFFICES ASSUME SessionInv, [SessionNext]_sessionVars PROVE SessionInv'
  OBVIOUS
<1> USE DEF SessionInv, Turns, WatchdogHolds, choice, machine
<1> DEFINE AttemptIdle == UNCHANGED attemptVars
           LaunchIdle == UNCHANGED vars
<1>a. ASSUME AttemptIdle PROVE AttemptHolds'
  BY <1>a DEF AttemptHolds, attemptVars
<1>l. ASSUME LaunchIdle PROVE LaunchInv'
  BY <1>l, NextTypeOK, NextLedger DEF LaunchInv, vars
<1>1. CASE Open
  BY <1>1, <1>a, <1>l DEF Open, attemptVars, vars
<1>2. CASE Move \/ Leave
  BY <1>2, <1>a, <1>l DEF Move, Leave, attemptVars, vars
<1>3. CASE EnterOption
  <2>1. AttemptHolds'
    BY <1>3 DEF EnterOption, Attempt!PressEnter, AttemptHolds
  <2>2. LaunchInv' /\ at' = at
    BY <1>3, <1>l DEF EnterOption, vars
  <2> QED
    BY <1>3, <2>1, <2>2 DEF EnterOption, Attempt!PressEnter
<1>4. CASE EnterApple
  <2>1. LaunchInv'
    BY <1>4, LaunchSteps DEF EnterApple
  <2>2. AttemptHolds' /\ attemptAt' = attemptAt
    BY <1>4, <1>a DEF EnterApple, attemptVars
  <2> QED
    BY <1>4, <2>1, <2>2 DEF EnterApple
<1>5. CASE BootManager
  <2>1. AttemptHolds' /\ attemptAt # "running"
    BY <1>5, AttemptSteps DEF BootManager
  <2>2. LaunchInv' /\ at' = at
    BY <1>5, <1>l DEF BootManager, vars
  <2>3. attemptAt' = "running" \/ watchdog' = watchdog
    BY <1>5, AttemptWatchdog DEF BootManager
  <2> QED
    BY <1>5, <2>1, <2>2, <2>3 DEF BootManager
<1>6. CASE AttemptReturns
  <2>1. AttemptHolds'
    BY <1>6, AttemptSteps DEF AttemptReturns
  <2>2. LaunchInv' /\ at' = at
    BY <1>6, <1>l DEF AttemptReturns, vars
  <2> QED
    BY <1>6, <2>1, <2>2 DEF AttemptReturns, Attempt!ImageReturns
<1>7. CASE ChainLoader \/ OpenCoreReturns
  <2>1. LaunchInv'
    BY <1>7, LaunchSteps DEF ChainLoader, OpenCoreReturns
  <2>2. AttemptHolds' /\ attemptAt' = attemptAt
    BY <1>7, <1>a DEF ChainLoader, OpenCoreReturns, attemptVars
  <2>3. mode = "launch" /\ UNCHANGED <<armedBy, watchdog>>
    BY <1>7 DEF ChainLoader, OpenCoreReturns
  <2>4. \/ mode' = "launch"
        \/ mode' = "menu" /\ at' = "loop"
        \/ mode' = "closed"
    BY <1>7, <2>3 DEF ChainLoader, OpenCoreReturns
  <2> QED
    BY <2>1, <2>2, <2>3, <2>4
<1>8. CASE ImageActs
  <2>1. AttemptHolds' /\ LaunchInv' /\ UNCHANGED <<mode, attemptAt, at>>
    BY <1>8, <1>a, <1>l DEF ImageActs, attemptVars, vars
  <2> QED
    BY <1>8, <2>1 DEF ImageActs, Running
<1>9. CASE WatchdogFires
  <2>1. TypeOK'
    BY <1>9 DEF WatchdogFires, LaunchInv, TypeOK, Sources,
         Writable
  <2>2. Ledger'
    BY <1>9 DEF WatchdogFires, Ledger, HeldFiles, HeldName, HeldImage,
         HeldBlocks, IdlePoints, ReadPoints
  <2> QED
    BY <1>9, <2>1, <2>2 DEF WatchdogFires, AttemptHolds, LaunchInv
<1>10. CASE UNCHANGED sessionVars
  BY <1>10, <1>a, <1>l DEF sessionVars, attemptVars, vars
<1> QED
  BY <1>1, <1>2, <1>3, <1>4, <1>5, <1>6, <1>7, <1>8, <1>9, <1>10
  DEF SessionNext

(* What each part of the program holds while another is at work.           *)
THEOREM SessionHolds == SessionSpec => []SessionInv
  BY InitSession, NextSession, PTL DEF SessionSpec

----------------------------------------------------------------------------
(* UefiMain's key loop always finds the machine quiet: EfiBootManagerBoot  *)
(* and 启动OpenCore leave nothing of their own behind for each other, and   *)
(* no watchdog but that of a chain-loaded program.                         *)
THEOREM MenuStaysQuiet == SessionSpec => []MenuIsQuiet
<1>1. SessionInv => MenuIsQuiet
  <2> SUFFICES ASSUME SessionInv, mode = "menu" PROVE MenuIsQuiet
    BY DEF MenuIsQuiet
  <2>1. attemptAt = "menu" /\ at = "loop"
    BY DEF SessionInv, Turns
  <2>2. /\ buffer = "null" /\ imagePath = "null"
        /\ volume = "closed" /\ file = "closed" /\ "current" \notin images
    BY <2>1 DEF SessionInv, LaunchInv, Ledger, HeldFiles, HeldImage,
         HeldBlocks, IdlePoints, TypeOK
  <2> QED
    BY <2>1, <2>2 DEF SessionInv, AttemptHolds, WatchdogHolds, MenuIsQuiet
<1> QED
  BY <1>1, SessionHolds, PTL

(* However entries of both kinds alternate, and however often the machine  *)
(* is reset in between, 启动OpenCore comes back to the key loop with        *)
(* nothing held and gives LoadImage what belongs together.                 *)
THEOREM LaunchInSession ==
  SessionSpec => [](LoopHoldsNothing /\ ImageIsConsistent)
<1>1. SessionInv => LoopHoldsNothing /\ ImageIsConsistent
  BY LedgerSuffices DEF SessionInv
<1> QED
  BY <1>1, SessionHolds, PTL
=============================================================================
