-------------------------- MODULE BootAttemptProofs --------------------------
(***************************************************************************)
(* Theorems about BootAttempt, for any number of load file instances, any  *)
(* room for RAM disks and whatever may go wrong: the menu is quiet after   *)
(* every attempt, an image keeps its RAM disk, no disk is destroyed twice, *)
(* and none stays behind while images are usable and disks have a device.  *)
(*                                                                         *)
(* The properties speak of the disk of the running image; to get there the *)
(* invariant has to follow the disk from the moment its path is found: the *)
(* path being read or loaded names an existing disk, and RamDiskDevicePath *)
(* is set only between the load and its release.                           *)
(***************************************************************************)
EXTENDS BootAttempt, TLAPS

(* A full path leads to a disk that exists.                                *)
DiskExists(disks, d) == d # NoDisk => disks[d] # 0

HeldDisk ==
  /\ ramDisk # NoDisk => at \in {"loadFailed", "start", "running"}
  /\ DiskExists(owner, ramDisk)

FoundDisk == at \in {"read", "load"} => DiskExists(owner, path.disk)

HeldImage ==
  /\ image # "none" => at \in {"loadFailed", "start", "running"}
  /\ buffer # "null" => at = "load"
  /\ watchdog = "armed" => at = "running"

IInv == TypeOK /\ HeldDisk /\ FoundDisk /\ HeldImage /\ NoDiskDestroyedTwice

(* The paths that name no disk, or one, are full paths.                    *)
LEMMA PathTypes ==
  /\ NoPath \in Paths /\ NoPath.disk = NoDisk
  /\ \A l \in 1 .. Loaders, d \in Disks \union {NoDisk} :
       LoadedPath(l, d) \in Paths /\ LoadedPath(l, d).disk = d
  /\ \A k \in 1 .. MaxFiles :
       FilePath(k) \in Paths /\ FilePath(k).disk = NoDisk
<1>1. NoPath \in Paths /\ NoPath.disk = NoDisk
  BY AttemptAssumption DEF NoPath, Paths, NoDisk
<1>2. ASSUME NEW l \in 1 .. Loaders, NEW d \in Disks \union {NoDisk}
      PROVE  LoadedPath(l, d) \in Paths /\ LoadedPath(l, d).disk = d
  <2>1. LoadedPath(l, d) = [via |-> l, disk |-> d, nth |-> 0]
    BY DEF LoadedPath
  <2>2. l \in 0 .. Loaders /\ 0 \in 0 .. MaxFiles
    BY AttemptAssumption
  <2> QED BY <2>1, <2>2 DEF Paths
<1>3. ASSUME NEW k \in 1 .. MaxFiles
      PROVE  FilePath(k) \in Paths /\ FilePath(k).disk = NoDisk
  <2>1. FilePath(k) = [via |-> 0, disk |-> NoDisk, nth |-> k]
    BY DEF FilePath, NoPath
  <2>2. 0 \in 0 .. Loaders /\ k \in 0 .. MaxFiles
    BY AttemptAssumption
  <2> QED BY <2>1, <2>2 DEF Paths
<1> QED BY <1>1, <1>2, <1>3

(* Destroying a disk keeps the type of the disks.                          *)
LEMMA DestroyedType ==
  ASSUME NEW disks \in [Disks -> 0 .. Loaders], NEW d
  PROVE  Destroyed(disks, d) \in [Disks -> 0 .. Loaders]
<1>1. 0 \in 0 .. Loaders
  BY AttemptAssumption
<1>2. [disks EXCEPT ![d] = 0] \in [Disks -> 0 .. Loaders]
  BY <1>1
<1> QED BY <1>2 DEF Destroyed

(* What asking a load file instance may return: disks and a path of the    *)
(* right type, the path leading to a disk that exists, and no disk         *)
(* destroyed that did not exist.                                           *)
LEMMA ExpansionsAreSound ==
  ASSUME owner \in [Disks -> 0 .. Loaders], NEW l \in 1 .. Loaders,
         NEW x \in Expansions(l)
  PROVE  /\ x.disks \in [Disks -> 0 .. Loaders]
         /\ x.path \in Paths
         /\ DiskExists(x.disks, x.path.disk)
         /\ x.fault \subseteq {"null"}
<1>1. CASE x = [disks |-> owner, path |-> NoPath, fault |-> {}]
  BY <1>1, PathTypes DEF DiskExists
<1>2. CASE x = [disks |-> owner, path |-> LoadedPath(l, NoDisk), fault |-> {}]
  BY <1>2, PathTypes DEF DiskExists
<1>3. ASSUME NEW d \in Disks, x \in OnDisk(l, d)
      PROVE  /\ x.disks \in [Disks -> 0 .. Loaders]
             /\ x.path \in Paths
             /\ DiskExists(x.disks, x.path.disk)
             /\ x.fault \subseteq {"null"}
  <2> DEFINE made == [owner EXCEPT ![d] = l]
             its  == {e \in Disks : made[e] = l}
  <2>1. made \in [Disks -> 0 .. Loaders]
    <3>1. l \in 0 .. Loaders
      BY AttemptAssumption
    <3> QED BY <3>1
  <2>2. \A e \in its : e \in Disks /\ made[e] # 0
    BY AttemptAssumption
  <2>5. \/ \E e \in its : x = [disks |-> made, path |-> LoadedPath(l, e),
                               fault |-> {}]
        \/ \E e \in its : x = [disks |-> Destroyed(made, e),
                               path |-> NoPath, fault |-> {}]
        \/ x = [disks |-> made, path |-> NoPath, fault |-> {"null"}]
    BY <1>3 DEF OnDisk
  <2> HIDE DEF made, its
  <2>6. CASE \E e \in its : x = [disks |-> made, path |-> LoadedPath(l, e),
                                 fault |-> {}]
    BY <2>1, <2>2, <2>6, PathTypes DEF DiskExists
  <2>7. CASE \E e \in its : x = [disks |-> Destroyed(made, e),
                                 path |-> NoPath, fault |-> {}]
    BY <2>1, <2>7, DestroyedType, PathTypes DEF DiskExists
  <2>8. CASE x = [disks |-> made, path |-> NoPath, fault |-> {"null"}]
    BY <2>1, <2>8, PathTypes DEF DiskExists
  <2> QED BY <2>5, <2>6, <2>7, <2>8
<1> QED BY <1>1, <1>2, <1>3 DEF Expansions

(* Destroying a disk that exists is no misuse.                             *)
LEMMA NoMisuse ==
  ASSUME NEW disks, NEW d, DiskExists(disks, d)
  PROVE  Misuse(disks, d) = {}
BY DEF Misuse, DiskExists

(* The invariant holds initially.                                          *)
LEMMA InitIInv == Init => IInv
<1>1. NoDisks \in [Disks -> 0 .. Loaders] /\ 1 \in 1 .. Loaders + 1
  BY AttemptAssumption DEF NoDisks
<1> QED
  BY <1>1, PathTypes
     DEF Init, IInv, TypeOK, HeldDisk, FoundDisk, HeldImage, Kinds,
         DiskExists, NoDiskDestroyedTwice

(* Every step preserves it.                                                *)

LEMMA NextIInv == IInv /\ [Next]_vars => IInv'
<1> SUFFICES ASSUME IInv, [Next]_vars PROVE IInv'
  OBVIOUS
<1> USE AttemptAssumption DEF IInv, TypeOK, HeldDisk, FoundDisk, HeldImage,
          NoDiskDestroyedTwice
<1>0. NoPath \in Paths /\ NoPath.disk = NoDisk
        /\ NoDisks \in [Disks -> 0 .. Loaders]
  BY PathTypes DEF NoDisks
<1>1. CASE PressEnter
  BY <1>0, <1>1 DEF PressEnter, DiskExists
<1>2. CASE LegacyBoot
  BY <1>2 DEF LegacyBoot, expansion
<1>3. CASE ExpandMedia
  <2>1. path.nth < MaxFiles => path.nth + 1 \in 1 .. MaxFiles
    BY DEF Paths
  <2> QED BY <1>0, <1>3, <2>1, PathTypes DEF ExpandMedia, rest, DiskExists
<1>4. CASE ExpandLoadFile
  <2>1. CASE \E l \in 1 .. Loaders : \E x \in Expansions(l) :
               path' = x.path /\ owner' = x.disks
                 /\ faults' = faults \union x.fault
    <3>0. PICK l \in 1 .. Loaders : \E x \in Expansions(l) :
            path' = x.path /\ owner' = x.disks
              /\ faults' = faults \union x.fault
      BY <2>1
    <3>1. PICK x \in Expansions(l) :
            path' = x.path /\ owner' = x.disks
              /\ faults' = faults \union x.fault
      BY <3>0
    <3>2. /\ x.disks \in [Disks -> 0 .. Loaders] /\ x.path \in Paths
          /\ DiskExists(x.disks, x.path.disk) /\ x.fault \subseteq {"null"}
      BY ExpansionsAreSound
    <3> QED BY <1>4, <3>1, <3>2 DEF ExpandLoadFile, rest, DiskExists
  <2>2. CASE path' = NoPath /\ UNCHANGED <<owner, faults>>
    BY <1>0, <1>4, <2>2 DEF ExpandLoadFile, rest, DiskExists
  <2> QED BY <1>4, <2>1, <2>2 DEF ExpandLoadFile
<1>5. CASE ExpandUri
  BY <1>5 DEF ExpandUri, rest
<1>6. CASE SkipLoader
  <2>1. PICK x \in Expansions(loader) :
          owner' = x.disks /\ faults' = faults \union x.fault
    BY <1>6 DEF SkipLoader
  <2>2. loader \in 1 .. Loaders
    BY <1>6 DEF SkipLoader
  <2>3. x.disks \in [Disks -> 0 .. Loaders] /\ x.fault \subseteq {"null"}
    BY <2>2, ExpansionsAreSound
  <2>4. loader' \in 1 .. Loaders + 1
    BY <1>6, <2>2 DEF SkipLoader
  <2> QED BY <1>6, <2>1, <2>3, <2>4 DEF SkipLoader, rest, DiskExists
<1>7. CASE TakeCandidate
  <2>1. PICK x \in Expansions(loader) : path' = x.path /\ owner' = x.disks
    BY <1>7 DEF TakeCandidate
  <2>2. /\ x.disks \in [Disks -> 0 .. Loaders] /\ x.path \in Paths
        /\ DiskExists(x.disks, x.path.disk)
    BY <1>7, ExpansionsAreSound DEF TakeCandidate
  <2> QED BY <1>7, <2>1, <2>2 DEF TakeCandidate, rest, DiskExists
<1>8. CASE PassCandidate
  <2>1. PICK x \in Expansions(loader) :
          /\ getNext' = (x.path = path)
          /\ owner' = Destroyed(x.disks, x.path.disk)
          /\ faults' = faults \union Misuse(x.disks, x.path.disk)
    BY <1>8 DEF PassCandidate
  <2>2. loader \in 1 .. Loaders
    BY <1>8 DEF PassCandidate
  <2>3. /\ x.disks \in [Disks -> 0 .. Loaders]
        /\ DiskExists(x.disks, x.path.disk)
    BY <2>2, ExpansionsAreSound
  <2>4. owner' \in [Disks -> 0 .. Loaders] /\ faults' = faults
    BY <2>1, <2>3, DestroyedType, NoMisuse
  <2>5. loader' \in 1 .. Loaders + 1 /\ getNext' \in BOOLEAN
    BY <1>8, <2>1, <2>2 DEF PassCandidate
  <2> QED BY <1>8, <2>4, <2>5 DEF PassCandidate, rest, DiskExists
<1>9. CASE NoMoreLoaders
  BY <1>0, <1>9 DEF NoMoreLoaders, rest
<1>10. CASE ReadImage
  BY <1>10 DEF ReadImage, expansion
<1>11. CASE NotFound
  BY <1>11 DEF NotFound, expansion
<1>12. CASE LoadImage
  <2>1. path.disk \in Disks \union {NoDisk}
    BY DEF Paths
  <2> QED BY <1>0, <1>12, <2>1 DEF LoadImage
<1>13. CASE LoadFailed
  <2>1. owner' \in [Disks -> 0 .. Loaders] /\ faults' = faults
    BY <1>13, DestroyedType, NoMisuse DEF LoadFailed
  <2> QED BY <1>13, <2>1 DEF LoadFailed, expansion, DiskExists
<1>14. CASE StartImage
  BY <1>14 DEF StartImage, expansion
<1>15. CASE ImageActs
  BY <1>15 DEF ImageActs, expansion
<1>16. CASE ImageReturns
  <2>1. owner' \in [Disks -> 0 .. Loaders] /\ faults' = faults
    BY <1>16, DestroyedType, NoMisuse DEF ImageReturns
  <2> QED BY <1>16, <2>1 DEF ImageReturns, expansion, DiskExists
<1>17. CASE WatchdogFires
  BY <1>0, <1>17 DEF WatchdogFires, DiskExists
<1>18. CASE UNCHANGED vars
  BY <1>18 DEF vars, expansion
<1> QED
  BY <1>1, <1>2, <1>3, <1>4, <1>5, <1>6, <1>7, <1>8, <1>9, <1>10, <1>11,
     <1>12, <1>13, <1>14, <1>15, <1>16, <1>17, <1>18 DEF Next, Searching

(* The inductive invariant holds in every behaviour.                       *)
THEOREM AttemptInvariant == Spec => []IInv
BY InitIInv, NextIInv, PTL DEF Spec

(* After every attempt the menu runs without watchdog, loaded image or     *)
(* file buffer (EfiBootManagerBoot, on each of its returns).               *)
THEOREM MenuStaysQuiet == Spec => []MenuIsQuiet
<1>1. IInv => MenuIsQuiet
  BY DEF IInv, TypeOK, HeldDisk, HeldImage, MenuIsQuiet
<1> QED BY AttemptInvariant, <1>1, PTL

(* The RAM disk an image was read from exists for as long as it runs.      *)
THEOREM ImageKeepsItsDisk == Spec => []DiskOutlivesImage
<1>1. IInv => DiskOutlivesImage
  BY DEF IInv, HeldDisk, DiskExists, DiskOutlivesImage
<1> QED BY AttemptInvariant, <1>1, PTL

(* BmDestroyRamDisk is never given a disk already destroyed.               *)
THEOREM DestroyedOnce == Spec => []NoDiskDestroyedTwice
<1>1. IInv => NoDiskDestroyedTwice
  BY DEF IInv
<1> QED BY AttemptInvariant, <1>1, PTL

----------------------------------------------------------------------------
(* Until an image proves unusable or a disk no block device, at most one   *)
(* RAM disk exists: the one whose path or whose image the boot manager     *)
(* holds.                                                                  *)
Carried == IF at \in {"read", "load"} THEN path.disk ELSE ramDisk

OnlyDisk(disks, d) == \A e \in Disks : disks[e] # 0 => e = d

Honest(f) == f \intersect {"null", "unusable"} = {}

OneDisk == Honest(faults) => OnlyDisk(owner, Carried)

(* Starting from no disk, an expansion that finds its disk's block device  *)
(* leaves at most the disk its path leads to.                              *)
LEMMA ExpansionsLeaveOne ==
  ASSUME owner \in [Disks -> 0 .. Loaders],
         OnlyDisk(owner, NoDisk),
         NEW l \in 1 .. Loaders, NEW x \in Expansions(l),
         x.fault = {} \/ x.path # NoPath
  PROVE  OnlyDisk(x.disks, x.path.disk)
<1>1. CASE x = [disks |-> owner, path |-> NoPath, fault |-> {}]
  BY <1>1, PathTypes DEF OnlyDisk
<1>2. CASE x = [disks |-> owner, path |-> LoadedPath(l, NoDisk), fault |-> {}]
  BY <1>2, PathTypes DEF OnlyDisk
<1>3. ASSUME NEW d \in Disks, x \in OnDisk(l, d)
      PROVE  OnlyDisk(x.disks, x.path.disk)
  <2> DEFINE made == [owner EXCEPT ![d] = l]
             its  == {e \in Disks : made[e] = l}
  <2>1. \A e \in Disks : owner[e] = 0
    BY AttemptAssumption DEF OnlyDisk, Disks, NoDisk
  <2>2. \A e \in Disks : made[e] # 0 => e = d
    BY <2>1
  <2>3. \A e \in its : e = d
    BY <2>1, AttemptAssumption
  <2>4. \/ x = [disks |-> made, path |-> LoadedPath(l, d), fault |-> {}]
        \/ x = [disks |-> Destroyed(made, d), path |-> NoPath, fault |-> {}]
    <3>1. x # [disks |-> made, path |-> NoPath, fault |-> {"null"}]
      OBVIOUS
    <3>2. \/ \E e \in its : x = [disks |-> made, path |-> LoadedPath(l, e),
                                 fault |-> {}]
          \/ \E e \in its : x = [disks |-> Destroyed(made, e),
                                 path |-> NoPath, fault |-> {}]
      BY <1>3, <3>1 DEF OnDisk
    <3> HIDE DEF made, its
    <3> QED BY <2>3, <3>2
  <2>5. CASE x = [disks |-> made, path |-> LoadedPath(l, d), fault |-> {}]
    <3>1. x.disks = made /\ x.path.disk = d
      BY <2>5, PathTypes
    <3> QED BY <2>2, <3>1 DEF OnlyDisk
  <2>6. CASE x = [disks |-> Destroyed(made, d), path |-> NoPath,
                  fault |-> {}]
    <3>1. \A e \in Disks : Destroyed(made, d)[e] = 0
      BY <2>1, AttemptAssumption DEF Destroyed, Disks, NoDisk
    <3>2. x.disks = Destroyed(made, d)
      BY <2>6
    <3> QED BY <3>1, <3>2 DEF OnlyDisk
  <2> QED BY <2>4, <2>5, <2>6
<1> QED BY <1>1, <1>2, <1>3 DEF Expansions

(* Destroying the only disk leaves none.                                   *)
LEMMA DestroyedOnly ==
  ASSUME NEW disks \in [Disks -> 0 .. Loaders], NEW d, OnlyDisk(disks, d)
  PROVE  OnlyDisk(Destroyed(disks, d), NoDisk)
<1>1. CASE d = NoDisk
  BY <1>1 DEF Destroyed, OnlyDisk
<1>2. CASE d # NoDisk
  <2>1. Destroyed(disks, d) = [disks EXCEPT ![d] = 0]
    BY <1>2 DEF Destroyed
  <2>2. \A e \in Disks : Destroyed(disks, d)[e] = 0
    BY <2>1 DEF OnlyDisk
  <2> QED BY <2>2 DEF OnlyDisk
<1> QED BY <1>1, <1>2

(* Every step keeps at most the disk that is carried along.                *)
LEMMA NextOneDisk ==
  ASSUME IInv, OneDisk, [Next]_vars
  PROVE  OneDisk'
<1> SUFFICES ASSUME Honest(faults') PROVE OnlyDisk(owner', Carried')
  BY DEF OneDisk
<1>0. faults \subseteq faults'
  BY DEF Next, Searching, vars, rest, PressEnter, LegacyBoot, ExpandMedia,
         ExpandLoadFile, ExpandUri, SkipLoader, TakeCandidate,
         PassCandidate, NoMoreLoaders, ReadImage, NotFound, LoadImage,
         LoadFailed, StartImage, ImageActs, ImageReturns, WatchdogFires
<1> OnlyDisk(owner, Carried)
  BY <1>0 DEF OneDisk, Honest
<1> USE DEF IInv, TypeOK, HeldDisk
<1>1. CASE PressEnter
  BY <1>1 DEF PressEnter, Carried, OnlyDisk
<1>2. CASE LegacyBoot
  BY <1>2 DEF LegacyBoot, expansion, Carried, OnlyDisk
<1>3. CASE ExpandMedia
  <2>1. path.nth < MaxFiles => path.nth + 1 \in 1 .. MaxFiles
    BY AttemptAssumption DEF Paths
  <2>2. path'.disk = NoDisk
    BY <1>3, <2>1, PathTypes DEF ExpandMedia
  <2>3. OnlyDisk(owner, NoDisk) /\ ramDisk = NoDisk
    BY <1>3 DEF ExpandMedia, Carried
  <2> QED BY <1>3, <2>2, <2>3 DEF ExpandMedia, rest, Carried, OnlyDisk
<1>4. CASE ExpandLoadFile
  <2>1. OnlyDisk(owner, NoDisk) /\ ramDisk = NoDisk
    BY <1>4 DEF ExpandLoadFile, Carried
  <2>2. CASE path' = NoPath /\ UNCHANGED <<owner, faults>>
    BY <1>4, <2>1, <2>2 DEF ExpandLoadFile, rest, Carried, OnlyDisk
  <2>3. CASE \E l \in 1 .. Loaders : \E x \in Expansions(l) :
               path' = x.path /\ owner' = x.disks
                 /\ faults' = faults \union x.fault
    <3>0. PICK l \in 1 .. Loaders : \E x \in Expansions(l) :
            path' = x.path /\ owner' = x.disks
              /\ faults' = faults \union x.fault
      BY <2>3
    <3>1. PICK x \in Expansions(l) :
            path' = x.path /\ owner' = x.disks
              /\ faults' = faults \union x.fault
      BY <3>0
    <3>2. OnlyDisk(x.disks, x.path.disk)
      <4>1. x.fault = {}
        BY <3>1, ExpansionsAreSound DEF Honest
      <4> QED BY <2>1, <4>1, ExpansionsLeaveOne
    <3>3. path' = NoPath => path'.disk = NoDisk
      BY PathTypes
    <3> QED BY <1>4, <2>1, <3>1, <3>2, <3>3
            DEF ExpandLoadFile, rest, Carried, OnlyDisk
  <2> QED BY <1>4, <2>2, <2>3 DEF ExpandLoadFile
<1>5. CASE ExpandUri
  BY <1>5 DEF ExpandUri, rest, Carried, OnlyDisk
<1>6. CASE SkipLoader
  <2>1. OnlyDisk(owner, NoDisk) /\ ramDisk = NoDisk /\ loader \in 1 .. Loaders
    BY <1>6, AttemptAssumption DEF SkipLoader, Carried
  <2>2. PICK x \in Expansions(loader) :
          x.path = NoPath /\ owner' = x.disks
            /\ faults' = faults \union x.fault
    BY <1>6 DEF SkipLoader
  <2>3. OnlyDisk(owner', NoDisk)
    <3>1. x.fault = {}
      BY <2>1, <2>2, ExpansionsAreSound DEF Honest
    <3> QED BY <2>1, <2>2, <3>1, ExpansionsLeaveOne, PathTypes
  <2> QED BY <1>6, <2>1, <2>3 DEF SkipLoader, rest, Carried, OnlyDisk
<1>7. CASE TakeCandidate
  <2>1. OnlyDisk(owner, NoDisk) /\ ramDisk = NoDisk /\ loader \in 1 .. Loaders
    BY <1>7, AttemptAssumption DEF TakeCandidate, Carried
  <2>2. PICK x \in Expansions(loader) :
          x.path # NoPath /\ path' = x.path /\ owner' = x.disks
    BY <1>7 DEF TakeCandidate
  <2>3. OnlyDisk(owner', path'.disk)
    BY <2>1, <2>2, ExpansionsLeaveOne
  <2> QED BY <1>7, <2>3 DEF TakeCandidate, Carried, OnlyDisk
<1>8. CASE PassCandidate
  <2>1. OnlyDisk(owner, NoDisk) /\ ramDisk = NoDisk /\ loader \in 1 .. Loaders
    BY <1>8, AttemptAssumption DEF PassCandidate, Carried
  <2>2. PICK x \in Expansions(loader) :
          x.path # NoPath /\ owner' = Destroyed(x.disks, x.path.disk)
    BY <1>8 DEF PassCandidate
  <2>3. OnlyDisk(owner', NoDisk)
    BY <2>1, <2>2, ExpansionsLeaveOne, ExpansionsAreSound, DestroyedOnly
  <2> QED BY <1>8, <2>1, <2>3 DEF PassCandidate, rest, Carried, OnlyDisk
<1>9. CASE NoMoreLoaders
  BY <1>9 DEF NoMoreLoaders, rest, Carried, OnlyDisk
<1>10. CASE ReadImage
  <2>1. at' = "load"
    BY <1>10 DEF ReadImage, Honest
  <2> QED BY <1>10, <2>1 DEF ReadImage, expansion, Carried, OnlyDisk
<1>11. CASE NotFound
  BY <1>11 DEF NotFound, expansion, Carried, OnlyDisk
<1>12. CASE LoadImage
  BY <1>12 DEF LoadImage, Carried, OnlyDisk
<1>13. CASE LoadFailed
  <2>1. OnlyDisk(owner', NoDisk)
    BY <1>13, DestroyedOnly DEF LoadFailed, Carried
  <2> QED BY <1>13, <2>1 DEF LoadFailed, Carried, OnlyDisk
<1>14. CASE StartImage
  BY <1>14 DEF StartImage, expansion, Carried, OnlyDisk
<1>15. CASE ImageActs
  BY <1>15 DEF ImageActs, expansion, Carried, OnlyDisk
<1>16. CASE ImageReturns
  <2>1. OnlyDisk(owner', NoDisk)
    BY <1>16, DestroyedOnly DEF ImageReturns, Carried
  <2> QED BY <1>16, <2>1 DEF ImageReturns, Carried, OnlyDisk
<1>17. CASE WatchdogFires
  BY <1>17 DEF WatchdogFires, NoDisks, Carried, OnlyDisk
<1>18. CASE UNCHANGED vars
  BY <1>18 DEF vars, expansion, Carried, OnlyDisk
<1> QED
  BY <1>1, <1>2, <1>3, <1>4, <1>5, <1>6, <1>7, <1>8, <1>9, <1>10, <1>11,
     <1>12, <1>13, <1>14, <1>15, <1>16, <1>17, <1>18 DEF Next, Searching

(* As long as the images offered are readable and valid and their disks    *)
(* block devices, every RAM disk made for an attempt is destroyed before   *)
(* the menu is back, on whichever path the attempt fails.                  *)
THEOREM NoDiskLeaks == Spec => []DisksAreReleased
<1>1. Init => OneDisk
  BY DEF Init, OneDisk, OnlyDisk, NoDisks
<1>2. IInv /\ OneDisk /\ [Next]_vars => OneDisk'
  BY NextOneDisk
<1>3. IInv /\ OneDisk => DisksAreReleased
  <2> SUFFICES ASSUME IInv, OneDisk, at = "menu", Honest(faults)
                PROVE  owner = NoDisks
    BY DEF DisksAreReleased, Honest
  <2>1. ramDisk = NoDisk /\ Carried = NoDisk
    BY DEF IInv, HeldDisk, Carried
  <2>2. \A e \in Disks : owner[e] = 0
    BY <2>1, AttemptAssumption DEF OneDisk, OnlyDisk, Disks, NoDisk
  <2>3. owner \in [Disks -> 0 .. Loaders]
    BY DEF IInv, TypeOK
  <2> QED BY <2>2, <2>3 DEF NoDisks
<1> QED BY AttemptInvariant, <1>1, <1>2, <1>3, PTL DEF Spec

(* The variables of a boot attempt keep their types for any number of load *)
(* file instances, files and disks: the search never asks an instance      *)
(* that does not exist, and every path carried is one of the known paths.  *)
THEOREM TypeCorrect == Spec => []TypeOK
  BY AttemptInvariant, PTL DEF IInv
=============================================================================
