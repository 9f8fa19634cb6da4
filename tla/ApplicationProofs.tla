-------------------------- MODULE ApplicationProofs --------------------------
(***************************************************************************)
(* What the applications acquire they release, and the picture they draw   *)
(* is the one of the file: for every number of boot options, every set of  *)
(* calls that fail and every picture.                                      *)
(*                                                                         *)
(* The start-up of UefiMain comes first.  Its properties speak of its end; *)
(* the invariant says for every program point before it which pointers are *)
(* assigned there, and which of them hold a block.                         *)
(*                                                                         *)
(* The small programs are lists of steps.  An outline of such a list says  *)
(* what is held before each step; the invariant says that a program holds  *)
(* what its outline says, short of what failed calls did not yield, or is  *)
(* giving back exactly what it still holds.                                *)
(***************************************************************************)
EXTENDS TianjiResources, SmallApps, SequenceTheorems, TLAPS

----------------------------------------------------------------------------
(* UefiMain and its image reader.                                          *)

(* Points of the start-up, each set without the first ones of the former.  *)
WithEntries == {"entries", "classify", "iconSize", "icons", "drawIcon",
                "pointer", "pointerBuffers", "loop"}
WithName == WithEntries \union {"background", "options"}
WithRoot == WithName \union {"gop", "name"}
BeforeList == {"watchdog", "root", "gop", "name", "background", "options"}

Counts ==
  /\ at \in BeforeList => scanned = 0 /\ recorded = 0
  /\ at = "drawIcon" \/ (at = "icons" /\ reader # "idle") => iconsDone < recorded

ReaderHolds ==
  /\ reader # "idle" => at \in Reading
  /\ reader \in {"idle", "open"} => file = "closed" /\ info = "null" /\ data = "null"
  /\ reader = "info" => info = "null" /\ data = "null"
  /\ lost \subseteq {"info"}

(* The three pointers of one turn of the icon loop hold blocks only there. *)
IconsHold ==
  /\ at # "drawIcon" =>
       ptr["iconBg"] \notin {"live", "null"} /\ ptr["iconMix"] # "live"
  /\ at = "drawIcon" /\ ptr["iconBg"] \in {"live", "null"} =>
       ptr["iconMix"] \in {"live", "null"}
  /\ at = "drawIcon" => ptr["icon"] = "live"
  /\ at = "icons" /\ reader = "converted" => ptr["icon"] = "live"
  /\ ptr["icon"] = "live" =>
       at = "drawIcon" \/ (at = "icons" /\ reader = "converted")

Assigned ==
  /\ at \in WithRoot => ptr["root"] = "live"
  /\ at \in WithName => ptr["name"] # "junk"
  /\ at \in WithEntries => ptr["bootOptions"] # "junk"
  /\ at = "loop" => ptr["pointerBg"] # "junk" /\ ptr["pointerMix"] # "junk"
  /\ \A p \in {"entries", "background", "iconSize", "pointer"} : ptr[p] # "junk"

AfterBreak ==
  exit = "break" =>
    /\ at \in {"freeBuffer", "closeFile", "returned"}
    /\ at = "freeBuffer" => \A p \in MainPointers : ptr[p] # "junk"
    /\ at \in {"freeBuffer", "closeFile"} => ptr["root"] = "live"
    /\ at # "freeBuffer" => \A p \in MainPointers : ptr[p] # "live"
    /\ at = "returned" => ptr["root"] # "live"

Unfreed ==
  /\ at \notin {"closeFile", "returned"} =>
       \A p \in MainPointers : ptr[p] # "freed"
  /\ at # "returned" => ptr["root"] # "freed"

Faulty ==
  /\ \A f \in faults : f[2] # "freed"
  /\ at \notin {"closeFile", "returned"} \/ exit = "break" =>
       \A f \in faults : f[1] \in IconPointers

Ledger == IconsHold /\ Assigned /\ AfterBreak /\ Unfreed /\ Faulty

IInv == TypeOK /\ Counts /\ ReaderHolds /\ Ledger

----------------------------------------------------------------------------
LEMMA InitIInv == Init => IInv
<1> SUFFICES ASSUME Init PROVE IInv
  OBVIOUS
<1> USE DEF Init, Pointers, MainPointers, IconPointers
<1>1. TypeOK
  BY DEF TypeOK, Values, Points
<1>2. Counts /\ ReaderHolds
  BY ResourcesAssumption DEF Counts, ReaderHolds
<1>3. IconsHold /\ Assigned
  BY DEF IconsHold, Assigned, WithRoot, WithName, WithEntries
<1>4. AfterBreak /\ Unfreed /\ Faulty
  BY DEF AfterBreak, Unfreed, Faulty
<1> QED
  BY <1>1, <1>2, <1>3, <1>4 DEF IInv, Ledger

(* Every pointer keeps a value that pointers have, every counter its range.*)
LEMMA NextTypeOK == TypeOK /\ Counts /\ ReaderHolds /\ [Next]_vars => TypeOK'
<1> SUFFICES ASSUME TypeOK, Counts, ReaderHolds, [Next]_vars PROVE TypeOK'
  OBVIOUS
<1> USE ResourcesAssumption DEF TypeOK, Values, Points, Pointers, MainPointers, IconPointers,
        Quiet, MainQuiet, readerVars, countVars, ReaderHolds, Reading
<1>1. CASE DisableWatchdog \/ LocateGop \/ ClassifyDone \/ IconsDone
  BY <1>1 DEF DisableWatchdog, LocateGop, ClassifyDone, IconsDone
<1>2. CASE GetRootDir \/ RandomBackgroundName
  BY <1>2 DEF GetRootDir, RandomBackgroundName, Acquire
<1>3. CASE GetLoadOptions
  BY <1>3 DEF GetLoadOptions, Counts, BeforeList
<1>4. CASE AllocateEntries
  BY <1>4 DEF AllocateEntries, Acquire
<1>5. CASE Classify
  BY <1>5 DEF Classify
<1>6. CASE CallReader
  BY <1>6 DEF CallReader
<1>7. CASE OpenImage \/ GetImageInfo \/ ReadImage
  <2>1. CASE OpenImage
    BY <2>1 DEF OpenImage, ReadFailed, Counts
  <2>2. CASE GetImageInfo
    <3>1. /\ file' \in {"closed", "open"} /\ info' \in {"null", "live"}
          /\ UNCHANGED <<ptr, data, bootCount, scanned, recorded, exit, faults>>
      BY <2>2 DEF GetImageInfo
    <3>2. /\ at' \in Points /\ reader' \in {"idle", "data"}
          /\ iconsDone' \in 0 .. recorded
      BY <2>2 DEF GetImageInfo, ReadFailed, Counts
    <3>3. lost' \subseteq {"info", "data", "file"}
      BY <2>2 DEF GetImageInfo
    <3> QED
      BY <3>1, <3>2, <3>3
  <2>3. CASE ReadImage
    BY <2>3 DEF ReadImage
  <2> QED
    BY <1>7, <2>1, <2>2, <2>3
<1>8. CASE ConvertImage
  BY <1>8 DEF ConvertImage, OutPointer
<1>9. CASE FinishRead
  BY <1>9 DEF FinishRead, ReadFailed, AfterRead, Counts
<1>10. CASE AllocateIconBuffers
  BY <1>10 DEF AllocateIconBuffers
<1>11. CASE DrawIcon
  BY <1>11 DEF DrawIcon, Free, Counts
<1>12. CASE AllocatePointerBuffers
  BY <1>12 DEF AllocatePointerBuffers
<1>13. CASE LeaveLoop
  BY <1>13 DEF LeaveLoop
<1>14. CASE FreeBuffers
  BY <1>14 DEF FreeBuffers, Releasing, Free, Holding
<1>15. CASE CloseRoot
  BY <1>15 DEF CloseRoot, Free
<1>16. CASE UNCHANGED vars
  BY <1>16 DEF vars
<1> QED
  BY <1>1, <1>2, <1>3, <1>4, <1>5, <1>6, <1>7, <1>8, <1>9, <1>10, <1>11,
     <1>12, <1>13, <1>14, <1>15, <1>16 DEF Next, Startup, Cleanup

(* The icons done are fewer than the entries while one is at work.         *)
LEMMA NextCounts == IInv /\ [Next]_vars => Counts'
<1> SUFFICES ASSUME IInv, [Next]_vars PROVE Counts'
  OBVIOUS
<1> USE ResourcesAssumption DEF IInv, TypeOK, Counts, ReaderHolds, BeforeList, Points,
        Reading, Quiet, MainQuiet, readerVars, countVars
<1>1. CASE DisableWatchdog \/ LocateGop \/ ClassifyDone \/ IconsDone
  BY <1>1 DEF DisableWatchdog, LocateGop, ClassifyDone, IconsDone
<1>2. CASE GetRootDir \/ RandomBackgroundName \/ AllocateEntries
  BY <1>2 DEF GetRootDir, RandomBackgroundName, AllocateEntries, Acquire
<1>3. CASE GetLoadOptions
  BY <1>3 DEF GetLoadOptions
<1>4. CASE Classify
  BY <1>4 DEF Classify
<1>5. CASE CallReader
  BY <1>5 DEF CallReader
<1>6. CASE OpenImage \/ GetImageInfo \/ ReadImage \/ ConvertImage
  BY <1>6 DEF OpenImage, GetImageInfo, ReadImage, ConvertImage, ReadFailed
<1>7. CASE FinishRead
  BY <1>7 DEF FinishRead, ReadFailed, AfterRead
<1>8. CASE AllocateIconBuffers \/ DrawIcon \/ AllocatePointerBuffers
  BY <1>8 DEF AllocateIconBuffers, DrawIcon, AllocatePointerBuffers
<1>9. CASE LeaveLoop \/ FreeBuffers \/ CloseRoot
  BY <1>9 DEF LeaveLoop, FreeBuffers, Releasing, CloseRoot
<1>10. CASE UNCHANGED vars
  BY <1>10 DEF vars
<1> QED
  BY <1>1, <1>2, <1>3, <1>4, <1>5, <1>6, <1>7, <1>8, <1>9, <1>10
     DEF Next, Startup, Cleanup

LEMMA NextReaderHolds == IInv /\ [Next]_vars => ReaderHolds'
<1> SUFFICES ASSUME IInv, [Next]_vars PROVE ReaderHolds'
  OBVIOUS
<1> USE DEF IInv, TypeOK, ReaderHolds, Reading, Quiet, MainQuiet, readerVars, countVars
<1>1. CASE DisableWatchdog \/ LocateGop \/ ClassifyDone \/ IconsDone
  BY <1>1 DEF DisableWatchdog, LocateGop, ClassifyDone, IconsDone
<1>2. CASE GetRootDir \/ RandomBackgroundName \/ AllocateEntries
  BY <1>2 DEF GetRootDir, RandomBackgroundName, AllocateEntries, Acquire
<1>3. CASE GetLoadOptions \/ Classify
  BY <1>3 DEF GetLoadOptions, Classify
<1>4. CASE CallReader
  BY <1>4 DEF CallReader
<1>5. CASE OpenImage
  BY <1>5 DEF OpenImage, ReadFailed
<1>6. CASE GetImageInfo
  BY <1>6 DEF GetImageInfo, ReadFailed
<1>7. CASE ReadImage \/ ConvertImage
  BY <1>7 DEF ReadImage, ConvertImage
<1>8. CASE FinishRead
  BY <1>8 DEF FinishRead, ReadFailed
<1>9. CASE AllocateIconBuffers \/ DrawIcon \/ AllocatePointerBuffers
  BY <1>9 DEF AllocateIconBuffers, DrawIcon, AllocatePointerBuffers
<1>10. CASE LeaveLoop \/ FreeBuffers \/ CloseRoot
  BY <1>10 DEF LeaveLoop, FreeBuffers, Releasing, CloseRoot
<1>11. CASE UNCHANGED vars
  BY <1>11 DEF vars
<1> QED
  BY <1>1, <1>2, <1>3, <1>4, <1>5, <1>6, <1>7, <1>8, <1>9, <1>10, <1>11
     DEF Next, Startup, Cleanup

(* The pointers.  Each action is a case, each part of the ledger a fact of *)
(* its own where the solver needs them apart.                              *)
LEMMA NextLedger == IInv /\ [Next]_vars => Ledger'
<1> SUFFICES ASSUME IInv, [Next]_vars PROVE Ledger'
  OBVIOUS
<1> USE DEF IInv, TypeOK, Values, Pointers, MainPointers, IconPointers, ReaderHolds,
        Reading, Ledger, IconsHold, Assigned, AfterBreak, Unfreed, Faulty, WithRoot,
        WithName, WithEntries, Quiet, MainQuiet, readerVars, countVars
<1>1. CASE DisableWatchdog \/ LocateGop \/ ClassifyDone \/ IconsDone
  BY <1>1 DEF DisableWatchdog, LocateGop, ClassifyDone, IconsDone
<1>2. CASE GetRootDir
  BY <1>2 DEF GetRootDir, Acquire
<1>3. CASE RandomBackgroundName
  BY <1>3 DEF RandomBackgroundName, Acquire
<1>4. CASE GetLoadOptions
  BY <1>4 DEF GetLoadOptions
<1>5. CASE AllocateEntries
  BY <1>5 DEF AllocateEntries, Acquire
<1>6. CASE Classify
  BY <1>6 DEF Classify
<1>7. CASE CallReader
  BY <1>7 DEF CallReader
<1>8. CASE OpenImage \/ GetImageInfo \/ ReadImage
  BY <1>8 DEF OpenImage, GetImageInfo, ReadImage, ReadFailed
<1>9. CASE ConvertImage
  BY <1>9 DEF ConvertImage, OutPointer
<1>10. CASE FinishRead
  BY <1>10 DEF FinishRead, ReadFailed, AfterRead
<1>11. CASE AllocateIconBuffers
  BY <1>11 DEF AllocateIconBuffers
<1>12. CASE DrawIcon
  BY <1>12 DEF DrawIcon, Free
<1>13. CASE AllocatePointerBuffers
  BY <1>13 DEF AllocatePointerBuffers
<1>14. CASE LeaveLoop
  BY <1>14 DEF LeaveLoop
<1>15. CASE FreeBuffers
  BY <1>15 DEF FreeBuffers, Releasing, Free, Holding
<1>16. CASE CloseRoot
  BY <1>16 DEF CloseRoot, Free
<1>17. CASE UNCHANGED vars
  BY <1>17 DEF vars
<1> QED
  BY <1>1, <1>2, <1>3, <1>4, <1>5, <1>6, <1>7, <1>8, <1>9, <1>10, <1>11,
     <1>12, <1>13, <1>14, <1>15, <1>16, <1>17 DEF Next, Startup, Cleanup

(* The type invariant and the ledger of what is held are true in every     *)
(* reachable state of UefiMain and its image reader.                       *)
THEOREM LedgerHolds == Spec => []IInv
<1>1. IInv /\ [Next]_vars => IInv'
  BY NextTypeOK, NextCounts, NextReaderHolds, NextLedger DEF IInv
<1> QED
  BY <1>1, InitIInv, PTL DEF Spec
----------------------------------------------------------------------------
(* Every variable of UefiMain and of the reader keeps its type.            *)
THEOREM TypeCorrect == Spec => []TypeOK
  BY LedgerHolds, PTL DEF IInv

(* FREE_BUFFER and CLOSE_FILE, reached by break, leave nothing allocated   *)
(* and the root directory closed.                                          *)
THEOREM BreakIsClean == Spec => []BreakReleasesAll
<1>1. IInv => BreakReleasesAll
  BY DEF IInv, TypeOK, ReaderHolds, Reading, Ledger, IconsHold, AfterBreak, Pointers,
         MainPointers, IconPointers, BreakReleasesAll
<1> QED
  BY <1>1, LedgerHolds, PTL

(* FreePool and Close never get what they have released before, on any     *)
(* path through UefiMain.                                                  *)
THEOREM FreedOnce == Spec => []NothingFreedTwice
<1>1. IInv => NothingFreedTwice
  BY DEF IInv, Ledger, Faulty, NothingFreedTwice
<1> QED
  BY <1>1, LedgerHolds, PTL

(* After the key loop the tests of FREE_BUFFER are exact.                  *)
THEOREM LateCleanup == Spec => []LateCleanupIsExact
<1>1. IInv => LateCleanupIsExact
  BY DEF IInv, Ledger, Faulty, LateCleanupIsExact
<1> QED
  BY <1>1, LedgerHolds, PTL

(* 读取并转换Bmp closes its file and frees its buffers, on every exit, but  *)
(* for the information block.                                              *)
THEOREM ReaderIsClean == Spec => []ReaderCleansUp
<1>1. IInv => ReaderCleansUp
  BY DEF IInv, ReaderHolds, ReaderCleansUp
<1> QED
  BY <1>1, LedgerHolds, PTL

----------------------------------------------------------------------------
(* The pixel arithmetic of the image reader, 读取并转换Bmp, and of 混合Blt:  *)
(* pictures of every size and pixels of every value.  The bounds speak of  *)
(* the loops' indices and of what their divisions round to, so they hold   *)
(* for any Opaque.                                                         *)

(* Pixel i lies in row i \div w, which is one of the h rows.               *)
LEMMA RowAndColumn ==
  ASSUME NEW w \in Nat \ {0}, NEW h \in Nat \ {0}, NEW i \in 0 .. w * h - 1
  PROVE  /\ i \div w \in 0 .. h - 1 /\ i % w \in 0 .. w - 1
         /\ i = (i \div w) * w + (i % w)
  OBVIOUS

(* A pixel given by its row and column has that row and column.            *)
LEMMA PixelOf ==
  ASSUME NEW w \in Nat \ {0}, NEW r \in Nat, NEW c \in 0 .. w - 1
  PROVE  (r * w + c) \div w = r /\ (r * w + c) % w = c
  OBVIOUS

LEMMA InPicture ==
  ASSUME NEW w \in Nat \ {0}, NEW h \in Nat \ {0},
         NEW r \in 0 .. h - 1, NEW c \in 0 .. w - 1
  PROVE  r * w + c \in 0 .. w * h - 1
  OBVIOUS

(* The conversion reads only pixels of the file, and each of them once:    *)
(* turned twice a picture stands as before.                                *)
THEOREM EveryPixelOnce ==
  ASSUME NEW w \in Nat \ {0}, NEW h \in Nat \ {0}, NEW i \in 0 .. w * h - 1
  PROVE  /\ Source(w, h, i) \in 0 .. w * h - 1
         /\ Source(w, h, Source(w, h, i)) = i
<1> DEFINE r == i \div w
           c == i % w
<1>1. r \in 0 .. h - 1 /\ c \in 0 .. w - 1 /\ i = r * w + c
  BY RowAndColumn
<1> HIDE DEF r, c
<1>2. Source(w, h, i) = (h - 1 - r) * w + c
  BY DEF Source, r, c
<1>3. h - 1 - r \in 0 .. h - 1
  BY <1>1
<1>4. Source(w, h, i) \in 0 .. w * h - 1
  BY <1>1, <1>2, <1>3, InPicture
<1>5. /\ Source(w, h, i) \div w = h - 1 - r
      /\ Source(w, h, i) % w = c
  <2> DEFINE q == h - 1 - r
  <2>1. q \in Nat
    BY <1>3
  <2>2. Source(w, h, i) = q * w + c
    BY <1>2
  <2> HIDE DEF q
  <2>3. (q * w + c) \div w = q /\ (q * w + c) % w = c
    BY <1>1, <2>1, PixelOf
  <2>4. Source(w, h, i) \div w = q /\ Source(w, h, i) % w = c
    BY <2>2, <2>3
  <2> QED
    BY <2>4 DEF q
<1>6. Source(w, h, Source(w, h, i)) = (h - 1 - (h - 1 - r)) * w + c
  BY <1>5 DEF Source
<1>7. h - 1 - (h - 1 - r) = r
  BY <1>1
<1> QED
  BY <1>1, <1>4, <1>6, <1>7

(* As long as 32 bits count the pixels, the converted picture fills its    *)
(* block exactly and every pixel of it comes from the file.                *)
THEOREM PictureFillsBlock ==
  ASSUME NEW w \in Nat \ {0}, NEW h \in Nat \ {0}, w * h < Word,
         NEW bmp \in [0 .. w * h - 1 -> Pixel]
  PROVE  Convert(bmp, w, h) \in [0 .. PixelCount(w, h) - 1 -> Pixel]
<1>1. PixelCount(w, h) = w * h
  BY BitmapsAssumption DEF PixelCount
<1>2. \A i \in 0 .. w * h - 1 : bmp[Source(w, h, i)] \in Pixel
  BY EveryPixelOnce
<1> QED
  BY <1>1, <1>2 DEF Convert

(* Blending is a weighted mean: what is seen lies between the two colours, *)
(* a transparent pixel shows the one behind it and an opaque pixel itself. *)
THEOREM BlendIsBetween ==
  ASSUME NEW over \in Pixel, NEW under \in Pixel
  PROVE  /\ Blend(over, under) \in Byte
         /\ over.c <= under.c =>
              over.c <= Blend(over, under) /\ Blend(over, under) <= under.c
         /\ under.c <= over.c =>
              under.c <= Blend(over, under) /\ Blend(over, under) <= over.c
         /\ over.a = 0 => Blend(over, under) = under.c
         /\ over.a = Opaque => Blend(over, under) = over.c
<1> DEFINE f == over.c
           b == under.c
           a == over.a
           sum == f * a + b * (Opaque - a)
<1>1. f \in Byte /\ b \in Byte /\ a \in Byte /\ Opaque \in Nat \ {0}
  BY BitmapsAssumption DEF Pixel
<1>2. Blend(over, under) = sum \div Opaque
  BY DEF Blend
<1> HIDE DEF f, b, a
<1>3. ASSUME NEW low \in Nat, NEW high \in Nat,
             low * Opaque <= sum, sum <= high * Opaque
      PROVE  low <= sum \div Opaque /\ sum \div Opaque <= high
  BY <1>1, <1>3 DEF Byte
<1>4. f <= b => f * Opaque <= sum /\ sum <= b * Opaque
  <2> SUFFICES ASSUME f <= b PROVE f * Opaque <= sum /\ sum <= b * Opaque
    OBVIOUS
  <2>1. f * (Opaque - a) <= b * (Opaque - a) /\ f * a <= b * a
    BY <1>1 DEF Byte
  <2> QED
    BY <1>1, <2>1 DEF Byte
<1>5. b <= f => b * Opaque <= sum /\ sum <= f * Opaque
  <2> SUFFICES ASSUME b <= f PROVE b * Opaque <= sum /\ sum <= f * Opaque
    OBVIOUS
  <2>1. b * (Opaque - a) <= f * (Opaque - a) /\ b * a <= f * a
    BY <1>1 DEF Byte
  <2> QED
    BY <1>1, <2>1 DEF Byte
<1>6. /\ f <= b => f <= sum \div Opaque /\ sum \div Opaque <= b
      /\ b <= f => b <= sum \div Opaque /\ sum \div Opaque <= f
  BY <1>1, <1>3, <1>4, <1>5 DEF Byte
<1>7. sum \div Opaque \in Byte
  <2>1. sum \div Opaque \in Int
    BY <1>1 DEF Byte
  <2> QED
    BY <1>1, <1>6, <2>1 DEF Byte
<1>8. a = 0 => sum \div Opaque = b
  <2>1. a = 0 => sum = b * Opaque
    BY <1>1 DEF Byte
  <2> QED
    BY <1>1, <1>3, <2>1 DEF Byte
<1>9. a = Opaque => sum \div Opaque = f
  <2>1. a = Opaque => sum = f * Opaque
    BY <1>1 DEF Byte
  <2> QED
    BY <1>1, <1>3, <2>1 DEF Byte
<1> QED
  BY <1>2, <1>6, <1>7, <1>8, <1>9 DEF f, b, a

----------------------------------------------------------------------------
(* Sequences.                                                              *)

LEMMA Joined ==
  ASSUME NEW s, NEW t, s \in Seq(ToSet(s)), t \in Seq(ToSet(t))
  PROVE  /\ s \o t \in Seq(ToSet(s \o t))
         /\ Len(s \o t) = Len(s) + Len(t) /\ Len(s) \in Nat /\ Len(t) \in Nat
         /\ \A i \in 1 .. Len(s) : (s \o t)[i] = s[i]
         /\ \A i \in 1 .. Len(t) : (s \o t)[Len(s) + i] = t[i]
<1> DEFINE S == ToSet(s) \union ToSet(t)
<1>1. s \in Seq(S) /\ t \in Seq(S)
  BY SeqMonotonic
<1> HIDE DEF S
<1>2. Len(s) \in Nat /\ Len(t) \in Nat
  BY <1>1, LenProperties
<1>3. /\ s \o t \in Seq(S) /\ Len(s \o t) = Len(s) + Len(t)
      /\ \A i \in 1 .. Len(s) + Len(t) : (s \o t)[i] =
           IF i <= Len(s) THEN s[i] ELSE t[i - Len(s)]
  BY <1>1, ConcatProperties
<1>4. \A i \in 1 .. Len(s) : (s \o t)[i] = s[i]
  BY <1>2, <1>3
<1>5. ASSUME NEW i \in 1 .. Len(t) PROVE (s \o t)[Len(s) + i] = t[i]
  <2>1. Len(s) + i \in 1 .. Len(s) + Len(t) /\ ~(Len(s) + i <= Len(s))
        /\ (Len(s) + i) - Len(s) = i
    BY <1>2
  <2> QED BY <1>3, <2>1
<1>6. s \o t \in Seq(ToSet(s \o t))
  <2>1. DOMAIN (s \o t) = 1 .. Len(s \o t) /\ Len(s \o t) \in Nat
    BY <1>3, LenProperties
  <2> DEFINE c == s \o t
  <2> HIDE DEF c
  <2>2. c = [i \in 1 .. Len(c) |-> c[i]]
    BY <1>3, LenProperties DEF c
  <2>3. \A i \in 1 .. Len(c) : c[i] \in ToSet(c)
    BY <2>1 DEF ToSet, c
  <2>4. [i \in 1 .. Len(c) |-> c[i]] \in Seq(ToSet(c))
    BY <2>1, <2>3, IsASeq DEF c
  <2> QED BY <2>2, <2>4 DEF c
<1> QED BY <1>2, <1>3, <1>4, <1>5, <1>6

LEMMA SeqOfItself ==
  ASSUME NEW S, NEW s \in Seq(S) PROVE s \in Seq(ToSet(s))
<1>1. DOMAIN s = 1 .. Len(s) /\ Len(s) \in Nat
  BY LenProperties
<1>2. s = [i \in 1 .. Len(s) |-> s[i]]
  BY LenProperties
<1>3. \A i \in 1 .. Len(s) : s[i] \in ToSet(s)
  BY <1>1 DEF ToSet
<1>4. [i \in 1 .. Len(s) |-> s[i]] \in Seq(ToSet(s))
  BY <1>1, <1>3, IsASeq
<1> QED BY <1>2, <1>4

----------------------------------------------------------------------------
(* What a step acquires, releases and asks for.                            *)

Listed == {"option", "description"} \X (1 .. options)

Yields(s) ==
  IF s.do \in {"call", "try"} THEN {s.what} \ {None}
  ELSE IF s.do = "list" THEN Listed ELSE {}

Gives(s) == IF s.do \in {"free", "freeAny", "start"} THEN {s.what} ELSE {}
Needs(s) == s.uses \union (IF s.do = "free" THEN {s.what} ELSE {})

Whats(r) == {r[m].what : m \in 1 .. Len(r)}

(* What the properties except: what is misused in any case, what a failed  *)
(* Open or StartImage of StartProgram misuses, what a failed call leaves   *)
(* behind.                                                                 *)
Known ==
  IF program = "ListAndBoot"
  THEN {<<"option", 4>>, <<"description", 4>>}
         \union ({"description"} \X (1 .. options))
  ELSE {}
Twice(names) ==
  (IF program = "StartProgram" /\ "Open" \in names THEN {"root"} ELSE {})
    \union (IF program = "StartProgram" /\ "StartImage" \in names
            THEN {"image"} ELSE {})
Left(names) == (IF "GetInfo" \in names THEN {"info"} ELSE {})
                 \union (IF "LoadImage" \in names THEN {"image"} ELSE {})

(* With L held, the steps r after s has failed are right: they release     *)
(* each thing that is held, and otherwise only what s should have yielded  *)
(* or the properties except.                                               *)
Clears(r, L, s) ==
  /\ r \in Seq(ToSet(r))
  /\ \A m \in 1 .. Len(r) :
       /\ r[m].do = "free" /\ r[m].uses = {}
       /\ r[m].what \in (L \ Gives(s)) \union Yields(s) \union Twice({s.name})
       /\ \A n \in 1 .. m - 1 :
            r[n].what = r[m].what => r[m].what \in Twice({s.name})
  /\ L \subseteq Whats(r) \union Left({s.name})

(* Before s a program holds L and after it M.                              *)
Takes(L, s, M) ==
  /\ s.do \in {"call", "try", "free", "freeAny", "start", "list",
               "convert", "grab", "blend", "show"}
  /\ M = (L \ Gives(s)) \union Yields(s)
  /\ Needs(s) \subseteq L \union Known
  /\ s.do \in {"call", "start"} => Clears(s.orElse, L, s)
  /\ s.do = "call" /\ s.what = "image" => s.name = "LoadImage"
  /\ s.do = "start" => s.what = "image"

(* H says what the program P holds before each of its steps, and that it   *)
(* holds nothing in the end.                                               *)
Outline(P, H) ==
  /\ P \in Seq(ToSet(P))
  /\ H[1] = {} /\ H[Len(P) + 1] = {}
  /\ \A k \in 1 .. Len(P) : Takes(H[k], P[k], H[k + 1])

----------------------------------------------------------------------------
(* The inductive invariant.                                                *)

Programs ==
  {"StartProgram", "ScreenShot", "ListAndBoot", "ShowPicture", "SetMode"}

AppTypeOK ==
  /\ program \in Programs /\ options \in 0 .. MaxOptions
  /\ picture.w \in Nat /\ picture.h \in Nat

(* What calls that failed should have yielded.                             *)
Unyielded == {s.what : s \in {s \in ToSet(Steps) : /\ s.do \in {"call", "try"}
                                                   /\ s.name \in failed}}

(* The program is at step k and holds what it should at this point, except *)
(* what was not yielded.                                                   *)
OnTrack(H, k) ==
  /\ rest = SubSeq(Steps, k, Len(Steps))
  /\ held \subseteq H[k] /\ H[k] \subseteq held \union Unyielded

(* It cleans up after a failure, or has ended.                             *)
CleaningUp ==
  /\ rest \in Seq(ToSet(rest))
  /\ \A m \in 1 .. Len(rest) :
       /\ rest[m].do = "free" /\ rest[m].uses = {}
       /\ rest[m].what \in held \union Unyielded \union Twice(failed)
       /\ \A n \in 1 .. m - 1 :
            rest[n].what = rest[m].what => rest[m].what \in Twice(failed)
  /\ held \subseteq Whats(rest) \union Left(failed)

AppInv ==
  /\ AppTypeOK
  /\ MisusesOnlyUnyielded
  /\ \/ CleaningUp
     \/ \E H : /\ Outline(Steps, H)
               /\ \E k \in 1 .. Len(Steps) + 1 : OnTrack(H, k)

(* With nothing to do and nothing held a program has ended.                *)
LEMMA NothingToDo == rest' = <<>> /\ held' = {} => CleaningUp'
<1>1. <<>> \in Seq(ToSet(<<>>)) /\ Len(<<>>) = 0 /\ 1 .. 0 = {}
  BY EmptySeq
<1> QED BY <1>1 DEF CleaningUp

----------------------------------------------------------------------------
(* Every step keeps it, as long as the program has an outline.             *)

Allowed ==
  Unyielded \union Twice(failed) \union Known
    \union (IF Width * Height >= Word THEN {"heap"} ELSE {})

LEMMA AllowedIsMeant ==
  /\ MisusesOnlyUnyielded <=> misused \subseteq Allowed
  /\ MisusesOnlyUnyielded' <=> misused' \subseteq Allowed'
BY DEF MisusesOnlyUnyielded, Allowed, Unyielded, Twice, Known

LEMMA StepsStay == UNCHANGED given => Steps' = Steps
BY DEF given, Steps, ListAndBoot, ForEach

(* More failures excuse more.                                              *)
LEMMA MoreIsAllowed ==
  ASSUME UNCHANGED given, failed \subseteq failed'
  PROVE  /\ Unyielded \subseteq Unyielded' /\ Twice(failed) \subseteq Twice(failed)'
         /\ Left(failed) \subseteq Left(failed)' /\ Allowed \subseteq Allowed'
<1>1. Steps' = Steps /\ UNCHANGED <<program, options, picture>>
  BY StepsStay DEF given
<1>2. Unyielded \subseteq Unyielded'
  BY <1>1 DEF Unyielded, ToSet
<1>3. Twice(failed) \subseteq Twice(failed)' /\ Left(failed) \subseteq Left(failed)'
  BY <1>1 DEF Twice, Left
<1>4. Known' = Known /\ (Width * Height >= Word)' = (Width * Height >= Word)
  BY <1>1 DEF Known, Width, Height
<1> QED BY <1>2, <1>3, <1>4 DEF Allowed

(* A list of releases goes on as it is used up.                            *)
LEMMA CleaningUpStep ==
  ASSUME AppTypeOK, MisusesOnlyUnyielded, CleaningUp, [AppNext]_appVars
  PROVE  AppInv'
<1>1. CASE rest = <<>> \/ UNCHANGED appVars
  <2>1. UNCHANGED appVars
    BY <1>1 DEF AppNext, Succeed, Fail, StartImage, Release, Misstep, List,
                ConvertPicture, Grab, BlendPicture, Show, Idle, Doing
  <2>2. UNCHANGED <<given, rest, held, misused, failed>>
    BY <2>1 DEF appVars, ledger
  <2>3. Steps' = Steps /\ UNCHANGED <<program, options, picture>>
    BY <2>2, StepsStay DEF given
  <2>4. AppTypeOK' /\ CleaningUp'
    BY <2>2, <2>3 DEF AppTypeOK, CleaningUp, Unyielded, Twice, Whats, Left
  <2>5. MisusesOnlyUnyielded'
    BY <2>2, <2>3 DEF MisusesOnlyUnyielded, Width, Height
  <2> QED BY <2>4, <2>5 DEF AppInv
<1>2. CASE rest # <<>> /\ AppNext
  <2> DEFINE s == Head(rest)
             t == Tail(rest)
  <2>1. rest \in Seq(ToSet(rest)) /\ Len(rest) \in Nat \ {0}
    BY <1>2, EmptySeq DEF CleaningUp
  <2>2. s = rest[1] /\ t \in Seq(ToSet(rest)) /\ Len(t) = Len(rest) - 1
        /\ \A m \in 1 .. Len(t) : t[m] = rest[m + 1]
    BY <1>2, <2>1, HeadTailProperties
  <2>3. s.do = "free" /\ s.uses = {}
        /\ s.what \in held \union Unyielded \union Twice(failed)
    BY <2>1, <2>2 DEF CleaningUp
  <2>4. Release \/ Misstep
    BY <1>2, <2>3 DEF AppNext, Succeed, Fail, StartImage, List, ConvertPicture,
                      Grab, BlendPicture, Show, Idle, Ended, Doing, Now
  <2>5. UNCHANGED given /\ failed' = failed
    BY <2>4 DEF Release, Misstep
  <2>6. AppTypeOK'
    BY <2>5 DEF AppTypeOK, given
  <2>7. /\ Unyielded \subseteq Unyielded' /\ Twice(failed) \subseteq Twice(failed)'
        /\ Left(failed) \subseteq Left(failed)' /\ Allowed \subseteq Allowed'
    BY <2>5, MoreIsAllowed
  <2>8. CASE Release
    <3>1. held' = held \ {s.what} /\ rest' = t /\ misused' = misused
      BY <2>8 DEF Release, Continue, Now
    <3>2. MisusesOnlyUnyielded'
      BY <2>7, <3>1, AllowedIsMeant
    <3> HIDE DEF s, t
    <3>3. ASSUME NEW m \in 1 .. Len(t)
          PROVE  /\ t[m].do = "free" /\ t[m].uses = {}
                 /\ t[m].what \in held' \union Unyielded' \union Twice(failed)'
                 /\ \A n \in 1 .. m - 1 :
                      t[n].what = t[m].what => t[m].what \in Twice(failed)'
      <4>1. m + 1 \in 1 .. Len(rest) /\ t[m] = rest[m + 1] /\ 1 \in 1 .. (m + 1) - 1
        BY <2>1, <2>2
      <4>2. /\ t[m].do = "free" /\ t[m].uses = {}
            /\ t[m].what \in held \union Unyielded \union Twice(failed)
            /\ \A n \in 1 .. (m + 1) - 1 :
                 rest[n].what = t[m].what => t[m].what \in Twice(failed)
        BY <4>1 DEF CleaningUp
      <4>3. s.what = t[m].what => t[m].what \in Twice(failed)
        BY <2>2, <4>1, <4>2
      <4>4. t[m].what \in held' \union Unyielded' \union Twice(failed)'
        BY <2>7, <3>1, <4>2, <4>3
      <4>5. ASSUME NEW n \in 1 .. m - 1, t[n].what = t[m].what
            PROVE  t[m].what \in Twice(failed)'
        <5>1. n + 1 \in 1 .. (m + 1) - 1 /\ t[n] = rest[n + 1]
          BY <2>1, <2>2
        <5> QED BY <2>7, <4>2, <4>5, <5>1
      <4> QED BY <4>2, <4>4, <4>5
    <3>4. held' \subseteq Whats(t) \union Left(failed)'
      <4>1. ASSUME NEW x \in held' PROVE x \in Whats(t) \union Left(failed)'
        <5>1. x # s.what /\ x \in Whats(rest) \union Left(failed)
          BY <3>1 DEF CleaningUp
        <5>2. CASE x \in Whats(rest)
          <6>1. PICK m \in 1 .. Len(rest) : rest[m].what = x
            BY <5>2 DEF Whats
          <6>2. m - 1 \in 1 .. Len(t) /\ rest[m] = t[m - 1]
            <7>1. m # 1
              BY <2>2, <5>1, <6>1
            <7> DEFINE j == m - 1
            <7>2. j \in 1 .. Len(t) /\ j + 1 = m
              BY <2>1, <2>2, <7>1
            <7> HIDE DEF j
            <7>3. rest[m] = t[j]
              BY <2>2, <7>2
            <7> QED BY <7>2, <7>3 DEF j
          <6> QED BY <6>1, <6>2 DEF Whats
        <5> QED BY <2>7, <5>1, <5>2
      <4> QED BY <4>1
    <3>5. t \in Seq(ToSet(t))
      BY <2>2, SeqOfItself
    <3>6. CleaningUp'
      BY <3>1, <3>3, <3>4, <3>5 DEF CleaningUp, Twice, Whats
    <3> QED BY <2>6, <3>2, <3>6 DEF AppInv
  <2>9. CASE Misstep
    <3>1. /\ rest' = <<>> /\ held' = {}
          /\ misused' = (s.uses \ held) \union
                        ({s.what : d \in {s.do} \intersect {"free"}} \ held)
      BY <2>9 DEF Misstep, Now
    <3>2. misused' \subseteq Unyielded \union Twice(failed)
      BY <2>3, <3>1
    <3>3. MisusesOnlyUnyielded'
      <4>1. Unyielded \union Twice(failed) \subseteq Allowed
        BY DEF Allowed
      <4> QED BY <2>7, <3>2, <4>1, AllowedIsMeant
    <3>4. CleaningUp'
      BY <3>1, NothingToDo
    <3> QED BY <2>6, <3>3, <3>4 DEF AppInv
  <2> QED BY <2>4, <2>8, <2>9
<1> QED BY <1>1, <1>2

(* Where the program stands in its list of steps.                          *)
LEMMA AtPlace ==
  ASSUME NEW P, P \in Seq(ToSet(P)), NEW k \in 1 .. Len(P) + 1,
         rest = SubSeq(P, k, Len(P))
  PROVE  /\ Len(P) \in Nat
         /\ rest = <<>> => k = Len(P) + 1
         /\ rest # <<>> =>
              /\ k \in 1 .. Len(P) /\ k + 1 \in 1 .. Len(P) + 1
              /\ Now = P[k] /\ P[k] \in ToSet(P)
              /\ Tail(rest) = SubSeq(P, k + 1, Len(P))
<1> DEFINE n == Len(P)
<1>1. n \in Nat
  BY LenProperties
<1>2. CASE k = n + 1
  <2>1. rest = <<>>
    BY <1>1, <1>2, SubSeqEmpty
  <2> QED BY <1>1, <1>2, <2>1
<1>3. CASE k # n + 1
  <2>1. k \in 1 .. n /\ n \in k .. n /\ k + 1 \in 1 .. n + 1
    BY <1>1, <1>3
  <2>2. Head(rest) = P[k] /\ Tail(rest) = SubSeq(P, k + 1, n)
    BY <1>1, <2>1, HeadTailOfSubSeq
  <2>3. rest # <<>>
    <3>1. \A i \in k .. n : P[i] \in ToSet(P)
      <4> TAKE i \in k .. n
      <4>1. i \in 1 .. n
        BY <1>1, <2>1
      <4> QED BY <1>1, <4>1, ElementOfSeq
    <3>2. Len(rest) = n - k + 1
      BY <1>1, <2>1, <3>1, SubSeqProperties
    <3>3. Len(rest) # 0
      <4> DEFINE l == Len(rest)
      <4> HIDE DEF l, n
      <4>1. l = n - k + 1 /\ k \in 1 .. n
        BY <2>1, <3>2 DEF l, n
      <4>2. l # 0
        BY <1>1, <4>1
      <4> QED BY <4>2 DEF l
    <3>4. ASSUME rest = <<>> PROVE FALSE
      <4>1. Len(rest) = Len(<<>>)
        BY <3>4
      <4>2. Len(<<>>) = 0
        BY EmptySeq
      <4> QED BY <3>3, <4>1, <4>2
    <3> QED BY <3>4
  <2>4. P[k] \in ToSet(P)
    BY <1>1, <2>1, ElementOfSeq
  <2> QED BY <1>1, <2>1, <2>2, <2>3, <2>4 DEF Now
<1> QED BY <1>2, <1>3

LEMMA AtStep ==
  ASSUME NEW H, Outline(Steps, H), NEW k \in 1 .. Len(Steps) + 1, OnTrack(H, k)
  PROVE  /\ Len(Steps) \in Nat
         /\ rest = <<>> => k = Len(Steps) + 1
         /\ rest # <<>> =>
              /\ k \in 1 .. Len(Steps) /\ k + 1 \in 1 .. Len(Steps) + 1
              /\ Now = Steps[k] /\ Steps[k] \in ToSet(Steps)
              /\ Takes(H[k], Steps[k], H[k + 1])
              /\ Tail(rest) = SubSeq(Steps, k + 1, Len(Steps))
<1>1. /\ Steps \in Seq(ToSet(Steps)) /\ rest = SubSeq(Steps, k, Len(Steps))
      /\ \A j \in 1 .. Len(Steps) : Takes(H[j], Steps[j], H[j + 1])
  BY DEF Outline, OnTrack
<1> QED BY <1>1, AtPlace

(* An outline stays one.                                                   *)
LEMMA OutlineStays ==
  ASSUME NEW H, Outline(Steps, H), UNCHANGED given
  PROVE  Outline(Steps, H)'
<1>1. Steps' = Steps /\ UNCHANGED <<program, options>>
  BY StepsStay DEF given
<1>2. Known' = Known /\ Listed' = Listed /\ \A names : Twice(names)' = Twice(names)
  BY <1>1 DEF Known, Listed, Twice
<1>3. \A s : Yields(s)' = Yields(s)
  BY <1>2 DEF Yields
<1>4. \A r, L, s : Clears(r, L, s)' <=> Clears(r, L, s)
  <2> TAKE r, L, s
  <2>1. Twice({s.name})' = Twice({s.name}) /\ Yields(s)' = Yields(s)
    BY <1>2, <1>3
  <2> QED BY <2>1 DEF Clears, Gives, Left, Whats
<1>5. \A L, s, M : Takes(L, s, M)' <=> Takes(L, s, M)
  BY <1>2, <1>3, <1>4 DEF Takes, Gives, Needs
<1> QED BY <1>1, <1>5 DEF Outline

(* The program goes on to its next step.                                   *)
LEMMA GoesOn ==
  ASSUME AppTypeOK, NEW H, Outline(Steps, H), NEW k \in 1 .. Len(Steps),
         UNCHANGED given, rest' = SubSeq(Steps, k + 1, Len(Steps)),
         held' \subseteq H[k + 1], H[k + 1] \subseteq held' \union Unyielded',
         MisusesOnlyUnyielded'
  PROVE  AppInv'
<1>1. Steps' = Steps /\ Len(Steps) \in Nat
  BY StepsStay, LenProperties DEF Outline
<1>2. k + 1 \in 1 .. Len(Steps) + 1
  BY <1>1
<1>3. OnTrack(H, k + 1)'
  BY <1>1 DEF OnTrack
<1>4. \E j \in 1 .. Len(Steps') + 1 : OnTrack(H, j)'
  BY <1>1, <1>2, <1>3
<1>5. Outline(Steps, H)'
  BY OutlineStays
<1>6. AppTypeOK'
  BY DEF AppTypeOK, given
<1> QED BY <1>4, <1>5, <1>6 DEF AppInv

(* Or a step fails, and it cleans up.                                      *)
LEMMA GivesUp ==
  ASSUME AppTypeOK, MisusesOnlyUnyielded, NEW H, NEW k, OnTrack(H, k),
         NEW s \in ToSet(Steps), Clears(s.orElse, H[k], s),
         s.do \in {"call", "start"},
         UNCHANGED <<given, misused>>, failed' = failed \union {s.name},
         rest' = s.orElse,
         held \ Gives(s) \subseteq held',
         held' \subseteq held \union Left({s.name})
  PROVE  AppInv'
<1> DEFINE r == s.orElse
<1>1. Steps' = Steps /\ UNCHANGED program
  BY StepsStay DEF given
<1>2. /\ Unyielded \subseteq Unyielded' /\ Allowed \subseteq Allowed'
  BY MoreIsAllowed
<1>3. Yields(s) \subseteq Unyielded'
  <2>1. CASE s.do = "call"
    <3>1. s.what \in Unyielded' /\ Yields(s) \subseteq {s.what}
      BY <1>1, <2>1 DEF Unyielded, Yields
    <3> QED BY <3>1
  <2>2. CASE s.do = "start"
    BY <2>2 DEF Yields
  <2> QED BY <2>1, <2>2
<1>4. Twice({s.name}) \subseteq Twice(failed)' /\ Left({s.name}) \subseteq Left(failed)'
  BY <1>1 DEF Twice, Left
<1>5. held \subseteq H[k] /\ H[k] \subseteq held \union Unyielded
  BY DEF OnTrack
<1>6. ASSUME NEW m \in 1 .. Len(r)
      PROVE  /\ r[m].do = "free" /\ r[m].uses = {}
             /\ r[m].what \in held' \union Unyielded' \union Twice(failed)'
             /\ \A n \in 1 .. m - 1 :
                  r[n].what = r[m].what => r[m].what \in Twice(failed)'
  <2>1. /\ r[m].do = "free" /\ r[m].uses = {}
        /\ r[m].what \in (H[k] \ Gives(s)) \union Yields(s) \union Twice({s.name})
        /\ \A n \in 1 .. m - 1 :
             r[n].what = r[m].what => r[m].what \in Twice({s.name})
    BY DEF Clears
  <2>2. r[m].what \in held' \union Unyielded' \union Twice(failed)'
    BY <1>2, <1>3, <1>4, <1>5, <2>1
  <2> QED BY <1>4, <2>1, <2>2
<1>7. held' \subseteq Whats(r) \union Left(failed)'
  <2>1. H[k] \subseteq Whats(r) \union Left({s.name})
    BY DEF Clears
  <2> QED BY <1>4, <1>5, <2>1
<1>8. r \in Seq(ToSet(r))
  BY DEF Clears
<1> HIDE DEF r
<1>9. rest' = r
  BY DEF r
<1>10. CleaningUp'
  BY <1>6, <1>7, <1>8, <1>9 DEF CleaningUp, Twice, Whats
<1>11. MisusesOnlyUnyielded'
  BY <1>2, AllowedIsMeant
<1>12. AppTypeOK'
  BY DEF AppTypeOK, given
<1> QED BY <1>10, <1>11, <1>12 DEF AppInv

(* Or it is stopped.                                                       *)
LEMMA IsStopped ==
  ASSUME AppTypeOK, UNCHANGED given, rest' = <<>>, held' = {},
         misused' \subseteq Allowed'
  PROVE  AppInv'
<1>1. AppTypeOK'
  BY DEF AppTypeOK, given
<1> QED BY <1>1, NothingToDo, AllowedIsMeant DEF AppInv

LEMMA OnTrackStep ==
  ASSUME AppTypeOK, MisusesOnlyUnyielded, NEW H, Outline(Steps, H),
         NEW k \in 1 .. Len(Steps) + 1, OnTrack(H, k), AppNext, rest # <<>>
  PROVE  AppInv'
<1> DEFINE s == Steps[k]
<1>1. /\ k \in 1 .. Len(Steps) /\ k + 1 \in 1 .. Len(Steps) + 1
      /\ Now = s /\ s \in ToSet(Steps) /\ Takes(H[k], s, H[k + 1])
      /\ Tail(rest) = SubSeq(Steps, k + 1, Len(Steps))
  BY AtStep
<1> HIDE DEF s
<1>2. /\ held \subseteq H[k] /\ H[k] \subseteq held \union Unyielded
  BY DEF OnTrack
<1>3. UNCHANGED given /\ failed \subseteq failed'
  BY DEF AppNext, Succeed, Fail, StartImage, Release, Misstep, List,
         ConvertPicture, Grab, BlendPicture, Show, Idle, appVars, ledger
<1>4. Unyielded \subseteq Unyielded' /\ Allowed \subseteq Allowed'
  BY <1>3, MoreIsAllowed
<1>5. misused \subseteq misused' /\ misused' \subseteq misused => MisusesOnlyUnyielded'
  BY <1>4, AllowedIsMeant
<1>6. H[k + 1] = (H[k] \ Gives(s)) \union Yields(s)
  BY <1>1 DEF Takes
<1>7. ASSUME Continue, UNCHANGED misused,
             held' \subseteq H[k + 1], H[k + 1] \subseteq held' \union Unyielded'
      PROVE  AppInv'
  <2>1. rest' = SubSeq(Steps, k + 1, Len(Steps))
    BY <1>1, <1>7 DEF Continue
  <2> QED BY <1>1, <1>3, <1>5, <1>7, <2>1, GoesOn
<1>8. CASE Succeed
  <2>1. s.do \in {"call", "try"} /\ held' = held \union ({s.what} \ {None})
        /\ Continue /\ UNCHANGED misused
    BY <1>1, <1>8 DEF Succeed, Doing
  <2>2. Gives(s) = {} /\ Yields(s) = {s.what} \ {None}
    BY <2>1 DEF Gives, Yields
  <2> QED BY <1>2, <1>4, <1>6, <1>7, <2>1, <2>2
<1>9. CASE Fail
  <2>1. /\ s.do \in {"call", "try"} /\ failed' = failed \union {s.name}
        /\ rest' = IF s.do = "call" THEN s.orElse ELSE Tail(rest)
        /\ held \subseteq held' /\ held' \subseteq held \union ({"image"} \intersect {s.what})
        /\ UNCHANGED misused
    BY <1>1, <1>9 DEF Fail, Doing
  <2>2. Gives(s) = {} /\ Yields(s) = {s.what} \ {None}
    BY <2>1 DEF Gives, Yields
  <2>3. CASE s.do = "try"
    <3>1. Continue
      BY <2>1, <2>3 DEF Continue
    <3>2. s.what \in Unyielded'
      <4>1. Steps' = Steps
        BY <1>3, StepsStay
      <4> QED BY <1>1, <2>1, <4>1 DEF Unyielded
    <3>3. None # "image"
      BY AppsAssumption
    <3>4. held' \subseteq H[k + 1]
      BY <1>2, <1>6, <2>1, <2>2, <3>3
    <3>5. H[k + 1] \subseteq held' \union Unyielded'
      BY <1>2, <1>4, <1>6, <2>1, <2>2, <3>2
    <3> QED BY <1>7, <2>1, <3>1, <3>4, <3>5
  <2>4. CASE s.do = "call"
    <3>1. Clears(s.orElse, H[k], s) /\ (s.what = "image" => s.name = "LoadImage")
      BY <1>1, <2>4 DEF Takes
    <3>2. {"image"} \intersect {s.what} \subseteq Left({s.name})
      BY <3>1 DEF Left
    <3>3. rest' = s.orElse
      BY <2>1, <2>4
    <3>4. held' \subseteq held \union Left({s.name})
      BY <2>1, <3>2
    <3>5. held \ Gives(s) \subseteq held'
      BY <2>1, <2>2
    <3> QED BY <1>1, <1>3, <2>1, <2>4, <3>1, <3>3, <3>4, <3>5, GivesUp
  <2> QED BY <2>1, <2>3, <2>4
<1>10. CASE StartImage
  <2>1. /\ s.do = "start" /\ UNCHANGED misused
        /\ \/ Continue /\ held' = held \ {"image"}
           \/ /\ rest' = s.orElse /\ failed' = failed \union {s.name}
              /\ held' \in {held, held \ {"image"}}
    BY <1>1, <1>10 DEF StartImage, Doing
  <2>2. Gives(s) = {"image"} /\ Yields(s) = {} /\ Clears(s.orElse, H[k], s)
    BY <1>1, <2>1 DEF Takes, Gives, Yields
  <2>3. CASE Continue /\ held' = held \ {"image"}
    BY <1>2, <1>4, <1>6, <1>7, <2>1, <2>2, <2>3
  <2>4. CASE /\ rest' = s.orElse /\ failed' = failed \union {s.name}
             /\ held' \in {held, held \ {"image"}}
    <3>1. held \ Gives(s) \subseteq held' /\ held' \subseteq held \union Left({s.name})
      BY <2>2, <2>4
    <3> QED BY <1>1, <1>3, <2>1, <2>2, <2>4, <3>1, GivesUp
  <2> QED BY <2>1, <2>3, <2>4
<1>11. CASE Release
  <2>1. s.do \in {"free", "freeAny"} /\ held' = held \ {s.what}
        /\ Continue /\ UNCHANGED misused
    BY <1>1, <1>11 DEF Release, Doing
  <2>2. Gives(s) = {s.what} /\ Yields(s) = {}
    BY <2>1 DEF Gives, Yields
  <2> QED BY <1>2, <1>4, <1>6, <1>7, <2>1, <2>2
<1>12. CASE Misstep
  <2>1. /\ rest' = <<>> /\ held' = {}
        /\ misused' = (s.uses \ held) \union
                      ({s.what : d \in {s.do} \intersect {"free"}} \ held)
    BY <1>1, <1>12 DEF Misstep
  <2>2. misused' \subseteq Needs(s) \ held
    BY <2>1 DEF Needs
  <2>3. Needs(s) \subseteq H[k] \union Known
    BY <1>1 DEF Takes
  <2>4. Unyielded \union Known \subseteq Allowed
    BY DEF Allowed
  <2>5. misused' \subseteq Allowed'
    BY <1>2, <1>4, <2>2, <2>3, <2>4
  <2> QED BY <1>3, <2>1, <2>5, IsStopped
<1>13. CASE List
  <2>1. s.do = "list" /\ held' = held \union Listed /\ Continue /\ UNCHANGED misused
    <3>1. {<<kind, i>> : kind \in {"option", "description"}, i \in 1 .. options} = Listed
      BY DEF Listed
    <3> QED BY <1>1, <1>13, <3>1 DEF List, Doing
  <2>2. Gives(s) = {} /\ Yields(s) = Listed
    BY <2>1 DEF Gives, Yields
  <2> QED BY <1>2, <1>4, <1>6, <1>7, <2>1, <2>2
<1>14. CASE ConvertPicture \/ Grab \/ BlendPicture \/ Show
  <2>1. s.do \in {"convert", "grab", "blend", "show"}
    BY <1>1, <1>14 DEF ConvertPicture, Grab, BlendPicture, Show, Doing
  <2>2. H[k + 1] = H[k]
    BY <1>6, <2>1 DEF Gives, Yields
  <2>3. CASE Continue /\ UNCHANGED <<held, misused>>
    BY <1>2, <1>4, <1>7, <2>2, <2>3
  <2>4. CASE ~(0 .. Width * Height - 1 \subseteq Block) /\ misused' = {"heap"}
             /\ rest' = <<>> /\ held' = {}
    <3>1. Width * Height >= Word
      <4> DEFINE n == Width * Height
      <4>1. n \in Nat
        BY DEF AppTypeOK, Width, Height
      <4>2. ~(0 .. n - 1 \subseteq 0 .. (n % Word) - 1)
        BY <2>4 DEF Block, PixelCount
      <4> HIDE DEF n
      <4>3. n < Word => n % Word = n
        BY <4>1, BitmapsAssumption
      <4>4. ~(n < Word)
        BY <4>2, <4>3
      <4>5. n >= Word
        BY <4>1, <4>4, BitmapsAssumption
      <4> QED BY <4>5 DEF n
    <3>2. misused' \subseteq Allowed
      BY <2>4, <3>1 DEF Allowed
    <3> QED BY <1>3, <1>4, <2>4, <3>2, IsStopped
  <2>5. (Continue /\ UNCHANGED <<held, misused>>) \/
        (/\ ~(0 .. Width * Height - 1 \subseteq Block) /\ misused' = {"heap"}
         /\ rest' = <<>> /\ held' = {})
    BY <1>14 DEF ConvertPicture, Grab, BlendPicture, Show, ledger
  <2> QED BY <2>3, <2>4, <2>5
<1> QED BY <1>8, <1>9, <1>10, <1>11, <1>12, <1>13, <1>14 DEF AppNext, Idle, Ended

LEMMA AppStep == AppInv /\ [AppNext]_appVars => AppInv'
<1> SUFFICES ASSUME AppInv, [AppNext]_appVars PROVE AppInv'
  OBVIOUS
<1>1. AppTypeOK /\ MisusesOnlyUnyielded
  BY DEF AppInv
<1>2. CASE CleaningUp
  BY <1>1, <1>2, CleaningUpStep
<1>3. CASE ~CleaningUp
  <2>1. PICK H : Outline(Steps, H) /\ \E k \in 1 .. Len(Steps) + 1 : OnTrack(H, k)
    BY <1>3 DEF AppInv
  <2>2. PICK k \in 1 .. Len(Steps) + 1 : OnTrack(H, k)
    BY <2>1
  <2>3. CASE UNCHANGED appVars \/ rest = <<>>
    <3>1. UNCHANGED <<given, rest, held, misused, failed>>
      BY <2>3 DEF AppNext, Succeed, Fail, StartImage, Release, Misstep, List,
                  ConvertPicture, Grab, BlendPicture, Show, Idle, Doing, appVars,
                  ledger
    <3>2. Steps' = Steps
      BY <3>1, StepsStay
    <3>3. Outline(Steps, H)'
      BY <2>1, <3>1, OutlineStays
    <3>4. OnTrack(H, k)'
      BY <2>2, <3>1, <3>2 DEF OnTrack, Unyielded
    <3>5. \E j \in 1 .. Len(Steps') + 1 : OnTrack(H, j)'
      BY <3>2, <3>4
    <3>6. MisusesOnlyUnyielded'
      BY <1>1, <3>1, MoreIsAllowed, AllowedIsMeant
    <3>7. AppTypeOK'
      BY <1>1, <3>1 DEF AppTypeOK, given
    <3> QED BY <3>3, <3>5, <3>6, <3>7 DEF AppInv
  <2>4. CASE AppNext /\ rest # <<>>
    BY <1>1, <2>1, <2>2, <2>4, OnTrackStep
  <2> QED BY <2>3, <2>4
<1> QED BY <1>2, <1>3

(* When it has ended it holds nothing, or what a failure excuses.          *)
LEMMA HoldsNothing == AppInv => ReleasesAll
<1> SUFFICES ASSUME AppInv, rest = <<>>
             PROVE  held \subseteq Left(failed)
  BY DEF ReleasesAll, Ended, Left
<1>1. CASE CleaningUp
  <2>1. Whats(rest) = {}
    <3>1. Len(<<>>) = 0 /\ 1 .. 0 = {}
      OBVIOUS
    <3> QED BY <3>1 DEF Whats
  <2> QED BY <1>1, <2>1 DEF CleaningUp
<1>2. CASE ~CleaningUp
  <2>1. PICK H : Outline(Steps, H) /\ \E k \in 1 .. Len(Steps) + 1 : OnTrack(H, k)
    BY <1>2 DEF AppInv
  <2>2. PICK k \in 1 .. Len(Steps) + 1 : OnTrack(H, k)
    BY <2>1
  <2>3. k = Len(Steps) + 1
    BY <2>1, <2>2, AtStep
  <2>4. H[k] = {}
    BY <2>1, <2>3 DEF Outline
  <2> QED BY <2>2, <2>4 DEF OnTrack
<1> QED BY <1>1, <1>2


----------------------------------------------------------------------------
(* What each program holds at each of its steps.                           *)

(* The steps r release each member of W, once.                             *)
GivesBack(r, W) ==
  /\ r \in Seq(ToSet(r)) /\ Whats(r) = W
  /\ \A m \in 1 .. Len(r) :
       /\ r[m].do = "free" /\ r[m].uses = {}
       /\ \A n \in 1 .. m - 1 : r[n].what # r[m].what

LEMMA GivesBackClears ==
  ASSUME NEW r, NEW W, NEW L, NEW s, GivesBack(r, W),
         W \subseteq (L \ Gives(s)) \union Yields(s) \union Twice({s.name}),
         L \subseteq W \union Left({s.name})
  PROVE  Clears(r, L, s)
<1>1. \A m \in 1 .. Len(r) : r[m].what \in W
  BY DEF GivesBack, Whats
<1> QED BY <1>1 DEF Clears, GivesBack

LEMMA GivesBackNothing == GivesBack(<<>>, {})
<1>1. <<>> \in Seq(ToSet(<<>>)) /\ Len(<<>>) = 0 /\ 1 .. 0 = {}
  BY EmptySeq
<1> QED BY <1>1 DEF GivesBack, Whats

LEMMA GivesBackOne ==
  ASSUME NEW s, s.do = "free", s.uses = {}
  PROVE  GivesBack(<<s>>, {s.what})
<1>1. <<s>> \in Seq(ToSet(<<s>>)) /\ Len(<<s>>) = 1 /\ <<s>>[1] = s
  BY DEF ToSet
<1>2. 1 .. 1 = {1} /\ 1 .. 0 = {}
  OBVIOUS
<1> QED BY <1>1, <1>2 DEF GivesBack, Whats

LEMMA GivesBackBoth ==
  ASSUME NEW r, NEW t, NEW W, NEW X, GivesBack(r, W), GivesBack(t, X),
         W \intersect X = {}
  PROVE  GivesBack(r \o t, W \union X)
<1> DEFINE c == r \o t
<1>1. /\ r \in Seq(ToSet(r)) /\ t \in Seq(ToSet(t))
      /\ \A m \in 1 .. Len(r) : r[m].what \in W
      /\ \A m \in 1 .. Len(t) : t[m].what \in X
  BY DEF GivesBack, Whats
<1>2. /\ c \in Seq(ToSet(c))
      /\ Len(c) = Len(r) + Len(t) /\ Len(r) \in Nat /\ Len(t) \in Nat
      /\ \A i \in 1 .. Len(r) : c[i] = r[i]
      /\ \A i \in 1 .. Len(t) : c[Len(r) + i] = t[i]
  BY <1>1, Joined
<1> HIDE DEF c
<1>3. ASSUME NEW m \in 1 .. Len(c)
      PROVE  \/ m \in 1 .. Len(r) /\ c[m] = r[m]
             \/ m - Len(r) \in 1 .. Len(t) /\ c[m] = t[m - Len(r)] /\ m > Len(r)
  <2>1. CASE m <= Len(r)
    BY <1>2, <2>1
  <2>2. CASE ~(m <= Len(r))
    <3> DEFINE i == m - Len(r)
    <3>1. i \in 1 .. Len(t) /\ Len(r) + i = m /\ m > Len(r)
      BY <1>2, <2>2
    <3> HIDE DEF i
    <3>2. c[m] = t[i]
      BY <1>2, <3>1
    <3> QED BY <3>1, <3>2 DEF i
  <2> QED BY <2>1, <2>2
<1>4. Whats(c) = W \union X
  <2>1. Whats(c) \subseteq W \union X
    BY <1>1, <1>3 DEF Whats
  <2>2. W \subseteq Whats(c)
    <3> SUFFICES ASSUME NEW x \in W PROVE x \in Whats(c)
      OBVIOUS
    <3>1. PICK i \in 1 .. Len(r) : r[i].what = x
      BY DEF GivesBack, Whats
    <3>2. i \in 1 .. Len(c) /\ c[i] = r[i]
      BY <1>2
    <3> QED BY <3>1, <3>2 DEF Whats
  <2>3. X \subseteq Whats(c)
    <3> SUFFICES ASSUME NEW x \in X PROVE x \in Whats(c)
      OBVIOUS
    <3>1. PICK i \in 1 .. Len(t) : t[i].what = x
      BY DEF GivesBack, Whats
    <3>2. Len(r) + i \in 1 .. Len(c) /\ c[Len(r) + i] = t[i]
      BY <1>2
    <3> QED BY <3>1, <3>2 DEF Whats
  <2> QED BY <2>1, <2>2, <2>3
<1>5. ASSUME NEW m \in 1 .. Len(c)
      PROVE  /\ c[m].do = "free" /\ c[m].uses = {}
             /\ \A n \in 1 .. m - 1 : c[n].what # c[m].what
  <2>1. c[m].do = "free" /\ c[m].uses = {}
    BY <1>3 DEF GivesBack
  <2>2. ASSUME NEW n \in 1 .. m - 1, c[n].what = c[m].what PROVE FALSE
    <3>1. n \in 1 .. Len(c) /\ n < m
      BY <1>2
    <3>2. CASE m \in 1 .. Len(r) /\ c[m] = r[m]
      <4>1. n \in 1 .. Len(r)
        BY <1>2, <3>1, <3>2
      <4> QED BY <1>2, <2>2, <3>2, <4>1 DEF GivesBack
    <3>3. CASE m - Len(r) \in 1 .. Len(t) /\ c[m] = t[m - Len(r)] /\ m > Len(r)
      <4>1. CASE n \in 1 .. Len(r) /\ c[n] = r[n]
        BY <1>1, <2>2, <3>3, <4>1
      <4>2. CASE n - Len(r) \in 1 .. Len(t) /\ c[n] = t[n - Len(r)] /\ n > Len(r)
        <5> DEFINE i == m - Len(r)
                   j == n - Len(r)
        <5>1. j \in 1 .. i - 1 /\ i \in 1 .. Len(t)
          BY <1>2, <3>1, <3>3, <4>2
        <5>2. t[j].what = t[i].what
          BY <2>2, <3>3, <4>2
        <5> HIDE DEF i, j
        <5> QED BY <5>1, <5>2 DEF GivesBack
      <4> QED BY <1>3, <3>1, <4>1, <4>2
    <3> QED BY <1>3, <3>2, <3>3
  <2> QED BY <2>1, <2>2
<1> QED BY <1>2, <1>4, <1>5 DEF GivesBack, c

LEMMA Releases ==
  /\ \A x : GivesBack(<<FreePool(x)>>, {x}) /\ GivesBack(<<Close(x)>>, {x})
  /\ GivesBack(CloseFile, {"file", "root"})
  /\ GivesBack(FreeBuffer, {"buffer", "file", "root"})
  /\ GivesBack(<<Unload("image")>> \o FreeBuffer, {"image", "buffer", "file", "root"})
  /\ GivesBack(FreeShot, {"shot", "bmp"})
  /\ GivesBack(CloseFile \o FreeShot, {"file", "root", "shot", "bmp"})
  /\ GivesBack(<<Close("root")>> \o FreeShot, {"root", "shot", "bmp"})
  /\ GivesBack(ClosePicture, {"data", "file", "root"})
<1>1. \A x : GivesBack(<<FreePool(x)>>, {x}) /\ GivesBack(<<Close(x)>>, {x})
  <2> TAKE x
  <2>1. /\ FreePool(x).do = "free" /\ FreePool(x).uses = {} /\ FreePool(x).what = x
        /\ Close(x).do = "free" /\ Close(x).uses = {} /\ Close(x).what = x
    BY DEF FreePool, Close, Step
  <2> DEFINE f == FreePool(x)
             c == Close(x)
  <2> HIDE DEF f, c
  <2>2. GivesBack(<<f>>, {f.what}) /\ GivesBack(<<c>>, {c.what})
    BY <2>1, GivesBackOne DEF f, c
  <2> QED BY <2>1, <2>2 DEF f, c
<1>2. GivesBack(CloseFile, {"file", "root"})
  <2>1. CloseFile = <<Close("file")>> \o <<Close("root")>>
    BY DEF CloseFile
  <2>2. GivesBack(<<Close("file")>> \o <<Close("root")>>, {"file"} \union {"root"})
    BY <1>1, GivesBackBoth
  <2>3. {"file"} \union {"root"} = {"file", "root"}
    OBVIOUS
  <2> QED BY <2>1, <2>2, <2>3
<1>3. GivesBack(FreeBuffer, {"buffer", "file", "root"})
  <2>1. GivesBack(FreeBuffer, {"buffer"} \union {"file", "root"})
    BY <1>1, <1>2, GivesBackBoth DEF FreeBuffer
  <2>2. {"buffer"} \union {"file", "root"} = {"buffer", "file", "root"}
    OBVIOUS
  <2> QED BY <2>1, <2>2
<1>4. GivesBack(FreeShot, {"shot", "bmp"})
  <2>1. FreeShot = <<FreePool("shot")>> \o <<FreePool("bmp")>>
    BY DEF FreeShot
  <2>2. GivesBack(<<FreePool("shot")>> \o <<FreePool("bmp")>>, {"shot"} \union {"bmp"})
    BY <1>1, GivesBackBoth
  <2>3. {"shot"} \union {"bmp"} = {"shot", "bmp"}
    OBVIOUS
  <2> QED BY <2>1, <2>2, <2>3
<1>5. GivesBack(CloseFile \o FreeShot, {"file", "root", "shot", "bmp"})
  <2>1. GivesBack(CloseFile \o FreeShot, {"file", "root"} \union {"shot", "bmp"})
    BY <1>2, <1>4, GivesBackBoth
  <2>2. {"file", "root"} \union {"shot", "bmp"} = {"file", "root", "shot", "bmp"}
    OBVIOUS
  <2> QED BY <2>1, <2>2
<1>6. GivesBack(<<Close("root")>> \o FreeShot, {"root", "shot", "bmp"})
  <2>1. GivesBack(<<Close("root")>> \o FreeShot, {"root"} \union {"shot", "bmp"})
    BY <1>1, <1>4, GivesBackBoth
  <2>2. {"root"} \union {"shot", "bmp"} = {"root", "shot", "bmp"}
    OBVIOUS
  <2> QED BY <2>1, <2>2
<1>7. GivesBack(ClosePicture, {"data", "file", "root"})
  <2>1. GivesBack(ClosePicture, {"data"} \union {"file", "root"})
    BY <1>1, <1>2, GivesBackBoth DEF ClosePicture
  <2>2. {"data"} \union {"file", "root"} = {"data", "file", "root"}
    OBVIOUS
  <2> QED BY <2>1, <2>2
<1>8. GivesBack(<<Unload("image")>> \o FreeBuffer, {"image", "buffer", "file", "root"})
  <2> DEFINE u == Unload("image")
  <2>1. u.do = "free" /\ u.uses = {} /\ u.what = "image"
    BY DEF Unload, Step
  <2> HIDE DEF u
  <2>2. GivesBack(<<u>>, {u.what})
    BY <2>1, GivesBackOne
  <2>3. GivesBack(<<u>> \o FreeBuffer, {"image"} \union {"buffer", "file", "root"})
    BY <1>3, <2>1, <2>2, GivesBackBoth
  <2>4. {"image"} \union {"buffer", "file", "root"} = {"image", "buffer", "file", "root"}
    OBVIOUS
  <2> QED BY <2>3, <2>4 DEF u
<1> QED BY <1>1, <1>2, <1>3, <1>4, <1>5, <1>6, <1>7, <1>8

(* When a step is right.                                                   *)
LEMMA TakesCall ==
  ASSUME NEW L, NEW name, NEW what, NEW uses, NEW r, NEW W,
         uses \subseteq L, what = "image" => name = "LoadImage",
         GivesBack(r, W), W \subseteq L \union ({what} \ {None}),
         L \subseteq W \union Left({name}),
         NEW M, M = L \union ({what} \ {None})
  PROVE  Takes(L, Call(name, what, uses, r), M)
<1> DEFINE s == Call(name, what, uses, r)
<1>1. s.do = "call" /\ s.name = name /\ s.what = what /\ s.uses = uses /\ s.orElse = r
  BY DEF Call, Step
<1> HIDE DEF s
<1>2. Gives(s) = {} /\ Yields(s) = {what} \ {None} /\ Needs(s) = uses
  BY <1>1 DEF Gives, Yields, Needs
<1>3. Clears(r, L, s)
  BY <1>1, <1>2, GivesBackClears
<1>4. Takes(L, s, M)
  BY <1>1, <1>2, <1>3 DEF Takes
<1> QED BY <1>4 DEF s

LEMMA TakesTry ==
  ASSUME NEW L, NEW name, NEW what, NEW uses, uses \subseteq L \union Known,
         NEW M, M = L \union ({what} \ {None})
  PROVE  Takes(L, Try(name, what, uses), M)
<1> DEFINE s == Try(name, what, uses)
<1>1. s.do = "try" /\ s.what = what /\ s.uses = uses
  BY DEF Try, Step
<1> HIDE DEF s
<1>2. Gives(s) = {} /\ Yields(s) = {what} \ {None} /\ Needs(s) = uses
  BY <1>1 DEF Gives, Yields, Needs
<1>3. Takes(L, s, M)
  BY <1>1, <1>2 DEF Takes
<1> QED BY <1>3 DEF s

LEMMA TakesTryNone ==
  ASSUME NEW L, NEW name, NEW uses, uses \subseteq L \union Known
  PROVE  Takes(L, Try(name, None, uses), L)
<1>1. L = L \union ({None} \ {None})
  OBVIOUS
<1> QED BY <1>1, TakesTry

LEMMA TakesFree ==
  ASSUME NEW L, NEW what, what \in L \union Known, NEW M, M = L \ {what}
  PROVE  Takes(L, FreePool(what), M) /\ Takes(L, Close(what), M)
<1>1. ASSUME NEW s, s.do = "free", s.what = what, s.uses = {}
      PROVE  Takes(L, s, M)
  <2>1. Gives(s) = {what} /\ Yields(s) = {} /\ Needs(s) = {what}
    BY <1>1 DEF Gives, Yields, Needs
  <2> QED BY <1>1, <2>1 DEF Takes
<1> DEFINE f == FreePool(what)
           c == Close(what)
<1>2. /\ f.do = "free" /\ f.what = what /\ f.uses = {}
      /\ c.do = "free" /\ c.what = what /\ c.uses = {}
  BY DEF FreePool, Close, Step
<1> HIDE DEF f, c
<1>3. Takes(L, f, M) /\ Takes(L, c, M)
  BY <1>1, <1>2
<1> QED BY <1>3 DEF f, c

LEMMA TakesFreeAny ==
  ASSUME NEW L, NEW what, NEW M, M = L \ {what}
  PROVE  Takes(L, FreeAny(what), M)
<1> DEFINE s == FreeAny(what)
<1>1. s.do = "freeAny" /\ s.what = what /\ s.uses = {}
  BY DEF FreeAny, Step
<1> HIDE DEF s
<1>2. Gives(s) = {what} /\ Yields(s) = {} /\ Needs(s) = {}
  BY <1>1 DEF Gives, Yields, Needs
<1>3. Takes(L, s, M)
  BY <1>1, <1>2 DEF Takes
<1> QED BY <1>3 DEF s

LEMMA TakesPicture ==
  ASSUME NEW L, NEW do \in {"convert", "grab", "blend", "show"}, NEW name,
         NEW uses, uses \subseteq L
  PROVE  Takes(L, Step(do, name, None, uses, <<>>), L)
<1> DEFINE s == Step(do, name, None, uses, <<>>)
<1>1. s.do = do /\ s.uses = uses
  BY DEF Step
<1> HIDE DEF s
<1>2. Gives(s) = {} /\ Yields(s) = {} /\ Needs(s) = uses
  BY <1>1 DEF Gives, Yields, Needs
<1>3. Takes(L, s, L)
  BY <1>1, <1>2 DEF Takes
<1> QED BY <1>3 DEF s

(* The same with what is acquired by name: names differ from None.         *)
Acquired == {"root", "file", "info", "buffer", "image", "shot", "bmp",
             "data", "front", "back", "mixed"}

LEMMA TakesCallNone ==
  ASSUME NEW L, NEW name, NEW uses, NEW r, NEW W, uses \subseteq L,
         GivesBack(r, W), W \subseteq L, L \subseteq W \union Left({name})
  PROVE  Takes(L, Call(name, None, uses, r), L)
<1>1. None # "image" /\ {None} \ {None} = {} /\ L = L \union {} /\ W \subseteq L \union {}
  BY AppsAssumption
<1> QED BY <1>1, TakesCall

LEMMA TakesNothing ==
  ASSUME NEW name PROVE Takes({}, Call(name, None, {}, <<>>), {})
<1>1. \A L, uses, r, W :
        /\ uses \subseteq L /\ GivesBack(r, W) /\ W \subseteq L
        /\ L \subseteq W \union Left({name})
        => Takes(L, Call(name, None, uses, r), L)
  BY TakesCallNone
<1> DEFINE nothing == {}
           empty == <<>>
<1>2. GivesBack(empty, nothing) /\ nothing \subseteq nothing \union Left({name})
  BY GivesBackNothing
<1> HIDE DEF nothing, empty
<1>3. Takes(nothing, Call(name, None, nothing, empty), nothing)
  BY <1>1, <1>2
<1> QED BY <1>3 DEF nothing, empty

LEMMA TakesCallFor ==
  ASSUME NEW L, NEW name, NEW what \in Acquired, NEW uses, NEW r, NEW W,
         uses \subseteq L, what = "image" => name = "LoadImage",
         GivesBack(r, W), W \subseteq L \union {what},
         L \subseteq W \union Left({name}),
         NEW M, M = L \union {what}
  PROVE  Takes(L, Call(name, what, uses, r), M)
<1>1. {what} \ {None} = {what}
  BY AppsAssumption DEF Acquired
<1> QED BY <1>1, TakesCall

LEMMA TakesTryFor ==
  ASSUME NEW L, NEW name, NEW what \in Acquired, NEW uses, uses \subseteq L,
         NEW M, M = L \union {what}
  PROVE  Takes(L, Try(name, what, uses), M)
<1>1. {what} \ {None} = {what}
  BY AppsAssumption DEF Acquired
<1> QED BY <1>1, TakesTry

(* The steps P take a program that holds L to where it holds M.            *)
Along(P, L, M) ==
  /\ P \in Seq(ToSet(P))
  /\ \E H : /\ H[1] = L /\ H[Len(P) + 1] = M
            /\ \A k \in 1 .. Len(P) : Takes(H[k], P[k], H[k + 1])

LEMMA AlongIsOutline ==
  ASSUME NEW P, Along(P, {}, {}) PROVE \E H : Outline(P, H)
BY DEF Along, Outline

LEMMA AlongOne ==
  ASSUME NEW L, NEW s, NEW M, Takes(L, s, M) PROVE Along(<<s>>, L, M)
<1> DEFINE H == <<L, M>>
           P == <<s>>
<1>1. P \in Seq(ToSet(P)) /\ Len(P) = 1 /\ P[1] = s /\ H[1] = L /\ H[2] = M
  BY DEF ToSet
<1>2. 1 .. 1 = {1} /\ 1 + 1 = 2
  OBVIOUS
<1> HIDE DEF P, H
<1>3. H[Len(P) + 1] = M /\ \A k \in 1 .. Len(P) : Takes(H[k], P[k], H[k + 1])
  BY <1>1, <1>2
<1> QED BY <1>1, <1>3 DEF Along, P

LEMMA AlongBoth ==
  ASSUME NEW P, NEW Q, NEW L, NEW M, NEW N, Along(P, L, M), Along(Q, M, N)
  PROVE  Along(P \o Q, L, N)
<1> DEFINE C == P \o Q
           n == Len(P)
<1>1. /\ C \in Seq(ToSet(C))
      /\ Len(C) = n + Len(Q) /\ n \in Nat /\ Len(Q) \in Nat
      /\ \A i \in 1 .. n : C[i] = P[i]
      /\ \A i \in 1 .. Len(Q) : C[n + i] = Q[i]
  BY Joined DEF Along
<1>2. PICK G : /\ G[1] = L /\ G[n + 1] = M
               /\ \A k \in 1 .. n : Takes(G[k], P[k], G[k + 1])
  BY DEF Along
<1>3. PICK J : /\ J[1] = M /\ J[Len(Q) + 1] = N
               /\ \A k \in 1 .. Len(Q) : Takes(J[k], Q[k], J[k + 1])
  BY DEF Along
<1> HIDE DEF C, n
<1> DEFINE H == [k \in 1 .. Len(C) + 1 |-> IF k <= n THEN G[k] ELSE J[k - n]]
<1>4. \A k \in 1 .. n + 1 : H[k] = G[k]
  <2> TAKE k \in 1 .. n + 1
  <2>1. k \in 1 .. Len(C) + 1
    BY <1>1
  <2>2. CASE k <= n
    BY <2>1, <2>2
  <2>3. CASE ~(k <= n)
    <3>1. k = n + 1 /\ k - n = 1
      BY <1>1, <2>3
    <3> QED BY <1>2, <1>3, <2>1, <2>3, <3>1
  <2> QED BY <2>2, <2>3
<1>5. \A k \in 1 .. Len(Q) + 1 : H[n + k] = J[k]
  <2> TAKE k \in 1 .. Len(Q) + 1
  <2>1. n + k \in 1 .. Len(C) + 1 /\ ~(n + k <= n) /\ (n + k) - n = k
    BY <1>1
  <2> QED BY <2>1
<1> HIDE DEF H
<1>6. H[1] = L /\ H[Len(C) + 1] = N
  <2>1. 1 \in 1 .. n + 1 /\ Len(Q) + 1 \in 1 .. Len(Q) + 1
        /\ Len(C) + 1 = n + (Len(Q) + 1)
    BY <1>1
  <2> QED BY <1>2, <1>3, <1>4, <1>5, <2>1
<1>7. ASSUME NEW k \in 1 .. Len(C) PROVE Takes(H[k], C[k], H[k + 1])
  <2>1. CASE k <= n
    <3>1. k \in 1 .. n /\ k \in 1 .. n + 1 /\ k + 1 \in 1 .. n + 1
      BY <1>1, <2>1
    <3> QED BY <1>1, <1>2, <1>4, <3>1
  <2>2. CASE ~(k <= n)
    <3> DEFINE i == k - n
    <3>1. /\ i \in 1 .. Len(Q) /\ i \in 1 .. Len(Q) + 1 /\ i + 1 \in 1 .. Len(Q) + 1
          /\ k = n + i /\ k + 1 = n + (i + 1)
      BY <1>1, <2>2
    <3> HIDE DEF i
    <3> QED BY <1>1, <1>3, <1>5, <3>1
  <2> QED BY <2>1, <2>2
<1>8. \E h : /\ h[1] = L /\ h[Len(C) + 1] = N
            /\ \A k \in 1 .. Len(C) : Takes(h[k], C[k], h[k + 1])
  BY <1>6, <1>7
<1> QED BY <1>1, <1>8 DEF Along, C

LEMMA AlongTwo ==
  ASSUME NEW L, NEW s, NEW M, NEW t, NEW N, Takes(L, s, M), Takes(M, t, N)
  PROVE  Along(<<s, t>>, L, N)
<1>1. <<s, t>> = <<s>> \o <<t>>
  OBVIOUS
<1> QED BY <1>1, AlongOne, AlongBoth

(* What a program does in the end.                                         *)
LEMMA AlongReleases ==
  /\ Along(CloseFile, {"root", "file"}, {})
  /\ Along(FreeBuffer, {"root", "file", "buffer"}, {})
  /\ Along(FreeShot, {"root", "file", "shot", "bmp"}, {"root", "file"})
  /\ Along(ClosePicture, {"root", "file", "data"}, {})
<1>1. Takes({"root", "file"}, Close("file"), {"root"})
  BY TakesFree
<1>2. Takes({"root"}, Close("root"), {})
  BY TakesFree
<1>3. Along(CloseFile, {"root", "file"}, {})
  BY <1>1, <1>2, AlongTwo DEF CloseFile
<1>4. Takes({"root", "file", "buffer"}, FreePool("buffer"), {"root", "file"})
  BY TakesFree
<1>5. Along(FreeBuffer, {"root", "file", "buffer"}, {})
  BY <1>3, <1>4, AlongOne, AlongBoth DEF FreeBuffer
<1>6. Takes({"root", "file", "shot", "bmp"}, FreePool("shot"), {"root", "file", "bmp"})
  BY TakesFree
<1>7. Takes({"root", "file", "bmp"}, FreePool("bmp"), {"root", "file"})
  BY TakesFree
<1>8. Along(FreeShot, {"root", "file", "shot", "bmp"}, {"root", "file"})
  BY <1>6, <1>7, AlongTwo DEF FreeShot
<1>9. Takes({"root", "file", "data"}, FreePool("data"), {"root", "file"})
  BY TakesFree
<1>10. Along(ClosePicture, {"root", "file", "data"}, {})
  BY <1>3, <1>9, AlongOne, AlongBoth DEF ClosePicture
<1> QED BY <1>3, <1>5, <1>8, <1>10

LEMMA StartProgramAlong ==
  ASSUME program = "StartProgram" PROVE Along(StartProgram, {}, {})
<1> DEFINE
      O == {}
      R == {"root"}
      F == {"root", "file"}
      I == {"root", "file", "info"}
      B == {"root", "file", "buffer"}
      G == {"root", "file", "buffer", "image"}
      H == <<O, O, O, R, F, I, I, F, B, B, G, B>>
      s1 == Call("LoadedImage", None, {}, <<>>)
      s2 == Call("FileSystem", None, {}, <<>>)
      s3 == Call("OpenVolume", "root", {}, <<>>)
      s4 == Call("Open", "file", {"root"}, <<Close("root"), Close("root")>>)
      s5 == Try("AllocateInfo", "info", {})
      s6 == Call("GetInfo", None, {"file", "info"}, CloseFile)
      s7 == FreePool("info")
      s8 == Try("AllocateBuffer", "buffer", {})
      s9 == Call("Read", None, {"file", "buffer"}, FreeBuffer)
      s10 == Call("LoadImage", "image", {"buffer"}, FreeBuffer)
      s11 == Step("start", "StartImage", "image", {"image"},
                  <<Unload("image")>> \o FreeBuffer)
      P == <<s1, s2, s3, s4, s5, s6, s7, s8, s9, s10, s11>>
<1>1. StartProgram = P \o FreeBuffer
  BY DEF StartProgram
<1>2. Takes(O, s1, O) /\ Takes(O, s2, O)
  BY TakesNothing
<1>3. Takes(O, s3, R)
  BY GivesBackNothing, TakesCallFor DEF Acquired
<1>4. Takes(R, s4, F)
  <2> DEFINE r == <<Close("root"), Close("root")>>
  <2>1. /\ s4.do = "call" /\ s4.name = "Open" /\ s4.what = "file"
        /\ s4.uses = {"root"} /\ s4.orElse = r
    BY DEF Call, Step
  <2>2. r \in Seq(ToSet(r)) /\ Len(r) = 2 /\ r[1] = Close("root") /\ r[2] = Close("root")
    BY DEF ToSet
  <2>3. Close("root").do = "free" /\ Close("root").uses = {} /\ Close("root").what = "root"
    BY DEF Close, Step
  <2> HIDE DEF s4, r
  <2>4. Gives(s4) = {} /\ Yields(s4) = {"file"} /\ Needs(s4) = {"root"}
    BY <2>1, AppsAssumption DEF Gives, Yields, Needs
  <2>5. Twice({s4.name}) = {"root"}
    BY <2>1 DEF Twice
  <2>6. 1 .. Len(r) = {1, 2} /\ \A m \in 1 .. Len(r) : r[m] = Close("root")
    BY <2>2
  <2>7. Whats(r) = {"root"}
    BY <2>3, <2>6 DEF Whats
  <2>8. Clears(r, R, s4)
    BY <2>2, <2>3, <2>4, <2>5, <2>6, <2>7 DEF Clears
  <2> QED BY <2>1, <2>4, <2>8 DEF Takes
<1>5. Takes(F, s5, I)
  BY TakesTryFor DEF Acquired
<1>6. Takes(I, s6, I)
  <2>1. Left({"GetInfo"}) = {"info"}
    BY DEF Left
  <2> QED BY <2>1, Releases, TakesCallNone
<1>7. Takes(I, s7, F)
  BY TakesFree
<1>8. Takes(F, s8, B)
  BY TakesTryFor DEF Acquired
<1>9. Takes(B, s9, B)
  BY Releases, TakesCallNone
<1>10. Takes(B, s10, G)
  BY Releases, TakesCallFor DEF Acquired
<1>11. Takes(G, s11, B)
  <2>1. /\ s11.do = "start" /\ s11.what = "image" /\ s11.uses = {"image"}
        /\ s11.orElse = <<Unload("image")>> \o FreeBuffer /\ s11.name = "StartImage"
    BY DEF Step
  <2> HIDE DEF s11
  <2>2. Gives(s11) = {"image"} /\ Yields(s11) = {} /\ Needs(s11) = {"image"}
    BY <2>1 DEF Gives, Yields, Needs
  <2>3. Clears(<<Unload("image")>> \o FreeBuffer, G, s11)
    <3> DEFINE r == <<Unload("image")>> \o FreeBuffer
    <3>1. G \ Gives(s11) = B /\ Yields(s11) = {} /\ GivesBack(r, G)
      <4>1. G = {"image", "buffer", "file", "root"}
        OBVIOUS
      <4> QED BY <2>2, <4>1, Releases
    <3>2. Twice({s11.name}) = {"image"}
      BY <2>1 DEF Twice
    <3>3. G \subseteq (G \ Gives(s11)) \union Yields(s11) \union Twice({s11.name})
      BY <3>1, <3>2
    <3> HIDE DEF r, G
    <3> QED BY <3>1, <3>3, GivesBackClears DEF r
  <2> QED BY <2>1, <2>2, <2>3 DEF Takes
<1>12. Along(P, O, B)
  <2>1. /\ P \in Seq(ToSet(P)) /\ Len(P) = 11
        /\ P[1] = s1 /\ P[2] = s2 /\ P[3] = s3 /\ P[4] = s4 /\ P[5] = s5
        /\ P[6] = s6 /\ P[7] = s7 /\ P[8] = s8 /\ P[9] = s9 /\ P[10] = s10
        /\ P[11] = s11
    <3> HIDE DEF s1, s2, s3, s4, s5, s6, s7, s8, s9, s10, s11
    <3> QED BY DEF ToSet
  <2>2. /\ H[1] = O /\ H[2] = O /\ H[3] = O /\ H[4] = R /\ H[5] = F
        /\ H[6] = I /\ H[7] = I /\ H[8] = F /\ H[9] = B /\ H[10] = B
        /\ H[11] = G /\ H[12] = B
    <3> HIDE DEF O, R, F, I, B, G
    <3> QED OBVIOUS
  <2> HIDE DEF P, H, O, R, F, I, B, G, s1, s2, s3, s4, s5, s6, s7, s8, s9, s10, s11
  <2>3. ASSUME NEW k \in 1 .. Len(P) PROVE Takes(H[k], P[k], H[k + 1])
    <3>1. k \in 1 .. 11
      BY <2>1
    <3>2. CASE k = 1 \/ k = 2 \/ k = 3
      BY <1>2, <1>3, <2>1, <2>2, <3>2
    <3>3. CASE k = 4 \/ k = 5
      BY <1>4, <1>5, <2>1, <2>2, <3>3
    <3>4. CASE k \in 6 .. 11
      BY <1>6, <1>7, <1>8, <1>9, <1>10, <1>11, <2>1, <2>2, <3>4
    <3> QED BY <3>1, <3>2, <3>3, <3>4
  <2>4. H[1] = O /\ H[Len(P) + 1] = B
    BY <2>1, <2>2
  <2> QED BY <2>1, <2>3, <2>4 DEF Along
<1> HIDE DEF P
<1> QED BY <1>1, <1>12, AlongReleases, AlongBoth

LEMMA ScreenShotAlong == Along(ScreenShot, {}, {})
<1> DEFINE
      O == {}
      S == {"shot"}
      T == {"shot", "bmp"}
      U == {"shot", "bmp", "root"}
      V == {"root", "file", "shot", "bmp"}
      H == <<O, O, S, S, T, T, U, V, V>>
      s1 == Call("LocateGop", None, {}, <<>>)
      s2 == Call("Allocate", "shot", {}, <<>>)
      s3 == Call("Blt", None, {"shot"}, <<FreePool("shot")>>)
      s4 == Call("Translate", "bmp", {"shot"}, FreeShot)
      s5 == Call("LocateFileSystem", None, {}, FreeShot)
      s6 == Call("OpenVolume", "root", {}, <<Close("root")>> \o FreeShot)
      s7 == Call("Open", "file", {"root"}, CloseFile \o FreeShot)
      s8 == Try("Write", None, {"file", "bmp"})
      P == <<s1, s2, s3, s4, s5, s6, s7, s8>>
<1>1. ScreenShot = P \o (FreeShot \o CloseFile)
  BY DEF ScreenShot
<1>2. Takes(O, s1, O)
  BY TakesNothing
<1>3. Takes(O, s2, S)
  BY GivesBackNothing, TakesCallFor DEF Acquired
<1>4. Takes(S, s3, S)
  BY Releases, TakesCallNone
<1>5. Takes(S, s4, T)
  BY Releases, TakesCallFor DEF Acquired
<1>6. Takes(T, s5, T)
  BY Releases, TakesCallNone
<1>7. Takes(T, s6, U)
  BY Releases, TakesCallFor DEF Acquired
<1>8. Takes(U, s7, V)
  BY Releases, TakesCallFor DEF Acquired
<1>9. Takes(V, s8, V)
  BY TakesTryNone
<1>10. Along(P, O, V)
  <2>1. /\ P \in Seq(ToSet(P)) /\ Len(P) = 8 /\ P[1] = s1 /\ P[2] = s2
        /\ P[3] = s3 /\ P[4] = s4 /\ P[5] = s5 /\ P[6] = s6 /\ P[7] = s7
        /\ P[8] = s8
    <3> HIDE DEF s1, s2, s3, s4, s5, s6, s7, s8
    <3> QED BY DEF ToSet
  <2>2. /\ H[1] = O /\ H[2] = O /\ H[3] = S /\ H[4] = S /\ H[5] = T
        /\ H[6] = T /\ H[7] = U /\ H[8] = V /\ H[9] = V
    <3> HIDE DEF O, S, T, U, V
    <3> QED OBVIOUS
  <2> HIDE DEF P, H, O, S, T, U, V, s1, s2, s3, s4, s5, s6, s7, s8
  <2>3. ASSUME NEW k \in 1 .. Len(P) PROVE Takes(H[k], P[k], H[k + 1])
    <3>1. k \in 1 .. 8
      BY <2>1
    <3>2. CASE k \in 1 .. 5
      BY <1>2, <1>3, <1>4, <1>5, <1>6, <2>1, <2>2, <3>2
    <3>3. CASE k \in 6 .. 8
      BY <1>7, <1>8, <1>9, <2>1, <2>2, <3>3
    <3> QED BY <3>1, <3>2, <3>3
  <2>4. H[1] = O /\ H[Len(P) + 1] = V
    BY <2>1, <2>2
  <2> QED BY <2>1, <2>3, <2>4 DEF Along
<1> HIDE DEF P
<1> QED BY <1>1, <1>10, AlongReleases, AlongBoth

LEMMA ShowPictureAlong == Along(ShowPicture, {}, {})
<1> DEFINE
      O == {}
      R == {"root"}
      F == {"root", "file"}
      I == {"root", "file", "info"}
      D == {"root", "file", "data"}
      D1 == {"root", "file", "data", "front"}
      D2 == {"root", "file", "data", "front", "back"}
      D3 == {"root", "file", "data", "front", "back", "mixed"}
      D4 == {"root", "file", "data", "back", "mixed"}
      D5 == {"root", "file", "data", "mixed"}
      H == <<O, O, R, F, I, I, F, D, D, D, D, D1, D1, D2, D3, D3, D3, D3, D4,
              D5, D>>
      s1 == Call("LocateFileSystem", None, {}, <<>>)
      s2 == Call("OpenVolume", "root", {}, <<>>)
      s3 == Call("Open", "file", {"root"}, <<Close("root")>>)
      s4 == Try("AllocateInfo", "info", {})
      s5 == Call("GetInfo", None, {"file", "info"}, CloseFile)
      s6 == FreePool("info")
      s7 == Try("AllocateData", "data", {})
      s8 == Call("Read", None, {"file", "data"}, ClosePicture)
      s9 == Call("Header", None, {"data"}, ClosePicture)
      s10 == Call("LocateGop", None, {}, ClosePicture)
      s11 == Try("AllocateFront", "front", {})
      s12 == Step("convert", "Convert", None, {"data", "front"}, <<>>)
      s13 == Try("AllocateBack", "back", {})
      s14 == Try("AllocateMixed", "mixed", {})
      s15 == Step("grab", "Grab", None, {"back"}, <<>>)
      s16 == Step("blend", "Blend", None, {"front", "back", "mixed"}, <<>>)
      s17 == Step("show", "Show", None, {"mixed"}, <<>>)
      s18 == FreePool("front")
      s19 == FreePool("back")
      s20 == FreePool("mixed")
      P == <<s1, s2, s3, s4, s5, s6, s7, s8, s9, s10, s11, s12, s13, s14,
            s15, s16, s17, s18, s19, s20>>
<1>1. ShowPicture = P \o ClosePicture
  BY DEF ShowPicture
<1>2. Takes(O, s1, O)
  BY TakesNothing
<1>3. Takes(O, s2, R)
  BY GivesBackNothing, TakesCallFor DEF Acquired
<1>4. Takes(R, s3, F)
  BY Releases, TakesCallFor DEF Acquired
<1>5. Takes(F, s4, I)
  BY TakesTryFor DEF Acquired
<1>6. Takes(I, s5, I)
  BY Releases, TakesCallNone DEF Left
<1>7. Takes(I, s6, F)
  BY TakesFree
<1>8. Takes(F, s7, D)
  BY TakesTryFor DEF Acquired
<1>9. Takes(D, s8, D)
  BY Releases, TakesCallNone
<1>10. Takes(D, s9, D)
  BY Releases, TakesCallNone
<1>11. Takes(D, s10, D)
  BY Releases, TakesCallNone
<1>12. Takes(D, s11, D1)
  BY TakesTryFor DEF Acquired
<1>13. Takes(D1, s12, D1)
  BY TakesPicture
<1>14. Takes(D1, s13, D2)
  BY TakesTryFor DEF Acquired
<1>15. Takes(D2, s14, D3)
  BY TakesTryFor DEF Acquired
<1>16. Takes(D3, s15, D3)
  BY TakesPicture
<1>17. Takes(D3, s16, D3)
  BY TakesPicture
<1>18. Takes(D3, s17, D3)
  BY TakesPicture
<1>19. Takes(D3, s18, D4)
  BY TakesFree
<1>20. Takes(D4, s19, D5)
  BY TakesFree
<1>21. Takes(D5, s20, D)
  BY TakesFree
<1>22. Along(P, O, D)
  <2> HIDE DEF O, R, F, I, D, D1, D2, D3, D4, D5, s1, s2, s3, s4, s5, s6, s7, s8,
              s9, s10, s11, s12, s13, s14, s15, s16, s17, s18, s19, s20
  <2>1. P \in Seq(ToSet(P)) /\ Len(P) = 20 /\ H[1] = O /\ H[20 + 1] = D
    BY DEF ToSet
  <2>2. /\ P[1] = s1 /\ P[2] = s2 /\ P[3] = s3 /\ P[4] = s4
        /\ H[1] = O /\ H[2] = O /\ H[3] = R /\ H[4] = F /\ H[5] = I
    OBVIOUS
  <2>3. /\ P[5] = s5 /\ P[6] = s6 /\ P[7] = s7 /\ P[8] = s8
        /\ H[5] = I /\ H[6] = I /\ H[7] = F /\ H[8] = D /\ H[9] = D
    OBVIOUS
  <2>4. /\ P[9] = s9 /\ P[10] = s10 /\ P[11] = s11 /\ P[12] = s12
        /\ H[9] = D /\ H[10] = D /\ H[11] = D /\ H[12] = D1 /\ H[13] = D1
    OBVIOUS
  <2>5. /\ P[13] = s13 /\ P[14] = s14 /\ P[15] = s15 /\ P[16] = s16
        /\ H[13] = D1 /\ H[14] = D2 /\ H[15] = D3 /\ H[16] = D3 /\ H[17] = D3
    OBVIOUS
  <2>6. /\ P[17] = s17 /\ P[18] = s18 /\ P[19] = s19 /\ P[20] = s20
        /\ H[17] = D3 /\ H[18] = D3 /\ H[19] = D4 /\ H[20] = D5 /\ H[21] = D
    OBVIOUS
  <2> HIDE DEF P, H
  <2>7. ASSUME NEW k \in 1 .. Len(P) PROVE Takes(H[k], P[k], H[k + 1])
    <3>1. k \in 1 .. 20
      BY <2>1
    <3>2. CASE k \in 1 .. 4
      BY <1>2, <1>3, <1>4, <1>5, <2>2, <3>2
    <3>3. CASE k \in 5 .. 8
      BY <1>6, <1>7, <1>8, <1>9, <2>3, <3>3
    <3>4. CASE k \in 9 .. 12
      BY <1>10, <1>11, <1>12, <1>13, <2>4, <3>4
    <3>5. CASE k \in 13 .. 16
      BY <1>14, <1>15, <1>16, <1>17, <2>5, <3>5
    <3>6. CASE k \in 17 .. 20
      BY <1>18, <1>19, <1>20, <1>21, <2>6, <3>6
    <3> QED BY <3>1, <3>2, <3>3, <3>4, <3>5, <3>6
  <2> QED BY <2>1, <2>7 DEF Along
<1> HIDE DEF P
<1> QED BY <1>1, <1>22, AlongReleases, AlongBoth

LEMMA SetModeAlong == Along(SetMode, {}, {})
<1> DEFINE s == Call("LocateGop", None, {}, <<>>)
           t == Call("SetMode", None, {}, <<>>)
<1>1. Takes({}, s, {}) /\ Takes({}, t, {})
  BY TakesNothing
<1> HIDE DEF s, t
<1>2. Along(<<s, t>>, {}, {})
  BY <1>1, AlongTwo
<1> QED BY <1>2 DEF SetMode, s, t

(* What is left of the list from the i-th option on.                       *)
From(kind, i) == {kind} \X (i .. options)

LEMMA FromStep ==
  ASSUME AppTypeOK, NEW kind, NEW i \in 1 .. options
  PROVE  /\ <<kind, i>> \in From(kind, i)
         /\ From(kind, i + 1) = From(kind, i) \ {<<kind, i>>}
         /\ From(kind, options + 1) = {}
<1>1. options \in Nat /\ MaxOptions \in Nat
  BY AppsAssumption DEF AppTypeOK
<1> QED BY <1>1 DEF From

LEMMA ListOf ==
  ASSUME NEW n \in Nat, NEW f, f = [k \in 1 .. n |-> f[k]]
  PROVE  f \in Seq(ToSet(f)) /\ Len(f) = n
<1>1. DOMAIN f = 1 .. n
  OBVIOUS
<1>2. \A k \in 1 .. n : f[k] \in ToSet(f)
  BY <1>1 DEF ToSet
<1>3. [k \in 1 .. n |-> f[k]] \in Seq(ToSet(f))
  BY <1>2, IsASeq
<1>4. f \in Seq(ToSet(f))
  BY <1>3
<1>5. Len(f) \in Nat /\ DOMAIN f = 1 .. Len(f)
  BY <1>4, LenProperties
<1> QED BY <1>1, <1>4, <1>5

(* Each option is shown.                                                   *)
LEMMA ShowAlong ==
  ASSUME AppTypeOK
  PROVE  LET show(i) == <<Try("Text", <<"text", i>>, {<<"option", i>>}),
                          FreeAny(<<"description", i>>), FreeAny(<<"text", i>>)>>
         IN  Along(ForEach(3, show),
                   From("option", 1) \union From("description", 1), From("option", 1))
<1> DEFINE show(i) == <<Try("Text", <<"text", i>>, {<<"option", i>>}),
                        FreeAny(<<"description", i>>), FreeAny(<<"text", i>>)>>
           P == ForEach(3, show)
           O == From("option", 1)
           nth(k) == 1 + ((k - 1) \div 3)
           kept(k) ==
             IF (k - 1) % 3 = 0 THEN O \union From("description", nth(k))
             ELSE IF (k - 1) % 3 = 1
             THEN O \union From("description", nth(k)) \union {<<"text", nth(k)>>}
             ELSE O \union From("description", nth(k) + 1) \union {<<"text", nth(k)>>}
           H == [k \in 1 .. options * 3 + 1 |-> kept(k)]
<1>1. options \in Nat
  BY AppsAssumption DEF AppTypeOK
<1>2. P = [k \in 1 .. options * 3 |-> show(nth(k))[1 + ((k - 1) % 3)]]
  BY DEF ForEach
<1> DEFINE e(k) == show(nth(k))[1 + ((k - 1) % 3)]
           n == options * 3
<1>3. P \in Seq(ToSet(P)) /\ Len(P) = n /\ n \in Nat /\ \A k \in 1 .. n : P[k] = e(k)
  <2>1. n \in Nat
    BY <1>1
  <2> HIDE DEF e, n
  <2>2. P = [k \in 1 .. n |-> e(k)]
    BY <1>2 DEF e, n
  <2> HIDE DEF P
  <2>3. P = [k \in 1 .. n |-> P[k]] /\ \A k \in 1 .. n : P[k] = e(k)
    BY <2>2
  <2> QED BY <2>1, <2>3, ListOf
<1>4. H[1] = O \union From("description", 1) /\ H[n + 1] = O
  <2>1. /\ (1 - 1) % 3 = 0 /\ nth(1) = 1 /\ 1 \in 1 .. n + 1
        /\ ((n + 1) - 1) % 3 = 0 /\ nth(n + 1) = options + 1 /\ n + 1 \in 1 .. n + 1
    BY <1>1
  <2>2. From("description", options + 1) = {}
    BY <1>1 DEF From
  <2> HIDE DEF O, n, nth
  <2> QED BY <2>1, <2>2 DEF n
<1>5. ASSUME NEW k \in 1 .. n PROVE Takes(H[k], P[k], H[k + 1])
  <2> DEFINE i == nth(k)
  <2>1. /\ i \in 1 .. options /\ options \in 0 .. MaxOptions /\ MaxOptions \in Nat
        /\ k \in 1 .. n + 1 /\ k + 1 \in 1 .. n + 1
    BY <1>1, AppsAssumption DEF AppTypeOK
  <2>2. \/ (k - 1) % 3 = 0 /\ ((k + 1) - 1) % 3 = 1 /\ nth(k + 1) = i
        \/ (k - 1) % 3 = 1 /\ ((k + 1) - 1) % 3 = 2 /\ nth(k + 1) = i
        \/ (k - 1) % 3 = 2 /\ ((k + 1) - 1) % 3 = 0 /\ nth(k + 1) = i + 1
    BY <1>1
  <2>3. P[k] = e(k) /\ H[k] = kept(k) /\ H[k + 1] = kept(k + 1)
    BY <1>3, <2>1
  <2> DEFINE D == From("description", i)
             E == From("description", i + 1)
             text == <<"text", i>>
             option == <<"option", i>>
             description == <<"description", i>>
  <2>4. option \in O /\ E = D \ {description} /\ description \notin O
    BY <2>1, FromStep DEF From
  <2>5. text \notin O \union D /\ text # description /\ {text} \ {None} = {text}
    <3>1. text \in {"text"} \X (1 .. MaxOptions)
      BY <2>1
    <3> QED BY <3>1, AppsAssumption DEF From
  <2>6. /\ show(i)[1] = Try("Text", text, {option})
        /\ show(i)[2] = FreeAny(description) /\ show(i)[3] = FreeAny(text)
    OBVIOUS
  <2>7. CASE (k - 1) % 3 = 0
    <3>1. /\ P[k] = Try("Text", text, {option})
          /\ H[k] = O \union D /\ H[k + 1] = O \union D \union {text}
      <4>1. /\ 1 + ((k - 1) % 3) = 1 /\ ((k + 1) - 1) % 3 = 1
            /\ ((k + 1) - 1) % 3 # 0 /\ nth(k + 1) = i
        BY <2>2, <2>7
      <4> HIDE DEF show, nth, H, P, O
      <4>2. P[k] = Try("Text", text, {option})
        BY <2>3, <2>6, <4>1
      <4>3. H[k] = O \union D
        BY <2>3, <2>7
      <4>4. H[k + 1] = O \union D \union {text}
        BY <2>3, <4>1
      <4> QED BY <4>2, <4>3, <4>4
    <3> HIDE DEF O, D, P, H, text, option
    <3>2. {option} \subseteq (O \union D) \union Known
      BY <2>4
    <3>3. Takes(O \union D, Try("Text", text, {option}), O \union D \union {text})
      BY <2>5, <3>2, TakesTry
    <3> QED BY <3>1, <3>3
  <2>8. CASE (k - 1) % 3 = 1
    <3>1. /\ P[k] = FreeAny(description)
          /\ H[k] = O \union D \union {text} /\ H[k + 1] = O \union E \union {text}
      <4>1. /\ 1 + ((k - 1) % 3) = 2 /\ ((k - 1) % 3) # 0
            /\ ((k + 1) - 1) % 3 = 2 /\ nth(k + 1) = i
        BY <2>2, <2>8
      <4> HIDE DEF show, nth, H, P, O
      <4>2. P[k] = FreeAny(description)
        BY <2>3, <2>6, <4>1
      <4>3. H[k] = O \union D \union {text}
        BY <2>3, <2>8, <4>1
      <4>4. H[k + 1] = O \union E \union {text}
        BY <2>3, <4>1
      <4> QED BY <4>2, <4>3, <4>4
    <3> HIDE DEF O, D, E, P, H, text, description
    <3>2. O \union E \union {text} = (O \union D \union {text}) \ {description}
      BY <2>4, <2>5
    <3>3. Takes(O \union D \union {text}, FreeAny(description), O \union E \union {text})
      BY <3>2, TakesFreeAny
    <3> QED BY <3>1, <3>3
  <2>9. CASE (k - 1) % 3 = 2
    <3>1. /\ P[k] = FreeAny(text)
          /\ H[k] = O \union E \union {text} /\ H[k + 1] = O \union E
      <4>1. /\ 1 + ((k - 1) % 3) = 3 /\ (k - 1) % 3 # 0 /\ (k - 1) % 3 # 1
            /\ ((k + 1) - 1) % 3 = 0 /\ nth(k + 1) = i + 1
        BY <2>2, <2>9
      <4> HIDE DEF show, nth, H, P, O
      <4>2. P[k] = FreeAny(text)
        BY <2>3, <2>6, <4>1
      <4>3. H[k] = O \union E \union {text}
        BY <2>3, <4>1
      <4>4. H[k + 1] = O \union E
        BY <2>3, <4>1
      <4> QED BY <4>2, <4>3, <4>4
    <3> HIDE DEF O, D, E, P, H, text
    <3>2. O \union E = (O \union E \union {text}) \ {text}
      BY <2>4, <2>5
    <3>3. Takes(O \union E \union {text}, FreeAny(text), O \union E)
      BY <3>2, TakesFreeAny
    <3> QED BY <3>1, <3>3
  <2> QED BY <2>2, <2>7, <2>8, <2>9
<1> HIDE DEF n, H
<1>6. \E h : /\ h[1] = O \union From("description", 1) /\ h[Len(P) + 1] = O
            /\ \A k \in 1 .. Len(P) : Takes(h[k], P[k], h[k + 1])
  BY <1>3, <1>4, <1>5
<1> QED BY <1>3, <1>6 DEF Along

(* Each is freed, after its description.                                   *)
LEMMA DropAlong ==
  ASSUME AppTypeOK, program = "ListAndBoot"
  PROVE  LET drop(i) == <<FreePool(<<"description", i>>), FreePool(<<"option", i>>)>>
         IN  Along(ForEach(2, drop), From("option", 1), {})
<1> DEFINE drop(i) == <<FreePool(<<"description", i>>), FreePool(<<"option", i>>)>>
           P == ForEach(2, drop)
           nth(k) == 1 + ((k - 1) \div 2)
           e(k) == drop(nth(k))[1 + ((k - 1) % 2)]
           n == options * 2
           H == [k \in 1 .. n + 1 |-> From("option", nth(k))]
<1>1. options \in Nat
  BY AppsAssumption DEF AppTypeOK
<1>2. P \in Seq(ToSet(P)) /\ Len(P) = n /\ n \in Nat /\ \A k \in 1 .. n : P[k] = e(k)
  <2>1. n \in Nat
    BY <1>1
  <2>2. P = [k \in 1 .. n |-> e(k)]
    BY DEF ForEach
  <2> HIDE DEF e, n, P
  <2>3. P = [k \in 1 .. n |-> P[k]] /\ \A k \in 1 .. n : P[k] = e(k)
    BY <2>2
  <2> QED BY <2>1, <2>3, ListOf
<1>3. H[1] = From("option", 1) /\ H[n + 1] = {}
  <2>1. /\ nth(1) = 1 /\ 1 \in 1 .. n + 1
        /\ nth(n + 1) = options + 1 /\ n + 1 \in 1 .. n + 1
    BY <1>1
  <2>2. From("option", options + 1) = {}
    BY <1>1 DEF From
  <2> HIDE DEF n, nth
  <2> QED BY <2>1, <2>2
<1>4. ASSUME NEW k \in 1 .. n PROVE Takes(H[k], P[k], H[k + 1])
  <2> DEFINE i == nth(k)
             D == From("option", i)
             E == From("option", i + 1)
             option == <<"option", i>>
             description == <<"description", i>>
  <2>1. /\ i \in 1 .. options /\ k \in 1 .. n + 1 /\ k + 1 \in 1 .. n + 1
    BY <1>1
  <2>2. \/ (k - 1) % 2 = 0 /\ nth(k + 1) = i
        \/ (k - 1) % 2 = 1 /\ nth(k + 1) = i + 1
    BY <1>1
  <2>3. P[k] = e(k) /\ H[k] = D /\ H[k + 1] = From("option", nth(k + 1))
    BY <1>2, <2>1
  <2>4. option \in D /\ E = D \ {option}
    BY <2>1, FromStep
  <2>5. description \in Known /\ description \notin D
    BY <2>1 DEF Known, From
  <2>6. drop(i)[1] = FreePool(description) /\ drop(i)[2] = FreePool(option)
    OBVIOUS
  <2>7. CASE (k - 1) % 2 = 0
    <3>1. P[k] = FreePool(description) /\ H[k] = D /\ H[k + 1] = D
      <4>1. 1 + ((k - 1) % 2) = 1 /\ nth(k + 1) = i
        BY <2>2, <2>7
      <4> HIDE DEF drop, nth, H, P
      <4> QED BY <2>3, <2>6, <4>1
    <3> HIDE DEF D, H, P, description
    <3>2. D = D \ {description} /\ description \in D \union Known
      BY <2>5
    <3>3. Takes(D, FreePool(description), D)
      BY <3>2, TakesFree
    <3> QED BY <3>1, <3>3
  <2>8. CASE (k - 1) % 2 = 1
    <3>1. P[k] = FreePool(option) /\ H[k] = D /\ H[k + 1] = E
      <4>1. 1 + ((k - 1) % 2) = 2 /\ nth(k + 1) = i + 1
        BY <2>2, <2>8
      <4> HIDE DEF drop, nth, H, P
      <4> QED BY <2>3, <2>6, <4>1
    <3> HIDE DEF D, E, H, P, option
    <3>2. Takes(D, FreePool(option), E)
      BY <2>4, TakesFree
    <3> QED BY <3>1, <3>2
  <2> QED BY <2>2, <2>7, <2>8
<1> HIDE DEF n, H
<1>5. \E h : /\ h[1] = From("option", 1) /\ h[Len(P) + 1] = {}
            /\ \A k \in 1 .. Len(P) : Takes(h[k], P[k], h[k + 1])
  BY <1>2, <1>3, <1>4
<1> QED BY <1>2, <1>5 DEF Along

LEMMA ListAndBootAlong ==
  ASSUME AppTypeOK, program = "ListAndBoot" PROVE Along(ListAndBoot, {}, {})
<1> DEFINE show(i) == <<Try("Text", <<"text", i>>, {<<"option", i>>}),
                        FreeAny(<<"description", i>>), FreeAny(<<"text", i>>)>>
           drop(i) == <<FreePool(<<"description", i>>), FreePool(<<"option", i>>)>>
           list == Step("list", "GetLoadOptions", None, {}, <<>>)
           boot == Try("Boot", None, {<<"option", 4>>, <<"description", 4>>})
           O == From("option", 1)
           D == From("description", 1)
           X == <<list>> \o ForEach(3, show)
           Y == X \o <<boot>>
<1>1. ListAndBoot = Y \o ForEach(2, drop)
  BY DEF ListAndBoot
<1>2. Takes({}, list, O \union D)
  <2>1. list.do = "list" /\ list.uses = {}
    BY DEF Step
  <2>2. Listed = O \union D
    BY DEF Listed, From
  <2> HIDE DEF list, O, D
  <2>3. Gives(list) = {} /\ Yields(list) = O \union D /\ Needs(list) = {}
    BY <2>1, <2>2 DEF Gives, Yields, Needs
  <2> QED BY <2>1, <2>3 DEF Takes
<1>3. Takes(O, boot, O)
  <2>1. {<<"option", 4>>, <<"description", 4>>} \subseteq O \union Known
    BY DEF Known
  <2> HIDE DEF O
  <2> QED BY <2>1, TakesTryNone
<1>4. Along(ForEach(3, show), O \union D, O)
  BY ShowAlong
<1>5. Along(ForEach(2, drop), O, {})
  BY DropAlong
<1> HIDE DEF list, boot, O, D
<1>6. Along(X, {}, O)
  <2>1. Along(<<list>>, {}, O \union D)
    BY <1>2, AlongOne
  <2> HIDE DEF show
  <2> QED BY <1>4, <2>1, AlongBoth
<1> HIDE DEF X
<1>7. Along(Y, {}, O)
  BY <1>3, <1>6, AlongOne, AlongBoth
<1> HIDE DEF Y, drop
<1> QED BY <1>1, <1>5, <1>7, AlongBoth

(* So every program has an outline.                                        *)
LEMMA EveryOutline == AppTypeOK => \E H : Outline(Steps, H)
<1> SUFFICES ASSUME AppTypeOK PROVE Along(Steps, {}, {})
  BY AlongIsOutline
<1>1. CASE program = "StartProgram"
  BY <1>1, StartProgramAlong DEF Steps
<1>2. CASE program = "ScreenShot"
  BY <1>2, ScreenShotAlong DEF Steps
<1>3. CASE program = "ListAndBoot"
  BY <1>3, ListAndBootAlong DEF Steps
<1>4. CASE program = "ShowPicture"
  BY <1>4, ShowPictureAlong DEF Steps
<1>5. CASE program = "SetMode"
  BY <1>5, SetModeAlong DEF Steps
<1> QED BY <1>1, <1>2, <1>3, <1>4, <1>5 DEF AppTypeOK, Programs

----------------------------------------------------------------------------
(* At first a program is at its first step.                                *)
LEMMA AppStart == AppInit => AppInv
<1> SUFFICES ASSUME AppInit PROVE AppInv
  OBVIOUS
<1>1. AppTypeOK
  <2>1. MaxOptions \in Nat /\ Sizes \subseteq (Nat \ {0}) \X (Nat \ {0})
    BY AppsAssumption
  <2> QED BY <2>1 DEF AppInit, AppTypeOK, Programs, NoPicture
<1>2. rest = Steps /\ held = {} /\ misused = {} /\ failed = {}
  BY DEF AppInit
<1>3. MisusesOnlyUnyielded
  BY <1>2 DEF MisusesOnlyUnyielded
<1>4. PICK H : Outline(Steps, H)
  BY <1>1, EveryOutline
<1>5. Steps \in Seq(ToSet(Steps)) /\ Len(Steps) \in Nat /\ H[1] = {}
  BY <1>4, LenProperties DEF Outline
<1>6. 1 \in 1 .. Len(Steps) + 1
  BY <1>5
<1>7. rest = SubSeq(Steps, 1, Len(Steps))
  BY <1>2, <1>5, SubSeqFull
<1>8. OnTrack(H, 1)
  BY <1>2, <1>5, <1>7 DEF OnTrack
<1> QED BY <1>1, <1>3, <1>4, <1>6, <1>8 DEF AppInv

(* What a program holds when it has ended is excused by a failure, and what *)
(* it misuses a failed call should have yielded.                           *)
THEOREM Tidy == AppSpec => [](AppInv /\ ReleasesAll /\ MisusesOnlyUnyielded)
<1>1. AppInv => ReleasesAll /\ MisusesOnlyUnyielded
  BY HoldsNothing DEF AppInv
<1> QED BY <1>1, AppStart, AppStep, PTL DEF AppSpec

THEOREM AllReleased == AppSpec => []ReleasesAll
BY Tidy, PTL

THEOREM OnlyUnyieldedMisused == AppSpec => []MisusesOnlyUnyielded
BY Tidy, PTL

----------------------------------------------------------------------------
(* The picture.                                                            *)

Turned == Convert(picture.bmp, Width, Height)
InFront(i) == [c |-> Blend(Turned[i], back[i]), a |-> 0]

(* Each pixel of the picture is where it belongs, and nothing else changed. *)
InPlace ==
  \A xy \in Screen :
    /\ \A i \in Block : At(i) = xy => screen[xy] = InFront(i)
    /\ (\A i \in Block : At(i) # xy) => screen[xy] = before[xy]

(* How far the picture is before step k of ShowPicture: it is converted at *)
(* step 12, grabbed at 15, blended at 16 and shown at 17.                  *)
Drawn(k) ==
  /\ k >= 13 => Block = 0 .. Width * Height - 1 /\ front = Turned
  /\ k >= 16 =>
       /\ back \in [Block -> Pixel]
       /\ "Grab" \notin failed => \A i \in Block : back[i] = before[At(i)]
  /\ k >= 17 => mixed = [i \in Block |-> InFront(i)]
  /\ k <= 17 => screen = before
  /\ k >= 18 => InPlace \/ (screen = before /\ "Show" \in failed)

PictureOK ==
  /\ Width \in Nat \ {0} /\ Height \in Nat \ {0}
  /\ picture.bmp \in [0 .. Width * Height - 1 -> Pixel]
  /\ before \in [Screen -> Pixel]

(* It has been stopped, has given up, or is at some step.                  *)
Stopped == rest = <<>> /\ misused # {}

GivenUp ==
  /\ rest \in Seq(ToSet(rest)) /\ \A m \in 1 .. Len(rest) : rest[m].do = "free"
  /\ screen = before /\ failed \ {"Grab"} # {}

PictureInv ==
  program = "ShowPicture" =>
    /\ PictureOK
    /\ \/ Stopped
       \/ GivenUp
       \/ \E k \in 1 .. 24 : rest = SubSeq(ShowPicture, k, 23) /\ Drawn(k)

(* The steps of ShowPicture that touch a picture, and where it gives up.   *)
LEMMA PictureSteps ==
  /\ ShowPicture \in Seq(ToSet(ShowPicture)) /\ Len(ShowPicture) = 23
  /\ \A k \in 1 .. 23 :
       /\ ShowPicture[k].do \notin {"start", "list"}
       /\ ShowPicture[k].do = "convert" <=> k = 12
       /\ ShowPicture[k].do = "grab" <=> k = 15
       /\ ShowPicture[k].do = "blend" <=> k = 16
       /\ ShowPicture[k].do = "show" <=> k = 17
       /\ ShowPicture[k].do = "call" =>
            /\ k <= 10 /\ ShowPicture[k].name # "Grab"
            /\ \E W : GivesBack(ShowPicture[k].orElse, W)
  /\ ShowPicture[15].name = "Grab" /\ ShowPicture[17].name = "Show"
<1> DEFINE
      s1 == Call("LocateFileSystem", None, {}, <<>>)
      s2 == Call("OpenVolume", "root", {}, <<>>)
      s3 == Call("Open", "file", {"root"}, <<Close("root")>>)
      s4 == Try("AllocateInfo", "info", {})
      s5 == Call("GetInfo", None, {"file", "info"}, CloseFile)
      s6 == FreePool("info")
      s7 == Try("AllocateData", "data", {})
      s8 == Call("Read", None, {"file", "data"}, ClosePicture)
      s9 == Call("Header", None, {"data"}, ClosePicture)
      s10 == Call("LocateGop", None, {}, ClosePicture)
      s11 == Try("AllocateFront", "front", {})
      s12 == Step("convert", "Convert", None, {"data", "front"}, <<>>)
      s13 == Try("AllocateBack", "back", {})
      s14 == Try("AllocateMixed", "mixed", {})
      s15 == Step("grab", "Grab", None, {"back"}, <<>>)
      s16 == Step("blend", "Blend", None, {"front", "back", "mixed"}, <<>>)
      s17 == Step("show", "Show", None, {"mixed"}, <<>>)
      s18 == FreePool("front")
      s19 == FreePool("back")
      s20 == FreePool("mixed")
      P == <<s1, s2, s3, s4, s5, s6, s7, s8, s9, s10, s11, s12, s13, s14, s15, s16,
            s17, s18, s19, s20>>
<1>1. ShowPicture = P \o ClosePicture
  BY DEF ShowPicture
<1>2. /\ ClosePicture \in Seq(ToSet(ClosePicture))
      /\ \A m \in 1 .. Len(ClosePicture) : ClosePicture[m].do = "free"
  BY Releases DEF GivesBack
<1>3. Len(ClosePicture) = 3
  BY DEF ClosePicture, CloseFile
<1>4. /\ s1.do = "call" /\ s2.do = "call" /\ s3.do = "call" /\ s5.do = "call"
      /\ s8.do = "call" /\ s9.do = "call" /\ s10.do = "call"
      /\ "Grab" \notin {s1.name, s2.name, s3.name, s5.name, s8.name, s9.name, s10.name}
  BY DEF Call, Step
<1>5. /\ s4.do = "try" /\ s7.do = "try" /\ s11.do = "try" /\ s13.do = "try"
      /\ s14.do = "try" /\ s6.do = "free" /\ s18.do = "free" /\ s19.do = "free"
      /\ s20.do = "free"
  BY DEF Try, FreePool, Step
<1>6. /\ s12.do = "convert" /\ s15.do = "grab" /\ s16.do = "blend" /\ s17.do = "show"
      /\ s15.name = "Grab" /\ s17.name = "Show"
  BY DEF Step
<1>7. /\ s1.orElse = <<>> /\ s2.orElse = <<>> /\ s3.orElse = <<Close("root")>>
      /\ s5.orElse = CloseFile /\ s8.orElse = ClosePicture
      /\ s9.orElse = ClosePicture /\ s10.orElse = ClosePicture
  BY DEF Call, Step
<1>8. \A s \in {s1, s2, s3, s5, s8, s9, s10} : \E W : GivesBack(s.orElse, W)
  <2>1. /\ \E W : GivesBack(<<>>, W)
        /\ \E W : GivesBack(<<Close("root")>>, W)
        /\ \E W : GivesBack(CloseFile, W)
        /\ \E W : GivesBack(ClosePicture, W)
    BY Releases, GivesBackNothing
  <2> HIDE DEF s1, s2, s3, s5, s8, s9, s10
  <2> QED BY <1>7, <2>1
<1> HIDE DEF s1, s2, s3, s4, s5, s6, s7, s8, s9, s10, s11, s12, s13, s14, s15, s16,
             s17, s18, s19, s20
<1>9. P \in Seq(ToSet(P)) /\ Len(P) = 20
  BY DEF ToSet
<1>10. /\ P[1] = s1 /\ P[2] = s2 /\ P[3] = s3 /\ P[4] = s4 /\ P[5] = s5
       /\ P[6] = s6 /\ P[7] = s7 /\ P[8] = s8 /\ P[9] = s9 /\ P[10] = s10
  OBVIOUS
<1>11. /\ P[11] = s11 /\ P[12] = s12 /\ P[13] = s13 /\ P[14] = s14 /\ P[15] = s15
       /\ P[16] = s16 /\ P[17] = s17 /\ P[18] = s18 /\ P[19] = s19 /\ P[20] = s20
  OBVIOUS
<1> HIDE DEF P
<1>12. /\ ShowPicture \in Seq(ToSet(ShowPicture)) /\ Len(ShowPicture) = 23
       /\ \A i \in 1 .. 20 : ShowPicture[i] = P[i]
       /\ \A i \in 1 .. 3 : ShowPicture[20 + i] = ClosePicture[i]
  <2> DEFINE C == ClosePicture
  <2> HIDE DEF C
  <2>1. C \in Seq(ToSet(C)) /\ Len(C) = 3 /\ ShowPicture = P \o C
    BY <1>1, <1>2, <1>3 DEF C
  <2>2. /\ P \o C \in Seq(ToSet(P \o C)) /\ Len(P \o C) = Len(P) + Len(C)
        /\ \A i \in 1 .. Len(P) : (P \o C)[i] = P[i]
        /\ \A i \in 1 .. Len(C) : (P \o C)[Len(P) + i] = C[i]
    <3>1. P \in Seq(ToSet(P)) /\ C \in Seq(ToSet(C))
      BY <1>9, <2>1
    <3> QED BY <3>1, Joined
  <2>3. /\ ShowPicture \in Seq(ToSet(ShowPicture)) /\ Len(ShowPicture) = 20 + 3
        /\ \A i \in 1 .. 20 : ShowPicture[i] = P[i]
        /\ \A i \in 1 .. 3 : ShowPicture[20 + i] = C[i]
    BY <1>9, <2>1, <2>2
  <2> QED BY <2>3 DEF C
<1>13. ASSUME NEW k \in 1 .. 23
       PROVE  /\ ShowPicture[k].do \notin {"start", "list"}
              /\ ShowPicture[k].do = "convert" <=> k = 12
              /\ ShowPicture[k].do = "grab" <=> k = 15
              /\ ShowPicture[k].do = "blend" <=> k = 16
              /\ ShowPicture[k].do = "show" <=> k = 17
              /\ ShowPicture[k].do = "call" =>
                   /\ k <= 10 /\ ShowPicture[k].name # "Grab"
                   /\ \E W : GivesBack(ShowPicture[k].orElse, W)
  <2>1. CASE k \in {1, 2, 3, 5, 8, 9, 10}
    <3>1. ShowPicture[k] \in {s1, s2, s3, s5, s8, s9, s10}
      <4>1. P[k] \in {s1, s2, s3, s5, s8, s9, s10}
        BY <1>10, <2>1
      <4>2. k \in 1 .. 20
        BY <2>1
      <4>3. ShowPicture[k] = P[k]
        BY <1>12, <4>2
      <4> QED BY <4>1, <4>3
    <3>2. /\ ShowPicture[k].do = "call" /\ ShowPicture[k].name # "Grab"
          /\ \E W : GivesBack(ShowPicture[k].orElse, W)
      BY <1>4, <1>8, <3>1
    <3> QED BY <2>1, <3>2
  <2>2. CASE k \in {4, 6, 7, 11, 13, 14, 18, 19, 20}
    <3>1. ShowPicture[k] \in {s4, s6, s7, s11, s13, s14, s18, s19, s20}
      <4>1. P[k] \in {s4, s6, s7, s11, s13, s14, s18, s19, s20}
        BY <1>10, <1>11, <2>2
      <4>2. k \in 1 .. 20
        BY <2>2
      <4>3. ShowPicture[k] = P[k]
        BY <1>12, <4>2
      <4> QED BY <4>1, <4>3
    <3>2. ShowPicture[k].do \in {"try", "free"}
      BY <1>5, <3>1
    <3> QED BY <2>2, <3>2
  <2>3. CASE k \in {12, 15, 16, 17}
    <3>1. k \in 1 .. 20
      BY <2>3
    <3>2. ShowPicture[k] = P[k]
      BY <1>12, <3>1
    <3> QED BY <1>6, <1>11, <2>3, <3>2
  <2>4. CASE k \in {21, 22, 23}
    <3>1. k - 20 \in 1 .. 3 /\ 20 + (k - 20) = k
      BY <2>4
    <3>2. ShowPicture[k] = ClosePicture[k - 20] /\ k - 20 \in 1 .. Len(ClosePicture)
      BY <1>3, <1>12, <3>1
    <3>3. ShowPicture[k].do = "free"
      BY <1>2, <3>2
    <3> QED BY <2>4, <3>3
  <2> QED BY <2>1, <2>2, <2>3, <2>4
<1>14. ShowPicture[15].name = "Grab" /\ ShowPicture[17].name = "Show"
  <2>1. 15 \in 1 .. 20 /\ 17 \in 1 .. 20
    OBVIOUS
  <2> QED BY <1>6, <1>11, <1>12, <2>1
<1> QED BY <1>12, <1>13, <1>14

LEMMA PictureStart == AppInit => PictureInv
<1> SUFFICES ASSUME AppInit, program = "ShowPicture" PROVE PictureInv
  BY DEF PictureInv
<1>0. PICK size \in Sizes :
        \E bmp \in [0 .. size[1] * size[2] - 1 -> Pixels] :
          picture = [w |-> size[1], h |-> size[2], bmp |-> bmp]
  BY DEF AppInit
<1>1. PICK bmp \in [0 .. size[1] * size[2] - 1 -> Pixels] :
        picture = [w |-> size[1], h |-> size[2], bmp |-> bmp]
  BY <1>0
<1>2. size[1] \in Nat \ {0} /\ size[2] \in Nat \ {0} /\ Pixels \subseteq Pixel
  BY AppsAssumption
<1>3. Width = size[1] /\ Height = size[2] /\ picture.bmp = bmp
  BY <1>1 DEF Width, Height
<1>4. before \in [Screen -> Pixel]
  BY AppsAssumption DEF AppInit
<1>5. PictureOK
  BY <1>2, <1>3, <1>4 DEF PictureOK
<1>6. ShowPicture \in Seq(ToSet(ShowPicture)) /\ Len(ShowPicture) = 23
  BY PictureSteps
<1>7. rest = SubSeq(ShowPicture, 1, 23)
  <2>1. rest = ShowPicture
    BY DEF AppInit, Steps
  <2> QED BY <1>6, <2>1, SubSeqFull
<1>8. Drawn(1)
  BY DEF Drawn, AppInit
<1>9. \E k \in 1 .. 24 : rest = SubSeq(ShowPicture, k, 23) /\ Drawn(k)
  BY <1>7, <1>8
<1> QED BY <1>5, <1>9 DEF PictureInv

(* What has given up goes on freeing.                                      *)
LEMMA GivenUpStep ==
  ASSUME GivenUp, AppNext, rest # <<>> PROVE GivenUp' \/ Stopped'
<1>1. rest \in Seq(ToSet(rest)) /\ Len(rest) \in Nat \ {0}
  BY EmptySeq DEF GivenUp
<1>2. /\ Now = rest[1] /\ Tail(rest) \in Seq(ToSet(rest)) /\ Len(Tail(rest)) = Len(rest) - 1
      /\ \A m \in 1 .. Len(Tail(rest)) : Tail(rest)[m] = rest[m + 1]
  BY <1>1, HeadTailProperties DEF Now
<1>3. Now.do = "free"
  BY <1>1, <1>2 DEF GivenUp
<1>4. Release \/ Misstep
  BY <1>3 DEF AppNext, Succeed, Fail, StartImage, List, ConvertPicture, Grab,
              BlendPicture, Show, Idle, Ended, Doing
<1>5. CASE Release
  <2>1. rest' = Tail(rest) /\ screen' = screen /\ before' = before /\ failed' = failed
    BY <1>5 DEF Release, Continue, given
  <2> DEFINE t == Tail(rest)
  <2>2. t \in Seq(ToSet(t))
    BY <1>2, SeqOfItself
  <2>3. \A m \in 1 .. Len(t) : t[m].do = "free"
    <3> TAKE m \in 1 .. Len(t)
    <3>1. m + 1 \in 1 .. Len(rest) /\ t[m] = rest[m + 1]
      BY <1>1, <1>2
    <3> QED BY <3>1 DEF GivenUp
  <2> HIDE DEF t
  <2>4. rest' = t
    BY <2>1 DEF t
  <2> QED BY <2>1, <2>2, <2>3, <2>4 DEF GivenUp
<1>6. CASE Misstep
  <2>1. /\ misused' = (Now.uses \ held) \union
                      ({Now.what : d \in {Now.do} \intersect {"free"}} \ held)
        /\ rest' = <<>> /\ ~Doing(Now.do)
    BY <1>6 DEF Misstep
  <2>2. misused' # {}
    BY <1>3, <2>1 DEF Doing
  <2> QED BY <2>1, <2>2 DEF Stopped
<1> QED BY <1>4, <1>5, <1>6

(* A position on the screen belongs to one pixel of the picture, which is  *)
(* given by its row and column.                                            *)
LEMMA AtOnce ==
  ASSUME PictureOK, Block = 0 .. Width * Height - 1,
         NEW i \in Block, NEW j \in Block, At(i) = At(j)
  PROVE  i = j
<1>1. Width \in Nat \ {0} /\ Height \in Nat \ {0}
  BY DEF PictureOK
<1>2. Width + (i % Width) = Width + (j % Width) /\ i \div Width = j \div Width
  BY DEF At
<1>3. /\ i = (i \div Width) * Width + (i % Width) /\ i % Width \in 0 .. Width - 1
      /\ j = (j \div Width) * Width + (j % Width) /\ j % Width \in 0 .. Width - 1
  BY <1>1, RowAndColumn
<1> DEFINE a == i % Width
           b == j % Width
<1>4. a = b
  <2>1. Width + a = Width + b /\ a \in Int /\ b \in Int /\ Width \in Int
    BY <1>1, <1>2, <1>3
  <2> HIDE DEF a, b
  <2> QED BY <2>1
<1> QED BY <1>2, <1>3, <1>4

(* A picture that fits lies on the screen.                                 *)
LEMMA OnScreen ==
  ASSUME PictureOK, Block = 0 .. Width * Height - 1, Fits, NEW i \in Block
  PROVE  At(i) \in Screen
<1> DEFINE m == i % Width
           d == i \div Width
<1>1. Width \in Nat \ {0} /\ Height \in Nat \ {0}
  BY DEF PictureOK
<1>2. m \in 0 .. Width - 1 /\ d \in 0 .. Height - 1 /\ At(i) = <<Width + m, d>>
  BY <1>1, RowAndColumn DEF At
<1> HIDE DEF m, d
<1>3. 2 * Width <= ScreenWidth /\ Height <= ScreenHeight
      /\ ScreenWidth \in Nat /\ ScreenHeight \in Nat
  BY AppsAssumption DEF Fits
<1>4. Width + m \in 0 .. ScreenWidth - 1 /\ d \in 0 .. ScreenHeight - 1
  BY <1>1, <1>2, <1>3
<1> QED BY <1>2, <1>4 DEF Screen

(* A step of the picture leads to the next, gives up or is stopped.        *)
LEMMA DrawnStep ==
  ASSUME PictureOK, program = "ShowPicture", NEW k \in 1 .. 24,
         rest = SubSeq(ShowPicture, k, 23), Drawn(k), AppNext, rest # <<>>
  PROVE  \/ Stopped' \/ GivenUp'
         \/ \E j \in 1 .. 24 : (rest = SubSeq(ShowPicture, j, 23) /\ Drawn(j))'
<1> DEFINE s == ShowPicture[k]
<1>1. /\ k \in 1 .. 23 /\ k + 1 \in 1 .. 24
      /\ Now = s /\ Tail(rest) = SubSeq(ShowPicture, k + 1, 23)
  <2>1. ShowPicture \in Seq(ToSet(ShowPicture)) /\ Len(ShowPicture) = 23
    BY PictureSteps
  <2>2. k \in 1 .. Len(ShowPicture) + 1 /\ rest = SubSeq(ShowPicture, k, Len(ShowPicture))
    BY <2>1
  <2>3. /\ k \in 1 .. Len(ShowPicture)
        /\ Now = ShowPicture[k] /\ Tail(rest) = SubSeq(ShowPicture, k + 1, Len(ShowPicture))
    BY <2>1, <2>2, AtPlace
  <2> QED BY <2>1, <2>3
<1>2. /\ s.do \notin {"start", "list"}
      /\ s.do = "convert" <=> k = 12
      /\ s.do = "grab" <=> k = 15
      /\ s.do = "blend" <=> k = 16
      /\ s.do = "show" <=> k = 17
      /\ s.do = "call" => /\ k <= 10 /\ s.name # "Grab"
                          /\ \E W : GivesBack(s.orElse, W)
      /\ k = 15 => s.name = "Grab"
      /\ k = 17 => s.name = "Show"
  BY <1>1, PictureSteps
<1> HIDE DEF s
<1>3. UNCHANGED <<program, picture, before>> /\ failed \subseteq failed'
  BY DEF AppNext, Succeed, Fail, StartImage, Release, Misstep, List,
         ConvertPicture, Grab, BlendPicture, Show, Idle, appVars, given, ledger
<1>4. UNCHANGED <<Width, Height, Block, Fits, Turned>> /\ \A i : UNCHANGED At(i)
  <2>1. UNCHANGED <<Width, Height>>
    BY <1>3 DEF Width, Height
  <2> QED BY <1>3, <2>1 DEF Block, Fits, Turned, At
<1>5. ASSUME Continue, Drawn(k + 1)'
      PROVE  \E j \in 1 .. 24 : (rest = SubSeq(ShowPicture, j, 23) /\ Drawn(j))'
  <2>1. rest' = SubSeq(ShowPicture, k + 1, 23)
    BY <1>1, <1>5 DEF Continue
  <2> QED BY <1>1, <1>5, <2>1
<1>6. ASSUME k \notin {12, 15, 16, 17}, UNCHANGED <<front, back, mixed, screen>>
      PROVE  Drawn(k + 1)'
  <2>1. /\ k + 1 >= 13 => k >= 13
        /\ k + 1 >= 16 => k >= 16
        /\ k + 1 >= 17 => k >= 17
        /\ k + 1 <= 17 => k <= 17
        /\ k + 1 >= 18 => k >= 18
    BY <1>1, <1>6
  <2>2. UNCHANGED <<front, back, mixed, screen, before, Width, Height, Block, Turned>>
    BY <1>3, <1>4, <1>6
  <2>3. (\A i : InFront(i)' = InFront(i)) /\ (InPlace => InPlace')
    BY <1>4, <2>2 DEF InFront, InPlace, Screen
  <2> QED BY <1>3, <1>4, <2>1, <2>2, <2>3 DEF Drawn
<1>7. CASE Succeed
  <2>1. Continue /\ s.do \in {"call", "try"} /\ UNCHANGED <<front, back, mixed, screen>>
    BY <1>1, <1>7 DEF Succeed, Doing, buffers
  <2>2. k \notin {12, 15, 16, 17}
    BY <1>2, <2>1
  <2> QED BY <1>5, <1>6, <2>1, <2>2
<1>8. CASE Fail
  <2>1. /\ s.do \in {"call", "try"} /\ failed' = failed \union {s.name}
        /\ rest' = (IF s.do = "call" THEN s.orElse ELSE Tail(rest))
        /\ UNCHANGED <<front, back, mixed, screen>>
    BY <1>1, <1>8 DEF Fail, Doing, buffers
  <2>2. CASE s.do = "try"
    <3>1. Continue /\ k \notin {12, 15, 16, 17}
      BY <1>2, <2>1, <2>2 DEF Continue
    <3> QED BY <1>5, <1>6, <2>1, <3>1
  <2>3. CASE s.do = "call"
    <3> DEFINE r == s.orElse
    <3>1. rest' = r /\ failed' \ {"Grab"} # {}
      BY <1>2, <2>1, <2>3
    <3>2. screen' = before'
      <4>1. k <= 17
        BY <1>1, <1>2, <2>3
      <4> QED BY <1>3, <2>1, <4>1 DEF Drawn
    <3>3. r \in Seq(ToSet(r)) /\ \A m \in 1 .. Len(r) : r[m].do = "free"
      BY <1>2, <2>3 DEF GivesBack
    <3> HIDE DEF r
    <3>4. GivenUp'
      BY <3>1, <3>2, <3>3 DEF GivenUp
    <3> QED BY <3>4
  <2> QED BY <2>1, <2>2, <2>3
<1>9. CASE Release
  <2>1. Continue /\ s.do \in {"free", "freeAny"} /\ UNCHANGED <<front, back, mixed, screen>>
    BY <1>1, <1>9 DEF Release, Doing, buffers
  <2>2. k \notin {12, 15, 16, 17}
    BY <1>2, <2>1
  <2> QED BY <1>5, <1>6, <2>1, <2>2
<1>10. CASE Misstep
  <2>1. /\ misused' = (Now.uses \ held) \union
                      ({Now.what : d \in {Now.do} \intersect {"free"}} \ held)
        /\ rest' = <<>> /\ rest # <<>> /\ ~Doing(Now.do)
    BY <1>10 DEF Misstep
  <2>2. misused' # {}
    BY <2>1 DEF Doing
  <2> QED BY <2>1, <2>2 DEF Stopped
<1>11. CASE ConvertPicture
  <2>1. k = 12 /\ k + 1 = 13
    BY <1>1, <1>2, <1>11 DEF ConvertPicture, Doing
  <2>2. CASE 0 .. Width * Height - 1 \subseteq Block
    <3>1. Continue /\ front' = Turned /\ screen' = screen
      BY <1>11, <2>2 DEF ConvertPicture, Turned
    <3>2. Block = 0 .. Width * Height - 1
      <4> DEFINE n == Width * Height
      <4>1. n \in Nat \ {0}
        BY DEF PictureOK
      <4>2. 0 .. n - 1 \subseteq 0 .. (n % Word) - 1
        BY <2>2 DEF Block, PixelCount
      <4> HIDE DEF n
      <4>3. n % Word \in Nat /\ n % Word <= n
        <5> DEFINE d == n \div Word
                   m == n % Word
                   e == Word * d
        <5>1. n = e + m /\ d \in Nat /\ m \in Nat
          BY <4>1, BitmapsAssumption
        <5> HIDE DEF d, m
        <5>2. e \in Nat
          BY <5>1, BitmapsAssumption
        <5> HIDE DEF e
        <5>3. m \in Nat /\ m <= n
          BY <5>1, <5>2
        <5> QED BY <5>3 DEF m
      <4>4. n - 1 \in 0 .. (n % Word) - 1
        BY <4>1, <4>2
      <4>5. n % Word = n
        BY <4>1, <4>3, <4>4
      <4> QED BY <4>5 DEF Block, PixelCount, n
    <3>3. screen = before
      BY <2>1 DEF Drawn
    <3>4. Drawn(13)'
      BY <1>3, <1>4, <3>1, <3>2, <3>3 DEF Drawn
    <3> QED BY <1>5, <2>1, <3>1, <3>4
  <2>3. CASE ~(0 .. Width * Height - 1 \subseteq Block)
    <3>1. rest' = <<>> /\ misused' # {}
      BY <1>11, <2>3 DEF ConvertPicture
    <3> QED BY <3>1 DEF Stopped
  <2> QED BY <2>2, <2>3
<1>12. CASE Grab
  <2>1. k = 15 /\ k + 1 = 16
    BY <1>1, <1>2, <1>12 DEF Grab, Doing
  <2>2. Block = 0 .. Width * Height - 1 /\ front = Turned /\ screen = before
    BY <2>1 DEF Drawn
  <2>3. Continue /\ UNCHANGED <<front, screen>>
    BY <1>12 DEF Grab
  <2>4. back' \in [Block -> Pixel] /\ ("Grab" \notin failed' =>
                                       \A i \in Block : back'[i] = before[At(i)])
    <3>1. CASE Fits /\ back' = [i \in Block |-> screen[At(i)]]
      <4>1. \A i \in Block : At(i) \in Screen
        BY <2>2, <3>1, OnScreen
      <4> QED BY <2>2, <3>1, <4>1 DEF PictureOK
    <3>2. CASE back' \in [Block -> Backdrops] /\ failed' = failed \union {Now.name}
      <4>1. Backdrops \subseteq Pixel /\ "Grab" \in failed'
        BY <1>1, <1>2, <2>1, <3>2, AppsAssumption
      <4> QED BY <3>2, <4>1
    <3> QED BY <1>12, <3>1, <3>2 DEF Grab
  <2>5. Drawn(16)'
    BY <1>3, <1>4, <2>2, <2>3, <2>4 DEF Drawn
  <2> QED BY <1>5, <2>1, <2>3, <2>5
<1>13. CASE BlendPicture
  <2>1. k = 16 /\ k + 1 = 17
    BY <1>1, <1>2, <1>13 DEF BlendPicture, Doing
  <2>2. /\ Block = 0 .. Width * Height - 1 /\ front = Turned /\ screen = before
        /\ back \in [Block -> Pixel]
        /\ "Grab" \notin failed => \A i \in Block : back[i] = before[At(i)]
    BY <2>1 DEF Drawn
  <2>3. /\ Continue /\ UNCHANGED <<front, back, screen>>
        /\ mixed' = [i \in Block |-> [c |-> Blend(front[i], back[i]), a |-> 0]]
    BY <1>13 DEF BlendPicture
  <2>4. \A i : InFront(i)' = InFront(i)
    BY <1>4, <2>3 DEF InFront
  <2>5. mixed' = [i \in Block' |-> InFront(i)']
    BY <1>4, <2>2, <2>3, <2>4 DEF InFront
  <2>6. Drawn(17)'
    BY <1>3, <1>4, <2>2, <2>3, <2>5 DEF Drawn
  <2> QED BY <1>5, <2>1, <2>3, <2>6
<1>14. CASE Show
  <2>1. k = 17 /\ k + 1 = 18
    BY <1>1, <1>2, <1>14 DEF Show, Doing
  <2>2. /\ Block = 0 .. Width * Height - 1 /\ front = Turned /\ screen = before
        /\ back \in [Block -> Pixel]
        /\ "Grab" \notin failed => \A i \in Block : back[i] = before[At(i)]
        /\ mixed = [i \in Block |-> InFront(i)]
    BY <2>1 DEF Drawn
  <2>3. Continue /\ UNCHANGED <<front, back, mixed>>
    BY <1>14 DEF Show, buffers
  <2>4. \A i : InFront(i)' = InFront(i)
    BY <1>4, <2>3 DEF InFront
  <2>5. mixed' = [i \in Block' |-> InFront(i)']
    BY <1>4, <2>2, <2>3, <2>4
  <2>6. InPlace' \/ (screen' = before' /\ "Show" \in failed')
    <3>1. CASE /\ screen' = [xy \in Screen |->
                               IF \E i \in Block : At(i) = xy
                               THEN mixed[CHOOSE i \in Block : At(i) = xy]
                               ELSE screen[xy]]
      <4>1. ASSUME NEW xy \in Screen, NEW i \in Block, At(i) = xy
            PROVE  screen'[xy] = InFront(i)
        <5> DEFINE c == CHOOSE j \in Block : At(j) = xy
        <5>1. c \in Block /\ At(c) = xy
          BY <4>1
        <5>2. screen'[xy] = mixed[c]
          BY <3>1, <4>1
        <5> HIDE DEF c
        <5>3. c = i
          BY <2>2, <4>1, <5>1, AtOnce
        <5> QED BY <2>2, <5>1, <5>2, <5>3
      <4>2. ASSUME NEW xy \in Screen, \A i \in Block : At(i) # xy
            PROVE  screen'[xy] = before[xy]
        BY <2>2, <3>1, <4>2
      <4>3. \A xy \in Screen' :
              /\ \A i \in Block' : At(i)' = xy => screen'[xy] = InFront(i)'
              /\ (\A i \in Block' : At(i)' # xy) => screen'[xy] = before'[xy]
        BY <1>3, <1>4, <2>4, <4>1, <4>2 DEF Screen
      <4> QED BY <4>3 DEF InPlace
    <3>2. CASE failed' = failed \union {Now.name} /\ UNCHANGED screen
      BY <1>1, <1>2, <1>3, <2>1, <2>2, <3>2
    <3> QED BY <1>14, <3>1, <3>2 DEF Show
  <2>7. Drawn(18)'
    BY <1>3, <1>4, <2>2, <2>3, <2>5, <2>6 DEF Drawn
  <2> QED BY <1>5, <2>1, <2>3, <2>7
<1>15. ~StartImage /\ ~List /\ ~Idle
  BY <1>1, <1>2 DEF StartImage, List, Idle, Ended, Doing
<1> QED BY <1>7, <1>8, <1>9, <1>10, <1>11, <1>12, <1>13, <1>14, <1>15 DEF AppNext

LEMMA PictureStep == PictureInv /\ [AppNext]_appVars => PictureInv'
<1> SUFFICES ASSUME PictureInv, [AppNext]_appVars, program' = "ShowPicture"
             PROVE  PictureInv'
  BY DEF PictureInv
<1>1. UNCHANGED <<program, picture, before>>
  BY DEF AppNext, Succeed, Fail, StartImage, Release, Misstep, List,
         ConvertPicture, Grab, BlendPicture, Show, Idle, appVars, given
<1>2. PictureOK /\ program = "ShowPicture"
  BY <1>1 DEF PictureInv
<1>3. PictureOK'
  BY <1>1, <1>2 DEF PictureOK, Width, Height, Screen
<1>4. CASE rest = <<>> \/ UNCHANGED appVars
  <2>1. UNCHANGED appVars
    BY <1>4 DEF AppNext, Succeed, Fail, StartImage, Release, Misstep, List,
                ConvertPicture, Grab, BlendPicture, Show, Idle, Doing
  <2>2. UNCHANGED <<rest, misused, failed, front, back, mixed, screen>>
    BY <2>1 DEF appVars, ledger, buffers
  <2>3. Stopped' = Stopped /\ GivenUp' = GivenUp
    BY <1>1, <2>2 DEF Stopped, GivenUp
  <2>4. ASSUME NEW k \in 1 .. 24, Drawn(k) PROVE Drawn(k)'
    BY <1>1, <2>2, <2>4 DEF Drawn, Block, Width, Height, Turned, At, InFront, InPlace,
                            Screen
  <2>5. CASE Stopped \/ GivenUp
    BY <1>3, <2>3, <2>5 DEF PictureInv
  <2>6. CASE \E k \in 1 .. 24 : rest = SubSeq(ShowPicture, k, 23) /\ Drawn(k)
    <3>1. PICK k \in 1 .. 24 : rest = SubSeq(ShowPicture, k, 23) /\ Drawn(k)
      BY <2>6
    <3>2. rest' = SubSeq(ShowPicture, k, 23) /\ Drawn(k)'
      BY <2>2, <2>4, <3>1
    <3> QED BY <1>3, <3>2 DEF PictureInv
  <2> QED BY <1>2, <2>5, <2>6 DEF PictureInv
<1>5. CASE rest # <<>> /\ AppNext
  <2>1. ~Stopped
    BY <1>5 DEF Stopped
  <2>2. CASE GivenUp
    <3>1. GivenUp' \/ Stopped'
      BY <1>5, <2>2, GivenUpStep
    <3> QED BY <1>3, <3>1 DEF PictureInv
  <2>3. CASE \E k \in 1 .. 24 : rest = SubSeq(ShowPicture, k, 23) /\ Drawn(k)
    <3>1. PICK k \in 1 .. 24 : rest = SubSeq(ShowPicture, k, 23) /\ Drawn(k)
      BY <2>3
    <3>2. \/ Stopped' \/ GivenUp'
          \/ \E j \in 1 .. 24 : (rest = SubSeq(ShowPicture, j, 23) /\ Drawn(j))'
      BY <1>2, <1>5, <3>1, DrawnStep
    <3> QED BY <1>3, <3>2 DEF PictureInv
  <2> QED BY <1>2, <2>1, <2>2, <2>3 DEF PictureInv
<1> QED BY <1>4, <1>5

(* Where the picture has been shown each of its pixels is in place.        *)
LEMMA PixelInPlace ==
  ASSUME PictureOK, Drawn(24), InPlace, NEW xy \in Screen
  PROVE  LET c == xy[1] - Width
             p == picture.bmp[(Height - 1 - xy[2]) * Width + c]
             behind == IF "Grab" \in failed THEN Byte ELSE {before[xy].c}
         IN  IF c \in 0 .. Width - 1 /\ xy[2] < Height
             THEN \E b \in behind : RoundsTo(screen[xy].c, p, b)
             ELSE screen[xy] = before[xy]
<1> DEFINE w == Width
           h == Height
           c == xy[1] - w
           r == xy[2]
           p == picture.bmp[(h - 1 - r) * w + c]
           behind == IF "Grab" \in failed THEN Byte ELSE {before[xy].c}
<1>1. /\ w \in Nat \ {0} /\ h \in Nat \ {0}
      /\ picture.bmp \in [0 .. w * h - 1 -> Pixel] /\ before \in [Screen -> Pixel]
  BY DEF PictureOK
<1>2. /\ Block = 0 .. w * h - 1
      /\ \A i \in Block : At(i) = xy => screen[xy] = InFront(i)
      /\ (\A i \in Block : At(i) # xy) => screen[xy] = before[xy]
      /\ back \in [Block -> Pixel]
      /\ "Grab" \notin failed => \A i \in Block : back[i] = before[At(i)]
  BY DEF Drawn, InPlace
<1>3. xy = <<xy[1], r>> /\ xy[1] \in Int /\ r \in Nat
  BY AppsAssumption DEF Screen
<1>4. ASSUME c \in 0 .. w - 1, r < h
      PROVE  \E b \in behind : RoundsTo(screen[xy].c, p, b)
  <2> DEFINE i == r * w + c
             b == back[i].c
             exact == p.c * p.a + b * (Opaque - p.a)
  <2>1. r \in 0 .. h - 1
    BY <1>1, <1>3, <1>4
  <2>2. i \in 0 .. w * h - 1
    BY <1>1, <1>4, <2>1, InPicture
  <2>3. i \div w = r /\ i % w = c
    BY <1>1, <1>3, <1>4, PixelOf
  <2> HIDE DEF i
  <2>4. At(i) = xy
    <3>1. w + c = xy[1]
      BY <1>1, <1>3
    <3> QED BY <1>3, <2>3, <3>1 DEF At
  <2>5. screen[xy] = InFront(i)
    BY <1>2, <2>2, <2>4
  <2>6. Source(w, h, i) = (h - 1 - r) * w + c
    BY <2>3 DEF Source
  <2>7. Turned[i] = p
    BY <2>2, <2>6 DEF Turned, Convert
  <2>8. p \in Pixel
    <3>1. h - 1 - r \in 0 .. h - 1
      BY <1>1, <2>1
    <3> DEFINE q == h - 1 - r
    <3> HIDE DEF q
    <3>2. q * w + c \in 0 .. w * h - 1
      BY <1>1, <1>4, <3>1, InPicture DEF q
    <3> QED BY <1>1, <3>2 DEF q
  <2>9. screen[xy].c = exact \div Opaque
    BY <2>4, <2>5, <2>7 DEF InFront, Blend
  <2>10. b \in behind /\ b \in Byte
    <3>1. i \in Block /\ back[i] \in Pixel
      BY <1>2, <2>2
    <3>2. "Grab" \notin failed => back[i] = before[xy]
      BY <1>2, <2>4, <3>1
    <3> QED BY <3>1, <3>2 DEF Pixel
  <2>11. exact \in Int /\ Opaque \in Nat \ {0}
    <3>1. p.c \in Int /\ p.a \in Int /\ b \in Int /\ Opaque \in Nat \ {0}
      BY <2>8, <2>10, BitmapsAssumption DEF Pixel, Byte
    <3> HIDE DEF p, b
    <3> QED BY <3>1
  <2>12. screen[xy].c * Opaque <= exact /\ exact < (screen[xy].c + 1) * Opaque
    <3> HIDE DEF exact
    <3>1. (exact \div Opaque) * Opaque <= exact /\ exact < ((exact \div Opaque) + 1) * Opaque
      BY <2>11
    <3> QED BY <2>9, <3>1
  <2> HIDE DEF p, b, behind
  <2>13. RoundsTo(screen[xy].c, p, b)
    BY <2>12 DEF RoundsTo
  <2> QED BY <2>10, <2>13
<1>5. ASSUME ~(c \in 0 .. w - 1 /\ r < h)
      PROVE  screen[xy] = before[xy]
  <2>1. ASSUME NEW i \in Block, At(i) = xy PROVE FALSE
    <3>1. i \div w \in 0 .. h - 1 /\ i % w \in 0 .. w - 1
      BY <1>1, <1>2, RowAndColumn
    <3>2. xy[1] = w + (i % w) /\ r = i \div w
      BY <2>1 DEF At
    <3> DEFINE m == i % w
               d == i \div w
    <3> HIDE DEF m, d
    <3>3. m \in 0 .. w - 1 /\ d \in 0 .. h - 1 /\ xy[1] = w + m /\ r = d
      BY <3>1, <3>2 DEF m, d
    <3>4. c = m /\ r < h
      BY <1>1, <3>3
    <3> QED BY <1>5, <3>3, <3>4
  <2> QED BY <1>2, <2>1
<1> QED BY <1>4, <1>5

LEMMA PictureShown == PictureInv => ShowsPicture
<1> SUFFICES ASSUME PictureInv, rest = <<>>, program = "ShowPicture", misused = {},
                    ~(screen = before /\ failed \ {"Grab"} # {})
             PROVE  \A xy \in Screen :
                      LET c == xy[1] - Width
                          p == picture.bmp[(Height - 1 - xy[2]) * Width + c]
                          behind == IF "Grab" \in failed THEN Byte ELSE {before[xy].c}
                      IN  IF c \in 0 .. Width - 1 /\ xy[2] < Height
                          THEN \E b \in behind : RoundsTo(screen[xy].c, p, b)
                          ELSE screen[xy] = before[xy]
  BY DEF ShowsPicture, Ended
<1>1. ~Stopped /\ ~GivenUp
  BY DEF Stopped, GivenUp
<1>2. PICK k \in 1 .. 24 : rest = SubSeq(ShowPicture, k, 23) /\ Drawn(k)
  BY <1>1 DEF PictureInv
<1>3. k = 24
  <2>1. ShowPicture \in Seq(ToSet(ShowPicture)) /\ Len(ShowPicture) = 23
    BY PictureSteps
  <2>2. k \in 1 .. Len(ShowPicture) + 1 /\ rest = SubSeq(ShowPicture, k, Len(ShowPicture))
    BY <1>2, <2>1
  <2>3. k = Len(ShowPicture) + 1
    BY <2>1, <2>2, AtPlace
  <2> QED BY <2>1, <2>3
<1>4. PictureOK /\ Drawn(24)
  BY <1>2, <1>3 DEF PictureInv
<1>5. InPlace
  BY <1>4 DEF Drawn
<1> QED BY <1>4, <1>5, PixelInPlace

(* Whatever the picture, its size and the screen: it appears upright, each *)
(* pixel in front of what was there (of anything, after the first Blt has  *)
(* failed), or some other call has failed and nothing changes.             *)
THEOREM PictureIsShown == AppSpec => []ShowsPicture
BY PictureStart, PictureStep, PictureShown, PTL DEF AppSpec
=============================================================================
