--------------------------- MODULE TianjiResources ---------------------------
(***************************************************************************)
(* What the TianJi boot application allocates and releases, from the entry *)
(* of UefiMain to its return: a ledger of its pointers through every       *)
(* service that may fail, with the image reader it calls four times.  The  *)
(* key loop is one stop ("loop") left by break or by return; TianjiMenu    *)
(* models what happens inside it.                                          *)
(*                                                                         *)
(* A pointer variable is "junk" while nothing was assigned to it: whether  *)
(* it then compares equal to NULL is up to the stack.                      *)
(***************************************************************************)
EXTENDS Integers, FiniteSets

CONSTANTS
  BootCounts,   \* sizes of the boot option list the firmware may return
  MaxKeywords,  \* most keywords the path of one boot option contains (of 4)
  FailingAt     \* program points at which a service may fail

ASSUME ResourcesAssumption ==
  /\ BootCounts \subseteq Nat
  /\ MaxKeywords \in Nat

(* The pointers FREE_BUFFER and CLOSE_FILE look at, and the three of one   *)
(* turn of the icon loop.                                                  *)
MainPointers == {"name", "bootOptions", "entries", "background",
                 "iconSize", "pointer", "pointerBg", "pointerMix"}
IconPointers == {"icon", "iconBg", "iconMix"}
Pointers == MainPointers \union IconPointers \union {"root"}

Points == {"watchdog", "root", "gop", "name", "background", "options",
           "entries", "classify", "iconSize", "icons", "drawIcon",
           "pointer", "pointerBuffers", "loop", "freeBuffer", "closeFile",
           "returned", "overrun"}

VARIABLES
  at,         \* the program point of UefiMain
  ptr,        \* what each pointer holds: junk, null, live or freed
  reader,     \* the step of the image reader, "idle" outside it
  file,       \* the reader's file handle: "closed" or "open"
  info, data, \* the reader's two pool blocks: "null" or "live"
  bootCount,  \* number of boot options listed
  scanned,    \* boot options classified so far
  recorded,   \* entries recorded so far
  iconsDone,  \* icons tried so far
  exit,       \* how the key loop was left, "none" before
  lost,       \* the reader's blocks and handles it returned without freeing
  faults      \* releases of something not allocated: <<pointer, its value>>

readerVars == <<reader, file, info, data>>
countVars == <<bootCount, scanned, recorded, iconsDone>>
vars == <<at, ptr, readerVars, countVars, exit, lost, faults>>

MayFail == at \in FailingAt

Init ==
  /\ at = "watchdog"
  /\ ptr = [p \in Pointers |->
              IF p \in {"entries", "background", "iconSize", "pointer"}
              THEN "null" ELSE "junk"]
  /\ reader = "idle" /\ file = "closed" /\ info = "null" /\ data = "null"
  /\ bootCount = 0 /\ scanned = 0 /\ recorded = 0 /\ iconsDone = 0
  /\ exit = "none"
  /\ lost = {}
  /\ faults = {}

----------------------------------------------------------------------------
(* Straight-line start-up. *)

Quiet == UNCHANGED <<readerVars, exit, lost, faults>>

(* A service at point here either succeeds, filling pointer p, and UefiMain *)
(* goes on to next, or fails and leaves p with value failed.               *)
Acquire(here, p, next, failed, onFailure) ==
  /\ at = here
  /\ \/ at' = next /\ ptr' = [ptr EXCEPT ![p] = "live"]
     \/ /\ MayFail
        /\ at' = onFailure /\ ptr' = [ptr EXCEPT ![p] = failed]
  /\ Quiet /\ UNCHANGED countVars

DisableWatchdog ==
  /\ at = "watchdog"
  /\ \/ at' = "root"
     \/ MayFail /\ at' = "returned"
  /\ Quiet /\ UNCHANGED <<ptr, countVars>>

GetRootDir == Acquire("root", "root", "gop", "junk", "closeFile")

LocateGop ==
  /\ at = "gop"
  /\ \/ at' = "name"
     \/ MayFail /\ at' = "returned"
  /\ Quiet /\ UNCHANGED <<ptr, countVars>>

RandomBackgroundName ==
  Acquire("name", "name", "background", "null", "freeBuffer")

(* Definitions named X_Y are variants of X with a plausible mistake Y; no   *)
(* specification uses them.                                                *)

(* The count is 0 with a NULL list when the firmware has no boot option,   *)
(* and with an array of no elements when it could read none of them.       *)
GetLoadOptions ==
  /\ at = "options"
  /\ bootCount' \in BootCounts
  /\ \E list \in {"null", "live"} :
       /\ bootCount' > 0 => list = "live"
       /\ ptr' = [ptr EXCEPT !["bootOptions"] = list]
  /\ at' = "entries"
  /\ Quiet /\ UNCHANGED <<scanned, recorded, iconsDone>>

(* Entries are allocated only for a positive count, one per boot option;   *)
(* without them UefiMain gives up.                                         *)
AllocateEntries ==
  \/ bootCount > 0
     /\ Acquire("entries", "entries", "classify", "null", "freeBuffer")
  \/ /\ at = "entries" /\ bootCount = 0
     /\ at' = "freeBuffer"
     /\ Quiet /\ UNCHANGED <<ptr, countVars>>

(* One boot option: an entry is recorded for each keyword of its path, for *)
(* none when the path cannot be converted to text.  The four tests do not  *)
(* exclude one another: once there are more keywords than options, records *)
(* are written behind the block, and what follows is anybody's guess.      *)
Classify ==
  /\ at = "classify"
  /\ scanned < bootCount
  /\ \E keywords \in 0 .. MaxKeywords : recorded' = recorded + keywords
  /\ at' = IF recorded' > bootCount THEN "overrun" ELSE at
  /\ scanned' = scanned + 1
  /\ Quiet /\ UNCHANGED <<ptr, bootCount, iconsDone>>

ClassifyDone ==
  /\ at = "classify"
  /\ scanned = bootCount
  /\ at' = "iconSize"
  /\ Quiet /\ UNCHANGED <<ptr, countVars>>

----------------------------------------------------------------------------
(* The image reader: open, get the file's size, read it, convert it into a *)
(* pool block the caller owns.                                             *)

Reading == {"background", "iconSize", "icons", "pointer"}

(* The pointer the reader fills, and where its caller goes on and fails.   *)
OutPointer == IF at = "icons" THEN "icon" ELSE at
AfterRead ==
  CASE at = "background" -> "options"
    [] at = "iconSize" -> "icons"
    [] at = "icons" -> "drawIcon"
    [] at = "pointer" -> "pointerBuffers"

MainQuiet == UNCHANGED <<bootCount, scanned, recorded, exit, faults>>

CallReader ==
  /\ at \in Reading /\ reader = "idle"
  /\ at = "icons" => iconsDone < recorded
  /\ reader' = "open"
  /\ ptr' = IF at = "icons" THEN [ptr EXCEPT !["icon"] = "null"] ELSE ptr
  /\ MainQuiet /\ UNCHANGED <<at, file, info, data, iconsDone, lost>>

(* What the caller does with a failed read: the icon loop goes on with the *)
(* next icon, everything else gives up.                                    *)
ReadFailed ==
  /\ reader' = "idle"
  /\ IF at = "icons"
     THEN at' = at /\ iconsDone' = iconsDone + 1
     ELSE at' = "freeBuffer" /\ UNCHANGED iconsDone

OpenImage ==
  /\ reader = "open"
  /\ \/ /\ file' = "open" /\ reader' = "info"
        /\ UNCHANGED <<at, iconsDone>>
     \/ /\ MayFail /\ ReadFailed
        /\ UNCHANGED file
  /\ MainQuiet /\ UNCHANGED <<ptr, info, data, lost>>

(* GetInfo fails, or its buffer could not be allocated: goto CLOSE_FILE.   *)
GetImageInfo ==
  /\ reader = "info"
  /\ \/ /\ info' = "live" /\ reader' = "data"
        /\ UNCHANGED <<at, file, iconsDone, lost>>
     \/ \E allocated \in BOOLEAN :
          /\ MayFail /\ ReadFailed
          /\ file' = "closed"
          /\ lost' = IF allocated THEN lost \union {"info"} ELSE lost
          /\ UNCHANGED info
  /\ MainQuiet /\ UNCHANGED <<ptr, data>>

ReadImage_ClosesOnly ==
  /\ reader = "data"
  /\ data' = "live"
  /\ \/ reader' = "convert" /\ UNCHANGED <<at, file, iconsDone>>
     \/ MayFail /\ ReadFailed /\ file' = "closed"
  /\ MainQuiet /\ UNCHANGED <<ptr, info, lost>>

ReadImage ==
  /\ reader = "data"
  /\ \/ data' = "live" /\ reader' = "convert"
     \/ MayFail /\ data' \in {"null", "live"} /\ reader' = "failed"
  /\ MainQuiet /\ UNCHANGED <<at, ptr, file, info, iconsDone, lost>>

(* The magic bytes are checked, then the pixels are allocated.             *)
ConvertImage ==
  /\ reader = "convert"
  /\ \/ ptr' = [ptr EXCEPT ![OutPointer] = "live"] /\ reader' = "converted"
     \/ /\ MayFail /\ reader' = "failed"
        /\ ptr' \in {ptr, [ptr EXCEPT ![OutPointer] = "null"]}
  /\ MainQuiet /\ UNCHANGED <<at, file, info, data, iconsDone, lost>>

(* FREE_BUFFER and CLOSE_FILE of the reader, on success and on failure.    *)
FinishRead ==
  /\ reader \in {"converted", "failed"}
  /\ info' = "null" /\ data' = "null" /\ file' = "closed"
  /\ \/ reader = "converted" /\ reader' = "idle" /\ at' = AfterRead
        /\ UNCHANGED iconsDone
     \/ reader = "failed" /\ ReadFailed
  /\ MainQuiet /\ UNCHANGED <<ptr, lost>>
----------------------------------------------------------------------------
(* Icons, pointer buffers, key loop. *)

(* The blocks a FreePool call releases, and the ones it should not have    *)
(* been given.                                                             *)
Free(ps) ==
  /\ ptr' = [p \in Pointers |-> IF p \in ps THEN "freed" ELSE ptr[p]]
  /\ faults' = faults \union {<<p, ptr[p]>> : p \in {q \in ps : ptr[q] # "live"}}

AllocateIconBuffers ==
  /\ at = "drawIcon" /\ ptr["iconBg"] \notin {"live", "null"}
  /\ \E made \in SUBSET {"iconBg", "iconMix"} :
       /\ MayFail \/ made = {"iconBg", "iconMix"}
       /\ ptr' = [p \in Pointers |->
                    IF p \in {"iconBg", "iconMix"}
                    THEN IF p \in made THEN "live" ELSE "null"
                    ELSE ptr[p]]
  /\ Quiet /\ UNCHANGED <<at, countVars>>

(* The icon is blended and drawn; its three buffers are freed without a    *)
(* test.                                                                   *)
DrawIcon ==
  /\ at = "drawIcon" /\ ptr["iconBg"] \in {"live", "null"}
  /\ Free(IconPointers)
  /\ iconsDone' = iconsDone + 1
  /\ at' = "icons"
  /\ UNCHANGED <<readerVars, bootCount, scanned, recorded, exit, lost>>

IconsDone_CountsOptions ==
  /\ at = "icons" /\ reader = "idle"
  /\ iconsDone = bootCount
  /\ at' = "pointer"
  /\ Quiet /\ UNCHANGED <<ptr, countVars>>

IconsDone ==
  /\ at = "icons" /\ reader = "idle"
  /\ iconsDone = recorded
  /\ at' = "pointer"
  /\ Quiet /\ UNCHANGED <<ptr, countVars>>

AllocatePointerBuffers ==
  /\ at = "pointerBuffers"
  /\ \E made \in SUBSET {"pointerBg", "pointerMix"} :
       /\ MayFail \/ made = {"pointerBg", "pointerMix"}
       /\ ptr' = [p \in Pointers |->
                    IF p \in {"pointerBg", "pointerMix"}
                    THEN IF p \in made THEN "live" ELSE "null"
                    ELSE ptr[p]]
  /\ at' = "loop"
  /\ Quiet /\ UNCHANGED countVars

(* The key loop ends by break, or by a return out of its chain-load        *)
(* branch when the application's own image or file system is not found.    *)
LeaveLoop ==
  /\ at = "loop"
  /\ \/ exit' = "break" /\ at' = "freeBuffer"
     \/ exit' = "return" /\ at' = "returned"
  /\ UNCHANGED <<ptr, readerVars, countVars, lost, faults>>

----------------------------------------------------------------------------
(* FREE_BUFFER and CLOSE_FILE. *)

Releasing(ps) ==
  /\ at = "freeBuffer"
  /\ Free(ps)
  /\ at' = "closeFile"
  /\ UNCHANGED <<readerVars, countVars, exit, lost>>

Holding == {p \in MainPointers : ptr[p] \in {"live", "freed"}}

FreeBuffers_KeepsIconSize == Releasing(Holding \ {"iconSize"})

FreeBuffers_IconsToo ==
  Releasing(Holding \union {p \in IconPointers : ptr[p] = "freed"})

FreeBuffers_Untested == Releasing(MainPointers)

(* Everything that is not NULL is freed; a junk pointer may pass the test. *)
FreeBuffers ==
  \E junk \in SUBSET {p \in MainPointers : ptr[p] = "junk"} :
    Releasing(Holding \union junk)

CloseRoot ==
  /\ at = "closeFile"
  /\ Free({"root"})
  /\ at' = "returned"
  /\ UNCHANGED <<readerVars, countVars, exit, lost>>

Startup ==
  \/ DisableWatchdog \/ GetRootDir \/ LocateGop \/ RandomBackgroundName
  \/ GetLoadOptions \/ AllocateEntries \/ Classify \/ ClassifyDone
  \/ CallReader \/ OpenImage \/ GetImageInfo \/ ReadImage \/ ConvertImage
  \/ FinishRead
  \/ AllocateIconBuffers \/ DrawIcon \/ IconsDone \/ AllocatePointerBuffers

Cleanup == FreeBuffers \/ CloseRoot

Next == Startup \/ LeaveLoop \/ Cleanup

Spec == Init /\ [][Next]_vars

(* Outside the key loop UefiMain waits for nobody.                         *)
FairSpec == Spec /\ WF_vars(Startup) /\ WF_vars(Cleanup)
----------------------------------------------------------------------------
(* Properties. *)

Values == {"junk", "null", "live", "freed"}

TypeOK ==
  /\ at \in Points
  /\ ptr \in [Pointers -> Values]
  /\ reader \in {"idle", "open", "info", "data", "convert", "converted",
                 "failed"}
  /\ file \in {"closed", "open"}
  /\ info \in {"null", "live"} /\ data \in {"null", "live"}
  /\ bootCount \in Nat
  /\ scanned \in 0 .. bootCount
  /\ recorded \in Nat
  /\ iconsDone \in 0 .. recorded
  /\ exit \in {"none", "break", "return"}
  /\ lost \subseteq {"info", "data", "file"}
  /\ faults \subseteq Pointers \X Values

(* However many services failed on the way, an application that reached    *)
(* the key loop and left it by break has released everything it holds: no  *)
(* pool block stays allocated and the root directory is closed.            *)
BreakReleasesAll ==
  at = "returned" /\ exit = "break" =>
    \A p \in Pointers : ptr[p] # "live"

(* Nothing is released twice, on any path.                                 *)
NothingFreedTwice ==
  \A f \in faults : f[2] # "freed"

(* Once the pointer image is loaded, the cleanup code releases only what   *)
(* is allocated: the untested frees of the main cleanup are safe there.    *)
LateCleanupIsExact ==
  exit = "break" => \A f \in faults : f[1] \in IconPointers

(* Between two reads nothing of the reader is left behind except the file  *)
(* information it forgets when GetInfo fails: every file it opened is      *)
(* closed and every file buffer freed, whatever failed.                    *)
ReaderCleansUp ==
  /\ reader = "idle" => file = "closed" /\ info = "null" /\ data = "null"
  /\ lost \subseteq {"info"}

(* Whatever fails, the start-up ends: in the key loop or out of UefiMain,  *)
(* unless it overran the block of its entries.                             *)
StartupEnds == <>(at \in {"loop", "returned", "overrun"})
=============================================================================
