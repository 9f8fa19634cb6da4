--------------------------- MODULE OpenCoreLaunch ---------------------------
(***************************************************************************)
(* The chain-load branch of the menu: Enter on an Apple entry locates the  *)
(* file system the application came from, reads OpenCore.efi from the      *)
(* directory above its own or else from EFI\OC, and runs it (the function  *)
(* 启动OpenCore with the library routines OcReadFile, OcLoadAndRunImage     *)
(* and OcLocateFileSystem).  The branch comes back to the key loop, so the *)
(* user may take it again.                                                 *)
(*                                                                         *)
(* Files are abstracted to where they were found ("relative" or            *)
(* "absolute"); of the launcher's own path only the lengths are kept, with *)
(* which the code computes where to write inside the path's buffer.        *)
(***************************************************************************)
EXTENDS Integers, Sequences, SequencesExt

CONSTANTS
  Launchers,  \* paths the application may have been loaded from
  AppLength,  \* StrLen (OPEN_CORE_APP_PATH): 12 in the program
  FailingAt   \* program points at which a service may fail

(* A path: whether it starts with a slash, and the lengths of its names.   *)
ASSUME LaunchersAssumption ==
  /\ AppLength \in Nat
  /\ \A l \in Launchers :
       /\ l.slash \in BOOLEAN
       /\ l.names \in Seq(Nat \ {0})

VARIABLES
  at,         \* the program point; "loop" is the key loop of UefiMain
  launcher,   \* the path in the loaded image protocol
  written,    \* characters the path rewriting touched, from the start
  source,     \* which of the two files is being read
  volume,     \* OcReadFile's volume: "closed" or "open"
  file,       \* OcReadFile's file: "closed" or "open"
  loaderPath, \* the copy of the launcher's path: "null", "live", "freed"
  buffer,     \* where Buffer came from: "null" or a source
  size,       \* which file BufferSize belongs to: "zero" or a source
  imagePath,  \* which file ImagePath names: "null" or a source
  images,     \* images loaded: the current one, ones refused and forgotten
  faults      \* releases of pointers that hold no block

vars == <<at, launcher, written, source, volume, file, loaderPath, buffer,
          size, imagePath, images, faults>>

Sources == {"relative", "absolute"}

MayFail == at \in FailingAt

----------------------------------------------------------------------------
(* Lengths of paths, in characters, the terminator included.               *)

Characters(names) ==
  LET first[n \in 0 .. Len(names)] ==
        IF n = 0 THEN 0 ELSE first[n - 1] + names[n]
  IN  first[Len(names)]

TextSize(p) ==
  (IF p.slash THEN 1 ELSE 0) + Characters(p.names)
    + (IF p.names = <<>> THEN 1 ELSE Len(p.names))

(* UnicodeGetParentDirectory: the starting slash is dropped, then the last *)
(* name with the slash before it; the empty path has no parent.            *)
HasParent(p) == p.names # <<>>
Parent(p) == [slash |-> FALSE,
              names |-> IF p.names = <<>> THEN <<>> ELSE Front(p.names)]

Grandparent(p) == Parent(Parent(p))

RewriteFits_NoTerminator(p) ==
  /\ HasParent(p) /\ HasParent(Parent(p))
  /\ TextSize(p) - TextSize(Grandparent(p)) >= AppLength

(* The path is rewritten in place only if what was cut off is as long as   *)
(* the name to be appended, its terminator included.                       *)
RewriteFits(p) ==
  /\ HasParent(p) /\ HasParent(Parent(p))
  /\ TextSize(p) - TextSize(Grandparent(p)) >= AppLength + 1

(* The last character written: the parent's text with its terminator       *)
(* replaced by a slash, the name and a terminator.                         *)
RewriteEnd(p) == TextSize(Grandparent(p)) + AppLength + 1

NonEmptyPaths == {p \in Launchers : p.slash \/ p.names # <<>>}

----------------------------------------------------------------------------
(* Definitions named X_Y are variants of X with a plausible mistake Y; no   *)
(* specification uses them.                                                *)

Init ==
  /\ at = "loop"
  /\ launcher \in Launchers
  /\ written = 0
  /\ source = "relative"
  /\ volume = "closed" /\ file = "closed"
  /\ loaderPath = "null"
  /\ buffer = "null" /\ size = "zero" /\ imagePath = "null"
  /\ images = {}
  /\ faults = {}

ledger == <<loaderPath, buffer, size, imagePath, images, faults>>
readVars == <<source, volume, file>>

(* Enter with the Apple entry chosen.                                      *)
PressEnter ==
  /\ at = "loop"
  /\ at' = "loadedImage"
  /\ UNCHANGED <<launcher, written, readVars, ledger>>

(* HandleProtocol for the application's own image, then                    *)
(* OcLocateFileSystem: without either, UefiMain returns EFI_NOT_FOUND.     *)
LocateFileSystem ==
  /\ at \in {"loadedImage", "fileSystem"}
  /\ \/ at' = IF at = "loadedImage" THEN "fileSystem" ELSE "fullName"
     \/ MayFail /\ at' = "exited"
  /\ UNCHANGED <<launcher, written, readVars, ledger>>

(* Buffer, BufferSize and ImagePath are cleared and the launcher's path is *)
(* copied; it is NULL when the device path names no file.                  *)
CopyFullName ==
  /\ at = "fullName"
  /\ buffer' = "null" /\ size' = "zero" /\ imagePath' = "null"
  /\ \/ /\ launcher \in NonEmptyPaths
        /\ loaderPath' = "live" /\ at' = "rewrite"
     \/ /\ launcher \notin NonEmptyPaths \/ MayFail
        /\ loaderPath' = "null" /\ at' = "fallback"
  /\ written' = 0
  /\ UNCHANGED <<launcher, readVars, images, faults>>

RewritePath ==
  /\ at = "rewrite"
  /\ IF RewriteFits(launcher)
     THEN /\ written' = RewriteEnd(launcher)
          /\ source' = "relative" /\ at' = "openVolume"
     ELSE /\ at' = "freeName" /\ UNCHANGED <<written, source>>
  /\ UNCHANGED <<launcher, volume, file, ledger>>

(* Where UefiMain's chain-loader goes on after OcReadFile.                 *)
ReadReturns(found) ==
  at' = IF source = "relative"
        THEN IF found THEN "relativePath" ELSE "freeName"
        ELSE IF found THEN "absolutePath" ELSE "check"

OpenVolume ==
  /\ at = "openVolume"
  /\ \/ volume' = "open" /\ at' = "openFile"
     \/ MayFail /\ ReadReturns(FALSE) /\ UNCHANGED volume
  /\ UNCHANGED <<launcher, written, source, file, ledger>>

OpenFile_VolumeLeftOpen ==
  /\ at = "openFile"
  /\ \/ file' = "open" /\ volume' = "closed" /\ at' = "fileSize"
     \/ MayFail /\ ReadReturns(FALSE) /\ UNCHANGED <<file, volume>>
  /\ UNCHANGED <<launcher, written, source, ledger>>

(* The file is opened and the volume closed before the status is tested.   *)
OpenFile ==
  /\ at = "openFile"
  /\ volume' = "closed"
  /\ \/ file' = "open" /\ at' = "fileSize"
     \/ MayFail /\ ReadReturns(FALSE) /\ UNCHANGED file
  /\ UNCHANGED <<launcher, written, source, ledger>>

(* Size unknown, too large for 32 bits or for the limit of 16 MB.          *)
GetFileSize ==
  /\ at = "fileSize"
  /\ \/ at' = "fileData" /\ UNCHANGED file
     \/ MayFail /\ file' = "closed" /\ ReadReturns(FALSE)
  /\ UNCHANGED <<launcher, written, source, volume, ledger>>

(* The block is allocated and filled; on a read error it is freed again.   *)
GetFileData ==
  /\ at = "fileData"
  /\ file' = "closed"
  /\ \/ buffer' = source /\ size' = source /\ ReadReturns(TRUE)
     \/ MayFail /\ buffer' = "null" /\ ReadReturns(FALSE) /\ UNCHANGED size
  /\ UNCHANGED <<launcher, written, source, volume, loaderPath, imagePath,
                 images, faults>>

RelativePath_BufferKept ==
  /\ at = "relativePath"
  /\ \/ imagePath' = "relative" /\ UNCHANGED buffer
     \/ MayFail /\ buffer' = "freed" /\ UNCHANGED imagePath
  /\ at' = "freeName"
  /\ UNCHANGED <<launcher, written, readVars, loaderPath, size, images, faults>>

(* FileDevicePath; when it fails the file just read is given up.           *)
RelativePath ==
  /\ at = "relativePath"
  /\ \/ imagePath' = "relative" /\ UNCHANGED buffer
     \/ MayFail /\ buffer' = "null" /\ UNCHANGED imagePath
  /\ at' = "freeName"
  /\ UNCHANGED <<launcher, written, readVars, loaderPath, size, images, faults>>

FreeName ==
  /\ at = "freeName"
  /\ loaderPath' = "freed"
  /\ at' = "fallback"
  /\ UNCHANGED <<launcher, written, readVars, buffer, size, imagePath, images,
                 faults>>

Fallback ==
  /\ at = "fallback"
  /\ IF buffer = "null"
     THEN source' = "absolute" /\ at' = "openVolume"
     ELSE at' = "check" /\ UNCHANGED source
  /\ UNCHANGED <<launcher, written, volume, file, ledger>>

(* A failure is tolerated here: the image is then loaded without a path.   *)
AbsolutePath ==
  /\ at = "absolutePath"
  /\ imagePath' \in {"absolute"} \union (IF MayFail THEN {"null"} ELSE {})
  /\ at' = "check"
  /\ UNCHANGED <<launcher, written, readVars, loaderPath, buffer, size, images,
                 faults>>

CheckBuffer_Retries ==
  /\ at = "check"
  /\ at' = IF buffer = "null" THEN "fallback" ELSE "load"
  /\ UNCHANGED <<launcher, written, readVars, ledger>>

CheckBuffer ==
  /\ at = "check"
  /\ at' = IF buffer = "null" THEN "loop" ELSE "load"
  /\ UNCHANGED <<launcher, written, readVars, ledger>>

(* LoadImage.  With EFI_SECURITY_VIOLATION the image is loaded although an *)
(* error is returned.                                                      *)
LoadImage ==
  /\ at = "load"
  /\ \/ images' = images \union {"current"} /\ at' = "start"
     \/ /\ MayFail /\ at' = "release"
        /\ images' \in {images, images \union {"refused"}}
  /\ UNCHANGED <<launcher, written, readVars, loaderPath, buffer, size,
                 imagePath, faults>>

(* Before the start the loaded image protocol may be given the device and  *)
(* file path a fragile firmware left out; nothing here depends on them.    *)
StartImage ==
  /\ at = "start"
  /\ at' = "running"
  /\ UNCHANGED <<launcher, written, readVars, ledger>>

(* OpenCore comes back: an application that exits is unloaded by the       *)
(* firmware, and one that could not be started by OcLoadAndRunImage.       *)
ImageReturns ==
  /\ at = "running"
  /\ images' = images \ {"current"} /\ at' = "release"
  /\ UNCHANGED <<launcher, written, readVars, loaderPath, buffer, size,
                 imagePath, faults>>

(* Buffer and ImagePath are freed, neither of them tested.                 *)
Release ==
  /\ at = "release"
  /\ faults' = faults
       \union (IF imagePath = "null" THEN {"imagePath"} ELSE {})
       \union (IF buffer \notin Sources THEN {"buffer"} ELSE {})
  /\ buffer' = "null" /\ imagePath' = "null"
  /\ at' = "loop"
  /\ UNCHANGED <<launcher, written, readVars, loaderPath, size, images>>

Loading ==
  \/ LocateFileSystem \/ CopyFullName \/ RewritePath
  \/ OpenVolume \/ OpenFile \/ GetFileSize \/ GetFileData
  \/ RelativePath \/ FreeName \/ Fallback \/ AbsolutePath \/ CheckBuffer
  \/ LoadImage \/ StartImage \/ Release

Next == PressEnter \/ Loading \/ ImageReturns

Spec == Init /\ [][Next]_vars

(* Between the key and the start of the image the program waits for nobody. *)
FairSpec == Spec /\ WF_vars(Loading)

----------------------------------------------------------------------------
(* Properties. *)

Writable == {0} \union {RewriteEnd(l) : l \in Launchers}

TypeOK ==
  /\ at \in {"loop", "loadedImage", "fileSystem", "fullName", "rewrite",
             "openVolume", "openFile", "fileSize", "fileData",
             "relativePath", "freeName", "fallback", "absolutePath", "check",
             "load", "start", "running", "release", "exited"}
  /\ launcher \in Launchers
  /\ written \in Writable
  /\ source \in Sources
  /\ volume \in {"closed", "open"} /\ file \in {"closed", "open"}
  /\ loaderPath \in {"null", "live", "freed"}
  /\ buffer \in Sources \union {"null"}
  /\ size \in Sources \union {"zero"}
  /\ imagePath \in Sources \union {"null"}
  /\ images \subseteq {"current", "refused"}
  /\ faults \subseteq {"imagePath", "buffer"}

(* Whenever the chain-loader is back in the key loop, or gave up, it holds *)
(* no open volume or file, no pool block and no image it could start,      *)
(* whichever service failed; and of the two pointers it frees untested     *)
(* only ImagePath, whose failed allocation the code tolerates, may be NULL. *)
LoopHoldsNothing ==
  at \in {"loop", "exited"} =>
    /\ volume = "closed" /\ file = "closed"
    /\ loaderPath # "live"
    /\ buffer = "null" /\ imagePath = "null"
    /\ "current" \notin images
    /\ faults \subseteq {"imagePath"}

(* The assertion of 启动OpenCore: no file means no path.                    *)
NoFileNoPath ==
  at = "check" /\ buffer = "null" => imagePath = "null"

(* What is handed to LoadImage belongs together: a block still allocated,  *)
(* the size of the same file, and the device path of that file or none,    *)
(* even when the relative file was read and given up before the fallback;  *)
(* a path without a file never gets as far (NoFileNoPath).                  *)
ImageIsConsistent ==
  /\ NoFileNoPath
  /\ at \in {"load", "start", "running"} =>
       /\ buffer \in Sources
       /\ size = buffer
       /\ imagePath \in {"null", buffer}

(* The path is rewritten inside the block that holds it, for launchers in  *)
(* any directory, with and without a starting slash.                       *)
RewriteStaysInside == written <= TextSize(launcher)

(* The chain-loader comes back or starts an image, whatever fails.         *)
LaunchEnds ==
  at = "loadedImage" ~> at \in {"loop", "exited", "running"}
=============================================================================
