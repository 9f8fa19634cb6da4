----------------------------- MODULE BootAttempt -----------------------------
(***************************************************************************)
(* One boot attempt of the menu, from the moment BootCurrent is set to the *)
(* return of EfiBootManagerBoot: the expansion of the option's path into   *)
(* full paths, the search for a readable, valid image among them, the      *)
(* image's run under a watchdog, and the release of what was made for it.  *)
(* (BootOptionStore models the variables written before.)                  *)
(*                                                                         *)
(* A network option is asked of every load file instance.  An instance may *)
(* answer with a whole file system, put into a RAM disk: memory that stays *)
(* reserved until the boot manager destroys the disk.  A RAM disk is found *)
(* again only through the path of the file on it, so the code has to       *)
(* recognise, in every full path it drops, whether a disk goes with it.    *)
(***************************************************************************)
EXTENDS Integers

CONSTANTS
  Loaders,   \* number of load file instances
  MaxFiles,  \* most full paths a path on local media expands to
  MaxDisks,  \* number of RAM disks the memory has room for
  Mishaps    \* what may go wrong: see the uses of May

ASSUME AttemptAssumption ==
  /\ Loaders \in Nat
  /\ MaxFiles \in Nat
  /\ MaxDisks \in Nat

May(mishap) == mishap \in Mishaps

(* What a boot option's path may be: a legacy (BBS) path, a path on local  *)
(* media, a short-form URI, any other path that a load file instance takes.*)
Kinds == {"legacy", "media", "uri", "loadFile"}

Disks == 1 .. MaxDisks
NoDisk == 0

(* A full path: the load file instance it leads through (0 for none), the  *)
(* RAM disk it leads into, and on local media which of the files it names. *)
Paths == [via : 0 .. Loaders, disk : Disks \union {NoDisk},
          nth : 0 .. MaxFiles]
NoPath == [via |-> 0, disk |-> NoDisk, nth |-> 0]
FilePath(k) == [NoPath EXCEPT !.nth = k]
LoadedPath(l, d) == [via |-> l, disk |-> d, nth |-> 0]

VARIABLES
  at,       \* the program point; "menu" is the caller
  kind,     \* the kind of the option being booted
  path,     \* CurFullPath, then FilePath of EfiBootManagerBoot
  loader,   \* the load file instance the URI expansion is at
  getNext,  \* the URI expansion has passed the previous full path
  owner,    \* for each place in memory the instance whose RAM disk it
            \* holds, 0 when it is free
  ramDisk,  \* RamDiskDevicePath of EfiBootManagerBoot
  buffer,   \* FileBuffer: "null" or "live"
  image,    \* "none", "loaded", or "refused": loaded but not startable
  watchdog, \* "off" or "armed"
  current,  \* whether BootCurrent exists
  faults    \* calls of BmDestroyRamDisk for no disk ("null") or one gone
            \* ("gone"), and whether an image was "unusable"

expansion == <<path, loader, getNext>>
vars == <<at, kind, expansion, owner, ramDisk, buffer, image, watchdog,
          current, faults>>

NoDisks == [d \in Disks |-> 0]

(* The application disables the watchdog before it shows the menu.         *)
Init ==
  /\ at = "menu" /\ kind = "legacy"
  /\ path = NoPath /\ loader = 1 /\ getNext = TRUE
  /\ owner = NoDisks
  /\ ramDisk = NoDisk
  /\ buffer = "null" /\ image = "none"
  /\ watchdog = "off"
  /\ current = FALSE
  /\ faults = {}

Destroyed(disks, d) == IF d = NoDisk THEN disks ELSE [disks EXCEPT ![d] = 0]

(* BmDestroyRamDisk on a disk that does not exist (any more).              *)
Misuse(disks, d) == IF d # NoDisk /\ disks[d] = 0 THEN {"gone"} ELSE {}

----------------------------------------------------------------------------
(* Definitions named X_Y are variants of X with a plausible mistake Y; no   *)
(* specification uses them.                                                *)

(* BootCurrent is set and the option's path looked at.                     *)
PressEnter ==
  /\ at = "menu"
  /\ kind' \in Kinds
  /\ current' = TRUE
  /\ at' = IF kind' = "legacy" THEN "legacy" ELSE "next"
  /\ path' = NoPath
  /\ UNCHANGED <<loader, getNext, owner, ramDisk, buffer, image, watchdog,
                 faults>>

(* The application registers no legacy boot function: unsupported.         *)
LegacyBoot ==
  /\ at = "legacy"
  /\ at' = "menu"
  /\ UNCHANGED <<kind, expansion, owner, ramDisk, buffer, image, watchdog,
                 current, faults>>

rest == <<kind, ramDisk, buffer, image, watchdog, current>>

(* A path on local media yields the next of its full paths, or no more.    *)
ExpandMedia ==
  /\ at = "next" /\ kind = "media"
  /\ \/ /\ path.nth < MaxFiles
        /\ path' = FilePath(path.nth + 1) /\ at' = "read"
     \/ path' = NoPath /\ at' = "notFound"
  /\ UNCHANGED <<loader, getNext, owner, faults, rest>>

----------------------------------------------------------------------------
(* Load file instances. *)

(* A RAM disk d was made; BmExpandNetworkFileSystem returns the block      *)
(* device of some disk e of the same instance, and a file system on it.    *)
OnDisk(l, d) ==
  LET made == [owner EXCEPT ![d] = l]
      its  == {e \in Disks : made[e] = l}
  IN  {[disks |-> made, path |-> LoadedPath(l, e), fault |-> {}] : e \in its}
        \union
      (IF May("noFileSystem")
       THEN {[disks |-> Destroyed(made, e), path |-> NoPath, fault |-> {}] :
               e \in its}
       ELSE {})
        \union
      (IF May("noBlockIo")
       THEN {[disks |-> made, path |-> NoPath, fault |-> {"null"}]}
       ELSE {})

(* BmExpandLoadFile: what asking instance l may leave behind and return.   *)
(* No answer, no memory for the disk and a failed download return nothing. *)
Expansions(l) ==
  {[disks |-> owner, path |-> NoPath, fault |-> {}],
   [disks |-> owner, path |-> LoadedPath(l, NoDisk), fault |-> {}]}
    \union
  UNION {OnDisk(l, d) : d \in {e \in Disks : owner[e] = 0}}

(* BmExpandLoadFiles: one instance at most matches; asked a second time,   *)
(* the path has no other expansion.                                        *)
ExpandLoadFile ==
  /\ at = "next" /\ kind = "loadFile"
  /\ \/ /\ path = NoPath
        /\ \E l \in 1 .. Loaders : \E x \in Expansions(l) :
             /\ path' = x.path
             /\ owner' = x.disks
             /\ faults' = faults \union x.fault
     \/ /\ path' = NoPath
        /\ UNCHANGED <<owner, faults>>
  /\ at' = IF path' = NoPath THEN "notFound" ELSE "read"
  /\ UNCHANGED <<loader, getNext, rest>>

(* BmExpandUriDevicePath looks for the full path that comes after the      *)
(* previous one.                                                           *)
ExpandUri ==
  /\ at = "next" /\ kind = "uri"
  /\ loader' = 1
  /\ getNext' = (path = NoPath)
  /\ at' = "expand"
  /\ UNCHANGED <<path, owner, faults, rest>>

(* The instance has nothing: try the next one.                             *)
SkipLoader ==
  /\ at = "expand" /\ loader <= Loaders
  /\ \E x \in Expansions(loader) :
       /\ x.path = NoPath
       /\ owner' = x.disks
       /\ faults' = faults \union x.fault
  /\ loader' = loader + 1
  /\ UNCHANGED <<at, path, getNext, rest>>

TakeCandidate ==
  /\ at = "expand" /\ loader <= Loaders /\ getNext
  /\ \E x \in Expansions(loader) :
       /\ x.path # NoPath
       /\ path' = x.path
       /\ owner' = x.disks
  /\ at' = "read"
  /\ UNCHANGED <<loader, getNext, faults, rest>>

PassCandidate_TakesNext ==
  /\ at = "expand" /\ loader <= Loaders /\ ~getNext
  /\ \E x \in Expansions(loader) :
       /\ x.path # NoPath
       /\ owner' = Destroyed(x.disks, x.path.disk)
       /\ faults' = faults \union Misuse(x.disks, x.path.disk)
  /\ getNext' = TRUE
  /\ loader' = 1
  /\ UNCHANGED <<at, path, rest>>

(* A full path tried before, or one before that: its disk is destroyed.    *)
PassCandidate ==
  /\ at = "expand" /\ loader <= Loaders /\ ~getNext
  /\ \E x \in Expansions(loader) :
       /\ x.path # NoPath
       /\ getNext' = (x.path = path)
       /\ owner' = Destroyed(x.disks, x.path.disk)
       /\ faults' = faults \union Misuse(x.disks, x.path.disk)
  /\ loader' = loader + 1
  /\ UNCHANGED <<at, path, rest>>

NoMoreLoaders ==
  /\ at = "expand" /\ loader > Loaders
  /\ path' = NoPath
  /\ at' = "notFound"
  /\ UNCHANGED <<loader, getNext, owner, faults, rest>>
----------------------------------------------------------------------------
(* The image. *)

(* The file is read and its header checked.  For an invalid image the code *)
(* looks for a RAM disk in the option's own path, where there is none.     *)
ReadImage ==
  /\ at = "read"
  /\ \/ buffer' = "live" /\ at' = "load"
        /\ UNCHANGED faults
     \/ /\ May("unreadable") \/ May("invalid")
        /\ at' = "next" /\ UNCHANGED buffer
        /\ faults' = faults \union {"unusable"}
  /\ UNCHANGED <<kind, expansion, owner, ramDisk, image, watchdog, current>>

NotFound ==
  /\ at = "notFound"
  /\ at' = "menu"
  /\ UNCHANGED <<kind, expansion, owner, ramDisk, buffer, image, watchdog,
                 current, faults>>

LoadImage_DestroysDisk ==
  /\ at = "load"
  /\ ramDisk' = path.disk
  /\ owner' = Destroyed(owner, path.disk)
  /\ buffer' = "null" /\ path' = NoPath
  /\ image' = "loaded" /\ at' = "start"
  /\ UNCHANGED <<kind, loader, getNext, watchdog, current, faults>>

LoadImage_DestroysOnFailure ==
  /\ at = "load"
  /\ ramDisk' = path.disk
  /\ buffer' = "null" /\ path' = NoPath
  /\ \/ image' = "loaded" /\ at' = "start" /\ UNCHANGED owner
     \/ /\ image' = "none" /\ at' = "loadFailed"
        /\ owner' = Destroyed(owner, path.disk)
  /\ UNCHANGED <<kind, loader, getNext, watchdog, current, faults>>

(* The disk is recognised in the full path; buffer and path are freed      *)
(* whether or not the image could be loaded.                               *)
LoadImage ==
  /\ at = "load"
  /\ ramDisk' = path.disk
  /\ buffer' = "null" /\ path' = NoPath
  /\ \/ image' = "loaded" /\ at' = "start"
     \/ image' \in {"none", "refused"} /\ at' = "loadFailed"
  /\ UNCHANGED <<kind, loader, getNext, owner, watchdog, current, faults>>

LoadFailed_KeepsDisk ==
  /\ at = "loadFailed"
  /\ image' = "none" /\ ramDisk' = NoDisk
  /\ at' = "menu"
  /\ UNCHANGED <<kind, expansion, owner, buffer, watchdog, current, faults>>

(* A refused image is unloaded and the disk destroyed.  BootCurrent stays. *)
LoadFailed ==
  /\ at = "loadFailed"
  /\ image' = "none"
  /\ owner' = Destroyed(owner, ramDisk)
  /\ faults' = faults \union Misuse(owner, ramDisk)
  /\ ramDisk' = NoDisk
  /\ at' = "menu"
  /\ UNCHANGED <<kind, expansion, buffer, watchdog, current>>

StartImage ==
  /\ at = "start"
  /\ watchdog' = "armed"
  /\ at' = "running"
  /\ UNCHANGED <<kind, expansion, owner, ramDisk, buffer, image, current,
                 faults>>

(* The image may set the watchdog, and boot something else itself, which   *)
(* deletes BootCurrent.                                                    *)
ImageActs ==
  /\ at = "running"
  /\ watchdog' \in {"off", "armed"}
  /\ current' \in {current, FALSE}
  /\ UNCHANGED <<at, kind, expansion, owner, ramDisk, buffer, image, faults>>

ImageReturns_WatchdogKept ==
  /\ at = "running"
  /\ image' = "none"
  /\ owner' = Destroyed(owner, ramDisk) /\ ramDisk' = NoDisk
  /\ current' = FALSE
  /\ at' = "menu"
  /\ UNCHANGED <<kind, expansion, buffer, watchdog, faults>>

ImageReturns ==
  /\ at = "running"
  /\ image' = "none"
  /\ owner' = Destroyed(owner, ramDisk)
  /\ faults' = faults \union Misuse(owner, ramDisk)
  /\ ramDisk' = NoDisk
  /\ watchdog' = "off"
  /\ current' = FALSE
  /\ at' = "menu"
  /\ UNCHANGED <<kind, expansion, buffer>>

(* The watchdog resets the machine: BootCurrent is volatile.               *)
WatchdogFires ==
  /\ watchdog = "armed"
  /\ at' = "menu" /\ path' = NoPath /\ owner' = NoDisks /\ ramDisk' = NoDisk
  /\ buffer' = "null" /\ image' = "none" /\ watchdog' = "off"
  /\ current' = FALSE
  /\ UNCHANGED <<kind, loader, getNext, faults>>

Searching ==
  \/ LegacyBoot \/ ExpandMedia \/ ExpandLoadFile \/ ExpandUri
  \/ SkipLoader \/ TakeCandidate \/ PassCandidate \/ NoMoreLoaders
  \/ ReadImage \/ NotFound \/ LoadImage \/ LoadFailed \/ StartImage

Next ==
  \/ PressEnter \/ Searching \/ ImageActs \/ ImageReturns \/ WatchdogFires

Spec == Init /\ [][Next]_vars

(* The boot manager waits for nobody until the image runs.                 *)
FairSpec == Spec /\ WF_vars(Searching)
----------------------------------------------------------------------------
(* Properties. *)

TypeOK ==
  /\ at \in {"menu", "legacy", "next", "expand", "read", "notFound", "load",
             "loadFailed", "start", "running"}
  /\ kind \in Kinds
  /\ path \in Paths
  /\ loader \in 1 .. Loaders + 1
  /\ getNext \in BOOLEAN
  /\ owner \in [Disks -> 0 .. Loaders]
  /\ ramDisk \in Disks \union {NoDisk}
  /\ buffer \in {"null", "live"}
  /\ image \in {"none", "loaded", "refused"}
  /\ watchdog \in {"off", "armed"}
  /\ current \in BOOLEAN
  /\ faults \subseteq {"gone", "null", "unusable"}

(* Back in the menu, where the user may think as long as he likes, no      *)
(* watchdog runs, no image of the attempt stays loaded and its file buffer *)
(* is freed, whatever failed and whatever the image did meanwhile.         *)
MenuIsQuiet ==
  at = "menu" =>
    /\ watchdog = "off" /\ image = "none"
    /\ buffer = "null" /\ ramDisk = NoDisk

(* An image keeps the RAM disk it was read from for as long as it runs:    *)
(* no expansion of another candidate and no failure destroys it before.    *)
DiskOutlivesImage ==
  at \in {"start", "running"} /\ ramDisk # NoDisk => owner[ramDisk] # 0

(* No RAM disk is destroyed twice.                                         *)
NoDiskDestroyedTwice == "gone" \notin faults

(* As long as every image offered is readable and valid and every disk a   *)
(* block device, an attempt keeps no RAM disk, whatever else fails: back   *)
(* in the menu all the memory is free again.                               *)
DisksAreReleased ==
  at = "menu" /\ faults \intersect {"null", "unusable"} = {} =>
    owner = NoDisks

(* An attempt ends: the search visits each candidate once, however often   *)
(* the answers of the instances change, and comes back or runs an image.   *)
AttemptEnds == at = "next" ~> at \in {"menu", "running"}
=============================================================================
