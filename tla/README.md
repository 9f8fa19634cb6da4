# TianJiBoot: verification development

TianJiBoot (天玑) is a graphical UEFI boot menu.  The firmware starts
`天玑.efi`; the program shows one icon per operating system it recognises among
the firmware's boot options, the user moves a pointer over the icons with the
arrow keys, and Enter boots the chosen option or chain-loads OpenCore.  The
repository also vendors the EDK II and OpenCore libraries the program is linked
with.

This directory holds TLA+ models of the program, of the library services that
carry its boots, of the small programs beside it and of the scripts that deploy
it, TLC configurations that check them on small instances,
and proofs that TLAPS checks for every value of the constants.  Files named in
the text without a directory are

| short name | file under `src/天玑项目/` |
|---|---|
| `天玑.c` | `应用/天玑/天玑.c` |
| `BmBoot.c`, `BmLoadOption.c`, `BmHotkey.c`, `BmMisc.c`, `BmConnect.c` | `库/UefiBootManagerLib/` |
| `ImageRunner.c` | `库/OcMiscLib/` |
| `ReadFile.c`, `LocateFileSystem.c`, `FileProtocol.c` | `库/OcFileLib/` |
| `OcUnicodeLib.c` | `库/OcStringLib/` |
| `OcDevicePathLib.c` | `库/OcDevicePathLib/` |

## 1. Inventory

### 1.1 Boot menu (`天玑.c` 549-805, in `UefiMain`)

*State.*  The recognised entries (`启动项`, `启动项数`), the x position of the next
icon, the range and position of the pointer (`指针坐标`, its leftmost and rightmost
stop), the index of the chosen entry, the pixels saved from under the pointer
(`指针背景图`).  *Operations.*  Draw the icons, place the pointer, wait for a key,
left, right, any other key, Enter; an image started by Enter may come back.  A pointer
image that cannot be read ends the program before the menu (634).
*Interaction.*  Enter calls `EfiBootManagerBoot` (1.5) or the chain-loader (1.3);
the started image may paint over the screen before it returns.
*Hard.*  Pixel and index are two views of one choice that no code relates, each
wrapped by code of its own and the pixel in unsigned arithmetic; erasing paints
back pixels saved one move earlier.  *Correct when* pointer and index agree,
exactly one pointer is on the screen, and Enter runs the entry shown selected.

### 1.2 Start-up, image reader and clean-up (`天玑.c` 3-142, 375-641, 806-840)

*State.*  Some twelve pointers of `UefiMain`, and file, information block and data
block of the image reader `读取并转换Bmp`, which is called for the background, for the
size of an icon, for every icon and for the pointer.  *Operations.*  Every service
call that fills one of them, and the two clean-up labels.  *Hard.*  Partial
failure: a failed step jumps over later assignments to a clean-up that tests the
pointers those assignments would have set.  *Correct when* what is allocated is
freed exactly once, and nothing else.

### 1.3 OpenCore chain-load (`天玑.c` 182-288, `OcReadFile`, `OcLoadAndRunImage`, `OcLocateFileSystem`)

*State.*  The launcher's own path, rewritten in place into the path of
`OpenCore.efi`; volume and file handles; the image's buffer, size and device path;
loaded images.  *Operations.*  Locate the file system, copy and rewrite the path,
read the relative file, fall back to the absolute one, load, start, release.
*Hard.*  Two candidate files share three variables through half-failed attempts;
one tolerated failure; the rewriting computes where it may write.  *Correct when*
the key loop is reached again with nothing held, what is loaded belongs together
and the rewriting stays inside its block.

### 1.4 Boot option store (`BmLoadOption.c`, `BmBoot.c` 100-165, 1876-1906, 2386-2484)

*State.*  The non-volatile variables `BootOrder`, `Boot####`, `BootNext`,
and the volatile `BootCurrent`.  *Operations.*  List, add, delete, sort, refresh,
and the lookup (or temporary option) that precedes a boot.  *Interaction.*  The
menu lists the options when it starts; a boot looks its option up again.
*Hard.*  No operation is atomic: each is a sequence of `SetVariable` calls, every
one may fail, and the power may go between any two; a listing deletes what it
cannot read while it walks a copy of the order.  *Correct when* the order never
names an option twice, dangles only after an accident and is repaired by a
listing, options of the user survive, a free number is free, and the boot's
`BootCurrent` names the option being booted.

### 1.5 Boot attempt (`BmBoot.c` `EfiBootManagerBoot` and path expansion, `BmLoadOption.c` 1300-1375)

*State.*  The full path being tried, file buffer, RAM disks made for network
candidates, image handle, watchdog, `BootCurrent`.  *Operations.*  Expand the
option's path into full paths, one after the other; read and check the image;
load, start, return, fail.  *Interaction.*  Called by Enter; asks every load file
instance; the image runs and may arm the watchdog or boot something else.
*Hard.*  The URI expansion asks all instances again for each next candidate,
making and destroying RAM disks whose answers may have changed meanwhile; a disk
is recognised only by the path of the file on it.  *Correct when* the menu is
quiet afterwards, an image keeps its disk while it runs, no disk is destroyed
twice or left behind, and the search ends.

### 1.6 Session of boots (`天玑.c` 417-435, 684-801, with 1.3 and 1.5)

*State.*  The entry chosen, the firmware's watchdog and `BootCurrent`, and all that
the two ways to boot keep.  *Operations.*  Start under the firmware's watchdog,
open the menu, move, leave, Enter on an option (`EfiBootManagerBoot`) or on the
Apple entry (the chain-loader), come back, be reset by the watchdog.  *Hard.*  Two
ways with separate clean-ups share a watchdog that only one of them clears, and a
started image may itself boot something before it returns.  *Correct when* the
menu the user thinks in is quiet whatever he tried before, and every Enter leads
somewhere.

### 1.7 Partition short paths (`BmBoot.c` 800-1176, 2134-2175, `BmMisc.c`, `BmConnect.c`)

*State.*  The variable `HDDP`, a list of full partition paths; the copy being used;
the disks plugged in and the handles connected.  *Operations.*  Read the cache,
try each instance, search all block devices, connect everything once, move the
path found to the front and save.  *Hard.*  Copies of a disk answer to the same
signature; disks come and go between any two steps; the write may fail; deleting
one path from the list deletes all with a common beginning.  *Correct when* the
list is a history of the partitions booted from, latest first, booting stays
with the disk it used last, and everything is connected only as a last resort.

### 1.8 Hot keys (`BmHotkey.c`)

*State.*  Variables `Key####`, the hot key list with each key's position in its
sequence, the strokes registered with each console, the option chosen, the
events that will stop the service.  *Operations.*  Add, delete and continue keys,
start (one key option after the other), stop at ReadyToBoot, new consoles, the
keyboard callback, the boot.  *Hard.*  The callback runs between any two steps that
do not hold the lock, and another keyboard's callback between its own test for a
chosen option (361) and the lock (370); the strokes of several hot keys overlap; modifiers have two
sides and some keyboards report none; the service is stopped but its flag stays
set.  *Correct when* only a complete sequence of processed strokes boots its own option,
and none while a chosen one still boots, nothing listens while an image runs, and a new key overwrites no valid one.

### 1.9 Image conversion and blending (`天玑.c` 101-123, 154-179)

Pure arithmetic: rows stored upside down, a pixel count in 32 bits, a weighted
mean of bytes.  *Correct when* every pixel of the file is used once, the picture
fills its block, and a blended byte lies between the two it was made from.

### 1.10 Small applications (`应用/启动EFI程序`, `截屏`, `获取启动菜单`, `设置分辨率`, `显示32位Bmp图片`)

Five programs without loops over events: start a program, take a screen shot,
list the boot options, set a mode, show a picture.  *Hard.*  Partial failure: each
has a dozen service calls and as many exits.  *Correct when* each exit releases
what is held and touches nothing else, and the picture on the screen is the one
in the file.

### 1.11 Deployment scripts (`生成EFI.py`, `天玑项目/python/生成图片.py`)

*State.*  The staging directory, the target directory the menu reads, the program.
*Operations.*  Convert each image (an error is printed and passed over), copy the
program, remove the old directory file by file, move the new one.  *Hard.*  An
interruption anywhere, and a next run that finds what the last one left.  *Correct
when* a run that reports success deployed its images, and one accident leaves a
complete set somewhere.

### 1.12 Not modelled

| part | why |
|---|---|
| Rest of the boot option library in 1.4 and 1.5: driver, SysPrep and platform recovery options, `EfiBootManagerProcessLoadOption` | The program never uses them. |
| Enumeration of devices behind a refresh, USB short paths, boot manager menu and logo services in `BmBoot.c` | Their results are inputs: a refresh finds any set of automatic options, a path on local media expands to any number of full paths up to `MaxFiles`. |
| `BmConsole.c`, `BmDriverHealth.c`, `BmBootDescription.c`, the rest of `BmMisc.c` and `BmConnect.c` | Upstream protocol plumbing the program reaches only through the firmware; the state is the firmware's. |
| BaseTools (compilers, lexers, parsers), zlib, lodepng, HII database, register and MSR headers, the remaining EDK II and OpenCore libraries, build description | Third-party code the program is built or linked with: more than a million lines, most of them tables, generated parsers and headers without behaviour. The project's own code and the vendored code its boots run through are a fraction of a per cent of the repository, so the models cover little of it by lines although they cover nearly all of what TianJiBoot itself does. |

## 2. Modules

| module | what it is |
|---|---|
| `MenuCarousel` | abstract menu: a ring of entries, one highlighted, Enter runs that one |
| `TianjiMenu` | the menu in pixels and words; `Carousel == INSTANCE MenuCarousel WITH ...` |
| `TianjiMenuProofs` | theorems about `TianjiMenu`, the refinement among them |
| `TianjiResources` | the pointer ledger of `UefiMain` and of its image reader |
| `OpenCoreLaunch` | the chain-loader |
| `BootOptionStore`, `BootOptionStoreProofs` | the variables and the operations on them, and their theorems |
| `BootAttempt`, `BootAttemptProofs` | one boot attempt, and its theorems |
| `BootSession` | extends `OpenCoreLaunch`, with `Attempt == INSTANCE BootAttempt WITH ...`: the two ways to boot composed around one menu, one watchdog and one `BootCurrent` |
| `BootSessionProofs` | theorems about the chain-loader by itself and in a session |
| `PartitionHistory` | abstract cache: the partitions last booted from, the latest first |
| `PartitionCache`, `PartitionCacheProofs` | expansion of partition short paths; `History == INSTANCE PartitionHistory WITH ...`; its theorems, the refinement among them |
| `HotKeys`, `HotKeysProofs` | the hot key service, and its theorems |
| `Bitmaps` | conversion and blending as operators |
| `SmallApps` | the five small programs, extends `Bitmaps` |
| `ApplicationProofs` | theorems about `TianjiResources`, `Bitmaps` and `SmallApps` |
| `ImageDeploy`, `ImageDeployProofs` | the deployment scripts, and their theorems |
| `MCMenuFits`, `MCMenuMisfits`, `MCTianjiResources`, `MCOpenCoreLaunch`, `MCBootOptionStore`, `MCBootAttempt`, `MCBootSession`, `MCPartitionCache`, `MCHotKeys`, `MCSmallApps`, `MCImageDeploy` | instances for TLC |

A definition called `X_Y` is the definition `X` with a plausible mistake `Y`.  No
specification uses it; each is there to show that some property notices the
mistake (PROJECT.json, "mutants").

### State and code

* **`TianjiMenu`.**  `iconX` is `图标坐标.X`, `cursorX` the pointer's x, `sel` the index,
  `leftX`/`rightX` its range.  Pixels are abstracted to what the properties tell
  apart: where each icon stands (`iconAt`), at which x positions the screen shows
  a pointer (`shown`), and whether the saved pixels contain one (`saved`).
  `KeyLeft`, `KeyRight`, `KeyOther` and `KeyEnter` are whole turns of the key loop
  after a key was read, the clamping that follows every key included.
  `PointerUnreadable` is the exit at 634.  `Word` is UINTN arithmetic, modulo
  `WordModulus`.
* **`TianjiResources`.**  `ptr` gives each pointer one of *junk* (never assigned),
  *null*, *live* and *freed*; freeing anything but a live block is recorded in
  `faults`.  Whether junk passes the test against NULL is a free choice.  The
  reader's steps are `OpenImage` ... `FinishRead`, one per service call; `at` says
  which of its four callers it works for, and is `"overrun"` once more entries are
  recorded than the block has room for, where the model ends.
* **`OpenCoreLaunch`.**  A file is where it was found (`"relative"` or
  `"absolute"`); `buffer`, `size` and `imagePath` say which file each of the three
  variables belongs to.  Of the launcher's path only lengths are kept; `written`
  is how far the in-place rewriting wrote.
* **`BootOptionStore`.**  `todo` is the rest of the running operation as a sequence
  of steps, each one `SetVariable` call or loop turn; a step takes its head and
  may put what the code does next in its place.  `Restart` empties it.
  `inserting`, `healing` and `trusted` are history: they only say what happened.
* **`BootAttempt`.**  `owner[d]` says for which load file instance RAM disk `d` was
  made; a full `path` carries the disk it leads into.  `Expansions(l)` is the set
  of everything that asking instance `l` may leave behind and return.  `faults`
  is history: wrong calls of `BmDestroyRamDisk`, and whether an image was
  unusable.

* **`BootSession`.**  `mode` says who is at work: the start-up, the menu, an attempt,
  a launch, or nobody any more.  The chain-loader's variables are those of the
  extended module; the attempt's are `attemptAt`, `fileBuffer`, `attemptFaults` and
  the rest under their own names.  Each action is one of the parts' own actions
  plus what it does to `mode`; `watchdog` and `current` are shared.  `armedBy` is
  history.
* **`PartitionCache`.**  A path is the sequence of its nodes, the port first.  `hddp`
  is the variable, `cache` the copy in memory, `untried` its instances not yet
  tried.  One action is one turn of the loop over instances (`TryInstance`), the
  search of all handles (`FindPartition`, `NothingFound`) or an event at a port.
  `settled` and `last` are history.
* **`HotKeys`.**  One entry of `list` is one `BM_HOTKEY`, with `waiting` its
  `WaitingKey`; a key option with modifiers has one for each side they may be held
  on.  `Press` is one call of the callback from beginning to end.  `Notice` is a call
  that has found no option chosen and is interrupted before the lock by that of
  another console, `Resume` the rest of it; `noticed` is the stack of such calls, and
  `Undisturbed` keeps everything else waiting for it.  `StartService`, `ProcessNext` and
  `ServiceStarted` are the pieces of a start between which the lock is free;
  everything done under the lock is one action.  `late` and `recent`, the last
  strokes the callback processed, are history.
* **`SmallApps`.**  A program is a sequence of steps: calls with what they yield and
  use and what is done after a failure, releases, and for the picture the pixel
  loops.  `held` is what the program holds; a step that uses or releases anything
  else ends in `misused`, after which the firmware may do anything.  `StartImage`
  fails in two ways the caller cannot tell apart: the image ran, returned an error
  and is unloaded, or it was not started and stays.  `Grab` and `Show` are the two
  `Blt` calls; each may fail although the picture fits, and after the first one
  failed `back` is any pixels at all.
* **`ImageDeploy`.**  A directory maps each image to the number of the run that made
  its file, to none or to a broken one.  `Stop` is an exception or an
  interruption before the next step.

### Abstractions to know

* `天玑.c` 778 compares pointers to two equal string literals; the models assume
  that the compiler merges them, as GCC does within one source file.
* In `TianjiMenu` a `Blt` is refused only when its rectangle leaves the screen, and
  drawing is otherwise taken to succeed; that any of them may fail for reasons of
  its own is modelled where a block is at stake, in `SmallApps`.
* FydeOS behaves like Windows and Ubuntu; three names stand for four.
* In `BootAttempt` an option's own path never names a file on a network RAM disk,
  legacy paths are unsupported (no legacy boot function is registered) and end the
  attempt whatever their sub-type (`BmBoot.c` 1951, 2010), and which
  of the disks of one instance `BmExpandNetworkFileSystem` finds first is a free
  choice, since handle order is the firmware's.
* In `BootOptionStore` a refresh finds automatic options only; the platform's hook
  that may replace the list found (`BmBoot.c` 2432-2442) is taken to leave it so.
* In `HotKeys` the boot manager changes key options only between boots, and a write
  of a key variable that fails changes nothing and is left out.  Strokes that no
  console has registered never reach the callback: they are not seen, and do not
  come between the strokes of a sequence (section 5).
* In `SmallApps` a pixel has one colour channel (all three are computed alike) and
  bytes range over `0 .. Opaque`.
* A failing service fails at any of its calls, whichever calls went well before.

## 3. Runs

| run | what it shows | states |
|---|---|---|
| `menu_fits` | 1280 pixels wide, one to four entries: pixel and index agree, Enter runs what is shown, the menu implements `MenuCarousel` | 4,358 |
| `menu_misfits` | 1024 pixels, up to six entries, one icon missing: still one pointer, Enter runs a collected entry, and the program comes to its first wait with the pointer drawn at its first stop (if that lies on the screen), or has met an unreadable pointer image | 186,689 |
| `resources` | any service failing: exits by break release everything, nothing is freed twice, the late clean-up frees only what is allocated, the reader leaves nothing open, start-up ends | 3,883 |
| `opencore` | any service failing: the loop is reached with nothing held, what is loaded belongs together (the code's assertion included), rewriting stays inside its block, launching ends | 5,861 |
| `store` | any failing write and power loss: see 1.4, and every operation ends | 1,289,216 |
| `attempt` | any answers and all four mishaps: see 1.5 | 70,689 |
| `session` | two menus with every kind of entry, any sequence of boots and chain-loads: see 1.6 | 776,688 |
| `cache` | two copies of a disk, a nested partition and another disk on two ports, hot-plugged: see 1.7, and the refinement of `PartitionHistory` | 1,521,389 |
| `hotkeys` | a two-key sequence and a key with a modifier that overlap, on two keyboards that may report no modifiers and interrupt each other between test and lock: see 1.8 | 701,415 |
| `apps` | the five small programs with any call failing, pictures that fit the screen, do not, or have too many pixels: see 1.10 | 1,023,604 |
| `deploy` | up to four runs of the scripts, each interrupted anywhere: see 1.11 | 155,167 |
| `menu_narrow` | a disagreement between the code and its comment, section 5 | - |

Type invariants are not among the runs' properties: the proof modules prove them,
as a theorem `TypeCorrect` or as a part of the inductive invariant (`AppTypeOK` of the
small programs, `TypeOK` of the cache and of the deployment).

### Bounds, and why they are enough

* *Menu.*  The widths are those of the repository's images (icons 156, pointer
  50).  `WordModulus` 2048 stands for 2^64: it only has to exceed every sum on the
  screen (`LayoutFits` asks for resolution plus stride), and wrapping subtractions
  land far right of the screen, as with 2^64.  1280 pixels fit up to four
  entries, and four entries meet both ends of the ring and inner moves; six
  entries on 1024 pixels give negative slack, so the layout itself wraps.
* *Resources.*  Up to three options, so that some are recognised and some not, and
  icons fail first, last and in between.  `MaxKeywords` is 4, one for each of the
  keyword tests (507-530), which may all apply to one path.  Every program point with a failing service is
  in `FailingAt`.
* *OpenCore.*  `AppLength` 12 is that of `OpenCore.efi`.  The launchers are of depth
  0 to 4, of those three deep one with a tail one character too short, one of
  just the right length and one longer, each with and without a leading slash.
* *Store.*  `MaxNumber` 2: three numbers can be used up, leave gaps in any place,
  and be sorted, while `BootNext` takes one.  One content of the user and one
  automatic: duplicates of a content, replacement and refreshes all happen.
  `Init` starts from every order without duplicates and every assignment of
  variables, corrupt and missing ones included: whatever an earlier firmware left.
* *Attempt.*  Three instances (the candidate before, at and after the previous
  one), two files on local media, room for three disks, all mishaps.
* *Session.*  Each of the two menus holds the Apple entry between options of
  different kinds, so each way follows the other in both orders; two instances and
  two disks are enough for an attempt to fail on one and go on to the next.
* *Cache.*  `Limit` 2 instead of 12 with four paths, so that paths fall out; a
  partition nested in another and a copy on a second port give common beginnings
  and doubles.
* *Hot keys.*  The sequence `A B` and the key Shift-`B`: on a keyboard that reports no
  modifiers one stroke of `B` completes both, in either order of the list, and a
  sequence may be typed on both keyboards in turn.  With two keyboards at most one
  callback waits while the other runs, which is the window between test and lock.
  One boot option with two contents can go stale, vanish and return; two key
  numbers leave a gap; three list entries hold both keys at once.  The service
  starts once, which already gives keys defined before, during and after its life.
  Only Shift-`B` may become the continue key (`ContinueCodes`), and neither
  keyboard refuses a stroke (`Flaky` is empty; a keyboard that does is covered by
  the theorems alone).  Keyboards and contents are interchangeable: the
  specification and the properties compare them for equality and single none out, so
  `SYMMETRY` is sound.
* *Small programs.*  Bytes of two bits and words that count four pixels: products,
  rounding and the wrapped pixel count all happen.  Up to five boot options, so
  that the fourth is there or not.
* *Deployment.*  Two icons and a background; four runs meet a sound deployment
  followed by one accident, its repetition and another accident.

Deadlock is checked in the runs of `BootOptionStore`, `BootAttempt`,
`PartitionCache`, `HotKeys` and `SmallApps` (where an ended program idles); the
menu, the resources, the chain-loader, the session and the scripts may really
stop.

### Fairness

Weak fairness is assumed only of steps in which the program waits for nobody:
drawing icons and the pointer or giving up on its image, start-up and clean-up, the chain-loader up to the
start of the image, a store operation that has begun, an attempt up to the
start of its image, and in a session whichever of these is at work.  There is one processor and no scheduler; such code runs on.
Nothing is assumed of keys, of images returning, of the watchdog and of power
failures, plugs and unplugs, and interruptions.

## 4. Proofs

All theorems hold for every value of the constants that satisfies the named
assumptions.

**`TianjiMenuProofs`.**  `TypeCorrect` and `NoPointerLeftBehind` (`OnePointer`) need no
hypothesis: whatever wraps and whichever icons are missing, drawing and erasing
happen at the same place (`PointerHolds`; `ClampTwice`: clamping a clamped position
changes nothing).  `EnterRunsAnEntry` (`RunsACollectedEntry`) assumes
`EntriesCounted`, at least one entry and no more than a word counts; with none it
is false (section 5).  The others assume `Fits` (for every number of entries that
may occur, `LayoutFits`: the row of icons fits the screen and there is room for
one more stride left of the first stop) and `AllIconsLoad`.  Both are needed:
without either the code does otherwise (section 5).  Lemma `Geometry` gets from
`LayoutFits` that no word wraps and where the icons and the stops are.
`CursorOnSelection` is not inductive; `IInv` adds where the icons drawn so far
stand, that `leftX` and `rightX` are what the layout computed, that the pointer
shown is the current one and the pixels saved show none, and that what runs is
the chosen entry.  `MoveKeepsInvariant` treats both arrow keys at once;
`KeyLeftTarget` and `KeyRightTarget` show that wrapping and clamping the pixel ends
at the stop of the wrapped index.  `ChosenIsUnderPointer` (the icon over the
pointer is that of the chosen entry and of no other) gives
`EnterRunsWhatIsShown`, and with `StepSimulation`, one case per action,
`MenuImplementsCarousel`.

**`BootSessionProofs`, the chain-loader.**  `LoopHoldsNothing`, `ImageIsConsistent` and
`NoFileNoPath` speak of one program point each and are not inductive; `Ledger` says
for every point what is held there: open handles, the name, the image, and which
file buffer, size and path belong to.  `TypeCorrect`, `LoopIsClean`,
`ConsistentImage` and `AssertionHolds` follow, for any set of launchers and any set of
failing services.  `RewriteIsInside` (`RewriteStaysInside`) is about paths of any
depth: the characters of a path are a recursive function, whose existence and
type (`CharactersType`) come from the least position at which they would fail
(`LeastNatural`, from the library's well-founded induction).

**`BootSessionProofs`, the session.**  `Turns` says that only one of the parts is at
work, `AttemptHolds` and the chain-loader's `LaunchInv` what each holds between its
steps, and `WatchdogHolds` who may have left the watchdog armed.  A step of the
chain-loader keeps `LaunchInv` by the lemmas about the chain-loader, cited as they
are, and every other step leaves its variables alone.  `MenuStaysQuiet` and
`LaunchInSession` (what holds of the chain-loader alone holds in a session) follow
for sessions of any length.

**`BootAttemptProofs`.**  `IInv` follows a disk from the moment its path is found:
the path read or loaded names an existing disk, `ramDisk` is set only between
load and release, and buffer, image and watchdog only at certain points.
`TypeCorrect`, `MenuStaysQuiet`, `ImageKeepsItsDisk` and `DestroyedOnce` follow for any number of
instances, files and disks and any mishaps.  `NoDiskLeaks` needs more: `OneDisk`,
that until an image proves unusable or a disk turns up without block device at
most one disk exists, the one carried along.

**`BootOptionStoreProofs`.**  `FreeNumberCorrect`, about the operator in any state in
which `BootOrder` is a sequence of numbers, one with duplicates included: the
search of `BmGetFreeOptionNumber` stops after as many numbers as `BootOrder` and
`BootNext` together have entries, and that suffices.  If all numbers below that
limit are taken they are all that is taken (`FewAreTaken`, `LimitIsFree`: a
surjection from the entries onto the numbers taken).  The other properties
speak of the variables, but why they hold lies in the steps still to be executed.
`IInv` says of `todo` which steps may follow which (`Shape`), that no number is read
or pruned twice (`Once`), that the listing at hand is the listing of what is stored
(`ListIsCurrent`), that only automatic options are on the way to be deleted
(`PrunesListed`, `DeletesOnly`), that what dangles is about to be repaired (`Heals`)
and that an option is stored under the number just put into the order
(`StoresTarget`, `InsertingIsNow`).  There is one lemma per action; `Heading`,
`Continued` and `Splice` say what replacing the head of `todo` by other steps
keeps.  `TypeCorrect`, `NoDuplicates`, `Dangling`, `CurrentIsBooted`, `FreeAlways` and the
action property `UserOptions` follow for any number of options, any failing write and
power lost anywhere.

**`PartitionCacheProofs`.**  `CacheIsHistory` is the refinement of `PartitionHistory`:
rewriting the cache (delete what is related, put the path in front, drop what is
beyond the limit) is one `Use` of the history (`CachedShape`, `CachedKeeps`,
`CachedIsUse`), and every other step is a stutter.  The other two need what an
expansion has learnt.  `Behind` says that the copy in memory is the variable while
instances are tried, `Tried` that those passed lead to no partition that is
plugged in, `LastFirst` that whatever stands before the partition last booted from is there for
another partition.  `BootsStayWithDisk` and `ConnectsAllLast` follow for paths of any
depth, any limit, plugs, unplugs, failing writes and resets.  `OrderSorts` shows
that the list of instances picked by position exists and is sorted
(`CanBeSorted`, by induction on the size of a finite set).

**`HotKeysProofs`.**  `WellFormed` and `Follows` say of each list entry how far its
sequence has come, and that the strokes that brought it there are the last ones
processed; `OnlyLate` that an entry in the list while no event will stop the service
came after the first boot; `ChosenBoots` that a choice made by a hot key is on its
way to be booted and no interrupted callback is left to make another.
`AdvanceKeeps` is the callback with the lock, for a call that was not interrupted
(`PressKeeps`) and for one that was (`ResumeKeeps`).  `StillFollows` is the step of `Follows` when a stroke advances or
resets, `FreeNumberUnused` the search for a gap, `AscendingSorts` that key options
are sorted by number.  `TypeCorrect`, `StoppedBehindImages` (`StoppedWhileBooting`), and the
action properties `OnlyTypedBoots` (`BootsWhatWasTyped`) and `NewKeyCostsNone`
(`ValidOptionsSurvive`) follow for codes of any length, any number of consoles that
interrupt each other in any way, and any number of starts.

**`ApplicationProofs`, the start-up.**  The properties speak of the end of `UefiMain`;
`Ledger` says for every program point before it which pointers are assigned there
and which hold a block (the sets `WithRoot`, `WithName` and `WithEntries` order the
points), and `ReaderHolds` the same for the image reader.  `TypeCorrect`,
`BreakIsClean`, `FreedOnce`, `LateCleanup` and `ReaderIsClean` hold for any number of
options and keywords and any set of failing services, up to the point where the
records overrun their block (section 5).

**`ApplicationProofs`, the pixels.**  `EveryPixelOnce` (turning a picture over twice
gives it back, and never reads outside it), `PictureFillsBlock` (given that the
word can count its pixels) and `BlendIsBetween`, for every size and byte range.
The lemmas `RowAndColumn`, `PixelOf` and `InPicture` take division and remainder
apart into steps the solver can do.

**`ApplicationProofs`, the small programs.**  An outline (`Outline`) says what a
program holds before each of its steps and, for each call that may fail, that
what is done then gives back exactly what is held or should have been (`Clears`).
The invariant `AppInv` says that a program is on the track of its outline, short of
what failed calls did not yield (`OnTrack`), or is giving back exactly what it
holds (`CleaningUp`); that every step keeps it (`AppStep`) does not depend on which program
runs.  `EveryOutline` gives the outlines: for four programs a table, put together
by `AlongBoth`, and for `获取启动菜单` a formula in the number of boot options.
`AllReleased` (`ReleasesAll`) and `OnlyUnyieldedMisused` (`MisusesOnlyUnyielded`) follow for
any number of options and any failing calls.  For `PictureIsShown` (`ShowsPicture`)
`PictureInv` adds how far the picture is at each step (`Drawn`), in front of the
screen or, if that could not be read, of anything; `AtOnce` and
`PixelInPlace` find the pixel of a position by row and column, and the bounds are
those of a division that rounds down.

**`ImageDeployProofs`.**  `Made` says what the present run has converted, `Kept` where
a complete set of images is: in use until the first accident, then in either
place, but in staging as soon as the old set is being removed.  `SuccessIsReal` and
`OneAccidentIsSurvived` follow for any images and any number of runs.

*Only model-checked.*  Liveness (`MenuAppears`, `StartupEnds`, `LaunchEnds`,
`OperationsEnd`, `AttemptEnds`, `EnterLeadsSomewhere`): TLAPS proves neither
liveness under fairness nor ENABLED.  Every other property that a passing run
checks is stated by a theorem.  The theorems about the menu that assume `Fits` and
`AllIconsLoad` say nothing of the misfits, where only `OnePointer`,
`RunsACollectedEntry` and the type invariant hold.

## 5. Where the code and its own words disagree

**Narrow screens** (`menu_narrow`; `天玑.c` 709).  The left key subtracts a stride
of 206 from an unsigned pixel position.  With less than a stride left of the
first stop (four entries on 1024 pixels) the result wraps to a huge number,
the second comparison moves the pointer to the leftmost stop, and the index
goes to the last entry.  Enter then runs another entry than the one shown.

Met while modelling, without a run of their own.  Where a property excepts the
case, it excepts this case and no other, so that the run shows that there is none
beside it.

* **A missing icon** (`天玑.c` 581).  `continue` also skips the advance of the icon
  position: later icons stand one place left of their entry, and Enter runs an
  entry whose icon is not the one under the pointer.  `RunsWhatIsShown` fails when
  an icon is missing from `LoadableNames`.
* **An early failure** (813).  If the background cannot be read, the clean-up tests
  and frees pointers never assigned.  `LateCleanupIsExact` speaks of the clean-up
  after those assignments.
* **A tolerated failure** (284).  The comment at 256 calls a failed allocation of the
  image path not critical; NULL is then freed.  `LoopHoldsNothing` allows this
  fault alone.
* **An invalid image on a RAM disk** (`BmLoadOption.c` 1347).  The code looks for the
  disk in the option's own path instead of the full one; the disk stays in memory,
  although line 1345 says it is freed.  `DisksAreReleased` excepts the attempt.
* **A RAM disk without block device** (`BmBoot.c` 1508).  `BmDestroyRamDisk` is called
  for the path of a NULL handle, against its assertion at 1393.
* **The watchdog of a chain-loaded program.**  `OcLoadAndRunImage` does not clear the
  watchdog when the program returns, `EfiBootManagerBoot` does; five minutes later
  the machine may reset in the menu.  `MenuIsQuiet` of `BootSession` allows this
  watchdog alone.
* **Nested partitions in the cache** (`BmMisc.c` 49).  The comment at `BmBoot.c` 865
  says that all successful history paths are saved; booting again from a partition
  deletes those nested in it, and those around it.  `PartitionHistory` allows it.
* **The small programs.**  `启动EFI程序` closes its directory twice when its file cannot
  be opened (28 and 118); `截屏` closes or frees what a failed call did not yield
  (68, 86, 101); `获取启动菜单` frees each description and then the list that owns it
  (30, 40), and boots the fourth option without asking whether there is one (38),
  whereupon its description, already freed, is compared with that of its variable
  (`BmBoot.c` 131).  `启动EFI程序` also unloads an image that ran and returned an
  error, which the firmware has unloaded already (64-67).
  `MisusesOnlyUnyielded` names these and allows nothing beside them.
* **A screen that cannot be read** (`显示32位Bmp图片.c` 121).  The status of neither
  `Blt` is assigned, so `图像显示成功` (shown successfully, 153) is printed whatever
  happened; if the first one fails, whatever the memory held shines through the
  translucent pixels.  `ShowsPicture` then says only that the picture is blended
  with some pixel, which pins down its opaque pixels.
* **Strokes nobody registered** (`BmHotkey.c` 428).  An unexpected stroke is to reset
  a hot key to its initial state, but a console calls back only for strokes
  registered with it: after `A`, a key that belongs to no hot key, and `B`, the
  sequence `A B` boots.  `BootsWhatWasTyped` speaks of processed strokes.
* **A choice overwritten** (`BmHotkey.c` 361-370).  The test for a chosen option is
  made before the lock is taken and not repeated: the callback of a second
  keyboard may choose an option in between, which the first then replaces.
  `BootsWhatWasTyped` forbids this only while a chosen option boots.
* With no recognised entry (`0 \in Counts`) the key loop runs all the same, and Enter
  boots a record that was never filled (`天玑.c` 779); `RunsACollectedEntry` fails.
* With several keywords in a path more entries may be recorded than were allocated
  (507-533).  Nothing in the repository says otherwise; the model ends in
  `"overrun"`, and no property is claimed of such a start beyond that point.
* An image that `LoadImage` loads but refuses (EFI_SECURITY_VIOLATION) stays loaded
  after the chain-loader (`ImageRunner.c` 49), where `BmBoot.c` 1980-1983 explains
  that it should be unloaded.  The model keeps it as `"refused"`;
  `LoopHoldsNothing` excepts it.
* An addition takes a number for free when `BootOrder` and `BootNext` do not name
  it and stores over whatever `Boot####` variable exists under it, such as the
  temporary option of an earlier boot (`BmLoadOption.c` 401), although line 357
  says "this API only adds new load option, no replacement support".

## 6. Hazards

PROJECT.json lists the forty hazards of this code that matter most, each at its
line with the properties that would notice it going wrong; related ones share an
entry.  Leaving the menu on a modifier key (`天玑.c` 691) is not forbidden, since
neither code nor comments promise anything about it: only what is released on
that way is checked.

Left out of the list, without a property: the two returns that skip the
clean-up (449, 792), which `TianjiResources` models without judging them;
`BootCurrent` after a failed load (`BmBoot.c` 2002) and after nested boots (2106);
a boot option changed under its hot key (`BmHotkey.c` 920); strokes that stay
registered after their hot key was deleted (1145); and the comparison of merged
string literals (`天玑.c` 778), which depends on the build.

## 7. Plan

Done: every component of section 1 up to 1.11, with the abstract specifications
`MenuCarousel` and `PartitionHistory` and the composition `BootSession`.

Left, in the order of what it would add:

1. *Store and session.*  Let the entries of `BootSession` be options of
   `BootOptionStore`, so that the options listed at start-up meet a store that an
   image or an earlier boot has changed.  The product of the two state spaces
   needs smaller instances of both.
2. *More than one start of the hot key service*, for which `HotKeys` has the
   parameter (`MaxStarts`) but its run not the room.
3. *The attempt in a session.*  `BootSessionProofs` proves of the chain-loader that
   what holds of it alone holds in a session; of the attempt, which is an
   instance, only what the menu's quiet needs.
4. *USB short paths and the device enumeration* of `BmBoot.c`, now inputs.

## 8. Running

`tlc -config Attempt.cfg MCBootAttempt` and likewise for every run of
PROJECT.json; none takes more than a few minutes with two workers.
`tlapm BootAttemptProofs.tla` checks one module's proofs.
