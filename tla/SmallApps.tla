----------------------------- MODULE SmallApps ------------------------------
(***************************************************************************)
(* The five small programs beside the menu: 启动EFI程序 (start a program), *)
(* 截屏 (screen shot), 获取启动菜单 (list the boot options and boot one),  *)
(* 显示32位Bmp图片 (show a picture) and 设置分辨率 (set the screen mode).  *)
(*                                                                         *)
(* Each runs straight through, acquiring and releasing; any call may fail. *)
(* So a program is a sequence of steps, and what it does after a failure   *)
(* is another one, kept with the call.  A program that uses or releases    *)
(* what it does not hold is at the mercy of the firmware: there the model  *)
(* ends it.                                                                *)
(***************************************************************************)
EXTENDS Bitmaps, FiniteSets, SequencesExt

CONSTANTS
  MaxOptions,   \* bound on the number of boot options
  Sizes,        \* the widths and heights of pictures
  ScreenWidth, ScreenHeight,
  Pixels,       \* the pixels that pictures are made of
  Backdrops,    \* the pixels a screen may show at first, or fresh memory hold
  None

ASSUME AppsAssumption ==
  /\ MaxOptions \in Nat
  /\ Sizes \subseteq (Nat \ {0}) \X (Nat \ {0})
  /\ ScreenWidth \in Nat \ {0} /\ ScreenHeight \in Nat \ {0}
  /\ Pixels \subseteq Pixel /\ Backdrops \subseteq Pixel
  /\ None \notin {"root", "file", "info", "buffer", "image", "shot", "bmp",
                  "data", "front", "back", "mixed"}
  /\ None \notin {"text"} \X (1 .. MaxOptions)

VARIABLES
  program,  \* the program that runs
  options,  \* number of boot options it is given
  picture,  \* the file it shows: width w, height h and pixels bmp
  rest,     \* the steps it has yet to take
  held,     \* what it holds
  misused,  \* what it used or released without holding it
  failed,   \* the calls that failed
  front,    \* BltBuffer
  back,     \* 背景, what the screen shows where the picture will be
  mixed,    \* 混合结果
  screen,   \* the screen, by position <<x, y>>
  before    \* history: the screen at first

buffers == <<front, back, mixed>>
ledger == <<held, misused, failed>>
given == <<program, options, picture, before>>
appVars == <<given, rest, ledger, buffers, screen>>

Screen == (0 .. ScreenWidth - 1) \X (0 .. ScreenHeight - 1)

----------------------------------------------------------------------------
(* Steps. *)

Step(do, name, what, uses, orElse) ==
  [do |-> do, name |-> name, what |-> what, uses |-> uses, orElse |-> orElse]

(* A call whose status is tested: it yields what, or the program goes on   *)
(* with orElse.                                                            *)
Call(name, what, uses, orElse) == Step("call", name, what, uses, orElse)

(* A call whose status is not tested.                                      *)
Try(name, what, uses) == Step("try", name, what, uses, <<>>)

FreePool(what) == Step("free", "FreePool", what, {}, <<>>)
FreeAny(what) == Step("freeAny", "FreePool", what, {}, <<>>)
Close(what) == Step("free", "Close", what, {}, <<>>)
Unload(what) == Step("free", "UnloadImage", what, {}, <<>>)

----------------------------------------------------------------------------
(* Programs.  Definitions named X_Y are variants of X with a plausible     *)
(* mistake Y; no specification uses them.                                  *)

CloseFile_FreesToo == <<FreePool("buffer"), Close("file"), Close("root")>>

CloseFile == <<Close("file"), Close("root")>>
FreeBuffer == <<FreePool("buffer")>> \o CloseFile

(* 启动EFI程序.  A failed Open closes the directory here and in the caller; *)
(* an error of StartImage, whichever it is, is followed by UnloadImage.    *)
StartProgram ==
  <<Call("LoadedImage", None, {}, <<>>),
    Call("FileSystem", None, {}, <<>>),
    Call("OpenVolume", "root", {}, <<>>),
    Call("Open", "file", {"root"}, <<Close("root"), Close("root")>>),
    Try("AllocateInfo", "info", {}),
    Call("GetInfo", None, {"file", "info"}, CloseFile),
    FreePool("info"),
    Try("AllocateBuffer", "buffer", {}),
    Call("Read", None, {"file", "buffer"}, FreeBuffer),
    Call("LoadImage", "image", {"buffer"}, FreeBuffer),
    Step("start", "StartImage", "image", {"image"},
         <<Unload("image")>> \o FreeBuffer)>>
  \o FreeBuffer

FreeShot == <<FreePool("shot"), FreePool("bmp")>>

(* 截屏.                                                                   *)
ScreenShot ==
  <<Call("LocateGop", None, {}, <<>>),
    Call("Allocate", "shot", {}, <<>>),
    Call("Blt", None, {"shot"}, <<FreePool("shot")>>),
    Call("Translate", "bmp", {"shot"}, FreeShot),
    Call("LocateFileSystem", None, {}, FreeShot),
    Call("OpenVolume", "root", {}, <<Close("root")>> \o FreeShot),
    Call("Open", "file", {"root"}, CloseFile \o FreeShot),
    Try("Write", None, {"file", "bmp"})>>
  \o FreeShot \o CloseFile

(* What of says for each option, n steps, one option after the other.      *)
ForEach(n, of(_)) ==
  [k \in 1 .. options * n |-> of(1 + ((k - 1) \div n))[1 + ((k - 1) % n)]]

(* 获取启动菜单.  Descriptions belong to the list, which is freed with     *)
(* them in the end; of the options the fourth is booted, and for that its  *)
(* description is compared with the one of its variable (BmBoot.c 131).    *)
ListAndBoot ==
  LET show(i) == <<Try("Text", <<"text", i>>, {<<"option", i>>}),
                   FreeAny(<<"description", i>>), FreeAny(<<"text", i>>)>>
      drop(i) == <<FreePool(<<"description", i>>), FreePool(<<"option", i>>)>>
  IN  <<Step("list", "GetLoadOptions", None, {}, <<>>)>> \o ForEach(3, show)
      \o <<Try("Boot", None, {<<"option", 4>>, <<"description", 4>>})>>
      \o ForEach(2, drop)

ClosePicture_LeavesFile == <<FreePool("data"), Close("root")>>

ClosePicture == <<FreePool("data")>> \o CloseFile

(* 显示32位Bmp图片.                                                        *)
ShowPicture ==
  <<Call("LocateFileSystem", None, {}, <<>>),
    Call("OpenVolume", "root", {}, <<>>),
    Call("Open", "file", {"root"}, <<Close("root")>>),
    Try("AllocateInfo", "info", {}),
    Call("GetInfo", None, {"file", "info"}, CloseFile),
    FreePool("info"),
    Try("AllocateData", "data", {}),
    Call("Read", None, {"file", "data"}, ClosePicture),
    Call("Header", None, {"data"}, ClosePicture),
    Call("LocateGop", None, {}, ClosePicture),
    Try("AllocateFront", "front", {}),
    Step("convert", "Convert", None, {"data", "front"}, <<>>),
    Try("AllocateBack", "back", {}),
    Try("AllocateMixed", "mixed", {}),
    Step("grab", "Grab", None, {"back"}, <<>>),
    Step("blend", "Blend", None, {"front", "back", "mixed"}, <<>>),
    Step("show", "Show", None, {"mixed"}, <<>>),
    FreePool("front"), FreePool("back"), FreePool("mixed")>>
  \o ClosePicture

(* 设置分辨率.                                                             *)
SetMode ==
  <<Call("LocateGop", None, {}, <<>>), Call("SetMode", None, {}, <<>>)>>

Steps ==
  CASE program = "StartProgram" -> StartProgram
    [] program = "ScreenShot"   -> ScreenShot
    [] program = "ListAndBoot"  -> ListAndBoot
    [] program = "ShowPicture"  -> ShowPicture
    [] program = "SetMode"      -> SetMode

----------------------------------------------------------------------------
NoPicture == [w |-> 0, h |-> 0, bmp |-> <<>>]

AppInit ==
  /\ \/ /\ program = "ListAndBoot"
        /\ options \in 0 .. MaxOptions
        /\ picture = NoPicture
     \/ /\ program = "ShowPicture"
        /\ options = 0
        /\ \E size \in Sizes :
             \E bmp \in [0 .. size[1] * size[2] - 1 -> Pixels] :
               picture = [w |-> size[1], h |-> size[2], bmp |-> bmp]
     \/ /\ program \in {"StartProgram", "ScreenShot", "SetMode"}
        /\ options = 0
        /\ picture = NoPicture
  /\ \E light, dark \in Backdrops :
       before = [xy \in Screen |-> IF xy[1] + xy[2] = 1 THEN light ELSE dark]
  /\ screen = before
  /\ rest = Steps
  /\ held = {} /\ misused = {} /\ failed = {}
  /\ front = None /\ back = None /\ mixed = None

Now == Head(rest)

(* The next step is of this kind, and uses and releases only what is held. *)
Doing(do) ==
  /\ rest # <<>> /\ Now.do = do
  /\ Now.uses \subseteq held /\ do = "free" => Now.what \in held

Continue == rest' = Tail(rest)

Succeed ==
  /\ Doing("call") \/ Doing("try")
  /\ held' = held \union ({Now.what} \ {None})
  /\ Continue
  /\ UNCHANGED <<given, misused, failed, buffers, screen>>

(* LoadImage may refuse to start an image and still have loaded it.        *)
Fail ==
  /\ Doing("call") \/ Doing("try")
  /\ failed' = failed \union {Now.name}
  /\ rest' = IF Now.do = "call" THEN Now.orElse ELSE Tail(rest)
  /\ held' \in {held, held \union ({"image"} \intersect {Now.what})}
  /\ UNCHANGED <<given, misused, buffers, screen>>

(* Firmware unloads a program that has run, whatever it returned; one that *)
(* could not be started stays loaded.  The caller cannot tell the error of *)
(* the one from that of the other.                                         *)
StartImage ==
  /\ Doing("start")
  /\ \/ /\ Continue
        /\ held' = held \ {"image"}
        /\ UNCHANGED failed
     \/ /\ rest' = Now.orElse
        /\ held' \in {held, held \ {"image"}}
        /\ failed' = failed \union {Now.name}
  /\ UNCHANGED <<given, misused, buffers, screen>>

Release ==
  /\ Doing("free") \/ Doing("freeAny")
  /\ held' = held \ {Now.what}
  /\ Continue
  /\ UNCHANGED <<given, misused, failed, buffers, screen>>

(* The step uses or releases what is not held.                             *)
Misstep ==
  /\ rest # <<>> /\ ~Doing(Now.do)
  /\ misused' = (Now.uses \ held) \union
                ({Now.what : d \in {Now.do} \intersect {"free"}} \ held)
  /\ rest' = <<>> /\ held' = {}
  /\ UNCHANGED <<given, failed, buffers, screen>>

(* EfiBootManagerGetLoadOptions.                                           *)
List ==
  /\ Doing("list")
  /\ held' = held \union {<<kind, i>> : kind \in {"option", "description"},
                                        i \in 1 .. options}
  /\ Continue
  /\ UNCHANGED <<given, misused, failed, buffers, screen>>

----------------------------------------------------------------------------
(* The picture. *)

Width == picture.w
Height == picture.h
Block == 0 .. PixelCount(Width, Height) - 1

(* The loops run over width and height; what goes beyond the block         *)
(* overwrites the heap.                                                    *)
ConvertPicture ==
  /\ Doing("convert")
  /\ IF 0 .. Width * Height - 1 \subseteq Block
     THEN /\ front' = Convert(picture.bmp, Width, Height)
          /\ Continue
          /\ UNCHANGED <<held, misused>>
     ELSE /\ misused' = {"heap"}
          /\ rest' = <<>> /\ held' = {}
          /\ UNCHANGED front
  /\ UNCHANGED <<given, failed, back, mixed, screen>>

(* The picture goes one width to the right of the corner.  Blt refuses     *)
(* what does not lie on the screen, and may fail for reasons of its own.   *)
(* Its status is not looked at either time: after the first one has failed *)
(* the block it should have filled holds what the memory held.             *)
Fits == 2 * Width <= ScreenWidth /\ Height <= ScreenHeight
At(i) == <<Width + (i % Width), i \div Width>>

Grab ==
  /\ Doing("grab")
  /\ \/ /\ Fits
        /\ back' = [i \in Block |-> screen[At(i)]]
        /\ UNCHANGED failed
     \/ /\ back' \in [Block -> Backdrops]
        /\ failed' = failed \union {Now.name}
  /\ Continue
  /\ UNCHANGED <<given, held, misused, front, mixed, screen>>

BlendPicture ==
  /\ Doing("blend")
  /\ mixed' = [i \in Block |-> [c |-> Blend(front[i], back[i]), a |-> 0]]
  /\ Continue
  /\ UNCHANGED <<given, ledger, front, back, screen>>

Show ==
  /\ Doing("show")
  /\ \/ /\ Fits
        /\ screen' = [xy \in Screen |->
                        IF \E i \in Block : At(i) = xy
                        THEN mixed[CHOOSE i \in Block : At(i) = xy]
                        ELSE screen[xy]]
        /\ UNCHANGED failed
     \/ /\ failed' = failed \union {Now.name}
        /\ UNCHANGED screen
  /\ Continue
  /\ UNCHANGED <<given, held, misused, buffers>>

(* Nothing more to do.                                                     *)
Ended == rest = <<>>
Idle == Ended /\ UNCHANGED appVars

AppNext ==
  \/ Succeed \/ Fail \/ StartImage \/ Release \/ Misstep \/ List
  \/ ConvertPicture \/ Grab \/ BlendPicture \/ Show \/ Idle

AppSpec == AppInit /\ [][AppNext]_appVars
----------------------------------------------------------------------------
(* Properties. *)

(* A program that ends in order, whichever calls failed, has closed every  *)
(* file and directory, unloaded its image and freed every block, except    *)
(* the information block after GetInfo failed and a refused image.         *)
ReleasesAll ==
  Ended => held \subseteq (IF "GetInfo" \in failed THEN {"info"} ELSE {})
                  \union (IF "LoadImage" \in failed THEN {"image"} ELSE {})

(* Nothing is released twice or used after its release: what a program     *)
(* uses or releases without holding it is what a call that failed should   *)
(* have yielded.  The exceptions are StartProgram, which closes the        *)
(* directory twice when its file cannot be opened and unloads an image     *)
(* again that ran and returned an error; ListAndBoot, which boots a fourth *)
(* option that may not be there, compares its description although it is   *)
(* freed like all the others, and would free them again with the list; and *)
(* a picture whose pixels 32 bits cannot count.                            *)
MisusesOnlyUnyielded ==
  misused \subseteq
    {s.what : s \in {s \in ToSet(Steps) : /\ s.do \in {"call", "try"}
                                         /\ s.name \in failed}}
      \union (IF program = "StartProgram" /\ "Open" \in failed
              THEN {"root"} ELSE {})
      \union (IF program = "StartProgram" /\ "StartImage" \in failed
              THEN {"image"} ELSE {})
      \union (IF program = "ListAndBoot"
              THEN {<<"option", 4>>, <<"description", 4>>}
                     \union ({"description"} \X (1 .. options))
              ELSE {})
      \union (IF Width * Height >= Word THEN {"heap"} ELSE {})

(* c is what p shows in front of b, rounded down.                          *)
RoundsTo(c, p, b) ==
  LET exact == p.c * p.a + b * (Opaque - p.a)
  IN  c * Opaque <= exact /\ exact < (c + 1) * Opaque

(* The picture appears upright, each of its pixels in front of what was on *)
(* the screen there, and nothing else changes; or nothing changes at all,  *)
(* because a call other than the first Blt failed.  If only the first Blt  *)
(* fails, the status of which nobody looks at (121), the picture appears   *)
(* in front of anything: then its opaque pixels alone are sure.            *)
ShowsPicture ==
  LET column(xy) == xy[1] - Width
      stored(xy) == picture.bmp[(Height - 1 - xy[2]) * Width + column(xy)]
      behind(xy) == IF "Grab" \in failed THEN Byte ELSE {before[xy].c}
  IN  Ended /\ program = "ShowPicture" /\ misused = {} =>
        \/ screen = before /\ failed \ {"Grab"} # {}
        \/ \A xy \in Screen :
             IF column(xy) \in 0 .. Width - 1 /\ xy[2] < Height
             THEN \E b \in behind(xy) : RoundsTo(screen[xy].c, stored(xy), b)
             ELSE screen[xy] = before[xy]
=============================================================================
