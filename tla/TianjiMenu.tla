----------------------------- MODULE TianjiMenu -----------------------------
(***************************************************************************)
(* The visible menu of the TianJi boot application and its key loop        *)
(* (UefiMain of the application, from the icon layout to the last key).    *)
(*                                                                         *)
(* The program keeps two views of the user's choice that no code relates:  *)
(* the index of the chosen entry, and the pixel at which the pointer image *)
(* is drawn.  Each arrow key updates both, the index with an explicit wrap *)
(* and the pixel with an unsigned subtraction or addition that two         *)
(* comparisons then pull back.  The pointer is erased by painting back the *)
(* pixels saved before it was drawn.                                       *)
(*                                                                         *)
(* Pixels are abstracted to what the properties tell apart: the x position *)
(* of each icon, the set of x positions at which a pointer image stands,   *)
(* and whether the saved pixels contain a pointer.  Two distinct pointer   *)
(* positions do not overlap when the pointer is no wider than a step.      *)
(* Arithmetic on UINTN is arithmetic modulo WordModulus.                   *)
(***************************************************************************)
EXTENDS Integers

CONSTANTS
  WordModulus,   \* 2^64 in the program: UINTN wraps here
  Resolution,    \* Gop->Mode->Info->HorizontalResolution
  IconWidth,     \* width of the image that gives the icons their size
  PointerWidth,  \* width of the pointer image
  Counts,        \* numbers of recognised boot entries a start may find
  Names,         \* names the program gives to entries
  Apple,         \* the name whose entry is chain-loaded, not booted
  LoadableNames  \* names whose icon file can be read

ASSUME GeometryAssumption ==
  /\ WordModulus \in Nat \ {0}
  /\ Resolution \in Nat
  /\ IconWidth \in Nat
  /\ PointerWidth \in Nat
  /\ Counts \subseteq Nat

ASSUME NamesAssumption ==
  /\ Apple \in Names
  /\ LoadableNames \subseteq Names

VARIABLES
  count,        \* number of recognised entries
  entry,        \* the name of each entry, in order
  phase,        \* where UefiMain stands
  iconIndex,    \* the entry whose icon is next
  iconX,        \* the x at which the next icon goes
  iconAt,       \* for each entry the x of its icon, or NotShown
  leftX,        \* leftmost pointer position
  rightX,       \* rightmost pointer position
  cursorX,      \* x at which the program believes the pointer is
  sel,          \* index of the chosen entry
  shown,        \* the x positions at which the screen shows a pointer
  saved,        \* what the pixels saved for erasing show
  target        \* index handed to the boot code, NoEntry when none runs

layout == <<count, entry, iconIndex, iconX, iconAt, leftX, rightX>>
vars == <<count, entry, phase, iconIndex, iconX, iconAt, leftX, rightX,
          cursorX, sel, shown, saved, target>>

NoEntry == -1
NotShown == -1
Gap == 50

Word(v) == v % WordModulus

(* Distance between two neighbouring icons, and between two pointer stops. *)
Stride == IconWidth + Gap

TotalWidth(n) == Word(IconWidth * n + Gap * Word(n - 1))

StartX(n) == Word(Resolution - TotalWidth(n)) \div 2

LeftmostX(n) ==
  Word(Resolution - TotalWidth(n) + IconWidth - PointerWidth) \div 2

RightmostX_OneTooFar(n) == Word(LeftmostX(n) + Stride * n)

RightmostX(n) == Word(LeftmostX(n) + Stride * Word(n - 1))

(* Blt refuses a rectangle that leaves the screen and draws nothing.       *)
OnScreen(x, width) == x + width <= Resolution

----------------------------------------------------------------------------
(* Start-up of the menu.  Definitions named X_Y are variants of X with a   *)
(* plausible mistake Y; no specification uses them.                        *)

Init ==
  /\ count \in Counts
  /\ entry \in [0 .. count - 1 -> Names]
  /\ phase = "icons"
  /\ iconIndex = 0
  /\ iconX = StartX(count)
  /\ iconAt = [i \in 0 .. count - 1 |-> NotShown]
  /\ leftX = 0
  /\ rightX = 0
  /\ cursorX = 0
  /\ sel = 0
  /\ shown = {}
  /\ saved = "scene"
  /\ target = NoEntry

(* One turn of the icon loop: an icon that cannot be read is skipped by a  *)
(* continue that also skips the advance to the next icon position.         *)
DrawIcon ==
  /\ phase = "icons"
  /\ iconIndex < count
  /\ iconIndex' = iconIndex + 1
  /\ IF entry[iconIndex] \in LoadableNames
     THEN /\ iconAt' = IF OnScreen(iconX, IconWidth)
                       THEN [iconAt EXCEPT ![iconIndex] = iconX]
                       ELSE iconAt
          /\ iconX' = Word(iconX + Stride)
     ELSE UNCHANGED <<iconAt, iconX>>
  /\ UNCHANGED <<count, entry, phase, leftX, rightX, cursorX, sel, shown,
                 saved, target>>

Erased_Forgotten(screen, x) == screen

(* What erasing the pointer at x leaves on a screen: the saved pixels.     *)
Erased(screen, x) ==
  IF ~OnScreen(x, PointerWidth) THEN screen
  ELSE IF saved = "pointer" THEN screen \union {x} ELSE screen \ {x}

(* Save the pixels under the pointer's new place, blend and draw.          *)
DrawPointer(screen, x) ==
  IF OnScreen(x, PointerWidth)
  THEN /\ saved' = IF x \in screen THEN "pointer" ELSE "scene"
       /\ shown' = screen \union {x}
  ELSE /\ shown' = screen
       /\ UNCHANGED saved

PlacePointer_NotDrawn ==
  /\ phase = "icons"
  /\ iconIndex = count
  /\ leftX' = LeftmostX(count)
  /\ rightX' = RightmostX(count)
  /\ cursorX' = LeftmostX(count)
  /\ phase' = "wait"
  /\ UNCHANGED <<count, entry, iconIndex, iconX, iconAt, sel, shown, saved,
                 target>>

(* After the icons: the pointer's range, its first position and drawing.   *)
PlacePointer ==
  /\ phase = "icons"
  /\ iconIndex = count
  /\ leftX' = LeftmostX(count)
  /\ rightX' = RightmostX(count)
  /\ cursorX' = LeftmostX(count)
  /\ DrawPointer(shown, LeftmostX(count))
  /\ phase' = "wait"
  /\ UNCHANGED <<count, entry, iconIndex, iconX, iconAt, sel, target>>

(* The pointer's image cannot be read or converted: the program goes to    *)
(* its clean-up and ends without a menu.                                   *)
PointerUnreadable ==
  /\ phase = "icons"
  /\ iconIndex = count
  /\ phase' = "failed"
  /\ UNCHANGED <<layout, cursorX, sel, shown, saved, target>>

----------------------------------------------------------------------------
(* The key loop. *)

WaitForEvent ==
  /\ phase = "wait"
  /\ phase' = "read"
  /\ UNCHANGED <<layout, cursorX, sel, shown, saved, target>>

(* WaitForEvent fails, or ReadKeyStroke does (EFI_NOT_READY included, when *)
(* the key that signalled the event has no key stroke): break.             *)
LeaveLoop ==
  /\ phase \in {"wait", "read"}
  /\ phase' = "closed"
  /\ UNCHANGED <<layout, cursorX, sel, shown, saved, target>>

Clamp_LeftEndOnly(x) == IF x < leftX THEN rightX ELSE x

(* The two comparisons that pull the pointer back into its range; they run *)
(* after every key.                                                        *)
Clamp(x) ==
  LET raised == IF x < leftX THEN rightX ELSE x
  IN  IF raised > rightX THEN leftX ELSE raised

PreviousIndex_NoWrap(i) == i - 1

PreviousIndex(i) == IF i = 0 THEN Word(count - 1) ELSE i - 1

NextIndex_WrapsLate(i) == IF i = Word(count) THEN 0 ELSE i + 1

NextIndex(i) == IF i = Word(count - 1) THEN 0 ELSE i + 1

MovePointer(x) ==
  /\ phase = "read"
  /\ cursorX' = Clamp(x)
  /\ DrawPointer(Erased(shown, cursorX), Clamp(x))
  /\ phase' = "wait"
  /\ UNCHANGED <<layout, target>>

KeyLeft ==
  /\ MovePointer(Word(cursorX - Stride))
  /\ sel' = PreviousIndex(sel)

KeyRight ==
  /\ MovePointer(Word(cursorX + Stride))
  /\ sel' = NextIndex(sel)

(* Any key that is neither an arrow nor Enter.                             *)
KeyOther ==
  /\ phase = "read"
  /\ cursorX' = Clamp(cursorX)
  /\ phase' = "wait"
  /\ UNCHANGED <<layout, sel, shown, saved, target>>

(* Enter: the entry at the chosen index is booted, or chain-loaded when it *)
(* is the Apple one.  Reading beyond the filled entries yields whatever    *)
(* the pool block held, so either branch may be taken.                     *)
KeyEnter ==
  /\ phase = "read"
  /\ cursorX' = Clamp(cursorX)
  /\ target' = sel
  /\ phase' \in IF sel \notin DOMAIN entry THEN {"booting", "chainloading"}
                ELSE IF entry[sel] = Apple THEN {"chainloading"}
                ELSE {"booting"}
  /\ UNCHANGED <<layout, sel, shown, saved>>

(* EfiBootManagerBoot or the chain-loader came back.  The image may have   *)
(* painted over any part of the screen; the menu redraws nothing.          *)
ImageReturns ==
  /\ phase \in {"booting", "chainloading"}
  /\ shown' \in SUBSET shown
  /\ target' = NoEntry
  /\ phase' = "wait"
  /\ UNCHANGED <<layout, cursorX, sel, saved>>

(* The chain-loader's own image or file system is not found: the           *)
(* application returns from inside the loop.                               *)
ChainLoadNotFound ==
  /\ phase = "chainloading"
  /\ phase' = "closed"
  /\ UNCHANGED <<layout, cursorX, sel, shown, saved, target>>

Next ==
  \/ DrawIcon \/ PlacePointer \/ PointerUnreadable
  \/ WaitForEvent \/ LeaveLoop
  \/ KeyLeft \/ KeyRight \/ KeyOther \/ KeyEnter
  \/ ImageReturns \/ ChainLoadNotFound

Spec == Init /\ [][Next]_vars

(* The steps before the key loop wait for nobody.                          *)
FairSpec == Spec /\ WF_vars(DrawIcon \/ PlacePointer \/ PointerUnreadable)

----------------------------------------------------------------------------
(* Properties.                                                             *)

TypeOK ==
  /\ count \in Counts
  /\ entry \in [0 .. count - 1 -> Names]
  /\ phase \in {"icons", "wait", "read", "booting", "chainloading", "closed",
                "failed"}
  /\ iconIndex \in 0 .. count
  /\ iconX \in Nat
  /\ iconAt \in [0 .. count - 1 -> Nat \union {NotShown}]
  /\ leftX \in Nat
  /\ rightX \in Nat
  /\ cursorX \in Nat
  /\ sel \in Nat
  /\ shown \subseteq Nat
  /\ saved \in {"scene", "pointer"}
  /\ target \in Nat \union {NoEntry}

InMenu == phase \notin {"icons", "failed"}

(* The pixel and the index agree: once the menu is on the screen, the      *)
(* pointer is exactly as many strides from its leftmost position as the    *)
(* chosen index says, although the two are wrapped by unrelated code.      *)
CursorOnSelection ==
  InMenu => /\ sel \in 0 .. count - 1
            /\ cursorX = leftX + sel * Stride

(* Erase-and-redraw leaves no trace: the screen never shows a pointer at   *)
(* another place than the current one, and the pixels saved for erasing    *)
(* never contain a pointer, even if images the menu started painted over   *)
(* any part of the screen meanwhile.                                       *)
OnePointer ==
  /\ shown \subseteq IF InMenu THEN {cursorX} ELSE {}
  /\ saved = "scene"

(* A screen on which the program's layout arithmetic never wraps: the row  *)
(* of icons fits, and left of the first pointer stop there is room for one *)
(* more stride.  The second conjunct from below is the one real screens    *)
(* break: four icons of 156 pixels need a resolution of 1080.              *)
LayoutFits(n) ==
  LET slack == Resolution - (IconWidth * n + Gap * (n - 1))
  IN  /\ n >= 1
      /\ 1 <= PointerWidth /\ PointerWidth <= IconWidth
      /\ slack >= 0
      /\ slack + IconWidth - PointerWidth >= 2 * Stride
      /\ Resolution + Stride < WordModulus

(* Enter hands the boot code one of the collected entries, never a record  *)
(* of the pool block that the classification did not fill.                 *)
RunsACollectedEntry ==
  target # NoEntry => target \in DOMAIN entry

(* The entries whose icon stands over the pointer.                         *)
UnderPointer ==
  {i \in 0 .. count - 1 : /\ iconAt[i] # NotShown
                          /\ iconAt[i] <= cursorX
                          /\ cursorX < iconAt[i] + IconWidth}

(* Enter executes the selected entry: what is handed to the boot code is   *)
(* the entry whose icon the pointer stands under.                          *)
RunsWhatIsShown ==
  target # NoEntry => target \in UnderPointer

(* The entry the user sees as selected.                                    *)
HighlightedEntry ==
  IF ~InMenu \/ UnderPointer = {} THEN NoEntry
  ELSE CHOOSE i \in UnderPointer : TRUE

(* What the carousel calls the phase of the program.                       *)
CarouselMode ==
  CASE phase = "icons" -> "opening"
    [] phase \in {"wait", "read"} -> "choosing"
    [] phase \in {"booting", "chainloading"} -> "running"
    [] OTHER -> "closed"

Carousel == INSTANCE MenuCarousel WITH
  n <- count, highlighted <- HighlightedEntry, mode <- CarouselMode

(* What the user sees and what the program boots form one carousel: the    *)
(* icon over the pointer moves round the ring of entries one at a time,    *)
(* and Enter runs that entry.                                              *)
ImplementsCarousel == Carousel!Spec

(* Whatever icons fail to load, the program reaches the first wait for a   *)
(* key, and then the pointer is drawn at its first stop, and nowhere else, *)
(* if that stop lies on the screen.  The one way out before is a pointer   *)
(* image that cannot be read (634).                                        *)
MenuAppears ==
  <>(\/ phase = "failed"
     \/ /\ phase = "wait"
        /\ cursorX = leftX
        /\ shown = IF OnScreen(leftX, PointerWidth) THEN {leftX} ELSE {})
=============================================================================
