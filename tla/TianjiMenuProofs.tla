-------------------------- MODULE TianjiMenuProofs --------------------------
(***************************************************************************)
(* Proofs about the menu of TianjiMenu, for every screen width, icon and   *)
(* pointer width, set of entry names and number of entries that satisfy    *)
(* the two hypotheses below.                                               *)
(***************************************************************************)
EXTENDS TianjiMenu, TLAPS

(* The hypotheses of the theorems: the layout arithmetic does not wrap for *)
(* any number of entries, and every icon file can be read.                 *)
Fits == \A n \in Counts : LayoutFits(n)
AllIconsLoad == LoadableNames = Names

----------------------------------------------------------------------------
(* Lemmas on the arithmetic of the layout. *)

(* UINTN arithmetic is exact on values below the modulus.                  *)
LEMMA WordExact == \A v \in 0 .. WordModulus - 1 : Word(v) = v
  BY GeometryAssumption DEF Word

(* A larger index is more strides away.                                    *)
LEMMA StrideMonotone ==
  \A i, j \in Nat : i <= j => i * Stride <= j * Stride
  BY GeometryAssumption DEF Stride, Gap

LEMMA StrideStep ==
  /\ Stride \in Nat /\ Stride > IconWidth
  /\ \A i \in Int : /\ i * Stride \in Int
                    /\ (i + 1) * Stride = i * Stride + Stride
                    /\ (i - 1) * Stride = i * Stride - Stride
  BY GeometryAssumption DEF Stride, Gap

(* Where the layout puts the icons and the pointer when it fits.           *)
LEMMA Geometry ==
  ASSUME NEW n \in Counts, LayoutFits(n)
  PROVE  /\ n \in Nat /\ n >= 1
         /\ StartX(n) \in Nat
         /\ LeftmostX(n) \in Nat
         /\ StartX(n) <= LeftmostX(n)
         /\ LeftmostX(n) < StartX(n) + IconWidth
         /\ LeftmostX(n) >= Stride
         /\ RightmostX(n) = LeftmostX(n) + (n - 1) * Stride
         /\ RightmostX(n) + Stride < WordModulus
         /\ RightmostX(n) + PointerWidth <= Resolution
         /\ StartX(n) + (n - 1) * Stride + IconWidth <= Resolution
         /\ Resolution + Stride < WordModulus
<1> DEFINE row == IconWidth * n + Gap * (n - 1)
           slack == Resolution - row
           span == (n - 1) * Stride
<1>1. n \in Nat /\ n >= 1
  BY GeometryAssumption DEF LayoutFits
<1>2. /\ row \in Nat
      /\ span \in Nat
      /\ row = span + IconWidth
  BY <1>1, GeometryAssumption DEF Stride, Gap
<1>3. /\ slack \in Nat
      /\ PointerWidth \in 1 .. IconWidth
      /\ slack + IconWidth - PointerWidth >= 2 * Stride
      /\ Resolution + Stride < WordModulus
  <2>. HIDE DEF row
  <2>. QED  BY <1>1, <1>2, GeometryAssumption DEF LayoutFits, row
<1>4. Stride \in Nat /\ Stride > IconWidth
  BY StrideStep
<1>5. TotalWidth(n) = row
  <2>1. n - 1 \in 0 .. WordModulus - 1
    <3>1. n - 1 <= span
      BY <1>1, <1>4, GeometryAssumption DEF Stride, Gap
    <3>. HIDE DEF row, span
    <3>. QED  BY <1>1, <1>2, <1>3, <1>4, <3>1, GeometryAssumption DEF slack
  <2>2. row \in 0 .. WordModulus - 1
    <3>. HIDE DEF row, span
    <3>. QED  BY <1>2, <1>3, <1>4, GeometryAssumption DEF slack
  <2>. QED  BY <2>1, <2>2, WordExact DEF TotalWidth
<1>6. StartX(n) = slack \div 2 /\ slack \div 2 \in Nat
  <2>. HIDE DEF row
  <2>1. Word(slack) = slack
    BY <1>2, <1>3, <1>4, WordExact, GeometryAssumption
  <2>. QED  BY <1>3, <1>5, <2>1 DEF StartX
<1>7. LeftmostX(n) = (slack + IconWidth - PointerWidth) \div 2
  <2>. HIDE DEF row
  <2>1. slack + IconWidth - PointerWidth \in 0 .. WordModulus - 1
    BY <1>2, <1>3, <1>4, GeometryAssumption
  <2>. QED  BY <1>5, <2>1, WordExact DEF LeftmostX
<1>8. /\ LeftmostX(n) \in Nat
      /\ StartX(n) <= LeftmostX(n)
      /\ LeftmostX(n) < StartX(n) + IconWidth
      /\ LeftmostX(n) >= Stride
      /\ LeftmostX(n) + span + PointerWidth <= Resolution
      /\ StartX(n) + span + IconWidth <= Resolution
  <2>. HIDE DEF row, span
  <2>. QED  BY <1>2, <1>3, <1>4, <1>6, <1>7, GeometryAssumption DEF slack
<1>9. RightmostX(n) = LeftmostX(n) + span
  <2>1. n - 1 <= span /\ Stride * (n - 1) = span
    BY <1>1, <1>4, GeometryAssumption DEF Stride, Gap
  <2>2. n - 1 \in 0 .. WordModulus - 1
    <3>. HIDE DEF row, span
    <3>. QED  BY <1>1, <1>2, <1>3, <1>4, <2>1, GeometryAssumption DEF slack
  <2>3. LeftmostX(n) + span \in 0 .. WordModulus - 1
    <3>. HIDE DEF row, span
    <3>. QED  BY <1>2, <1>3, <1>4, <1>8, GeometryAssumption
  <2>. HIDE DEF row, span
  <2>. QED  BY <2>1, <2>2, <2>3, WordExact DEF RightmostX
<1>. QED
  <2>. HIDE DEF span
  <2>1. RightmostX(n) + Stride < WordModulus
    BY <1>2, <1>3, <1>4, <1>8, <1>9, GeometryAssumption
  <2>. QED  BY <1>1, <1>2, <1>3, <1>4, <1>6, <1>8, <1>9, <2>1 DEF span
----------------------------------------------------------------------------
(* Type correctness: needs no hypothesis on the layout. *)

(* The words of the layout are natural numbers, wrapped or not.            *)
LEMMA WordsAreNat ==
  /\ \A v \in Int : Word(v) \in Nat
  /\ \A n \in Counts : /\ n \in Nat
                        /\ StartX(n) \in Nat
                        /\ LeftmostX(n) \in Nat
                        /\ RightmostX(n) \in Nat
<1>1. ASSUME NEW v \in Int  PROVE Word(v) \in Nat /\ Word(v) \div 2 \in Nat
  BY GeometryAssumption DEF Word
<1>2. ASSUME NEW n \in Counts
      PROVE  /\ n \in Nat
             /\ StartX(n) \in Nat
             /\ LeftmostX(n) \in Nat
             /\ RightmostX(n) \in Nat
  <2>1. n \in Nat /\ Word(n - 1) \in Nat /\ Stride \in Nat
    BY <1>1, GeometryAssumption, StrideStep
  <2>2. IconWidth * n + Gap * Word(n - 1) \in Int
    BY <2>1, GeometryAssumption DEF Gap
  <2>3. TotalWidth(n) \in Nat
    BY <2>2, <1>1 DEF TotalWidth
  <2>4. StartX(n) \in Nat
    BY <2>3, <1>1, GeometryAssumption DEF StartX
  <2>5. LeftmostX(n) \in Nat
    BY <2>3, <1>1, GeometryAssumption DEF LeftmostX
  <2>6. LeftmostX(n) + Stride * Word(n - 1) \in Int
    BY <2>1, <2>5
  <2>7. RightmostX(n) \in Nat
    BY <2>6, <1>1 DEF RightmostX
  <2>. QED  BY <2>1, <2>4, <2>5, <2>7
<1>. QED  BY <1>1, <1>2

(* The variables of the menu keep their types on every screen, the ones on *)
(* which the layout wraps included.                                        *)
THEOREM TypeCorrect == Spec => []TypeOK
<1>1. Init => TypeOK
  <2>. SUFFICES ASSUME Init PROVE TypeOK
    OBVIOUS
  <2>1. count \in Counts /\ count \in Nat /\ StartX(count) \in Nat
    BY WordsAreNat DEF Init
  <2>2. 0 \in 0 .. count
    BY <2>1
  <2>. QED  BY <2>1, <2>2 DEF Init, TypeOK, NotShown, NoEntry
<1>2. TypeOK /\ [Next]_vars => TypeOK'
  <2>. SUFFICES ASSUME TypeOK, [Next]_vars PROVE TypeOK'
    OBVIOUS
  <2>. USE DEF TypeOK
  <2>1. /\ count \in Nat /\ Stride \in Nat
        /\ Word(count - 1) \in Nat
        /\ Word(cursorX - Stride) \in Nat
        /\ Word(cursorX + Stride) \in Nat
        /\ Word(iconX + Stride) \in Nat
    <3>1. count \in Nat /\ Stride \in Nat
      BY WordsAreNat, StrideStep
    <3>2. /\ count - 1 \in Int
          /\ cursorX - Stride \in Int
          /\ cursorX + Stride \in Int
          /\ iconX + Stride \in Int
      BY <3>1
    <3>. QED  BY <3>1, <3>2, WordsAreNat
  <2>2. \A x \in Nat : Clamp(x) \in Nat
    BY DEF Clamp
  <2>3. ASSUME NEW x \in Nat, NEW screen \in SUBSET Nat,
               DrawPointer(screen, x)
        PROVE  shown' \subseteq Nat /\ saved' \in {"scene", "pointer"}
    BY <2>3 DEF DrawPointer
  <2>4. \A x \in Nat : Erased(shown, x) \in SUBSET Nat
    BY DEF Erased
  <2>5. CASE DrawIcon
    BY <2>5, <2>1 DEF DrawIcon
  <2>6. CASE PlacePointer
    BY <2>6, <2>3, WordsAreNat DEF PlacePointer
  <2>17. CASE PointerUnreadable
    BY <2>17 DEF PointerUnreadable, layout
  <2>7. CASE WaitForEvent
    BY <2>7 DEF WaitForEvent, layout
  <2>8. CASE LeaveLoop
    BY <2>8 DEF LeaveLoop, layout
  <2>9. ASSUME NEW x \in Nat, MovePointer(x), sel' \in Nat  PROVE TypeOK'
    BY <2>9, <2>2, <2>3, <2>4 DEF MovePointer, layout
  <2>10. CASE KeyLeft
    BY <2>10, <2>1, <2>9 DEF KeyLeft, PreviousIndex
  <2>11. CASE KeyRight
    BY <2>11, <2>1, <2>9 DEF KeyRight, NextIndex
  <2>12. CASE KeyOther
    BY <2>12, <2>2 DEF KeyOther, layout
  <2>13. CASE KeyEnter
    BY <2>13, <2>2 DEF KeyEnter, layout
  <2>14. CASE ImageReturns
    BY <2>14 DEF ImageReturns, layout, NoEntry
  <2>15. CASE ChainLoadNotFound
    BY <2>15 DEF ChainLoadNotFound, layout
  <2>16. CASE UNCHANGED vars
    BY <2>16 DEF vars
  <2>. QED
    BY <2>5, <2>6, <2>7, <2>8, <2>10, <2>11, <2>12, <2>13, <2>14, <2>15,
       <2>16, <2>17 DEF Next
<1>. QED  BY <1>1, <1>2, PTL DEF Spec

----------------------------------------------------------------------------
(* What holds on every screen, whether or not the icons fit or load. *)

(* The pointer is where the two comparisons leave it, and only a pointer   *)
(* that is on the screen was drawn.                                        *)
PointerHolds ==
  /\ OnePointer
  /\ \A x \in shown : OnScreen(x, PointerWidth)
  /\ InMenu => Clamp(cursorX) = cursorX

(* The two comparisons have nothing to do a second time, even where the    *)
(* layout wrapped and the rightmost stop is left of the leftmost one.      *)
LEMMA ClampTwice ==
  ASSUME NEW x \in Nat, leftX \in Nat, rightX \in Nat
  PROVE  Clamp(x) \in Nat /\ Clamp(Clamp(x)) = Clamp(x)
BY DEF Clamp

(* Erasing the current pointer leaves none, and one is drawn at x.         *)
LEMMA Redrawn ==
  ASSUME PointerHolds, InMenu, NEW x \in Nat, NEW screen,
         screen = Erased(shown, cursorX), DrawPointer(screen, x)
  PROVE  /\ shown' \subseteq {x} /\ saved' = "scene"
         /\ \A y \in shown' : OnScreen(y, PointerWidth)
<1>1. screen = {}
  BY DEF Erased, PointerHolds, OnePointer
<1>. QED  BY <1>1 DEF DrawPointer, PointerHolds, OnePointer

(* Every step of the menu keeps the pointer the only one.                  *)
LEMMA NextPointerHolds ==
  ASSUME TypeOK, PointerHolds, [Next]_vars
  PROVE  PointerHolds'
<1>1. ASSUME UNCHANGED <<leftX, rightX, cursorX, saved>>, InMenu, InMenu',
             shown' \subseteq shown
      PROVE  PointerHolds'
  BY <1>1 DEF PointerHolds, OnePointer, OnScreen, Clamp
<1>2. ASSUME NEW x \in Nat, MovePointer(x) PROVE PointerHolds'
  <2>1. /\ InMenu /\ InMenu' /\ cursorX' = Clamp(x)
        /\ leftX' = leftX /\ rightX' = rightX
        /\ DrawPointer(Erased(shown, cursorX), Clamp(x))
    BY <1>2 DEF MovePointer, InMenu, layout
  <2>2. Clamp(x) \in Nat /\ Clamp(Clamp(x)) = Clamp(x)
    BY ClampTwice DEF TypeOK
  <2>3. /\ shown' \subseteq {Clamp(x)} /\ saved' = "scene"
        /\ \A y \in shown' : OnScreen(y, PointerWidth)
    BY <2>1, <2>2, Redrawn
  <2>4. Clamp(cursorX)' = cursorX'
    BY <2>1, <2>2 DEF Clamp
  <2>. QED  BY <2>1, <2>3, <2>4 DEF PointerHolds, OnePointer, OnScreen
<1>3. CASE DrawIcon
  BY <1>3 DEF DrawIcon, PointerHolds, OnePointer, InMenu, OnScreen
<1>4. CASE PlacePointer
  <2>1. /\ ~InMenu /\ InMenu' /\ cursorX' = leftX'
        /\ DrawPointer(shown, cursorX')
    BY <1>4 DEF PlacePointer, InMenu
  <2>2. shown = {} /\ saved = "scene"
    BY <2>1 DEF PointerHolds, OnePointer
  <2>3. /\ shown' \subseteq {cursorX'} /\ saved' = "scene"
        /\ \A y \in shown' : OnScreen(y, PointerWidth)
    BY <2>1, <2>2 DEF DrawPointer
  <2>4. leftX' \in Nat /\ rightX' \in Nat
    BY <1>4, WordsAreNat DEF PlacePointer, TypeOK
  <2>5. Clamp(cursorX)' = cursorX'
    BY <2>1, <2>4 DEF Clamp
  <2>. QED  BY <2>1, <2>3, <2>5 DEF PointerHolds, OnePointer, OnScreen
<1>9. CASE PointerUnreadable
  BY <1>9 DEF PointerUnreadable, PointerHolds, OnePointer, InMenu, OnScreen
<1>5. CASE KeyLeft \/ KeyRight
  <2>0. cursorX - Stride \in Int /\ cursorX + Stride \in Int
    BY StrideStep DEF TypeOK
  <2>1. Word(cursorX - Stride) \in Nat /\ Word(cursorX + Stride) \in Nat
    BY <2>0, WordsAreNat
  <2>. QED  BY <1>2, <1>5, <2>1 DEF KeyLeft, KeyRight
<1>6. CASE KeyOther \/ KeyEnter
  <2>1. InMenu /\ InMenu' /\ cursorX' = Clamp(cursorX)
        /\ UNCHANGED <<leftX, rightX, shown, saved>>
    BY <1>6 DEF KeyOther, KeyEnter, InMenu, layout
  <2>. QED  BY <1>1, <2>1 DEF PointerHolds
<1>7. CASE WaitForEvent \/ LeaveLoop \/ ImageReturns \/ ChainLoadNotFound
  BY <1>1, <1>7 DEF WaitForEvent, LeaveLoop, ImageReturns,
                    ChainLoadNotFound, InMenu, layout
<1>8. CASE UNCHANGED vars
  BY <1>8 DEF vars, PointerHolds, OnePointer, InMenu, Clamp, OnScreen
<1>. QED
  BY <1>3, <1>4, <1>5, <1>6, <1>7, <1>8, <1>9 DEF Next

(* The screen never shows a pointer but the current one, however wide it   *)
(* is and whichever icons load: where the arithmetic wraps the pointer may *)
(* be at the wrong place or outside the screen, but it is erased there.    *)
THEOREM NoPointerLeftBehind == Spec => []OnePointer
<1>1. Init => PointerHolds
  BY DEF Init, PointerHolds, OnePointer, InMenu
<1>2. TypeOK /\ PointerHolds /\ [Next]_vars => PointerHolds'
  BY NextPointerHolds
<1>3. PointerHolds => OnePointer
  BY DEF PointerHolds
<1>. QED  BY <1>1, <1>2, <1>3, TypeCorrect, PTL DEF Spec

(* There is an entry, and a word can count them: what the indices need.    *)
EntriesCounted == \A n \in Counts : n \in 1 .. WordModulus

(* The index is that of an entry, and so is the one that was booted.       *)
ChosenHolds ==
  /\ sel \in 0 .. count - 1
  /\ target \in 0 .. count - 1 \union {NoEntry}

(* The wrapped index is that of an entry again.                            *)
LEMMA IndexWraps ==
  ASSUME TypeOK, EntriesCounted, NEW i \in 0 .. count - 1
  PROVE  PreviousIndex(i) \in 0 .. count - 1 /\ NextIndex(i) \in 0 .. count - 1
<1>1. count \in 1 .. WordModulus /\ count \in Nat /\ WordModulus \in Nat
  BY GeometryAssumption DEF TypeOK, EntriesCounted
<1>2. Word(count - 1) = count - 1
  <2>1. count - 1 \in 0 .. WordModulus - 1
    BY <1>1
  <2>. QED  BY <2>1, WordExact
<1>. QED  BY <1>1, <1>2 DEF PreviousIndex, NextIndex

(* Enter boots one of the collected entries, for every number of them, on  *)
(* screens where the pointer wraps and with icons missing.                 *)
THEOREM EnterRunsAnEntry ==
  ASSUME EntriesCounted
  PROVE  Spec => []RunsACollectedEntry
<1>1. Init => ChosenHolds
  <2>. SUFFICES ASSUME Init PROVE ChosenHolds
    OBVIOUS
  <2>1. count \in 1 .. WordModulus /\ count \in Nat
    BY GeometryAssumption DEF Init, EntriesCounted
  <2>. QED  BY <2>1 DEF Init, ChosenHolds
<1>2. TypeOK /\ ChosenHolds /\ [Next]_vars => ChosenHolds'
  <2>. SUFFICES ASSUME TypeOK, ChosenHolds, [Next]_vars PROVE ChosenHolds'
    OBVIOUS
  <2>1. ASSUME UNCHANGED <<count, sel>>, target' \in {target, sel, NoEntry}
        PROVE  ChosenHolds'
    BY <2>1 DEF ChosenHolds
  <2>2. CASE DrawIcon \/ PlacePointer \/ PointerUnreadable
    BY <2>1, <2>2 DEF DrawIcon, PlacePointer, PointerUnreadable, layout
  <2>3. CASE WaitForEvent \/ LeaveLoop \/ KeyOther \/ KeyEnter
             \/ ImageReturns \/ ChainLoadNotFound
    BY <2>1, <2>3 DEF WaitForEvent, LeaveLoop, KeyOther, KeyEnter,
                      ImageReturns, ChainLoadNotFound, layout
  <2>4. CASE KeyLeft \/ KeyRight
    <3>1. /\ count' = count /\ target' = target
          /\ sel' \in {PreviousIndex(sel), NextIndex(sel)}
      BY <2>4 DEF KeyLeft, KeyRight, MovePointer, layout
    <3>. QED  BY <3>1, IndexWraps DEF ChosenHolds
  <2>5. CASE UNCHANGED vars
    BY <2>1, <2>5 DEF vars
  <2>. QED  BY <2>2, <2>3, <2>4, <2>5 DEF Next
<1>3. TypeOK /\ ChosenHolds => RunsACollectedEntry
  BY DEF TypeOK, ChosenHolds, RunsACollectedEntry
<1>. QED  BY <1>1, <1>2, <1>3, TypeCorrect, PTL DEF Spec
----------------------------------------------------------------------------
(* The inductive invariant. *)

(* Where icon i of the menu is drawn.                                      *)
IconX(i) == StartX(count) + i * Stride

IInv ==
  /\ TypeOK
  /\ \A i \in 0 .. count - 1 :
       iconAt[i] = IF i < iconIndex THEN IconX(i) ELSE NotShown
  /\ phase = "icons" => /\ iconX = IconX(iconIndex)
                        /\ sel = 0
                        /\ target = NoEntry
  /\ InMenu => /\ iconIndex = count
               /\ leftX = LeftmostX(count)
               /\ rightX = RightmostX(count)
  /\ CursorOnSelection
  /\ OnePointer
  /\ phase \in {"wait", "read", "failed"} => target = NoEntry
  /\ phase \in {"booting", "chainloading"} => target = sel
  /\ target # NoEntry => target = sel

(* The pointer positions of a menu that fits: they stay on the screen and  *)
(* below the modulus, and the first and last are the two ends.             *)
LEMMA PointerStops ==
  ASSUME IInv, InMenu, Fits, NEW i \in 0 .. count - 1
  PROVE  /\ leftX + i * Stride \in Nat
         /\ leftX <= leftX + i * Stride
         /\ leftX + i * Stride <= rightX
         /\ OnScreen(leftX + i * Stride, PointerWidth)
<1>1. /\ count \in Counts /\ count \in Nat
      /\ leftX \in Nat /\ rightX = leftX + (count - 1) * Stride
      /\ rightX + PointerWidth <= Resolution
  BY Geometry, GeometryAssumption DEF IInv, TypeOK, Fits
<1>2. i * Stride \in Nat /\ i * Stride <= (count - 1) * Stride
      /\ (count - 1) * Stride \in Nat
  <2>1. i \in Nat /\ count - 1 \in Nat /\ i <= count - 1
    BY <1>1
  <2>2. i * Stride \in Nat /\ (count - 1) * Stride \in Nat
    BY <2>1, StrideStep
  <2>. QED  BY <2>1, <2>2, StrideMonotone
<1>. HIDE DEF IInv
<1>. QED  BY <1>1, <1>2, GeometryAssumption DEF OnScreen

(* One move of the pointer from a state of the invariant: whichever stop   *)
(* it moves to, the old pointer is erased, the new one drawn, and the      *)
(* saved pixels hold none.                                                 *)
LEMMA MoveKeepsInvariant ==
  ASSUME IInv, Fits, NEW x, MovePointer(x), NEW j \in 0 .. count - 1,
         sel' = j, Clamp(x) = leftX + j * Stride
  PROVE  IInv'
<1>1. InMenu /\ phase = "read" /\ phase' = "wait" /\ InMenu'
  BY DEF MovePointer, InMenu
<1>2. /\ OnScreen(cursorX, PointerWidth)
      /\ OnScreen(Clamp(x), PointerWidth)
      /\ Clamp(x) \in Nat
  BY <1>1, PointerStops DEF IInv, CursorOnSelection
<1>3. Erased(shown, cursorX) = {}
  BY <1>1, <1>2 DEF Erased, IInv, OnePointer
<1>4. /\ shown' = {Clamp(x)}
      /\ saved' = "scene"
      /\ cursorX' = Clamp(x)
      /\ UNCHANGED <<layout, target>>
  BY <1>2, <1>3 DEF MovePointer, DrawPointer
<1>5. TypeOK'
  BY <1>1, <1>2, <1>4 DEF IInv, TypeOK, layout
<1>6. CursorOnSelection' /\ OnePointer'
  BY <1>1, <1>4 DEF CursorOnSelection, OnePointer, layout
<1>. QED
  BY <1>1, <1>4, <1>5, <1>6 DEF IInv, IconX, layout

(* Both arrow keys take the pointer to the stop of the new index: inside   *)
(* the range by one stride, at its ends by the wrap of Clamp.              *)
LEMMA KeyLeftTarget ==
  ASSUME IInv, Fits, KeyLeft
  PROVE  /\ PreviousIndex(sel) \in 0 .. count - 1
         /\ Clamp(Word(cursorX - Stride)) = leftX + PreviousIndex(sel) * Stride
<1>1. InMenu /\ sel \in 0 .. count - 1 /\ cursorX = leftX + sel * Stride
  BY DEF KeyLeft, MovePointer, IInv, InMenu, CursorOnSelection
<1>2. /\ count \in Nat /\ count >= 1
      /\ leftX \in Nat /\ leftX >= Stride
      /\ rightX = leftX + (count - 1) * Stride
      /\ rightX + Stride < WordModulus
      /\ Stride \in Nat /\ Stride > 0
  BY <1>1, Geometry, StrideStep, GeometryAssumption
     DEF IInv, TypeOK, Fits
<1>3. cursorX \in Nat /\ leftX <= cursorX /\ cursorX <= rightX
  BY <1>1, PointerStops
<1>4. Word(cursorX - Stride) = cursorX - Stride
  BY <1>2, <1>3, WordExact, GeometryAssumption
<1>5. CASE sel = 0
  <2>1. PreviousIndex(sel) = count - 1
    <3>1. (count - 1) * 1 <= (count - 1) * Stride
      BY <1>2
    <3>2. count - 1 \in 0 .. WordModulus - 1
      BY <1>2, <3>1, GeometryAssumption
    <3>. QED  BY <1>5, <3>2, WordExact DEF PreviousIndex
  <2>2. cursorX - Stride < leftX
    BY <1>1, <1>2, <1>5
  <2>3. Clamp(cursorX - Stride) = rightX
    BY <1>2, <1>3, <2>2 DEF Clamp
  <2>. QED  BY <1>2, <1>4, <2>1, <2>3
<1>6. CASE sel # 0
  <2>1. PreviousIndex(sel) = sel - 1 /\ sel - 1 \in 0 .. count - 1
    BY <1>1, <1>2, <1>6 DEF PreviousIndex
  <2>2. cursorX - Stride = leftX + (sel - 1) * Stride
    BY <1>1, <1>2, StrideStep
  <2>3. leftX <= cursorX - Stride /\ cursorX - Stride <= rightX
    BY <1>1, <2>1, <2>2, PointerStops
  <2>4. Clamp(cursorX - Stride) = cursorX - Stride
    BY <1>2, <1>3, <2>3 DEF Clamp
  <2>. QED  BY <1>4, <2>1, <2>2, <2>4
<1>. QED  BY <1>5, <1>6

LEMMA KeyRightTarget ==
  ASSUME IInv, Fits, KeyRight
  PROVE  /\ NextIndex(sel) \in 0 .. count - 1
         /\ Clamp(Word(cursorX + Stride)) = leftX + NextIndex(sel) * Stride
<1>1. InMenu /\ sel \in 0 .. count - 1 /\ cursorX = leftX + sel * Stride
  BY DEF KeyRight, MovePointer, IInv, InMenu, CursorOnSelection
<1>2. /\ count \in Nat /\ count >= 1
      /\ leftX \in Nat
      /\ rightX = leftX + (count - 1) * Stride
      /\ rightX + Stride < WordModulus
      /\ Stride \in Nat /\ Stride > 0
  BY <1>1, Geometry, StrideStep, GeometryAssumption
     DEF IInv, TypeOK, Fits
<1>3. cursorX \in Nat /\ leftX <= cursorX /\ cursorX <= rightX
  BY <1>1, PointerStops
<1>4. Word(cursorX + Stride) = cursorX + Stride
  BY <1>2, <1>3, WordExact, GeometryAssumption
<1>5. Word(count - 1) = count - 1
  <2>1. (count - 1) * 1 <= (count - 1) * Stride
    BY <1>2
  <2>2. count - 1 \in 0 .. WordModulus - 1
    BY <1>2, <2>1, GeometryAssumption
  <2>. QED  BY <2>2, WordExact
<1>6. CASE sel = count - 1
  <2>1. NextIndex(sel) = 0
    BY <1>5, <1>6 DEF NextIndex
  <2>2. cursorX + Stride > rightX
    BY <1>1, <1>2, <1>3, <1>6
  <2>3. Clamp(cursorX + Stride) = leftX
    BY <1>2, <1>3, <2>2 DEF Clamp
  <2>. QED  BY <1>2, <1>4, <2>1, <2>3
<1>7. CASE sel # count - 1
  <2>1. NextIndex(sel) = sel + 1 /\ sel + 1 \in 0 .. count - 1
    BY <1>1, <1>2, <1>5, <1>7 DEF NextIndex
  <2>2. cursorX + Stride = leftX + (sel + 1) * Stride
    BY <1>1, <1>2, StrideStep
  <2>3. leftX <= cursorX + Stride /\ cursorX + Stride <= rightX
    BY <1>1, <2>1, <2>2, PointerStops
  <2>4. Clamp(cursorX + Stride) = cursorX + Stride
    BY <1>2, <1>3, <2>3 DEF Clamp
  <2>. QED  BY <1>4, <2>1, <2>2, <2>4
<1>. QED  BY <1>6, <1>7
----------------------------------------------------------------------------
(* IInv is inductive. *)

LEMMA InitIInv == ASSUME Fits, Init PROVE IInv
<1>1. TypeOK
  <2>1. count \in Counts /\ count \in Nat /\ StartX(count) \in Nat
    BY WordsAreNat DEF Init
  <2>2. 0 \in 0 .. count
    BY <2>1
  <2>. QED  BY <2>1, <2>2 DEF Init, TypeOK, NotShown, NoEntry
<1>2. IconX(0) = StartX(count)
  BY <1>1, StrideStep, WordsAreNat DEF IconX, TypeOK
<1>. QED
  BY <1>1, <1>2 DEF Init, IInv, InMenu, CursorOnSelection, OnePointer

LEMMA DrawIconKeepsIInv ==
  ASSUME IInv, TypeOK', Fits, AllIconsLoad, DrawIcon
  PROVE  IInv'
<1>1. /\ phase = "icons" /\ ~InMenu /\ ~InMenu'
      /\ iconIndex \in 0 .. count - 1
      /\ iconIndex' = iconIndex + 1
      /\ iconX = IconX(iconIndex)
      /\ UNCHANGED <<count, entry, phase, sel, shown, saved, target>>
  BY GeometryAssumption DEF DrawIcon, InMenu, IInv, TypeOK
<1>2. /\ count \in Nat /\ StartX(count) \in Nat
      /\ StartX(count) + (count - 1) * Stride + IconWidth <= Resolution
      /\ Resolution + Stride < WordModulus
  BY Geometry DEF IInv, TypeOK, Fits
<1>3. /\ iconX \in Nat
      /\ iconX + IconWidth <= Resolution
      /\ IconX(iconIndex + 1) = iconX + Stride
  <2>1. /\ iconIndex * Stride \in Nat /\ (count - 1) * Stride \in Nat
        /\ iconIndex * Stride <= (count - 1) * Stride
        /\ (iconIndex + 1) * Stride = iconIndex * Stride + Stride
    <3>1. iconIndex \in Nat /\ count - 1 \in Nat /\ iconIndex <= count - 1
      BY <1>1, <1>2
    <3>2. iconIndex * Stride \in Nat /\ (count - 1) * Stride \in Nat
      BY <3>1, StrideStep
    <3>. QED  BY <3>1, <3>2, StrideMonotone, StrideStep
  <2>. QED
    BY <1>1, <1>2, <2>1, StrideStep, GeometryAssumption DEF IconX
<1>4. Word(iconX + Stride) = iconX + Stride
  <2>1. iconX + Stride \in 0 .. WordModulus - 1
    BY <1>2, <1>3, StrideStep, GeometryAssumption
  <2>. QED  BY <2>1, WordExact
<1>5. /\ iconAt' = [iconAt EXCEPT ![iconIndex] = iconX]
      /\ iconX' = iconX + Stride
  <2>1. entry[iconIndex] \in LoadableNames
    BY <1>1 DEF AllIconsLoad, IInv, TypeOK
  <2>. QED  BY <2>1, <1>3, <1>4 DEF DrawIcon, OnScreen
<1>6. ASSUME NEW i \in 0 .. count - 1
      PROVE  iconAt'[i] = IF i < iconIndex' THEN IconX(i) ELSE NotShown
  <2>1. iconAt[i] = IF i < iconIndex THEN IconX(i) ELSE NotShown
    BY DEF IInv
  <2>2. iconAt'[i] = IF i = iconIndex THEN iconX ELSE iconAt[i]
    BY <1>5 DEF IInv, TypeOK
  <2>. QED  BY <1>1, <2>1, <2>2
<1>7. \A i : IconX(i)' = IconX(i)
  BY <1>1 DEF IconX
<1>8. \A i \in 0 .. count' - 1 :
        iconAt'[i] = IF i < iconIndex' THEN IconX(i)' ELSE NotShown
  BY <1>1, <1>6, <1>7
<1>9. OnePointer' /\ CursorOnSelection'
  BY <1>1 DEF IInv, OnePointer, CursorOnSelection
<1>10. iconX' = IconX(iconIndex)'
  BY <1>1, <1>3, <1>5 DEF IconX
<1>11. sel' = 0 /\ target' = NoEntry
  BY <1>1 DEF IInv
<1>. QED
  BY <1>1, <1>8, <1>9, <1>10, <1>11 DEF IInv

LEMMA PlacePointerKeepsIInv ==
  ASSUME IInv, TypeOK', Fits, PlacePointer
  PROVE  IInv'
<1>1. /\ phase = "icons" /\ InMenu' /\ phase' = "wait"
      /\ iconIndex = count /\ sel = 0 /\ target = NoEntry
      /\ leftX' = LeftmostX(count) /\ rightX' = RightmostX(count)
      /\ cursorX' = LeftmostX(count)
      /\ UNCHANGED <<count, entry, iconIndex, iconX, iconAt, sel, target>>
  BY DEF PlacePointer, InMenu, IInv
<1>2. /\ count \in Nat /\ count >= 1
      /\ LeftmostX(count) \in Nat
      /\ RightmostX(count) = LeftmostX(count) + (count - 1) * Stride
      /\ RightmostX(count) + PointerWidth <= Resolution
  BY Geometry DEF IInv, TypeOK, Fits
<1>3. OnScreen(LeftmostX(count), PointerWidth)
  <2>1. (count - 1) * Stride \in Nat
    BY <1>2, StrideStep
  <2>. QED  BY <1>2, <2>1, GeometryAssumption DEF OnScreen
<1>4. shown' = {LeftmostX(count)} /\ saved' = "scene"
  BY <1>1, <1>3 DEF PlacePointer, DrawPointer, IInv, OnePointer, InMenu
<1>5. CursorOnSelection'
  BY <1>1, <1>2, StrideStep DEF CursorOnSelection
<1>6. OnePointer'
  BY <1>1, <1>4 DEF OnePointer
<1>. QED
  BY <1>1, <1>5, <1>6 DEF IInv, IconX

(* Every step of the menu keeps the invariant.                             *)
LEMMA NextKeepsIInv ==
  ASSUME IInv, TypeOK', Fits, AllIconsLoad, [Next]_vars
  PROVE  IInv'
<1>1. CASE DrawIcon
  BY <1>1, DrawIconKeepsIInv
<1>2. CASE PlacePointer
  BY <1>2, PlacePointerKeepsIInv
<1>14. CASE PointerUnreadable
  <2>1. ~InMenu /\ ~InMenu' /\ phase = "icons" /\ phase' = "failed"
        /\ UNCHANGED <<layout, cursorX, sel, shown, saved, target>>
    BY <1>14 DEF PointerUnreadable, InMenu
  <2>2. CursorOnSelection' /\ OnePointer'
    BY <2>1 DEF IInv, CursorOnSelection, OnePointer
  <2>. QED
    BY <2>1, <2>2 DEF IInv, IconX, layout
<1>. DEFINE Frame == UNCHANGED <<layout, cursorX, sel, saved>>
<1>3. ASSUME InMenu, InMenu', Frame, shown' \subseteq shown,
             phase' \in {"wait", "read"} => target' = NoEntry,
             phase' \in {"booting", "chainloading"} => target' = sel,
             target' # NoEntry => target' = sel
      PROVE  IInv'
  <2>1. CursorOnSelection'
    BY <1>3 DEF IInv, CursorOnSelection, layout
  <2>2. OnePointer'
    BY <1>3 DEF IInv, OnePointer, layout
  <2>. QED
    BY <1>3, <2>1, <2>2 DEF IInv, IconX, InMenu, layout
<1>4. CASE WaitForEvent
  BY <1>3, <1>4 DEF WaitForEvent, InMenu, IInv
<1>5. CASE LeaveLoop
  BY <1>3, <1>5 DEF LeaveLoop, InMenu, IInv
<1>6. CASE KeyLeft
  BY <1>6, KeyLeftTarget, MoveKeepsInvariant DEF KeyLeft
<1>7. CASE KeyRight
  BY <1>7, KeyRightTarget, MoveKeepsInvariant DEF KeyRight
<1>8. ASSUME phase = "read" PROVE Clamp(cursorX) = cursorX
  <2>1. InMenu /\ sel \in 0 .. count - 1 /\ cursorX = leftX + sel * Stride
    BY <1>8 DEF IInv, InMenu, CursorOnSelection
  <2>2. cursorX \in Nat /\ leftX <= cursorX /\ cursorX <= rightX
    BY <2>1, PointerStops
  <2>3. leftX \in Nat /\ rightX \in Nat
    BY DEF IInv, TypeOK
  <2>. QED  BY <2>2, <2>3 DEF Clamp
<1>9. CASE KeyOther
  BY <1>3, <1>8, <1>9 DEF KeyOther, InMenu, IInv
<1>10. CASE KeyEnter
  BY <1>3, <1>8, <1>10 DEF KeyEnter, InMenu, IInv
<1>11. CASE ImageReturns
  BY <1>3, <1>11 DEF ImageReturns, InMenu, IInv
<1>12. CASE ChainLoadNotFound
  BY <1>3, <1>12 DEF ChainLoadNotFound, InMenu, IInv
<1>13. CASE UNCHANGED vars
  <2>1. CursorOnSelection' /\ OnePointer' /\ (InMenu' <=> InMenu)
    BY <1>13 DEF IInv, CursorOnSelection, OnePointer, InMenu, vars
  <2>. QED
    BY <1>13, <2>1 DEF IInv, IconX, vars
<1>. QED
  BY <1>1, <1>2, <1>4, <1>5, <1>6, <1>7, <1>9, <1>10, <1>11, <1>12, <1>13,
     <1>14 DEF Next

(* On a screen that fits, the invariant holds in every reachable state.    *)
THEOREM Invariance ==
  ASSUME Fits, AllIconsLoad
  PROVE  Spec => []IInv
<1>1. Init => IInv
  BY InitIInv
<1>2. IInv /\ TypeOK' /\ [Next]_vars => IInv'
  BY NextKeepsIInv
<1>. QED  BY <1>1, <1>2, TypeCorrect, PTL DEF Spec

(* The pixel of the pointer and the index of the entry never drift apart.  *)
THEOREM CursorFollowsSelection ==
  ASSUME Fits, AllIconsLoad
  PROVE  Spec => []CursorOnSelection
<1>1. IInv => CursorOnSelection
  BY DEF IInv
<1>. QED  BY <1>1, Invariance, PTL

----------------------------------------------------------------------------
(* Enter runs what is shown, and the menu implements the carousel. *)

(* Once the menu is up, the icon over the pointer is the chosen entry's,   *)
(* and no other icon is over it.                                           *)
LEMMA ChosenIsUnderPointer ==
  ASSUME IInv, InMenu, Fits
  PROVE  UnderPointer = {sel}
<1>1. /\ count \in Nat /\ sel \in 0 .. count - 1
      /\ cursorX = LeftmostX(count) + sel * Stride
      /\ StartX(count) \in Nat /\ LeftmostX(count) \in Nat
      /\ StartX(count) <= LeftmostX(count)
      /\ LeftmostX(count) < StartX(count) + IconWidth
  BY Geometry DEF IInv, TypeOK, Fits, CursorOnSelection
<1>2. Stride \in Nat /\ Stride > IconWidth /\ IconWidth \in Nat
  BY StrideStep, GeometryAssumption
<1>3. ASSUME NEW i \in 0 .. count - 1
      PROVE  /\ iconAt[i] = StartX(count) + i * Stride
             /\ iconAt[i] # NotShown
             /\ i * Stride \in Nat
  <2>1. iconAt[i] = IconX(i)
    BY <1>1 DEF IInv
  <2>2. i \in Nat /\ i * Stride \in Nat
    BY StrideStep
  <2>. QED  BY <1>1, <2>1, <2>2 DEF IconX, NotShown
<1>4. sel \in UnderPointer
  BY <1>1, <1>2, <1>3 DEF UnderPointer
<1>5. ASSUME NEW i \in UnderPointer PROVE i = sel
  <2>1. /\ i \in 0 .. count - 1
        /\ StartX(count) + i * Stride <= cursorX
        /\ cursorX < StartX(count) + i * Stride + IconWidth
    BY <1>3 DEF UnderPointer
  <2>2. ASSUME i < sel PROVE FALSE
    <3>1. i + 1 \in Nat /\ sel \in Nat /\ i + 1 <= sel
      BY <1>1, <2>1, <2>2
    <3>2. (i + 1) * Stride <= sel * Stride
      BY <3>1, StrideMonotone
    <3>3. (i + 1) * Stride = i * Stride + Stride
      BY <2>1, StrideStep
    <3>4. i * Stride \in Nat /\ sel * Stride \in Nat
      BY <1>1, <1>3, <2>1
    <3>. QED  BY <1>1, <1>2, <2>1, <3>2, <3>3, <3>4
  <2>3. ASSUME sel < i PROVE FALSE
    <3>1. sel + 1 \in Nat /\ i \in Nat /\ sel + 1 <= i
      BY <1>1, <2>1, <2>3
    <3>2. (sel + 1) * Stride <= i * Stride
      BY <3>1, StrideMonotone
    <3>3. (sel + 1) * Stride = sel * Stride + Stride
      BY <1>1, StrideStep
    <3>4. i * Stride \in Nat /\ sel * Stride \in Nat
      BY <1>1, <1>3, <2>1
    <3>. QED  BY <1>1, <1>2, <2>1, <3>2, <3>3, <3>4
  <2>. QED  BY <1>1, <2>1, <2>2, <2>3
<1>. QED  BY <1>4, <1>5

(* On a screen that fits, Enter runs the entry whose icon stands over the  *)
(* pointer.                                                                *)
THEOREM EnterRunsWhatIsShown ==
  ASSUME Fits, AllIconsLoad
  PROVE  Spec => []RunsWhatIsShown
<1>1. IInv => RunsWhatIsShown
  <2>. SUFFICES ASSUME IInv, target # NoEntry PROVE target \in UnderPointer
    BY DEF RunsWhatIsShown
  <2>1. InMenu /\ target = sel
    BY DEF IInv, InMenu
  <2>. QED  BY <2>1, ChosenIsUnderPointer
<1>. QED  BY <1>1, Invariance, PTL

(* What the user sees is the chosen entry.                                 *)
SeesChosen == HighlightedEntry = IF InMenu THEN sel ELSE NoEntry

LEMMA HighlightedIsChosen ==
  ASSUME IInv, Fits
  PROVE  SeesChosen
<1>. USE DEF SeesChosen
<1>1. CASE InMenu
  <2>1. UnderPointer = {sel}
    BY <1>1, ChosenIsUnderPointer
  <2>2. UnderPointer # {} /\ \A i \in UnderPointer : i = sel
    BY <2>1
  <2>3. (CHOOSE i \in UnderPointer : TRUE) \in UnderPointer
    BY <2>2
  <2>4. (CHOOSE i \in UnderPointer : TRUE) = sel
    BY <2>2, <2>3
  <2>. QED  BY <1>1, <2>2, <2>4 DEF HighlightedEntry, InMenu
<1>2. CASE ~InMenu
  BY <1>2 DEF HighlightedEntry, InMenu
<1>. QED  BY <1>1, <1>2
(* Every step of the menu is a step of the carousel or leaves it alone.    *)
LEMMA StepSimulation ==
  ASSUME IInv, IInv', SeesChosen, SeesChosen', Fits, [Next]_vars
  PROVE  [Carousel!Next]_Carousel!cvars
<1>. USE DEF NoEntry, Carousel!NoEntry
<1>. DEFINE h == IF InMenu THEN sel ELSE NoEntry
<1>1. HighlightedEntry = h
  BY DEF SeesChosen
<1>2. HighlightedEntry' = h'
  BY DEF SeesChosen
<1>3. /\ target \in Nat \union {NoEntry}
      /\ phase \in {"wait", "read"} => target = NoEntry
      /\ phase' \in {"wait", "read"} => target' = NoEntry
  BY DEF IInv, TypeOK
<1>4. ASSUME UNCHANGED <<count, target, phase, sel>>
      PROVE  UNCHANGED Carousel!cvars
  BY <1>1, <1>2, <1>4 DEF Carousel!cvars, CarouselMode, InMenu
<1>5. CASE DrawIcon
  BY <1>5, <1>4 DEF DrawIcon
<1>6. CASE PlacePointer
  <2>1. Carousel!Open
    BY <1>1, <1>2, <1>6
       DEF PlacePointer, Carousel!Open, CarouselMode, InMenu, IInv
  <2>. QED  BY <2>1 DEF Carousel!Next
<1>18. CASE PointerUnreadable
  <2>1. Carousel!Close
    BY <1>1, <1>2, <1>18
       DEF PointerUnreadable, layout, Carousel!Close, CarouselMode, InMenu
  <2>. QED  BY <2>1 DEF Carousel!Next
<1>7. CASE WaitForEvent
  BY <1>1, <1>2, <1>7
     DEF WaitForEvent, layout, Carousel!cvars, CarouselMode, InMenu
<1>8. CASE LeaveLoop
  <2>1. Carousel!Close
    BY <1>1, <1>2, <1>8
       DEF LeaveLoop, layout, Carousel!Close, CarouselMode, InMenu
  <2>. QED  BY <2>1 DEF Carousel!Next
<1>9. ASSUME phase = "read", phase' = "wait",
             UNCHANGED <<count, target>>,
             sel' \in {Carousel!Before(sel), Carousel!After(sel)}
      PROVE  Carousel!Next
  <2>1. HighlightedEntry = sel /\ HighlightedEntry' = sel'
    BY <1>1, <1>2, <1>9 DEF InMenu
  <2>2. Carousel!Step
    BY <1>9, <2>1
       DEF Carousel!Step, Carousel!Before, Carousel!After, CarouselMode
  <2>. QED  BY <2>2 DEF Carousel!Next
<1>10. ASSUME phase = "read"
       PROVE  Word(count - 1) = count - 1 /\ sel \in 0 .. count - 1
  <2>1. sel \in 0 .. count - 1 /\ count \in Nat
    BY <1>10, GeometryAssumption DEF IInv, CursorOnSelection, InMenu, TypeOK
  <2>2. /\ rightX = leftX + (count - 1) * Stride
        /\ rightX + Stride < WordModulus /\ leftX \in Nat
    BY <1>10, Geometry DEF IInv, InMenu, Fits, TypeOK
  <2>3. (count - 1) * 1 <= (count - 1) * Stride
        /\ (count - 1) * Stride \in Nat /\ Stride \in Nat
    BY <2>1, StrideStep, GeometryAssumption
  <2>4. count - 1 \in 0 .. WordModulus - 1
    BY <2>1, <2>2, <2>3, GeometryAssumption
  <2>. QED  BY <2>1, <2>4, WordExact
<1>11. CASE KeyLeft
  <2>1. sel' = Carousel!Before(sel)
    BY <1>10, <1>11
       DEF KeyLeft, MovePointer, PreviousIndex, Carousel!Before
  <2>. QED  BY <1>9, <1>11, <2>1 DEF KeyLeft, MovePointer, layout
<1>12. CASE KeyRight
  <2>1. sel' = Carousel!After(sel)
    BY <1>10, <1>12
       DEF KeyRight, MovePointer, NextIndex, Carousel!After
  <2>. QED  BY <1>9, <1>12, <2>1 DEF KeyRight, MovePointer, layout
<1>13. CASE KeyOther
  BY <1>1, <1>2, <1>13
     DEF KeyOther, layout, Carousel!cvars, CarouselMode, InMenu
<1>14. CASE KeyEnter
  <2>1. Carousel!Run
    BY <1>1, <1>2, <1>14
       DEF KeyEnter, layout, Carousel!Run, CarouselMode, InMenu
  <2>. QED  BY <2>1 DEF Carousel!Next
<1>15. CASE ImageReturns
  <2>1. Carousel!Return
    BY <1>1, <1>2, <1>15
       DEF ImageReturns, layout, Carousel!Return, CarouselMode, InMenu
  <2>. QED  BY <2>1 DEF Carousel!Next
<1>16. CASE ChainLoadNotFound
  <2>1. Carousel!Close
    BY <1>1, <1>2, <1>16
       DEF ChainLoadNotFound, layout, Carousel!Close, CarouselMode, InMenu
  <2>. QED  BY <2>1 DEF Carousel!Next
<1>17. CASE UNCHANGED vars
  BY <1>4, <1>17 DEF vars
<1>. QED
  BY <1>5, <1>6, <1>7, <1>8, <1>11, <1>12, <1>13, <1>14, <1>15, <1>16,
     <1>17, <1>18 DEF Next

(* On a screen that fits, the menu is a carousel: the highlighted icon     *)
(* steps round the ring of entries and Enter runs the highlighted one.     *)
THEOREM MenuImplementsCarousel ==
  ASSUME Fits, AllIconsLoad
  PROVE  Spec => ImplementsCarousel
<1>1. Init => Carousel!Init
  BY DEF Init, Carousel!Init, HighlightedEntry, InMenu, CarouselMode, NoEntry,
         Carousel!NoEntry
<1>2. IInv => SeesChosen
  BY HighlightedIsChosen
<1>3. IInv /\ IInv' /\ SeesChosen /\ SeesChosen' /\ [Next]_vars
        => [Carousel!Next]_Carousel!cvars
  BY StepSimulation
<1>. QED
  BY <1>1, <1>2, <1>3, Invariance, PTL
     DEF Spec, ImplementsCarousel, Carousel!Spec
=============================================================================
