-------------------------- MODULE BootOptionStore ---------------------------
(***************************************************************************)
(* The boot options in the firmware's non-volatile variables, as the boot  *)
(* manager library of the project keeps them: the BootOrder variable lists *)
(* option numbers, the variable Boot#### holds the option of that number.  *)
(* The menu reads the list when it starts and every boot may store a       *)
(* temporary option.                                                       *)
(*                                                                         *)
(* No operation is atomic: each is a sequence of SetVariable calls, every  *)
(* one of which may fail, and the power may go between any two.  The       *)
(* sequence still to be executed is kept in todo; a step takes its head    *)
(* and may put what the code does next in its place.                       *)
(***************************************************************************)
EXTENDS Integers, Sequences, FiniteSets, SequencesExt

CONSTANTS
  MaxNumber,     \* largest option number: 0xFFFF in the firmware
  UserContents,  \* options added by the user or an installer
  AutoContents,  \* options the boot manager added by itself
  Corrupt,       \* a variable that is no valid load option
  Missing,       \* no variable
  None           \* no option number

ASSUME StoreAssumption ==
  /\ MaxNumber \in Nat
  /\ UserContents \intersect AutoContents = {}
  /\ IsFiniteSet(AutoContents)
  /\ Corrupt \notin UserContents \union AutoContents
  /\ Missing \notin UserContents \union AutoContents \union {Corrupt}
  /\ None \notin 0 .. MaxNumber + 1

Numbers == 0 .. MaxNumber
Contents == UserContents \union AutoContents

VARIABLES
  order,     \* BootOrder, <<>> when the variable does not exist
  option,    \* the variable Boot#### of each number
  bootNext,  \* BootNext, or None
  todo,      \* the steps of the operation that is running
  list,      \* the options the running listing has found so far
  current,   \* what the last boot attempt gave to BootCurrent, or None
  target,    \* the number the running operation was asked to change, or None
  inserting, \* the number in BootOrder whose option is yet to be stored
  healing,   \* no reference failed to be dropped since the listing began
  trusted    \* nothing happened that may leave a dangling reference

nv == <<order, option, bootNext>>
ghosts == <<inserting, healing, trusted>>
vars == <<nv, todo, list, current, target, ghosts>>

Step(do, number, content) == [do |-> do, n |-> number, c |-> content]
Doing(do) == todo # <<>> /\ Head(todo).do = do
Now == Head(todo)

Listed == ToSet(order)

----------------------------------------------------------------------------
(* What the library computes. *)

(* Definitions named X_Y are variants of X with a plausible mistake Y; no   *)
(* specification uses them.                                                *)

FreeNumber_ForgetsBootNext ==
  LET free  == {k \in 0 .. Len(order) : k \notin Listed}
      least == CHOOSE k \in free : \A j \in free : k <= j
  IN  IF least = MaxNumber + 1 THEN None ELSE least

(* BmGetFreeOptionNumber tries the numbers from 0 up, as many as there are *)
(* entries in BootOrder and one more if BootNext exists; None when every   *)
(* number is taken.                                                        *)
FreeNumber ==
  LET limit == Len(order) + IF bootNext = None THEN 0 ELSE 1
      free  == {k \in 0 .. limit - 1 : k \notin Listed /\ k # bootNext}
      least == CHOOSE k \in free \union {limit} :
                 \A j \in free \union {limit} : k <= j
  IN  IF least = MaxNumber + 1 THEN None ELSE least

Deletion_VariableFirst(n) ==
  <<Step("erase", n, Missing), Step("dropRef", n, Missing)>>

(* EfiBootManagerDeleteLoadOptionVariable: the reference first.            *)
Deletion(n) == <<Step("dropRef", n, Missing), Step("erase", n, Missing)>>

(* EfiBootManagerGetLoadOptions reads the variables of a copy of BootOrder. *)
Listing ==
  [i \in 1 .. Len(order) |-> Step("read", order[i], Missing)]
    \o <<Step("listed", None, Missing)>>

ListedContents == {list[i].c : i \in 1 .. Len(list)}

----------------------------------------------------------------------------
Orders == {s \in UNION {[1 .. k -> Numbers] : k \in 0 .. MaxNumber + 1} :
             IsInjective(s)}

NoDangling == \A n \in Listed : option[n] \in Contents

(* Whatever an earlier firmware or a power loss left.                      *)
Init ==
  /\ order \in Orders
  /\ option \in [Numbers -> Contents \union {Corrupt, Missing}]
  /\ bootNext \in Numbers \union {None}
  /\ todo = <<>> /\ list = <<>>
  /\ current = None /\ target = None
  /\ inserting = None
  /\ healing = FALSE
  /\ trusted = NoDangling

----------------------------------------------------------------------------
(* The operations; each starts when no other is running. *)

Begin(steps, number) ==
  /\ todo = <<>>
  /\ todo' = steps
  /\ target' = number
  /\ list' = <<>>
  /\ healing' = TRUE
  /\ UNCHANGED <<nv, current, inserting, trusted>>

GetLoadOptions == Begin(Listing, None)

(* A number given by the caller, or None for the next free one.            *)
AddLoadOption ==
  \E n \in Numbers \union {None}, c \in Contents :
    Begin(<<Step("add", n, c)>>, n)

DeleteLoadOption == \E n \in Numbers : Begin(Deletion(n), n)

SortLoadOptions == Begin(Listing \o <<Step("sort", None, Missing)>>, None)

(* The options found now are fixed when the refresh begins; the old ones   *)
(* are listed after that.                                                  *)
RefreshAllBootOption ==
  \E found \in SUBSET AutoContents :
    Begin(Listing \o <<Step("refresh", None, found)>>, None)

(* EfiBootManagerBoot, up to BootCurrent, of an option the caller holds    *)
(* with its number: if that variable still has that content it is used,    *)
(* else the option is looked for in the list.                              *)
BootOption ==
  \E n \in Numbers \union {None}, c \in Contents :
    IF n # None /\ option[IF n = None THEN 0 ELSE n] = c
    THEN Begin(<<Step("setCurrent", n, c)>>, None)
    ELSE Begin(Listing \o <<Step("find", None, c)>>, None)

----------------------------------------------------------------------------
(* The steps.  Each is one pass of a loop or one SetVariable call.         *)

Continue(steps) == todo' = steps \o Tail(todo)

ReadOption_ReadsAgain ==
  /\ Doing("read")
  /\ IF option[Now.n] \in Contents
     THEN /\ list' = Append(list, [n |-> Now.n, c |-> option[Now.n]])
          /\ Continue(<<>>)
     ELSE /\ Continue(Append(Deletion(Now.n), Now))
          /\ UNCHANGED list
  /\ UNCHANGED <<nv, current, target, ghosts>>

(* An unreadable option is deleted, with its number in the order.          *)
ReadOption ==
  /\ Doing("read")
  /\ IF option[Now.n] \in Contents
     THEN /\ list' = Append(list, [n |-> Now.n, c |-> option[Now.n]])
          /\ Continue(<<>>)
     ELSE /\ Continue(Deletion(Now.n))
          /\ UNCHANGED list
  /\ UNCHANGED <<nv, current, target, ghosts>>

ListingDone ==
  /\ Doing("listed")
  /\ trusted' = (trusted \/ healing)
  /\ Continue(<<>>)
  /\ UNCHANGED <<nv, list, current, target, inserting, healing>>

(* The order is rewritten without the first entry that is the number; the  *)
(* status is ignored.                                                      *)
DropReference ==
  /\ Doing("dropRef")
  /\ \/ /\ Now.n \notin Listed
        /\ UNCHANGED <<order, healing, trusted>>
     \/ /\ \E i \in DOMAIN order :
             /\ order[i] = Now.n /\ \A j \in 1 .. i - 1 : order[j] # Now.n
             /\ order' = RemoveAt(order, i)
        /\ UNCHANGED <<healing, trusted>>
     \/ /\ Now.n \in Listed
        /\ healing' = FALSE /\ trusted' = FALSE
        /\ UNCHANGED order
  /\ inserting' = None
  /\ Continue(<<>>)
  /\ UNCHANGED <<option, bootNext, list, current, target>>

EraseOption ==
  /\ Doing("erase")
  /\ option' \in {option, [option EXCEPT ![Now.n] = Missing]}
  /\ Continue(<<>>)
  /\ UNCHANGED <<order, bootNext, list, current, target, ghosts>>

Insert_Unchecked(n, c) ==
  \/ /\ \E i \in 1 .. Len(order) + 1 : order' = InsertAt(order, i, n)
     /\ inserting' = n
     /\ Continue(<<Step("store", n, c)>>)
  \/ /\ Continue(<<>>)
     /\ UNCHANGED <<order, inserting>>

(* The number enters the order at some position, unless it is there        *)
(* already or the write fails.                                             *)
Insert(n, c) ==
  \/ /\ n \notin Listed
     /\ \E i \in 1 .. Len(order) + 1 : order' = InsertAt(order, i, n)
     /\ inserting' = n
     /\ Continue(<<Step("store", n, c)>>)
  \/ /\ Continue(<<>>)
     /\ UNCHANGED <<order, inserting>>

AddOption ==
  /\ Doing("add")
  /\ LET n == IF Now.n = None THEN FreeNumber ELSE Now.n
     IN  /\ IF n = None THEN Continue(<<>>) /\ UNCHANGED <<order, inserting>>
            ELSE Insert(n, Now.c)
         /\ target' = n
  /\ UNCHANGED <<option, bootNext, list, current, healing, trusted>>

(* The option is written after its number; if that fails the number is     *)
(* taken out of the order again.                                           *)
StoreOption ==
  /\ Doing("store")
  /\ \/ /\ option' = [option EXCEPT ![Now.n] = Now.c]
        /\ inserting' = None
        /\ Continue(<<>>)
     \/ /\ Continue(Deletion(Now.n))
        /\ UNCHANGED <<option, inserting>>
  /\ UNCHANGED <<order, bootNext, list, current, target, healing, trusted>>

Arrangements(s) ==
  {t \in [1 .. Len(s) -> ToSet(s)] : ToSet(t) = ToSet(s)}

(* The new order is made from the options listed, however they compare.    *)
WriteSortedOrder ==
  /\ Doing("sort")
  /\ \/ order' \in Arrangements([i \in 1 .. Len(list) |-> list[i].n])
     \/ UNCHANGED order
  /\ Continue(<<>>)
  /\ UNCHANGED <<option, bootNext, list, current, target, ghosts>>

Stale_AnyOption(c, found) == c \notin found

(* The boot manager added the option by itself and does not find it now.   *)
Stale(c, found) == c \in AutoContents /\ c \notin found

(* First each listed option is looked for among those found now, then each *)
(* of these among the listed ones.                                         *)
PlanRefresh ==
  /\ Doing("refresh")
  /\ LET new == SetToSeq(Now.c \ ListedContents)
     IN  Continue([i \in 1 .. Len(list) |-> Step("prune", list[i].n, Now.c)]
                  \o [i \in 1 .. Len(new) |-> Step("add", None, new[i])])
  /\ UNCHANGED <<nv, list, current, target, ghosts>>

(* What was listed decides, whatever the variable holds by now.            *)
PruneOption ==
  /\ Doing("prune")
  /\ \E i \in DOMAIN list :
       /\ list[i].n = Now.n
       /\ Continue(IF Stale(list[i].c, Now.c) THEN Deletion(Now.n) ELSE <<>>)
  /\ UNCHANGED <<nv, list, current, target, ghosts>>

(* Step 1 of EfiBootManagerBoot: the number of the option listed with this *)
(* content, or a temporary option under a free number.                     *)
FindOption ==
  /\ Doing("find")
  /\ IF Now.c \in ListedContents
     THEN LET first == CHOOSE i \in DOMAIN list :
                         /\ list[i].c = Now.c
                         /\ \A j \in 1 .. i - 1 : list[j].c # Now.c
          IN  Continue(<<Step("setCurrent", list[first].n, Now.c)>>)
     ELSE IF FreeNumber = None THEN Continue(<<>>)
     ELSE Continue(<<Step("temporary", FreeNumber, Now.c)>>)
  /\ UNCHANGED <<nv, list, current, target, ghosts>>

StoreTemporary_IgnoresStatus ==
  /\ Doing("temporary")
  /\ option' \in {option, [option EXCEPT ![Now.n] = Now.c]}
  /\ Continue(<<Step("setCurrent", Now.n, Now.c)>>)
  /\ UNCHANGED <<order, bootNext, list, current, target, ghosts>>

(* Without its variable the option is not booted.                          *)
StoreTemporary ==
  /\ Doing("temporary")
  /\ \/ /\ option' = [option EXCEPT ![Now.n] = Now.c]
        /\ Continue(<<Step("setCurrent", Now.n, Now.c)>>)
     \/ Continue(<<>>) /\ UNCHANGED option
  /\ UNCHANGED <<order, bootNext, list, current, target, ghosts>>

SetBootCurrent ==
  /\ Doing("setCurrent")
  /\ current' = Now.n
  /\ Continue(<<>>)
  /\ UNCHANGED <<nv, list, target, ghosts>>

(* The power goes.  Between the insertion of a number and the end of its   *)
(* store or roll-back this may leave a reference dangling.                 *)
Restart ==
  /\ todo' = <<>> /\ list' = <<>>
  /\ current' = None /\ target' = None
  /\ inserting' = None
  /\ healing' = FALSE
  /\ trusted' = (trusted /\ inserting = None)
  /\ UNCHANGED nv

Operations ==
  \/ GetLoadOptions \/ AddLoadOption \/ DeleteLoadOption \/ SortLoadOptions
  \/ RefreshAllBootOption \/ BootOption

Working ==
  \/ ReadOption \/ ListingDone \/ DropReference \/ EraseOption
  \/ AddOption \/ StoreOption \/ WriteSortedOrder \/ PlanRefresh
  \/ PruneOption \/ FindOption \/ StoreTemporary \/ SetBootCurrent

Next == Operations \/ Working \/ Restart

Spec == Init /\ [][Next]_vars

(* The library waits for nobody inside an operation.                       *)
FairSpec == Spec /\ WF_vars(Working)
----------------------------------------------------------------------------
(* Properties. *)

TypeOK ==
  /\ order \in Seq(Numbers)
  /\ option \in [Numbers -> Contents \union {Corrupt, Missing}]
  /\ bootNext \in Numbers \union {None}
  /\ \A i \in DOMAIN todo :
       /\ todo[i].do \in {"read", "listed", "dropRef", "erase", "add", "store",
                          "sort", "refresh", "prune", "find", "temporary",
                          "setCurrent"}
       /\ todo[i].n \in Numbers \union {None}
       /\ todo[i].n = None => todo[i].do \in {"listed", "add", "sort",
                                             "refresh", "find"}
  /\ \A i \in DOMAIN list : list[i].n \in Numbers /\ list[i].c \in Contents
  /\ current \in Numbers \union {None}
  /\ target \in Numbers \union {None}
  /\ inserting \in Numbers \union {None}
  /\ healing \in BOOLEAN /\ trusted \in BOOLEAN

(* BootOrder never names an option twice, whatever mix of additions, sorts *)
(* and interrupted operations it went through.                             *)
NoDuplicateNumbers == IsInjective(order)

(* A number in BootOrder without a readable Boot#### variable can come     *)
(* only from an addition that the power interrupted between its two        *)
(* writes, or from a write that failed while a reference was dropped; and  *)
(* a listing in which no such write failed repairs every one of them.      *)
OnlyAccidentsDangle ==
  trusted => \A n \in Listed : option[n] \in Contents \/ n = inserting

(* An option of the user that is in BootOrder is never lost or changed     *)
(* except by an operation asked to change that very number, wherever the   *)
(* others are interrupted and whichever of their writes fail.              *)
UserOptionsSurvive ==
  [][\A n \in Listed :
       option[n] \in UserContents /\ n \notin {target, target'} =>
         /\ n \in ToSet(order')
         /\ option'[n] = option[n]]_vars

(* The number given to a new option is in use neither by BootOrder nor by  *)
(* BootNext, and there is one until all numbers are in use.                *)
FreeNumberIsFree ==
  IF FreeNumber = None
  THEN Numbers \subseteq Listed \union {bootNext}
  ELSE FreeNumber \in Numbers \ (Listed \union {bootNext})

(* When BootCurrent is set, the variable it names holds the option that is *)
(* being booted, be it the caller's own, one found in the list, or a       *)
(* temporary one.                                                          *)
BootCurrentIsBooted ==
  Doing("setCurrent") => option[Now.n] = Now.c

(* Every operation comes to an end, whichever writes fail.                 *)
OperationsEnd == []<>(todo = <<>>)
=============================================================================
