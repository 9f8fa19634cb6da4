---------------------------- MODULE MenuCarousel ----------------------------
(***************************************************************************)
(* What the boot menu promises its user: a ring of n entries of which one  *)
(* is highlighted, arrow keys that step round the ring, and an Enter key   *)
(* that runs the highlighted entry and no other.  How the pointer is       *)
(* drawn, and in which arithmetic, is left to TianjiMenu.                  *)
(***************************************************************************)
EXTENDS Integers

CONSTANTS Counts    \* the numbers of entries a menu may show

VARIABLES
  n,            \* number of entries on the ring
  highlighted,  \* the entry the user sees selected, NoEntry before any is
  mode,         \* "opening", "choosing", "running" or "closed"
  target        \* the entry being run, NoEntry when none is

cvars == <<n, highlighted, mode, target>>

NoEntry == -1

Before(i) == IF i = 0 THEN n - 1 ELSE i - 1
After(i)  == IF i = n - 1 THEN 0 ELSE i + 1

Init ==
  /\ n \in Counts
  /\ highlighted = NoEntry
  /\ mode = "opening"
  /\ target = NoEntry

(* The menu appears with its first entry highlighted. *)
Open ==
  /\ mode = "opening"
  /\ mode' = "choosing"
  /\ highlighted' = 0
  /\ UNCHANGED <<n, target>>

Step ==
  /\ mode = "choosing"
  /\ highlighted' \in {Before(highlighted), After(highlighted)}
  /\ UNCHANGED <<n, mode, target>>

Run ==
  /\ mode = "choosing"
  /\ mode' = "running"
  /\ target' = highlighted
  /\ UNCHANGED <<n, highlighted>>

(* The entry came back: the menu is as the user left it. *)
Return ==
  /\ mode = "running"
  /\ mode' = "choosing"
  /\ target' = NoEntry
  /\ UNCHANGED <<n, highlighted>>

(* The menu ends: left, given up by the program, or never opened. *)
Close ==
  /\ mode \in {"opening", "choosing", "running"}
  /\ mode' = "closed"
  /\ UNCHANGED <<n, highlighted, target>>

Next == Open \/ Step \/ Run \/ Return \/ Close

Spec == Init /\ [][Next]_cvars
=============================================================================
