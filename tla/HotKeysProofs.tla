--------------------------- MODULE HotKeysProofs ----------------------------
(***************************************************************************)
(* The hot key service, for all codes, consoles and boot options, any      *)
(* number of starts and any length of the list.                            *)
(*                                                                         *)
(* The properties are not inductive.  Why an option boots only when its    *)
(* keys were typed lies in what a list entry waits for: the strokes that   *)
(* brought it there are the last ones (Follows).  Why nothing listens      *)
(* behind an image lies in the events that will stop the service: without  *)
(* one, only entries that came late are in the list (OnlyLate).            *)
(***************************************************************************)
EXTENDS HotKeys, FiniteSetTheorems, FunctionTheorems, SequenceTheorems,
        WellFoundedInduction, TLAPS

----------------------------------------------------------------------------
(* Numbers.                                                                *)

(* A set of natural numbers that is not empty has a least element.         *)
LEMMA LeastNatural ==
  ASSUME NEW S, S \subseteq Nat, S # {}
  PROVE  \E k \in S : \A j \in S : k <= j
<1>1. PICK k \in S : \A j \in S : <<j, k>> \notin OpToRel(<, Nat)
  BY NatLessThanWellFounded, WFMin, Zenon
<1>2. ASSUME NEW j \in S PROVE k <= j
  <2>1. ~ (<<j, k>> \in {ss \in Nat \X Nat : ss[1] < ss[2]})
    BY <1>1, Zenon DEF OpToRel
  <2>2. ~ (j < k)
    BY <2>1
  <2> QED BY <2>2
<1> QED BY <1>2

(* A bounded one has a largest.                                            *)
LEMMA MaxExists ==
  ASSUME NEW k \in Nat, NEW S, S \subseteq 0 .. k, S # {}
  PROVE  Max(S) \in S /\ \A x \in S : x <= Max(S)
<1> DEFINE Above == {n \in Nat : \A x \in S : x <= n}
<1>1. k \in Above
  OBVIOUS
<1>2. PICK u \in Above : \A n \in Above : u <= n
  BY <1>1, LeastNatural
<1>3. u \in S
  <2>1. SUFFICES ASSUME u \notin S PROVE FALSE
    OBVIOUS
  <2>2. \A x \in S : x \in Nat /\ x < u
    BY <1>2, <2>1
  <2>3. PICK y \in S : TRUE
    OBVIOUS
  <2>4. y \in Nat /\ y < u /\ u \in Nat
    BY <1>2, <2>2
  <2>5. u - 1 \in Nat /\ \A x \in S : x <= u - 1
    BY <2>2, <2>4
  <2>6. u - 1 \in Above
    BY <2>5
  <2> QED BY <1>2, <2>4, <2>6
<1>4. \A x \in S : x <= u
  BY <1>2
<1>5. \E x \in S : \A y \in S : x >= y
  BY <1>2, <1>3, <1>4
<1> QED BY <1>5 DEF Max

(* The least of a set of natural numbers.                                  *)
LEMMA MinExists ==
  ASSUME NEW S, S \subseteq Nat, S # {}
  PROVE  Min(S) \in S /\ \A x \in S : Min(S) <= x
<1>1. \E x \in S : \A y \in S : x <= y
  BY LeastNatural
<1> QED BY <1>1 DEF Min

Sorted(s) == \A i, j \in DOMAIN s : i < j => s[i] < s[j]

(* Every finite set of numbers can be put in order: if one of size n could *)
(* not, the rest of it without its largest could, and that comes last.     *)
LEMMA CanBeSorted ==
  ASSUME NEW k \in Nat, NEW S, S \subseteq 0 .. k
  PROVE  \E s \in [1 .. Cardinality(S) -> S] : Sorted(s)
<1> DEFINE Bad == {n \in Nat : \E T \in SUBSET (0 .. k) :
                     /\ Cardinality(T) = n
                     /\ \A s \in [1 .. n -> T] : ~Sorted(s)}
<1>1. \A T \in SUBSET (0 .. k) : IsFiniteSet(T) /\ Cardinality(T) \in Nat
  <2>1. IsFiniteSet(0 .. k)
    BY FS_Interval
  <2> QED BY <2>1, FS_Subset, FS_CardinalityType
<1>2. Bad = {}
  <2>1. SUFFICES ASSUME Bad # {} PROVE FALSE
    OBVIOUS
  <2>2. PICK n \in Bad : \A m \in Bad : n <= m
    BY <2>1, LeastNatural
  <2>3. PICK T \in SUBSET (0 .. k) :
          Cardinality(T) = n /\ \A s \in [1 .. n -> T] : ~Sorted(s)
    BY <2>2
  <2> HIDE DEF Bad
  <2>4. T # {}
    <3>1. SUFFICES ASSUME T = {} PROVE FALSE
      OBVIOUS
    <3>2. n = 0
      BY <2>3, <3>1, FS_EmptySet
    <3>3. [i \in 1 .. 0 |-> i] \in [1 .. n -> T]
      BY <3>2
    <3>4. Sorted([i \in 1 .. 0 |-> i])
      BY DEF Sorted
    <3> QED BY <2>3, <3>3, <3>4
  <2>5. Max(T) \in T /\ \A x \in T : x <= Max(T)
    BY <2>4, MaxExists
  <2> DEFINE R == T \ {Max(T)}
             m == n - 1
  <2>6. IsFiniteSet(T) /\ n \in Nat
    BY <1>1, <2>3
  <2>7. Cardinality(R) = m /\ m \in Nat
    <3>1. IsFiniteSet(R) /\ Cardinality(R) = Cardinality(T) - 1
      BY <2>5, <2>6, FS_RemoveElement
    <3>2. Cardinality(R) \in Nat
      BY <3>1, FS_CardinalityType
    <3> QED BY <2>3, <3>1, <3>2
  <2>8. m \notin Bad
    BY <2>2, <2>6, <2>7 DEF Bad
  <2>9. R \in SUBSET (0 .. k)
    OBVIOUS
  <2>10. PICK s \in [1 .. m -> R] : Sorted(s)
    BY <2>7, <2>8, <2>9 DEF Bad
  <2> DEFINE t == [i \in 1 .. n |-> IF i = n THEN Max(T) ELSE s[i]]
  <2>11. \A i \in 1 .. m : s[i] \in T /\ s[i] < Max(T)
    <3> TAKE i \in 1 .. m
    <3>1. s[i] \in R
      BY <2>10
    <3>2. s[i] \in T /\ s[i] # Max(T)
      BY <3>1
    <3>3. \A x \in T : x \in Nat
      OBVIOUS
    <3>4. s[i] \in Nat /\ Max(T) \in Nat /\ s[i] <= Max(T)
      BY <2>5, <3>2, <3>3
    <3> QED BY <3>2, <3>4
  <2>12. t \in [1 .. n -> T]
    BY <2>5, <2>6, <2>7, <2>11
  <2>13. Sorted(t)
    <3> SUFFICES ASSUME NEW i \in 1 .. n, NEW j \in 1 .. n, i < j
                 PROVE  t[i] < t[j]
      BY DEF Sorted
    <3>1. i \in 1 .. m /\ i # n
      BY <2>6, <2>7
    <3>2. t[i] = s[i]
      BY <3>1
    <3>3. CASE j = n
      BY <2>11, <3>1, <3>2, <3>3
    <3>4. CASE j # n
      <4>1. j \in 1 .. m /\ t[j] = s[j]
        BY <2>6, <2>7, <3>4
      <4>2. DOMAIN s = 1 .. m
        BY <2>10
      <4> QED BY <2>10, <3>1, <3>2, <4>1, <4>2 DEF Sorted
    <3> QED BY <3>3, <3>4
  <2> QED BY <2>3, <2>12, <2>13
<1>3. Cardinality(S) \in Nat /\ S \in SUBSET (0 .. k)
  BY <1>1
<1> QED BY <1>2, <1>3

(* Ascending does what its name says.                                      *)
LEMMA AscendingSorts ==
  ASSUME NEW k \in Nat, NEW S, S \subseteq 0 .. k
  PROVE  /\ Cardinality(S) \in Nat
         /\ Ascending(S) \in [1 .. Cardinality(S) -> S]
         /\ Sorted(Ascending(S))
         /\ \A x \in S : \E i \in 1 .. Cardinality(S) : Ascending(S)[i] = x
<1> DEFINE n == Cardinality(S)
           s == Ascending(S)
<1>1. IsFiniteSet(S) /\ n \in Nat
  <2>1. IsFiniteSet(0 .. k)
    BY FS_Interval
  <2> QED BY <2>1, FS_Subset, FS_CardinalityType
<1>2. \E f \in [1 .. n -> S] : \A i, j \in DOMAIN f : i < j => f[i] < f[j]
  BY CanBeSorted DEF Sorted
<1>3. s \in [1 .. n -> S] /\ Sorted(s)
  BY <1>2 DEF Ascending, Sorted
<1> HIDE DEF s
<1>4. \A x \in S : \E i \in 1 .. n : s[i] = x
  <2>1. \A i, j \in 1 .. n : i # j => s[i] # s[j]
    <3> SUFFICES ASSUME NEW i \in 1 .. n, NEW j \in 1 .. n, i # j
                 PROVE  s[i] # s[j]
      OBVIOUS
    <3>1. i < j \/ j < i
      BY <1>1
    <3>2. s[i] < s[j] \/ s[j] < s[i]
      BY <1>3, <3>1 DEF Sorted
    <3>3. s[i] \in S /\ s[j] \in S
      BY <1>3
    <3>4. \A x \in S : x \in Nat
      OBVIOUS
    <3> DEFINE a == s[i]
               b == s[j]
    <3>5. a \in Nat /\ b \in Nat /\ (a < b \/ b < a)
      BY <3>2, <3>3, <3>4
    <3> HIDE DEF a, b
    <3>6. a # b
      BY <3>5
    <3> QED BY <3>6 DEF a, b
  <2>2. s \in Injection(1 .. n, S)
    BY <1>3, <2>1, Zenon DEF Injection, IsInjective
  <2>3. IsFiniteSet(1 .. n) /\ Cardinality(1 .. n) = n
    <3>1. IsFiniteSet(1 .. n)
          /\ Cardinality(1 .. n) = IF 1 > n THEN 0 ELSE n - 1 + 1
      BY <1>1, FS_Interval
    <3> QED BY <1>1, <3>1
  <2>4. s \in Surjection(1 .. n, S)
    BY <1>1, <2>2, <2>3, FS_Injection
  <2> QED BY <2>4, Zenon DEF Surjection
<1> QED BY <1>1, <1>3, <1>4 DEF s

----------------------------------------------------------------------------
(* The inductive invariant.                                                *)

Keys == UNION {ToSet(code.keys) : code \in Codes}
States == UNION {ShiftStates(code.mods) : code \in Codes}
Expected == [key : Keys, state : States]
KeyOption == [code : Codes, boot : Boots, crc : Contents]
Callback == [console : Consoles, stroke : Strokes]
Choice == [boot : Boots, content : Contents]
Hotkey == [strokes : Seq(Expected), boot : Boots \union {None},
           continues : BOOLEAN, waiting : Nat, late : BOOLEAN]

TypeOK ==
  /\ bootVar \in [Boots -> Contents \union {Missing}]
  /\ options \in [Numbers -> KeyOption \union {None}]
  /\ continueKey \in Codes \union {None}
  /\ list \in Seq(Hotkey)
  /\ registered \in [Consoles -> SUBSET Expected]
  /\ consoles \subseteq Consoles
  /\ pending \in Choice \union {None}
  /\ phase \in {"idle", "starting", "boot", "image"}
  /\ todo \in Seq(KeyOption)
  /\ recent \in Seq(Strokes) /\ noticed \in Seq(Callback)
  /\ stopEvents \in Nat /\ starts \in 0 .. MaxStarts
  /\ started \in BOOLEAN /\ hooked \in BOOLEAN
  /\ triggered \in BOOLEAN /\ byHotkey \in BOOLEAN

(* An entry waits for one of its strokes, and if it boots, an option.      *)
WellFormed(h) ==
  /\ Len(h.strokes) \in 1 .. SupportCount
  /\ h.waiting < Len(h.strokes)
  /\ ~h.continues => h.boot \in Boots

(* The strokes it no longer waits for are the last that were typed.        *)
Follows(h) ==
  /\ h.waiting <= Len(recent)
  /\ \A j \in 1 .. h.waiting :
       Matches(recent[Len(recent) - h.waiting + j], h.strokes[j])

ListHolds == \A i \in DOMAIN list : WellFormed(list[i]) /\ Follows(list[i])

(* With no event left to stop the service, and behind an image, only those *)
(* are in the list that were added after it had been stopped.              *)
OnlyLate ==
  phase # "starting" /\ (stopEvents = 0 \/ phase = "image")
    => \A i \in DOMAIN list : list[i].late

(* While a hot key's option boots, it is chosen, and no callback is left   *)
(* that could choose another.                                              *)
ChosenBoots ==
  byHotkey => /\ pending # None /\ noticed = <<>>
              /\ phase \in {"boot", "image"}

IInv == TypeOK /\ ListHolds /\ OnlyLate /\ ChosenBoots

----------------------------------------------------------------------------
(* The entries for a key option.                                           *)

LEMMA ShiftStatesFinite ==
  ASSUME NEW mods, IsFiniteSet(mods) PROVE IsFiniteSet(ShiftStates(mods))
<1> DEFINE g == [f \in ShiftStates(mods) |-> {m \in mods : f[m] = "left"}]
<1>1. g \in [ShiftStates(mods) -> SUBSET mods]
  OBVIOUS
<1>2. ASSUME NEW a \in ShiftStates(mods), NEW b \in ShiftStates(mods), g[a] = g[b]
      PROVE  a = b
  <2>1. \A m \in mods : a[m] = "left" <=> b[m] = "left"
    <3>1. {m \in mods : a[m] = "left"} = {m \in mods : b[m] = "left"}
      BY <1>2
    <3> QED BY <3>1
  <2>2. a \in [mods -> Sides] /\ b \in [mods -> Sides]
    BY DEF ShiftStates
  <2>3. \A m \in mods : a[m] = b[m]
    BY <2>1, <2>2 DEF Sides
  <2> QED BY <2>2, <2>3
<1> HIDE DEF g
<1>3. g \in Injection(ShiftStates(mods), SUBSET mods)
  BY <1>1, <1>2, Zenon DEF Injection, IsInjective
<1>4. IsFiniteSet(SUBSET mods)
  BY FS_SUBSET
<1> QED BY <1>3, <1>4, FS_Injection

(* They wait for their first stroke.                                       *)
LEMMA NewHotkeys ==
  ASSUME NEW code \in Codes, Len(code.keys) <= SupportCount,
         NEW number \in Boots \union {None}, NEW continues \in BOOLEAN,
         ~continues => number \in Boots
  PROVE  LET new == HotkeysOf(code, number, continues)
         IN  /\ new \in Seq(Hotkey)
             /\ \A i \in DOMAIN new :
                  /\ WellFormed(new[i]) /\ new[i].waiting = 0
                  /\ new[i].late = (phase # "starting" /\ stopEvents = 0)
<1> DEFINE all == ShiftStates(code.mods)
           states == SetToSeq(all)
           n == Cardinality(all)
           new == HotkeysOf(code, number, continues)
           strokes(i) == [j \in DOMAIN code.keys |->
                            [key |-> code.keys[j], state |-> states[i]]]
<1>1. code.keys \in Seq(ToSet(code.keys)) /\ Len(code.keys) >= 1
      /\ IsFiniteSet(code.mods) /\ SupportCount \in Nat
  BY HotKeysAssumption
<1>2. IsFiniteSet(all)
  BY <1>1, ShiftStatesFinite
<1>3. n \in Nat /\ \E f : f \in Bijection(1 .. n, all)
  BY <1>2, FS_CardinalityType DEF ExistsBijection
<1>4. \E f \in [1 .. n -> all] : IsInjective(f)
  BY <1>3 DEF Bijection, Injection
<1>5. states \in [1 .. n -> all]
  BY <1>4 DEF SetToSeq
<1> HIDE DEF states, n
<1>6. DOMAIN code.keys = 1 .. Len(code.keys) /\ Len(code.keys) \in Nat
  BY <1>1, LenProperties
<1>7. \A j \in DOMAIN code.keys : code.keys[j] \in Keys
  BY DEF Keys, ToSet
<1>8. ASSUME NEW i \in 1 .. n
      PROVE  strokes(i) \in Seq(Expected) /\ Len(strokes(i)) = Len(code.keys)
  <2>1. states[i] \in States
    <3>1. states[i] \in all
      BY <1>5
    <3> QED BY <3>1 DEF States
  <2>2. strokes(i) \in [1 .. Len(code.keys) -> Expected]
    BY <1>6, <1>7, <2>1 DEF Expected
  <2> HIDE DEF strokes
  <2> QED BY <1>6, <2>2, IsASeq, LenProperties
<1>9. new = [i \in 1 .. n |->
               [strokes |-> strokes(i), boot |-> number, continues |-> continues,
                waiting |-> 0, late |-> phase # "starting" /\ stopEvents = 0]]
  <2>1. DOMAIN states = 1 .. n
    BY <1>5
  <2> QED BY <2>1 DEF HotkeysOf, states
<1> HIDE DEF strokes, new
<1>10. (phase # "starting" /\ stopEvents = 0) \in BOOLEAN
  OBVIOUS
<1>11. new \in [1 .. n -> Hotkey]
  BY <1>8, <1>9, <1>10 DEF Hotkey
<1>12. new \in Seq(Hotkey) /\ DOMAIN new = 1 .. n
  BY <1>3, <1>11, IsASeq
<1>13. \A i \in 1 .. n :
         /\ WellFormed(new[i]) /\ new[i].waiting = 0
         /\ new[i].late = (phase # "starting" /\ stopEvents = 0)
  BY <1>1, <1>6, <1>8, <1>9 DEF WellFormed
<1> QED BY <1>12, <1>13 DEF new

(* Registration with the consoles.                                         *)
LEMMA RegisterTypes ==
  ASSUME TypeOK, NEW hotkeys \in Seq(Hotkey), NEW where, Register(hotkeys, where)
  PROVE  registered' \in [Consoles -> SUBSET Expected]
<1>1. \A h \in ToSet(hotkeys) : ToSet(h.strokes) \subseteq Expected
  <2> SUFFICES ASSUME NEW h \in ToSet(hotkeys), NEW x \in ToSet(h.strokes)
               PROVE  x \in Expected
    OBVIOUS
  <2>1. h \in Hotkey
    BY DEF ToSet
  <2>2. h.strokes \in Seq(Expected)
    BY <2>1 DEF Hotkey
  <2>3. PICK j \in DOMAIN h.strokes : x = h.strokes[j]
    BY DEF ToSet
  <2>4. j \in 1 .. Len(h.strokes)
    BY <2>2, <2>3
  <2> QED BY <2>2, <2>3, <2>4, ElementOfSeq
<1>2. UNION {ToSet(h.strokes) : h \in ToSet(hotkeys)} \subseteq Expected
  BY <1>1
<1> DEFINE S == UNION {ToSet(h.strokes) : h \in ToSet(hotkeys)}
           Taken(c, cut) == {s \in S :
           /\ c \in where
           /\ \E i \in DOMAIN hotkeys : \E j \in DOMAIN hotkeys[i].strokes :
                /\ hotkeys[i].strokes[j] = s
                /\ c \in Flaky => j <= cut[c][i]}
<1>3. \E cut : registered' = [c \in Consoles |-> registered[c] \union Taken(c, cut)]
  BY DEF Register
<1>4. \A c, cut : Taken(c, cut) \subseteq Expected
  BY <1>2
<1> HIDE DEF Taken
<1> QED BY <1>3, <1>4 DEF TypeOK

(* Entries at the end of the list.                                         *)
LEMMA AppendKeeps ==
  ASSUME TypeOK, ListHolds, recent' = recent,
         NEW new \in Seq(Hotkey),
         \A i \in DOMAIN new : WellFormed(new[i]) /\ new[i].waiting = 0,
         list' = list \o new
  PROVE  /\ list' \in Seq(Hotkey)
         /\ ListHolds'
         /\ \A i \in DOMAIN list' : \/ \E j \in DOMAIN list : list'[i] = list[j]
                                    \/ \E j \in DOMAIN new : list'[i] = new[j]
<1>1. list \in Seq(Hotkey)
  BY DEF TypeOK
<1>2. list \o new \in Seq(Hotkey)
  BY <1>1, ConcatProperties
<1>3. \A i \in DOMAIN (list \o new) :
        \/ i \in DOMAIN list /\ (list \o new)[i] = list[i]
        \/ \E j \in DOMAIN new : (list \o new)[i] = new[j]
  <2>1. /\ Len(list \o new) = Len(list) + Len(new)
        /\ \A i \in 1 .. Len(list) + Len(new) : (list \o new)[i] =
                   IF i <= Len(list) THEN list[i] ELSE new[i - Len(list)]
    BY <1>1, ConcatProperties
  <2>2. /\ DOMAIN list = 1 .. Len(list) /\ DOMAIN new = 1 .. Len(new)
        /\ DOMAIN (list \o new) = 1 .. Len(list \o new)
        /\ Len(list) \in Nat /\ Len(new) \in Nat
    BY <1>1, <1>2, LenProperties
  <2> QED BY <2>1, <2>2
<1>4. \A j \in DOMAIN new : Follows(new[j])
  <2>1. Len(recent) \in Nat
    BY DEF TypeOK
  <2> QED BY <2>1 DEF Follows
<1>5. \A i \in DOMAIN list' : WellFormed(list'[i]) /\ Follows(list'[i])
  BY <1>3, <1>4 DEF ListHolds
<1>6. ListHolds'
  BY <1>5 DEF ListHolds, Follows, WellFormed
<1> QED BY <1>2, <1>3, <1>6

(* What a code does not add cannot listen.                                 *)
LEMMA Supported ==
  ASSUME NEW code \in Codes, ~(Len(code.keys) > SupportCount)
  PROVE  Len(code.keys) <= SupportCount
<1>1. code.keys \in Seq(ToSet(code.keys)) /\ SupportCount \in Nat
  BY HotKeysAssumption
<1> QED BY <1>1

(* Entries added or kept.                                                  *)
LEMMA ProcessKeeps ==
  ASSUME TypeOK, ListHolds, recent' = recent,
         NEW code \in Codes, NEW number \in Boots \union {None},
         NEW continues \in BOOLEAN, ~continues => number \in Boots,
         Process(code, number, continues)
  PROVE  /\ list' \in Seq(Hotkey)
         /\ registered' \in [Consoles -> SUBSET Expected]
         /\ ListHolds'
         /\ /\ phase # "starting" /\ stopEvents = 0
            /\ \A i \in DOMAIN list : list[i].late
            => \A i \in DOMAIN list' : list'[i].late
<1>1. CASE Len(code.keys) > SupportCount
  BY <1>1 DEF Process, keyboard, TypeOK, ListHolds, Follows, WellFormed
<1>2. CASE ~(Len(code.keys) > SupportCount)
  <2> DEFINE new == HotkeysOf(code, number, continues)
  <2>1. /\ new \in Seq(Hotkey)
        /\ \A i \in DOMAIN new :
             /\ WellFormed(new[i]) /\ new[i].waiting = 0
             /\ new[i].late = (phase # "starting" /\ stopEvents = 0)
    BY <1>2, Supported, NewHotkeys
  <2>2. list' = list \o new /\ Register(new, consoles)
    BY <1>2 DEF Process
  <2> HIDE DEF new
  <2>3. registered' \in [Consoles -> SUBSET Expected]
    BY <2>1, <2>2, RegisterTypes
  <2>4. /\ list' \in Seq(Hotkey)
        /\ ListHolds'
        /\ \A i \in DOMAIN list' : \/ \E j \in DOMAIN list : list'[i] = list[j]
                                   \/ \E j \in DOMAIN new : list'[i] = new[j]
    BY <2>1, <2>2, AppendKeeps
  <2>5. /\ phase # "starting" /\ stopEvents = 0
        /\ \A i \in DOMAIN list : list[i].late
        => \A i \in DOMAIN list' : list'[i].late
    BY <2>1, <2>4
  <2> QED BY <2>3, <2>4, <2>5
<1> QED BY <1>1, <1>2

----------------------------------------------------------------------------
(* A stroke.                                                               *)

(* An entry that goes on still follows what was typed.                     *)
LEMMA StillFollows ==
  ASSUME TypeOK, NEW h \in Hotkey, WellFormed(h), Follows(h),
         NEW stroke \in Strokes, Matches(stroke, h.strokes[h.waiting + 1])
  PROVE  LET all == Append(recent, stroke)
             w == h.waiting + 1
         IN  /\ w <= Len(all)
             /\ \A j \in 1 .. w : Matches(all[Len(all) - w + j], h.strokes[j])
<1> DEFINE all == Append(recent, stroke)
           w == h.waiting
           r == Len(recent)
<1>1. w \in Nat
  BY DEF Hotkey
<1>2. /\ r \in Nat /\ Len(all) = r + 1 /\ all[Len(all)] = stroke
      /\ \A i \in 1 .. r : all[i] = recent[i]
  BY DEF TypeOK
<1>3. w <= r /\ \A j \in 1 .. w : Matches(recent[r - w + j], h.strokes[j])
  BY DEF Follows
<1> SUFFICES /\ w + 1 <= Len(all)
             /\ \A j \in 1 .. w + 1 :
                  Matches(all[Len(all) - (w + 1) + j], h.strokes[j])
  OBVIOUS
<1> HIDE DEF all, w, r
<1>4. ASSUME NEW j \in 1 .. w + 1
      PROVE  Matches(all[Len(all) - (w + 1) + j], h.strokes[j])
  <2>1. CASE j = w + 1
    <3>1. Len(all) - (w + 1) + j = Len(all)
      BY <1>1, <1>2, <2>1
    <3> QED BY <1>2, <2>1, <3>1 DEF w
  <2>2. CASE j # w + 1
    <3>1. j \in 1 .. w
      BY <1>1, <2>2
    <3>2. Len(all) - (w + 1) + j = r - w + j /\ r - w + j \in 1 .. r
      <4>1. /\ w \in Nat /\ r \in Nat /\ w <= r
            /\ j \in Nat /\ 1 <= j /\ j <= w
        BY <1>1, <1>2, <1>3, <3>1
      <4>2. Len(all) - (w + 1) + j = r - w + j
        BY <1>2, <4>1
      <4> QED BY <4>1, <4>2
    <3> QED BY <1>2, <1>3, <3>1, <3>2
  <2> QED BY <2>1, <2>2
<1> QED BY <1>1, <1>2, <1>3, <1>4

(* An entry moves on by the stroke or starts again.                        *)
LEMMA AdvancedHolds ==
  ASSUME TypeOK, NEW h \in Hotkey, WellFormed(h), Follows(h),
         NEW stroke \in Strokes
  PROVE  LET all == Append(recent, stroke)
             next == Advanced(h, stroke)
         IN  /\ next \in Hotkey /\ WellFormed(next)
             /\ next.late = h.late
             /\ next.waiting <= SupportCount /\ next.waiting <= Len(all)
             /\ \A j \in 1 .. next.waiting :
                  Matches(all[Len(all) - next.waiting + j], next.strokes[j])
<1> DEFINE all == Append(recent, stroke)
           next == Advanced(h, stroke)
           w == h.waiting
<1>1. /\ w \in Nat /\ h.strokes \in Seq(Expected)
      /\ Len(h.strokes) \in Nat /\ Len(h.strokes) >= 1
      /\ Len(h.strokes) <= SupportCount /\ w < Len(h.strokes)
      /\ SupportCount \in Nat
  BY HotKeysAssumption DEF Hotkey, WellFormed
<1>2. /\ Len(recent) \in Nat /\ Len(all) = Len(recent) + 1
      /\ all[Len(all)] = stroke
      /\ \A i \in 1 .. Len(recent) : all[i] = recent[i]
  BY DEF TypeOK
<1>3. ASSUME NEW v \in Nat, next = [h EXCEPT !.waiting = v], v < Len(h.strokes)
      PROVE  /\ next \in Hotkey /\ WellFormed(next) /\ next.late = h.late
             /\ next.waiting = v /\ next.strokes = h.strokes
  <2> HIDE DEF next
  <2>1. next \in Hotkey /\ next.waiting = v /\ next.strokes = h.strokes
        /\ next.late = h.late /\ next.continues = h.continues
        /\ next.boot = h.boot
    BY <1>3 DEF Hotkey
  <2> QED BY <1>3, <2>1 DEF WellFormed
<1>4. CASE Matches(stroke, h.strokes[w + 1]) /\ w + 1 < Len(h.strokes)
  <2>1. (w + 1) % Len(h.strokes) = w + 1
    BY <1>1, <1>4
  <2>2. next = [h EXCEPT !.waiting = w + 1]
    BY <1>4, <2>1 DEF Advanced
  <2>3. /\ next \in Hotkey /\ WellFormed(next) /\ next.late = h.late
        /\ next.waiting = w + 1 /\ next.strokes = h.strokes
    BY <1>1, <1>3, <1>4, <2>2
  <2> HIDE DEF next, all
  <2>4. /\ w + 1 <= Len(all)
        /\ \A j \in 1 .. w + 1 : Matches(all[Len(all) - (w + 1) + j], h.strokes[j])
    BY <1>4, StillFollows DEF all
  <2>6. /\ w + 1 <= SupportCount /\ w + 1 <= Len(all)
        /\ \A j \in 1 .. next.waiting :
             Matches(all[Len(all) - next.waiting + j], next.strokes[j])
    BY <1>1, <2>3, <2>4
  <2> QED BY <2>3, <2>6 DEF next, all
<1>5. CASE ~(Matches(stroke, h.strokes[w + 1]) /\ w + 1 < Len(h.strokes))
  <2>1. next = [h EXCEPT !.waiting = 0]
    <3>1. CASE Matches(stroke, h.strokes[w + 1])
      <4>1. w + 1 = Len(h.strokes)
        BY <1>1, <1>5, <3>1
      <4>2. (w + 1) % Len(h.strokes) = 0
        BY <1>1, <4>1
      <4> QED BY <3>1, <4>2 DEF Advanced
    <3>2. CASE ~Matches(stroke, h.strokes[w + 1])
      BY <3>2 DEF Advanced
    <3> QED BY <3>1, <3>2
  <2>2. /\ next \in Hotkey /\ WellFormed(next) /\ next.late = h.late
        /\ next.waiting = 0
    BY <1>1, <1>3, <2>1
  <2> HIDE DEF next, all
  <2>3. 0 <= SupportCount /\ 0 <= Len(all) /\ 1 .. 0 = {}
    BY <1>1, <1>2
  <2> QED BY <2>2, <2>3 DEF next, all
<1> QED BY <1>4, <1>5

(* A choice that is made comes from a hot key that has been completed.     *)
LEMMA ChosenFrom ==
  ASSUME TypeOK, ListHolds, NEW completed, completed \subseteq DOMAIN list
  PROVE  \/ Chosen(completed) \in {pending, None}
         \/ /\ Chosen(completed) \in Choice
            /\ \E i \in completed : /\ ~list[i].continues
                                    /\ list[i].boot = Chosen(completed).boot
<1> DEFINE booting == {i \in completed : ~list[i].continues}
           m == Max(booting)
<1>1. CASE booting = {} \/ bootVar[list[m].boot] = Missing
  BY <1>1 DEF Chosen
<1>2. CASE ~(booting = {} \/ bootVar[list[m].boot] = Missing)
  <2>1. booting \subseteq 0 .. Len(list) /\ Len(list) \in Nat
    BY DEF TypeOK
  <2>2. m \in booting
    BY <1>2, <2>1, MaxExists
  <2>3. m \in completed /\ m \in DOMAIN list /\ ~list[m].continues
    BY <2>2
  <2>4. list[m].boot \in Boots
    BY <2>3 DEF ListHolds, WellFormed
  <2> HIDE DEF m
  <2>5. Chosen(completed) = [boot |-> list[m].boot, content |-> bootVar[list[m].boot]]
    BY <1>2 DEF Chosen, m
  <2>6. bootVar[list[m].boot] \in Contents
    BY <1>2, <2>4 DEF TypeOK
  <2> QED BY <2>3, <2>4, <2>5, <2>6 DEF Choice
<1> QED BY <1>1, <1>2

(* What the callback does with the lock.                                   *)
LEMMA AdvanceKeeps ==
  ASSUME IInv, NEW stroke \in Strokes, Advance(stroke),
         pending = None \/ noticed # <<>>, noticed' \in Seq(Callback)
  PROVE  IInv'
<1> DEFINE completed == {i \in DOMAIN list : Completes(list[i], stroke)}
           all == Append(recent, stroke)
           L == Len(all)
           waits == {h.waiting : h \in ToSet(list')}
           wanted == Max({0} \union waits)
           m == Min({wanted, L})
<1>1. list' = [i \in DOMAIN list |-> Advanced(list[i], stroke)]
  BY DEF Advance
<1>2. /\ list \in Seq(Hotkey) /\ DOMAIN list = 1 .. Len(list) /\ Len(list) \in Nat
      /\ \A i \in DOMAIN list : /\ list[i] \in Hotkey
                                /\ WellFormed(list[i]) /\ Follows(list[i])
  BY DEF IInv, TypeOK, ListHolds
<1>3. \A i \in DOMAIN list' :
        /\ list'[i] \in Hotkey /\ WellFormed(list'[i])
        /\ list'[i].late = list[i].late
        /\ list'[i].waiting <= SupportCount /\ list'[i].waiting <= L
        /\ \A j \in 1 .. list'[i].waiting :
             Matches(all[L - list'[i].waiting + j], list'[i].strokes[j])
  <2> SUFFICES ASSUME NEW i \in DOMAIN list
               PROVE  LET h == Advanced(list[i], stroke)
                      IN  /\ h \in Hotkey /\ WellFormed(h)
                          /\ h.late = list[i].late
                          /\ h.waiting <= SupportCount /\ h.waiting <= L
                          /\ \A j \in 1 .. h.waiting :
                               Matches(all[L - h.waiting + j], h.strokes[j])
    BY <1>1
  <2>1. TypeOK
    BY DEF IInv
  <2> QED BY <1>2, <2>1, AdvancedHolds
<1>4. list' \in Seq(Hotkey) /\ DOMAIN list' = DOMAIN list
  <2>1. list' \in [1 .. Len(list) -> Hotkey]
    BY <1>1, <1>2, <1>3
  <2> QED BY <1>2, <2>1
<1>5. all \in Seq(Strokes) /\ L \in Nat
  BY DEF IInv, TypeOK
<1>6. \A i \in DOMAIN list' : list'[i].waiting \in waits
  BY DEF ToSet
<1>7. waits \subseteq 0 .. SupportCount /\ SupportCount \in Nat
  <2>1. SupportCount \in Nat
    BY HotKeysAssumption
  <2>2. \A i \in DOMAIN list' : list'[i].waiting \in 0 .. SupportCount
    BY <1>3, <2>1 DEF Hotkey
  <2> QED BY <2>1, <2>2 DEF ToSet
<1> HIDE DEF waits
<1>8. wanted \in Nat /\ \A x \in waits : x <= wanted
  <2>1. {0} \union waits \subseteq 0 .. SupportCount
    BY <1>7
  <2>2. wanted \in {0} \union waits /\ \A x \in {0} \union waits : x <= wanted
    BY <1>7, <2>1, MaxExists
  <2> HIDE DEF wanted
  <2>3. wanted \in 0 .. SupportCount
    BY <2>1, <2>2
  <2>4. wanted \in Nat
    BY <1>7, <2>3
  <2>5. \A x \in waits : x <= wanted
    BY <2>2, Zenon
  <2> QED BY <2>4, <2>5
<1> HIDE DEF wanted, L
<1>9. /\ m \in Nat /\ m <= L
      /\ \A x \in Nat : x <= wanted /\ x <= L => x <= m
  <2>1. {wanted, L} \subseteq Nat
    BY <1>5, <1>8
  <2>2. m \in {wanted, L} /\ \A x \in {wanted, L} : m <= x
    BY <2>1, MinExists
  <2> QED BY <1>5, <1>8, <2>2
<1>10. recent' = SubSeq(all, L - m + 1, L)
  BY DEF Advance, L, wanted, waits
<1> HIDE DEF m, all
<1>11. /\ recent' \in Seq(Strokes) /\ Len(recent') = m
       /\ \A i \in 1 .. m : recent'[i] = all[L - m + i]
  <2>1. L - m + 1 \in 1 .. L + 1 /\ L = Len(all)
    BY <1>5, <1>9 DEF L
  <2>2. /\ recent' \in Seq(Strokes)
        /\ Len(recent') = IF L - m + 1 <= L THEN L - (L - m + 1) + 1 ELSE 0
        /\ \A i \in 1 .. L - (L - m + 1) + 1 :
             recent'[i] = all[(L - m + 1) + i - 1]
    BY <1>5, <1>10, <2>1, SubSeqProperties
  <2>3. L - (L - m + 1) + 1 = m /\ \A i \in 1 .. m : (L - m + 1) + i - 1 = L - m + i
    BY <1>5, <1>9
  <2>4. (IF L - m + 1 <= L THEN m ELSE 0) = m
    BY <1>5, <1>9
  <2> QED BY <2>2, <2>3, <2>4
<1>12. ListHolds'
  <2> SUFFICES ASSUME NEW i \in DOMAIN list'
               PROVE  WellFormed(list'[i]) /\ Follows(list[i])'
    BY DEF ListHolds, WellFormed, Follows
  <2> DEFINE h == list'[i]
             w == h.waiting
  <2>1. w \in Nat /\ w <= L /\ w <= m
    <3>1. w \in Nat
      BY <1>3 DEF Hotkey
    <3> QED BY <1>3, <1>6, <1>8, <1>9, <3>1
  <2>2. \A j \in 1 .. w : Matches(all[L - w + j], h.strokes[j])
    BY <1>3
  <2>3. WellFormed(h)
    BY <1>3
  <2> HIDE DEF w
  <2>4. \A j \in 1 .. w : recent'[m - w + j] = all[L - w + j]
    <3> TAKE j \in 1 .. w
    <3>1. m - w + j \in 1 .. m /\ L - m + (m - w + j) = L - w + j
      BY <1>5, <1>9, <2>1
    <3> QED BY <1>11, <3>1
  <2>5. w <= Len(recent') /\ \A j \in 1 .. w : Matches(recent'[Len(recent') - w + j], h.strokes[j])
    BY <1>11, <2>1, <2>2, <2>4
  <2> QED BY <2>3, <2>5 DEF Follows, w
<1>13. pending' \in Choice \union {None} /\ ~byHotkey
  <2>1. TypeOK /\ ListHolds /\ ~byHotkey
    BY DEF IInv, ChosenBoots
  <2>2. pending' = Chosen(completed) /\ pending \in Choice \union {None}
    BY <2>1 DEF Advance, TypeOK
  <2>3. completed \subseteq DOMAIN list
    OBVIOUS
  <2> HIDE DEF completed
  <2> QED BY <2>1, <2>2, <2>3, ChosenFrom
<1>14. /\ UNCHANGED <<bootVar, options, registered, continueKey, started, stopEvents,
                     hooked, todo, starts, consoles, phase, byHotkey>>
       /\ triggered' = (triggered \/ completed # {})
  BY DEF Advance, store, service, boot
<1>15. TypeOK'
  <2>1. triggered' \in BOOLEAN
    BY <1>14
  <2> HIDE DEF completed
  <2> QED BY <1>4, <1>11, <1>13, <1>14, <2>1 DEF IInv, TypeOK
<1>16. OnlyLate' /\ ChosenBoots'
  BY <1>3, <1>4, <1>13, <1>14 DEF IInv, OnlyLate, ChosenBoots
<1> QED BY <1>12, <1>15, <1>16 DEF IInv

LEMMA PressKeeps ==
  ASSUME IInv, NEW c \in Consoles, NEW stroke \in Strokes, Press(c, stroke)
  PROVE  IInv'
<1>1. pending = None /\ Advance(stroke) /\ noticed' = noticed
  BY DEF Press, Heard
<1>2. noticed' \in Seq(Callback)
  BY <1>1 DEF IInv, TypeOK
<1> QED BY <1>1, <1>2, AdvanceKeeps

(* A callback that is interrupted before the lock.                         *)
LEMMA NoticeKeeps ==
  ASSUME IInv, NEW c \in Consoles, NEW stroke \in Strokes, Notice(c, stroke)
  PROVE  IInv'
<1>1. /\ pending = None
      /\ noticed' = Append(noticed, [console |-> c, stroke |-> stroke])
      /\ UNCHANGED <<bootVar, options, continueKey, started, list, registered,
                     stopEvents, hooked, todo, starts, consoles, pending, triggered,
                     recent, phase, byHotkey>>
  BY DEF Notice, Heard, store, keyboard, service, outcome, boot
<1>2. noticed' \in Seq(Callback)
  <2>1. [console |-> c, stroke |-> stroke] \in Callback
    BY DEF Callback
  <2>2. noticed \in Seq(Callback)
    BY DEF IInv, TypeOK
  <2> QED BY <1>1, <2>1, <2>2, AppendProperties
<1>3. TypeOK'
  BY <1>1, <1>2 DEF IInv, TypeOK
<1>4. ListHolds' /\ OnlyLate' /\ ChosenBoots'
  BY <1>1 DEF IInv, ListHolds, WellFormed, Follows, OnlyLate, ChosenBoots
<1> QED BY <1>3, <1>4 DEF IInv

(* ... and goes on.                                                        *)
LEMMA ResumeKeeps ==
  ASSUME IInv, NEW stroke \in Strokes, Resume(stroke)
  PROVE  IInv'
<1>1. noticed # <<>> /\ Advance(stroke) /\ noticed' = Front(noticed)
  BY DEF Resume
<1>2. noticed' \in Seq(Callback)
  <2>1. noticed \in Seq(Callback)
    BY DEF IInv, TypeOK
  <2>2. Len(noticed) \in Nat /\ Len(noticed) >= 1
    BY <1>1, <2>1, EmptySeq, LenProperties
  <2>3. noticed' = SubSeq(noticed, 1, Len(noticed) - 1)
    BY <1>1 DEF Front
  <2> QED BY <2>1, <2>2, <2>3, SubSeqProperties
<1> QED BY <1>1, <1>2, AdvanceKeeps

----------------------------------------------------------------------------
(* Key options.                                                            *)

LEMMA KeyOptionsSorted ==
  ASSUME TypeOK
  PROVE  LET n == Cardinality(ValidNumbers)
         IN  /\ n \in Nat /\ ValidNumbers \subseteq Nat
             /\ KeyOptions \in [1 .. n -> ValidNumbers] /\ Sorted(KeyOptions)
             /\ \A x \in ValidNumbers : \E i \in 1 .. n : KeyOptions[i] = x
<1>1. ValidNumbers \subseteq 0 .. MaxNumber /\ MaxNumber \in Nat
  BY HotKeysAssumption DEF ValidNumbers, Numbers
<1>2. ValidNumbers \subseteq Nat
  BY <1>1
<1> QED BY <1>1, <1>2, AscendingSorts DEF KeyOptions

(* The first gap in the numbers of the valid options is no valid number.   *)
LEMMA FreeNumberUnused ==
  ASSUME TypeOK PROVE FreeNumber \in Nat /\ FreeNumber \notin ValidNumbers
<1> DEFINE s == KeyOptions
           n == Cardinality(ValidNumbers)
           gaps == {i \in DOMAIN s : s[i] > i - 1}
<1>1. /\ n \in Nat /\ ValidNumbers \subseteq Nat
      /\ s \in [1 .. n -> ValidNumbers] /\ Sorted(s)
      /\ \A x \in ValidNumbers : \E i \in 1 .. n : s[i] = x
  BY KeyOptionsSorted
<1>2. Len(s) = n /\ DOMAIN s = 1 .. n
  BY <1>1
<1>3. FreeNumber = IF gaps = {} THEN n ELSE Min(gaps) - 1
  BY <1>2 DEF FreeNumber
<1> HIDE DEF s, n
<1>4. \A i \in 1 .. n : s[i] \in Nat
  BY <1>1
<1>5. CASE gaps = {}
  <2>1. \A i \in 1 .. n : s[i] <= i - 1
    BY <1>2, <1>4, <1>5
  <2>2. \A i \in 1 .. n : s[i] # n
    BY <1>1, <1>4, <2>1
  <2> QED BY <1>1, <1>3, <1>5, <2>2
<1>6. CASE gaps # {}
  <2> DEFINE m == Min(gaps)
  <2>1. gaps \subseteq Nat
    BY <1>2
  <2>2. m \in gaps /\ \A i \in gaps : m <= i
    BY <1>6, <2>1, MinExists
  <2> HIDE DEF m
  <2>3. m \in 1 .. n /\ s[m] > m - 1
    BY <1>2, <2>2
  <2>4. ASSUME NEW i \in 1 .. n PROVE s[i] # m - 1
    <3>1. CASE i < m
      <4>1. i \notin gaps
        BY <2>2, <2>3, <3>1
      <4>2. s[i] <= i - 1
        BY <1>2, <1>4, <4>1
      <4> QED BY <1>4, <2>3, <3>1, <4>2
    <3>2. CASE i = m
      BY <1>4, <2>3, <3>2
    <3>3. CASE i > m
      <4>1. s[m] < s[i]
        BY <1>1, <1>2, <2>3, <3>3 DEF Sorted
      <4> QED BY <1>4, <2>3, <4>1
    <3> QED BY <2>3, <3>1, <3>2, <3>3
  <2>5. FreeNumber = m - 1 /\ m - 1 \in Nat
    BY <1>3, <1>6, <2>3 DEF m
  <2> QED BY <1>1, <2>4, <2>5
<1> QED BY <1>5, <1>6

(* What a valid number stands for.                                         *)
LEMMA ValidIsOption ==
  ASSUME TypeOK, NEW n \in ValidNumbers PROVE options[n] \in KeyOption
BY DEF ValidNumbers, Valid, TypeOK

----------------------------------------------------------------------------
(* The steps.                                                              *)

LEMMA InitIInv == Init => IInv
<1> SUFFICES ASSUME Init PROVE IInv
  OBVIOUS
<1>1. list = <<>> /\ DOMAIN list = {}
  BY DEF Init
<1>2. /\ list \in Seq(Hotkey) /\ todo \in Seq(KeyOption)
      /\ recent \in Seq(Strokes) /\ noticed \in Seq(Callback)
  BY <1>1, EmptySeq DEF Init
<1>3. TypeOK
  <2>1. starts \in 0 .. MaxStarts /\ stopEvents \in Nat
    BY HotKeysAssumption DEF Init
  <2>2. /\ options \in [Numbers -> KeyOption \union {None}]
        /\ registered \in [Consoles -> SUBSET Expected]
    BY DEF Init
  <2> QED BY <1>2, <2>1, <2>2 DEF Init, TypeOK
<1>4. ListHolds /\ OnlyLate /\ ChosenBoots
  BY <1>1 DEF Init, ListHolds, OnlyLate, ChosenBoots
<1> QED BY <1>3, <1>4 DEF IInv

LEMMA AddKeeps ==
  ASSUME IInv, NEW code \in Codes, NEW number \in Boots,
         AddKeyOption(code, number)
  PROVE  IInv'
<1>1. /\ phase = "idle"
      /\ UNCHANGED <<bootVar, continueKey, started, stopEvents, hooked, todo, starts,
                     consoles, pending, triggered, recent, noticed, phase, byHotkey>>
  BY DEF Undisturbed, AddKeyOption, service, outcome, boot
<1>2. /\ list' \in Seq(Hotkey)
      /\ registered' \in [Consoles -> SUBSET Expected]
      /\ ListHolds'
      /\ stopEvents = 0 /\ (\A i \in DOMAIN list : list[i].late) =>
             \A i \in DOMAIN list' : list'[i].late
  <2>1. CASE started
    <3>1. Process(code, number, FALSE)
      BY <2>1 DEF AddKeyOption
    <3> QED BY <1>1, <3>1, ProcessKeeps DEF IInv
  <2>2. CASE ~started
    <3>1. UNCHANGED keyboard
      BY <2>2 DEF AddKeyOption
    <3> QED BY <1>1, <3>1 DEF keyboard, IInv, TypeOK, ListHolds, WellFormed, Follows
  <2> QED BY <2>1, <2>2
<1>3. options' \in [Numbers -> KeyOption \union {None}]
  <2>1. bootVar[number] \in Contents
    BY DEF AddKeyOption, IInv, TypeOK
  <2>2. [code |-> code, boot |-> number, crc |-> bootVar[number]] \in KeyOption
    BY <2>1 DEF KeyOption
  <2> QED BY <2>2 DEF AddKeyOption, IInv, TypeOK
<1> QED BY <1>1, <1>2, <1>3 DEF IInv, TypeOK, OnlyLate, ChosenBoots

LEMMA DeleteKeeps ==
  ASSUME IInv, NEW code \in Codes, DeleteKeyOption(code)
  PROVE  IInv'
<1> DEFINE mine(h) == /\ [j \in DOMAIN h.strokes |-> h.strokes[j].key] = code.keys
                      /\ DOMAIN h.strokes[1].state = code.mods
           S == {i \in DOMAIN list : ~mine(list[i])}
           left == Ascending(S)
           n == Cardinality(S)
<1>1. /\ phase = "idle"
      /\ UNCHANGED <<bootVar, registered, continueKey, started, stopEvents, hooked,
                     todo, starts, consoles, pending, triggered, recent, noticed,
                     phase, byHotkey>>
  BY DEF Undisturbed, DeleteKeyOption, service, outcome, boot
<1>2. list' = [i \in DOMAIN left |-> list[left[i]]]
  BY DEF DeleteKeyOption
<1>3. S \subseteq DOMAIN list
  OBVIOUS
<1> HIDE DEF S
<1>4. /\ list \in Seq(Hotkey) /\ DOMAIN list = 1 .. Len(list) /\ Len(list) \in Nat
      /\ \A i \in DOMAIN list : list[i] \in Hotkey
  BY DEF IInv, TypeOK
<1>5. n \in Nat /\ left \in [1 .. n -> S]
  <2>1. S \subseteq 0 .. Len(list)
    BY <1>3, <1>4
  <2> QED BY <1>4, <2>1, AscendingSorts
<1> HIDE DEF left, n
<1>6. \A i \in DOMAIN list' : left[i] \in DOMAIN list /\ list'[i] = list[left[i]]
  BY <1>2, <1>3, <1>5
<1>7. list' \in Seq(Hotkey)
  <2>1. list' \in [1 .. n -> Hotkey]
    BY <1>2, <1>4, <1>5, <1>6
  <2> QED BY <1>5, <2>1
<1>8. ListHolds'
  BY <1>1, <1>6 DEF IInv, ListHolds, WellFormed, Follows
<1>9. OnlyLate'
  BY <1>1, <1>6 DEF IInv, OnlyLate
<1>10. options' \in [Numbers -> KeyOption \union {None}]
  <2>1. \E k : options' = [options EXCEPT ![k] = None] \/ options' = options
    BY DEF DeleteKeyOption
  <2> QED BY <2>1 DEF IInv, TypeOK
<1> QED BY <1>1, <1>7, <1>8, <1>9, <1>10 DEF IInv, TypeOK, ChosenBoots

LEMMA ContinueKeeps ==
  ASSUME IInv, NEW code \in Codes, RegisterContinueKey(code)
  PROVE  IInv'
<1>1. /\ phase = "idle" /\ continueKey' = code
      /\ UNCHANGED <<bootVar, options, started, stopEvents, hooked, todo, starts,
                     consoles, pending, triggered, recent, noticed, phase, byHotkey>>
  BY DEF Undisturbed, RegisterContinueKey, store, outcome, boot
<1>2. /\ list' \in Seq(Hotkey)
      /\ registered' \in [Consoles -> SUBSET Expected]
      /\ ListHolds'
      /\ stopEvents = 0 /\ (\A i \in DOMAIN list : list[i].late) =>
             \A i \in DOMAIN list' : list'[i].late
  <2>1. CASE started
    <3>1. Process(code, None, TRUE)
      BY <2>1 DEF RegisterContinueKey
    <3> QED BY <1>1, <3>1, ProcessKeeps DEF IInv
  <2>2. CASE ~started
    <3>1. UNCHANGED keyboard
      BY <2>2 DEF RegisterContinueKey
    <3> QED BY <1>1, <3>1 DEF keyboard, IInv, TypeOK, ListHolds, WellFormed, Follows
  <2> QED BY <2>1, <2>2
<1> QED BY <1>1, <1>2 DEF IInv, TypeOK, OnlyLate, ChosenBoots

(* The service starts: its options are listed, processed one after the     *)
(* other, and then the event is there that will stop it.                   *)
LEMMA StartKeeps ==
  ASSUME IInv, StartService PROVE IInv'
<1>1. /\ phase' = "starting" /\ starts' = starts + 1 /\ starts < MaxStarts
      /\ triggered' = FALSE /\ phase = "idle"
      /\ todo' = [i \in DOMAIN KeyOptions |-> options[KeyOptions[i]]]
      /\ UNCHANGED <<bootVar, options, continueKey, started, list, registered,
                     stopEvents, hooked, consoles, pending, recent, noticed, byHotkey>>
  BY DEF Undisturbed, StartService, store, keyboard
<1>2. todo' \in Seq(KeyOption)
  <2> DEFINE n == Cardinality(ValidNumbers)
  <2>1. n \in Nat /\ KeyOptions \in [1 .. n -> ValidNumbers]
    BY KeyOptionsSorted DEF IInv
  <2> HIDE DEF n
  <2>2. \A i \in 1 .. n : options[KeyOptions[i]] \in KeyOption
    BY <2>1, ValidIsOption DEF IInv
  <2>3. todo' \in [1 .. n -> KeyOption]
    BY <1>1, <2>1, <2>2
  <2> QED BY <2>1, <2>3
<1>3. starts' \in 0 .. MaxStarts
  BY <1>1, HotKeysAssumption DEF IInv, TypeOK
<1>4. TypeOK'
  BY <1>1, <1>2, <1>3 DEF IInv, TypeOK
<1>5. ListHolds' /\ OnlyLate' /\ ChosenBoots'
  BY <1>1 DEF IInv, ListHolds, WellFormed, Follows, OnlyLate, ChosenBoots
<1> QED BY <1>4, <1>5 DEF IInv

LEMMA ProcessNextKeeps ==
  ASSUME IInv, ProcessNext PROVE IInv'
<1> DEFINE o == Head(todo)
<1>1. /\ phase = "starting" /\ todo # <<>> /\ todo' = Tail(todo)
      /\ Process(o.code, o.boot, FALSE)
      /\ UNCHANGED <<bootVar, options, continueKey, started, stopEvents, hooked,
                     starts, consoles, pending, triggered, recent, noticed, phase,
                     byHotkey>>
  BY DEF Undisturbed, ProcessNext, store, outcome, boot
<1>2. o \in KeyOption /\ todo' \in Seq(KeyOption)
  <2>1. todo \in Seq(KeyOption)
    BY DEF IInv, TypeOK
  <2> QED BY <1>1, <2>1, HeadTailProperties
<1>3. o.code \in Codes /\ o.boot \in Boots
  BY <1>2 DEF KeyOption
<1> HIDE DEF o
<1>4. /\ list' \in Seq(Hotkey)
      /\ registered' \in [Consoles -> SUBSET Expected]
      /\ ListHolds'
  BY <1>1, <1>3, ProcessKeeps DEF IInv
<1> QED BY <1>1, <1>2, <1>4 DEF IInv, TypeOK, OnlyLate, ChosenBoots

LEMMA StartedKeeps ==
  ASSUME IInv, ServiceStarted PROVE IInv'
<1>1. /\ phase = "starting" /\ phase' = "idle"
      /\ hooked' = TRUE /\ started' = TRUE /\ stopEvents' = stopEvents + 1
      /\ UNCHANGED <<bootVar, options, continueKey, todo, starts, consoles,
                     pending, triggered, recent, noticed, byHotkey>>
  BY DEF Undisturbed, ServiceStarted, HookConsoles, store, outcome
<1>2. list' \in Seq(Hotkey) /\ ListHolds'
  <2>1. CASE continueKey = None \/ Len(continueKey.keys) > SupportCount
    <3>1. list' = list \o <<>> /\ list \in Seq(Hotkey)
      BY <2>1 DEF ServiceStarted, HookConsoles, IInv, TypeOK
    <3>2. list' = list
      BY <3>1, ConcatEmptySeq
    <3> QED BY <1>1, <3>1, <3>2 DEF IInv, ListHolds, WellFormed, Follows
  <2>2. CASE ~(continueKey = None \/ Len(continueKey.keys) > SupportCount)
    <3> DEFINE new == HotkeysOf(continueKey, None, TRUE)
    <3>1. list' = list \o new
      BY <2>2 DEF ServiceStarted, HookConsoles
    <3>2. continueKey \in Codes
      BY <2>2 DEF IInv, TypeOK
    <3>3. /\ new \in Seq(Hotkey)
          /\ \A i \in DOMAIN new : WellFormed(new[i]) /\ new[i].waiting = 0
      BY <2>2, <3>2, Supported, NewHotkeys
    <3> HIDE DEF new
    <3> QED BY <1>1, <3>1, <3>3, AppendKeeps DEF IInv
  <2> QED BY <2>1, <2>2
<1>3. registered' \in [Consoles -> SUBSET Expected]
  <2> DEFINE hotkeys == list'
  <2>1. Register(hotkeys, consoles)
    BY DEF ServiceStarted, HookConsoles
  <2> HIDE DEF hotkeys
  <2>2. hotkeys \in Seq(Hotkey)
    BY <1>2 DEF hotkeys
  <2> QED BY <2>1, <2>2, RegisterTypes DEF IInv
<1>4. stopEvents' \in Nat /\ stopEvents' # 0
  BY <1>1 DEF IInv, TypeOK
<1> QED BY <1>1, <1>2, <1>3, <1>4 DEF IInv, TypeOK, OnlyLate, ChosenBoots

LEMMA ConsoleKeeps ==
  ASSUME IInv, NEW c \in Consoles, NewConsole(c) PROVE IInv'
<1>1. /\ consoles' = consoles \union {c}
      /\ UNCHANGED <<bootVar, options, continueKey, started, list, stopEvents,
                     hooked, todo, starts, pending, triggered, recent, noticed, phase,
                     byHotkey>>
  BY DEF Undisturbed, NewConsole, store, service, outcome, boot
<1>2. registered' \in [Consoles -> SUBSET Expected]
  <2>1. list \in Seq(Hotkey) /\ TypeOK
    BY DEF IInv, TypeOK
  <2>2. CASE hooked
    <3>1. Register(list, {c})
      BY <2>2 DEF NewConsole
    <3> QED BY <2>1, <3>1, RegisterTypes
  <2>3. CASE ~hooked
    BY <2>1, <2>3 DEF NewConsole, TypeOK
  <2> QED BY <2>2, <2>3
<1>3. TypeOK'
  BY <1>1, <1>2 DEF IInv, TypeOK
<1>4. ListHolds' /\ OnlyLate' /\ ChosenBoots'
  BY <1>1 DEF IInv, ListHolds, WellFormed, Follows, OnlyLate, ChosenBoots
<1> QED BY <1>3, <1>4 DEF IInv

(* What boots.  Without an event to stop the service, what is in the list  *)
(* when ReadyToBoot is signalled was late.                                 *)
LEMMA BootingKeeps ==
  ASSUME IInv, Wake \/ Boot \/ ReadyToBoot \/ BootReturns PROVE IInv'
<1>1. CASE Wake \/ Boot
  <2>1. /\ phase = "idle" /\ phase' \in {"idle", "boot"}
        /\ UNCHANGED <<bootVar, options, continueKey, started, list, registered,
                       stopEvents, hooked, todo, starts, consoles, pending, recent,
                       noticed>>
        /\ triggered' \in {triggered, FALSE}
        /\ \/ byHotkey' = byHotkey \/ byHotkey' = FALSE
           \/ byHotkey' = TRUE /\ pending # None /\ noticed = <<>> /\ phase' = "boot"
    <3>1. CASE Wake
      BY <1>1, <3>1 DEF Undisturbed, Wake, store, keyboard, service, boot
    <3>2. CASE Boot
      <4>1. /\ phase = "idle" /\ phase' = "boot"
            /\ byHotkey' \in {FALSE, pending # None}
            /\ noticed = <<>> /\ noticed' = noticed
            /\ UNCHANGED <<store, keyboard, service, consoles, outcome>>
        BY <3>2, Zenon DEF Undisturbed, Boot
      <4>2. \/ byHotkey' = FALSE
            \/ byHotkey' = TRUE /\ pending # None
        BY <4>1, Zenon
      <4> QED BY <4>1, <4>2 DEF store, keyboard, service, outcome
    <3> QED BY <1>1, <3>1, <3>2
  <2>2. TypeOK'
    BY <2>1 DEF IInv, TypeOK
  <2>3. ListHolds' /\ OnlyLate' /\ ChosenBoots'
    BY <2>1 DEF IInv, ListHolds, WellFormed, Follows, OnlyLate, ChosenBoots
  <2> QED BY <2>2, <2>3 DEF IInv
<1>2. CASE ReadyToBoot
  <2>1. /\ phase = "boot" /\ phase' = "image"
        /\ UNCHANGED <<bootVar, options, continueKey, started, hooked, todo, starts,
                       consoles, pending, triggered, recent, noticed, byHotkey>>
    BY <1>2 DEF Undisturbed, ReadyToBoot, store, outcome
  <2>2. /\ \/ list' = <<>>
           \/ list' = list /\ stopEvents = 0
        /\ registered' \in [Consoles -> SUBSET Expected]
        /\ stopEvents' \in Nat
    <3>1. CASE StopService /\ stopEvents' \in {stopEvents, 0}
      BY <3>1 DEF StopService, IInv, TypeOK
    <3>2. CASE stopEvents = 0 /\ UNCHANGED <<keyboard, stopEvents>>
      BY <3>2 DEF keyboard, IInv, TypeOK
    <3> QED BY <1>2, <3>1, <3>2 DEF ReadyToBoot
  <2>3. list' \in Seq(Hotkey)
    BY <2>2, EmptySeq DEF IInv, TypeOK
  <2>4. TypeOK'
    BY <2>1, <2>2, <2>3 DEF IInv, TypeOK
  <2>5. CASE list' = <<>>
    <3>1. DOMAIN list' = {}
      BY <2>5
    <3> QED BY <2>1, <2>4, <3>1 DEF IInv, ListHolds, OnlyLate, ChosenBoots
  <2>6. CASE list' = list /\ stopEvents = 0
    <3>1. ListHolds' /\ OnlyLate' /\ ChosenBoots'
      BY <2>1, <2>6 DEF IInv, ListHolds, WellFormed, Follows, OnlyLate, ChosenBoots
    <3> QED BY <2>4, <3>1 DEF IInv
  <2> QED BY <2>2, <2>5, <2>6
<1>3. CASE BootReturns
  <2>1. /\ phase \in {"boot", "image"} /\ phase' = "idle" /\ byHotkey' = FALSE
        /\ pending' \in {pending, None}
        /\ UNCHANGED <<bootVar, options, continueKey, started, list, registered,
                       stopEvents, hooked, todo, starts, consoles, triggered, recent,
                       noticed>>
    BY <1>3 DEF Undisturbed, BootReturns, store, keyboard, service
  <2>2. TypeOK'
    BY <2>1 DEF IInv, TypeOK
  <2>3. ListHolds' /\ OnlyLate' /\ ChosenBoots'
    BY <2>1 DEF IInv, ListHolds, WellFormed, Follows, OnlyLate, ChosenBoots
  <2> QED BY <2>2, <2>3 DEF IInv
<1> QED BY <1>1, <1>2, <1>3

LEMMA ChangeKeeps ==
  ASSUME IInv, NEW b \in Boots, ChangeBootOption(b) PROVE IInv'
<1>1. /\ \E v \in Contents \union {Missing} : bootVar' = [bootVar EXCEPT ![b] = v]
      /\ UNCHANGED <<options, continueKey, started, list, registered, stopEvents,
                     hooked, todo, starts, consoles, pending, triggered, recent, noticed,
                     phase, byHotkey>>
  BY DEF Undisturbed, ChangeBootOption, service, keyboard, outcome, boot
<1>2. TypeOK'
  BY <1>1 DEF IInv, TypeOK
<1>3. ListHolds' /\ OnlyLate' /\ ChosenBoots'
  BY <1>1 DEF IInv, ListHolds, WellFormed, Follows, OnlyLate, ChosenBoots
<1> QED BY <1>2, <1>3 DEF IInv

LEMMA NextIInv == IInv /\ [Next]_vars => IInv'
<1> SUFFICES ASSUME IInv, [Next]_vars PROVE IInv'
  OBVIOUS
<1>1. CASE \E code \in Codes : \E b \in Boots : AddKeyOption(code, b)
  BY <1>1, AddKeeps
<1>2. CASE \E code \in Codes : DeleteKeyOption(code)
  BY <1>2, DeleteKeeps
<1>3. CASE \E code \in Codes : RegisterContinueKey(code)
  BY <1>3, ContinueKeeps
<1>4. CASE StartService \/ ProcessNext \/ ServiceStarted
  BY <1>4, StartKeeps, ProcessNextKeeps, StartedKeeps
<1>5. CASE \E c \in Consoles : NewConsole(c)
  BY <1>5, ConsoleKeeps
<1>6. CASE \/ \E c \in Consoles : \E s \in Strokes : Press(c, s) \/ Notice(c, s)
           \/ \E s \in Strokes : Resume(s)
  BY <1>6, PressKeeps, NoticeKeeps, ResumeKeeps
<1>7. CASE Wake \/ Boot \/ ReadyToBoot \/ BootReturns
  BY <1>7, BootingKeeps
<1>8. CASE \E b \in Boots : ChangeBootOption(b)
  BY <1>8, ChangeKeeps
<1>9. CASE UNCHANGED vars
  <2>1. UNCHANGED <<bootVar, options, continueKey, started, list, registered,
                    stopEvents, hooked, todo, starts, consoles, pending, triggered,
                    recent, noticed, phase, byHotkey>>
    BY <1>9 DEF vars, store, keyboard, outcome
  <2>2. TypeOK'
    BY <2>1 DEF IInv, TypeOK
  <2>3. ListHolds' /\ OnlyLate' /\ ChosenBoots'
    BY <2>1 DEF IInv, ListHolds, WellFormed, Follows, OnlyLate, ChosenBoots
  <2> QED BY <2>2, <2>3 DEF IInv
<1> QED BY <1>1, <1>2, <1>3, <1>4, <1>5, <1>6, <1>7, <1>8, <1>9 DEF Next

LEMMA InvariantHolds == Spec => []IInv
BY InitIInv, NextIInv, PTL DEF Spec

----------------------------------------------------------------------------
(* What follows.                                                           *)

(* The variables, the list and the consoles keep their types: every entry  *)
(* has between one and the supported number of strokes.                    *)
THEOREM TypeCorrect == Spec => []TypeOK
BY InvariantHolds, PTL DEF IInv

(* However often the service is started, stopped and given new keys, and   *)
(* whenever a keyboard appears, what BmStopHotkeyService leaves behind an  *)
(* image came after an earlier boot had used up its event.                 *)
THEOREM StoppedBehindImages == Spec => []StoppedWhileBooting
<1>1. IInv => StoppedWhileBooting
  BY DEF IInv, OnlyLate, StoppedWhileBooting, ToSet
<1> QED BY <1>1, InvariantHolds, PTL

(* A step of BmHotkeyCallback that chooses an option processes the last    *)
(* stroke of that option's own hot key.                                    *)
LEMMA ChoiceWasTyped ==
  ASSUME IInv, [Next]_vars, pending' \notin {pending, None}
  PROVE  /\ ~byHotkey
         /\ \E s \in Strokes, h \in ToSet(list) :
              /\ ~h.continues /\ h.boot = pending'.boot
              /\ Typed(h, Append(recent, s))
              /\ (\E c \in Consoles : Press(c, s)) \/ Resume(s)
<1>1. PICK s \in Strokes : (\E c \in Consoles : Press(c, s)) \/ Resume(s)
  BY DEF Next, vars, AddKeyOption, DeleteKeyOption, RegisterContinueKey,
         StartService, ProcessNext, ServiceStarted, NewConsole, Notice, Wake, Boot,
         ReadyToBoot, BootReturns, ChangeBootOption, outcome
<1> DEFINE completed == {i \in DOMAIN list : Completes(list[i], s)}
<1>2. pending = None \/ noticed # <<>>
  BY <1>1 DEF Press, Heard, Resume
<1>3. pending' = Chosen(completed)
  BY <1>1 DEF Press, Resume, Advance
<1>4. completed \subseteq DOMAIN list
  OBVIOUS
<1> HIDE DEF completed
<1>5. PICK i \in completed : ~list[i].continues /\ list[i].boot = pending'.boot
  BY <1>4, <1>3, ChosenFrom DEF IInv
<1> DEFINE h == list[i]
           all == Append(recent, s)
           w == h.waiting + 1
<1>6. i \in DOMAIN list /\ Completes(h, s)
  BY <1>5 DEF completed
<1>7. h \in ToSet(list) /\ h \in Hotkey /\ WellFormed(h) /\ Follows(h)
  <2>1. list \in Seq(Hotkey) /\ i \in 1 .. Len(list)
    BY <1>6 DEF IInv, TypeOK
  <2>2. h \in Hotkey
    BY <2>1, ElementOfSeq
  <2> QED BY <1>6, <2>2 DEF IInv, ListHolds, ToSet
<1>8. w = Len(h.strokes) /\ Matches(s, h.strokes[w])
  BY <1>6 DEF Completes
<1>9. w <= Len(all) /\ \A j \in 1 .. w : Matches(all[Len(all) - w + j], h.strokes[j])
  BY <1>7, <1>8, StillFollows DEF IInv
<1>10. DOMAIN h.strokes = 1 .. w
  <2>1. h.strokes \in Seq(Expected)
    BY <1>7 DEF Hotkey
  <2> QED BY <1>8, <2>1
<1>11. Typed(h, all)
  <2>1. w \in Nat
    BY <1>7 DEF Hotkey
  <2>2. Len(all) \in Nat
    BY DEF IInv, TypeOK
  <2> HIDE DEF all, w
  <2> QED BY <1>8, <1>9, <1>10, <2>1, <2>2 DEF Typed
<1>12. ~byHotkey
  BY <1>2 DEF IInv, ChosenBoots
<1> QED BY <1>1, <1>5, <1>7, <1>11, <1>12

(* For all codes that overlap in whatever way, and all keyboards, those    *)
(* that report no modifiers and those that interrupt each other among      *)
(* them: an option is chosen only by its own hot key, the whole sequence   *)
(* of which makes up the last strokes that BmHotkeyCallback processed.     *)
THEOREM OnlyTypedBoots == Spec => BootsWhatWasTyped
<1>1. IInv /\ [Next]_vars =>
        [pending' \notin {pending, None} =>
           /\ ~byHotkey
           /\ \E s \in Strokes, h \in ToSet(list) :
                /\ ~h.continues /\ h.boot = pending'.boot
                /\ Typed(h, Append(recent, s))
                /\ (\E c \in Consoles : Press(c, s)) \/ Resume(s)]_vars
  BY ChoiceWasTyped
<1> QED BY <1>1, InvariantHolds, PTL DEF Spec, BootsWhatWasTyped

LEMMA ValidKept ==
  ASSUME IInv, [Next]_vars
  PROVE  \A n \in ValidNumbers : options'[n] \in {options[n], None}
<1>1. ASSUME NEW code \in Codes, NEW b \in Boots, AddKeyOption(code, b)
      PROVE  \A n \in ValidNumbers : options'[n] = options[n]
  <2>1. FreeNumber \notin ValidNumbers
    BY FreeNumberUnused DEF IInv
  <2>2. \A n \in ValidNumbers : n \in Numbers
    BY DEF ValidNumbers
  <2>3. \E o : options' = [options EXCEPT ![FreeNumber] = o]
    BY <1>1 DEF AddKeyOption
  <2> QED BY <2>1, <2>2, <2>3 DEF IInv, TypeOK
<1>2. ASSUME NEW code \in Codes, DeleteKeyOption(code)
      PROVE  \A n \in ValidNumbers : options'[n] \in {options[n], None}
  <2>1. \E k : options' = [options EXCEPT ![k] = None] \/ options' = options
    BY <1>2 DEF DeleteKeyOption
  <2>2. \A n \in ValidNumbers : n \in Numbers
    BY DEF ValidNumbers
  <2> QED BY <2>1, <2>2 DEF IInv, TypeOK
<1>3. CASE options' = options
  BY <1>3
<1> QED
  BY <1>1, <1>2, <1>3 DEF Next, vars, RegisterContinueKey, StartService, ProcessNext,
     ServiceStarted, NewConsole, Press, Notice, Resume, Advance, Wake, Boot,
     ReadyToBoot, BootReturns, ChangeBootOption, store

(* The first gap that EfiBootManagerAddKeyOptionVariable finds is really   *)
(* one, for any numbers of valid and outdated options.                     *)
THEOREM NewKeyCostsNone == Spec => ValidOptionsSurvive
<1>1. IInv /\ [Next]_vars =>
        [\A n \in ValidNumbers : options'[n] \in {options[n], None}]_vars
  BY ValidKept
<1> QED BY <1>1, InvariantHolds, PTL DEF Spec, ValidOptionsSurvive
=============================================================================
