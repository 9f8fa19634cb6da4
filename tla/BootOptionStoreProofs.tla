------------------------ MODULE BootOptionStoreProofs -------------------------
(***************************************************************************)
(* What holds of the boot option store for every number of options,        *)
(* every length of BootOrder and every place where the power goes or a     *)
(* write fails.                                                            *)
(*                                                                         *)
(* First BmGetFreeOptionNumber: it tries only as many numbers as can be    *)
(* taken, and that is enough.  Let limit be the entries of BootOrder and   *)
(* BootNext counted together.  If every number below limit is taken, limit *)
(* numbers are taken, which are all there can be; so limit itself is free. *)
(*                                                                         *)
(* Then an inductive invariant.  The properties speak of the variables     *)
(* only, but why they hold lies in the steps that are still to be          *)
(* executed: which kinds may follow each other, that no number is read,    *)
(* pruned or erased twice, that whatever is planned to be deleted is not   *)
(* an option of the user, and that the list agrees with the variables as   *)
(* long as it is going to be used.                                         *)
(***************************************************************************)
EXTENDS BootOptionStore, FiniteSetTheorems, WellFoundedInduction,
        SequenceTheorems, TLAPS

Taken == Listed \union ({bootNext} \ {None})
Limit == Len(order) + IF bootNext = None THEN 0 ELSE 1
Untaken == {k \in 0 .. Limit - 1 : k \notin Listed /\ k # bootNext}

(* A set of natural numbers that is not empty has a least element.         *)
LEMMA LeastNatural ==
  ASSUME NEW S, S \subseteq Nat, S # {}
  PROVE  \E k \in S : \A j \in S : k <= j
<1>1. PICK k \in S : \A j \in S : <<j, k>> \notin OpToRel(<, Nat)
  BY NatLessThanWellFounded, WFMin, Zenon
<1>2. ASSUME NEW j \in S PROVE k <= j
  <2>1. ~ (<<j, k>> \in {ss \in Nat \X Nat : ss[1] < ss[2]})
    BY <1>1, Zenon DEF OpToRel
  <2>2. ~ (j < k)
    BY <2>1
  <2> QED BY <2>2
<1> QED BY <1>2

(* There are at most Limit numbers taken.                                  *)
LEMMA FewAreTaken ==
  ASSUME order \in Seq(Numbers), bootNext \in Numbers \union {None}
  PROVE  /\ Limit \in Nat
         /\ IsFiniteSet(Taken) /\ Cardinality(Taken) <= Limit
<1>1. Len(order) \in Nat /\ DOMAIN order = 1 .. Len(order)
  OBVIOUS
<1>2. Limit \in Nat
  BY <1>1 DEF Limit
<1> DEFINE g == [i \in 1 .. Limit |->
                   IF i <= Len(order) THEN order[i] ELSE bootNext]
<1>3. Listed = {order[i] : i \in 1 .. Len(order)}
  BY <1>1 DEF Listed, ToSet
<1>4. \A i \in 1 .. Limit : g[i] \in Taken
  BY <1>1, <1>2, <1>3 DEF Limit, Taken
<1>5. \A t \in Taken : \E i \in 1 .. Limit : g[i] = t
  <2> SUFFICES ASSUME NEW t \in Taken PROVE \E i \in 1 .. Limit : g[i] = t
    OBVIOUS
  <2>1. CASE t \in Listed
    BY <1>1, <1>2, <1>3, <2>1 DEF Limit
  <2>2. CASE t = bootNext /\ bootNext # None
    <3>1. Limit = Len(order) + 1 /\ Limit \in 1 .. Limit
      BY <1>1, <2>2 DEF Limit
    <3> QED BY <1>1, <2>2, <3>1
  <2> QED BY <2>1, <2>2 DEF Taken
<1>6. g \in Surjection(1 .. Limit, Taken)
  BY <1>4, <1>5, Zenon DEF Surjection
<1>7. IsFiniteSet(1 .. Limit) /\ Cardinality(1 .. Limit) = Limit
  <2>1. IsFiniteSet(1 .. Limit)
        /\ Cardinality(1 .. Limit) = IF 1 > Limit THEN 0 ELSE Limit - 1 + 1
    BY <1>2, FS_Interval
  <2> QED BY <1>2, <2>1
<1>9. IsFiniteSet(Taken) /\ Cardinality(Taken) <= Cardinality(1 .. Limit)
  BY <1>6, <1>7, FS_Surjection, Zenon
<1> QED BY <1>2, <1>7, <1>9

(* If all numbers below Limit are taken, no other one is.                  *)
LEMMA LimitIsFree ==
  ASSUME order \in Seq(Numbers), bootNext \in Numbers \union {None},
         0 .. Limit - 1 \subseteq Taken
  PROVE  Taken = 0 .. Limit - 1
<1>1. /\ Limit \in Nat
      /\ IsFiniteSet(Taken) /\ Cardinality(Taken) <= Limit
  BY FewAreTaken
<1>2. Cardinality(0 .. Limit - 1) = Limit
  <2>1. Cardinality(0 .. Limit - 1)
          = IF 0 > Limit - 1 THEN 0 ELSE (Limit - 1) - 0 + 1
    BY <1>1, FS_Interval
  <2> QED BY <1>1, <2>1
<1>3. /\ Cardinality(0 .. Limit - 1) <= Cardinality(Taken)
      /\ Cardinality(Taken) = Cardinality(0 .. Limit - 1)
           => Taken = 0 .. Limit - 1
  BY <1>1, FS_Subset, Zenon
<1>4. Cardinality(Taken) \in Nat
  BY <1>1, FS_CardinalityType
<1> QED BY <1>1, <1>2, <1>3, <1>4

(* BmGetFreeOptionNumber returns a number that neither BootOrder nor       *)
(* BootNext names, and gives up only when they name every number, for      *)
(* every BootOrder, one with duplicates included, and every largest        *)
(* number.                                                                 *)
THEOREM FreeNumberCorrect ==
  ASSUME order \in Seq(Numbers), bootNext \in Numbers \union {None}
  PROVE  FreeNumberIsFree
<1> DEFINE least == CHOOSE k \in Untaken \union {Limit} :
                      \A j \in Untaken \union {Limit} : k <= j
<1>1. MaxNumber \in Nat /\ None \notin 0 .. MaxNumber + 1
  BY StoreAssumption
<1>2. Limit \in Nat
  BY FewAreTaken
<1>3. Untaken \union {Limit} \subseteq Nat
  BY <1>2 DEF Untaken
<1>4. /\ least \in Untaken \union {Limit}
      /\ \A j \in Untaken \union {Limit} : least <= j
  <2>1. \E k \in Untaken \union {Limit} :
          \A j \in Untaken \union {Limit} : k <= j
    BY <1>3, LeastNatural
  <2> QED BY <2>1, Zenon
<1>5. FreeNumber = IF least = MaxNumber + 1 THEN None ELSE least
  BY DEF FreeNumber, Limit, Untaken
<1>6. Taken \subseteq Numbers
  <2>1. Listed \subseteq Numbers
    BY DEF Listed, ToSet
  <2> QED BY <2>1 DEF Taken
<1>7. \A k \in 0 .. MaxNumber + 1 :
        k \in Untaken <=> k < Limit /\ k \notin Taken
  BY <1>1, <1>2 DEF Untaken, Taken
<1>8. least \in 0 .. MaxNumber + 1
  <2> HIDE DEF least
  <2>1. least \in Nat /\ least <= Limit
    BY <1>2, <1>3, <1>4
  <2>2. MaxNumber + 1 \notin Taken
    BY <1>1, <1>6 DEF Numbers
  <2>3. CASE MaxNumber + 1 < Limit
    <3>1. MaxNumber + 1 \in Untaken
      BY <1>1, <1>7, <2>2, <2>3
    <3> QED BY <1>1, <1>4, <2>1, <3>1
  <2>4. CASE Limit <= MaxNumber + 1
    BY <1>1, <1>2, <2>1, <2>4
  <2> QED BY <1>1, <1>2, <2>3, <2>4
<1>9. least \in Nat /\ least \notin Taken /\ 0 .. least - 1 \subseteq Taken
  <2>1. least \in Nat
    BY <1>3, <1>4
  <2>2. 0 .. least - 1 \subseteq Taken
    <3> SUFFICES ASSUME NEW k \in 0 .. least - 1 PROVE k \in Taken
      OBVIOUS
    <3> HIDE DEF least
    <3>1. k \in Nat /\ k < least /\ least <= Limit
      BY <1>2, <1>4, <2>1
    <3>2. k \notin Untaken
      BY <1>4, <2>1, <3>1
    <3>3. k \in 0 .. MaxNumber + 1
      BY <1>1, <1>8, <3>1
    <3> QED BY <1>2, <1>7, <2>1, <3>1, <3>2, <3>3
  <2>3. CASE least = Limit
    <3>1. Taken = 0 .. Limit - 1
      BY <2>2, <2>3, LimitIsFree
    <3> HIDE DEF least
    <3> QED BY <1>2, <2>1, <2>2, <2>3, <3>1
  <2>4. CASE least \in Untaken
    BY <1>7, <1>8, <2>1, <2>2, <2>4
  <2> HIDE DEF least
  <2> QED BY <1>4, <2>3, <2>4
<1> HIDE DEF least
<1>10. CASE least = MaxNumber + 1
  <2>1. FreeNumber = None
    BY <1>5, <1>10
  <2>2. Numbers \subseteq Taken
    BY <1>1, <1>9, <1>10 DEF Numbers
  <2> QED BY <2>1, <2>2 DEF FreeNumberIsFree, Taken
<1>11. CASE least # MaxNumber + 1
  <2>1. FreeNumber = least
    BY <1>5, <1>11
  <2>2. least \in Numbers
    BY <1>1, <1>8, <1>11 DEF Numbers
  <2>3. least # None /\ least # bootNext /\ least \notin Listed
    BY <1>1, <1>9, <2>2 DEF Taken, Numbers
  <2> QED BY <2>1, <2>2, <2>3 DEF FreeNumberIsFree
<1> QED BY <1>10, <1>11

----------------------------------------------------------------------------
(* The inductive invariant. *)

(* The steps of an operation, and which may stand before one of a kind.    *)
Kinds == {"read", "listed", "dropRef", "erase", "add", "store", "sort",
          "refresh", "prune", "find", "temporary", "setCurrent"}
Numbered == {"read", "dropRef", "erase", "store", "prune", "temporary",
             "setCurrent"}
Carrying == {"add", "store", "temporary", "setCurrent", "find"}
Searching == {"refresh", "prune"}
Steps == [do : Kinds, n : Numbers \union {None},
          c : Contents \union {Missing} \union SUBSET AutoContents]
Entries == [n : Numbers, c : Contents]

(* A step has the number or content that it works with.                    *)
Sound(e) ==
  /\ e.do \in Numbered => e.n \in Numbers
  /\ e.do \in Carrying => e.c \in Contents
  /\ e.do \in Searching => e.c \in SUBSET AutoContents

Unique == {"read", "prune", "erase"}
Scan == {"dropRef", "erase", "read"}

Before(do) ==
  CASE do \in {"read", "listed"} -> Scan
    [] do \in {"sort", "refresh", "find"} -> Scan \union {"listed"}
    [] do = "prune" -> {"dropRef", "erase", "prune"}
    [] do = "add" -> {"dropRef", "erase", "store", "prune", "add"}
    [] do = "erase" -> {"dropRef"}
    [] do \in {"dropRef", "store", "temporary", "setCurrent"} -> {}

Shape ==
  /\ \A i, j \in DOMAIN todo : i < j => todo[i].do \in Before(todo[j].do)
  /\ Doing("dropRef") => /\ Len(todo) >= 2 /\ todo[2].do = "erase"
                         /\ todo[2].n = Now.n

Typed ==
  /\ order \in Seq(Numbers)
  /\ option \in [Numbers -> Contents \union {Corrupt, Missing}]
  /\ bootNext \in Numbers \union {None}
  /\ todo \in Seq(Steps)
  /\ \A e \in ToSet(todo) : Sound(e)
  /\ list \in Seq(Entries)
  /\ current \in Numbers \union {None} /\ target \in Numbers \union {None}
  /\ inserting \in Numbers \union {None}
  /\ healing \in BOOLEAN /\ trusted \in BOOLEAN

Once ==
  \A i, j \in DOMAIN todo :
    todo[i].do \in Unique /\ todo[j].do \in Unique
      /\ todo[i].n = todo[j].n => i = j

ListedOnce ==
  /\ \A i, j \in DOMAIN list : list[i].n = list[j].n => i = j
  /\ \A e \in ToSet(todo), o \in ToSet(list) : e.do = "read" => e.n # o.n

Gathering ==
  \E e \in ToSet(todo) : e.do \in {"listed", "sort", "refresh", "find"}

Pending(n) == \E e \in ToSet(todo) : e.do = "read" /\ e.n = n
InList(n) == \E o \in ToSet(list) : o.n = n

ListIsCurrent ==
  Gathering =>
    /\ \A o \in ToSet(list) : option[o.n] = o.c
    /\ \A n \in Listed : option[n] \in Contents => InList(n) \/ Pending(n)
    /\ \A e \in ToSet(todo) : e.do \in {"dropRef", "erase"} =>
         option[e.n] \notin Contents

PrunesListed ==
  \A e \in ToSet(todo) : e.do = "prune" =>
    \E o \in ToSet(list) : o.n = e.n /\ o.c = option[e.n]

DeletesOnly ==
  \A e \in ToSet(todo) : e.do \in {"dropRef", "erase"} =>
    e.n = target \/ option[e.n] \notin UserContents

Heals ==
  healing /\ (\E e \in ToSet(todo) : e.do = "listed") =>
    \A n \in Listed : \/ InList(n) \/ Pending(n)
                      \/ Doing("dropRef") /\ n = Now.n

InsertingIsNow ==
  inserting # None => /\ Doing("store") \/ Doing("dropRef")
                      /\ Now.n = inserting

StoresTarget == Doing("store") => Now.n = target
ErasesUnlisted == Doing("erase") /\ trusted => Now.n \notin Listed
TemporaryIsUnlisted == Doing("temporary") => Now.n \notin Listed

IInv ==
  /\ Typed /\ Shape /\ Once /\ ListedOnce /\ NoDuplicateNumbers
  /\ ListIsCurrent /\ PrunesListed /\ DeletesOnly /\ Heals
  /\ InsertingIsNow /\ StoresTarget /\ ErasesUnlisted /\ TemporaryIsUnlisted
  /\ BootCurrentIsBooted /\ OnlyAccidentsDangle

----------------------------------------------------------------------------
(* Steps of an operation. *)

(* What a step leaves to be done: s, and then all but the head of t.       *)
LEMMA Splice ==
  ASSUME NEW S, NEW s \in Seq(S), NEW t \in Seq(S), t # <<>>,
         NEW u, u = s \o Tail(t)
  PROVE  /\ u \in Seq(S) /\ Len(u) = Len(s) + Len(t) - 1
         /\ Len(s) \in Nat /\ Len(t) \in Nat \ {0}
         /\ DOMAIN u = 1 .. Len(u) /\ DOMAIN s = 1 .. Len(s)
         /\ DOMAIN t = 1 .. Len(t)
         /\ \A i \in 1 .. Len(s) : u[i] = s[i]
         /\ \A i \in DOMAIN u : i > Len(s) =>
              i - Len(s) + 1 \in 2 .. Len(t) /\ u[i] = t[i - Len(s) + 1]
         /\ \A i \in 2 .. Len(t) :
              i + Len(s) - 1 \in DOMAIN u /\ u[i + Len(s) - 1] = t[i]
<1>1. Tail(t) \in Seq(S) /\ Len(Tail(t)) = Len(t) - 1
      /\ \A i \in 1 .. Len(Tail(t)) : Tail(t)[i] = t[i + 1]
  BY HeadTailProperties
<1>2. /\ u \in Seq(S) /\ Len(u) = Len(s) + Len(Tail(t))
      /\ \A i \in 1 .. Len(s) + Len(Tail(t)) :
           u[i] = IF i <= Len(s) THEN s[i] ELSE Tail(t)[i - Len(s)]
  BY <1>1, ConcatProperties
<1>3. Len(s) \in Nat /\ Len(t) \in Nat \ {0}
  BY EmptySeq, LenProperties
<1>4. DOMAIN u = 1 .. Len(u) /\ DOMAIN s = 1 .. Len(s)
      /\ DOMAIN t = 1 .. Len(t)
  BY <1>2, LenProperties
<1>5. \A i \in DOMAIN u : i > Len(s) =>
        i - Len(s) + 1 \in 2 .. Len(t) /\ u[i] = t[i - Len(s) + 1]
  <2> SUFFICES ASSUME NEW i \in DOMAIN u, i > Len(s)
               PROVE  i - Len(s) + 1 \in 2 .. Len(t)
                      /\ u[i] = t[i - Len(s) + 1]
    OBVIOUS
  <2>1. i \in 1 .. Len(s) + Len(Tail(t))
    BY <1>2, <1>4
  <2>2. i - Len(s) \in 1 .. Len(Tail(t))
    BY <1>1, <1>3, <2>1
  <2> QED BY <1>1, <1>2, <1>3, <2>1, <2>2
<1>6. ASSUME NEW i \in 2 .. Len(t)
      PROVE  i + Len(s) - 1 \in DOMAIN u /\ u[i + Len(s) - 1] = t[i]
  <2>1. i + Len(s) - 1 \in 1 .. Len(s) + Len(Tail(t))
    BY <1>1, <1>3
  <2>2. i - 1 \in 1 .. Len(Tail(t)) /\ (i - 1) + 1 = i
        /\ (i + Len(s) - 1) - Len(s) = i - 1 /\ ~(i + Len(s) - 1 <= Len(s))
    BY <1>1, <1>3
  <2> QED BY <1>1, <1>2, <1>3, <1>4, <2>1, <2>2
<1> QED BY <1>1, <1>2, <1>3, <1>4, <1>5, <1>6

Rest == ToSet(Tail(todo))

(* The head of todo and the steps after it.                                *)
LEMMA Heading ==
  ASSUME Typed, Shape, Once, todo # <<>>
  PROVE  /\ Rest = {todo[i] : i \in 2 .. Len(todo)}
         /\ ToSet(todo) = {Now} \union Rest
         /\ Now \in Steps /\ Now = todo[1]
         /\ \A e \in Rest : e \in Steps /\ Now.do \in Before(e.do)
         /\ \A e \in Rest : Now.do \in Unique /\ e.do \in Unique => e.n # Now.n
<1>1. todo \in Seq(Steps)
  BY DEF Typed
<1>2. Len(todo) \in Nat \ {0} /\ DOMAIN todo = 1 .. Len(todo)
  BY <1>1, EmptySeq, LenProperties
<1>3. Rest = {todo[i] : i \in 2 .. Len(todo)}
  <2>1. /\ Len(Tail(todo)) = Len(todo) - 1 /\ Tail(todo) \in Seq(Steps)
        /\ \A i \in 1 .. Len(Tail(todo)) : Tail(todo)[i] = todo[i + 1]
    BY <1>1, HeadTailProperties
  <2>2. DOMAIN Tail(todo) = 1 .. Len(todo) - 1
    BY <2>1, LenProperties
  <2>3. ASSUME NEW i \in 2 .. Len(todo) PROVE todo[i] \in Rest
    <3>1. i - 1 \in DOMAIN Tail(todo) /\ Tail(todo)[i - 1] = todo[i]
      BY <1>2, <2>1, <2>2
    <3> QED BY <3>1, Zenon DEF Rest, ToSet
  <2>4. ASSUME NEW e \in Rest PROVE \E i \in 2 .. Len(todo) : e = todo[i]
    <3>1. PICK i \in DOMAIN Tail(todo) : e = Tail(todo)[i]
      BY Zenon DEF Rest, ToSet
    <3>2. i + 1 \in 2 .. Len(todo) /\ Tail(todo)[i] = todo[i + 1]
      BY <1>2, <2>1, <2>2
    <3> QED BY <3>1, <3>2
  <2> QED BY <2>3, <2>4
<1>4. Now = todo[1]
  BY <1>1 DEF Now
<1>5. ToSet(todo) = {Now} \union Rest
  <2>1. DOMAIN todo = {1} \union 2 .. Len(todo)
    BY <1>2
  <2> QED BY <1>3, <1>4, <2>1 DEF ToSet
<1>7. ASSUME NEW e \in Rest
      PROVE  /\ e \in Steps /\ Now.do \in Before(e.do)
             /\ Now.do \in Unique /\ e.do \in Unique => e.n # Now.n
  <2>1. PICK i \in 2 .. Len(todo) : e = todo[i]
    BY <1>3
  <2>2. i \in DOMAIN todo /\ 1 \in DOMAIN todo /\ 1 < i /\ i # 1
    BY <1>2
  <2> QED BY <1>1, <1>4, <2>1, <2>2 DEF Shape, Once
<1>8. Now \in Steps
  BY <1>1, <1>2, <1>4, ElementOfSeq
<1> QED BY <1>3, <1>4, <1>5, <1>7, <1>8

(* A step that puts s in place of the head of todo.                        *)
LEMMA Continued ==
  ASSUME Typed, Shape, Once, todo # <<>>,
         NEW s \in Seq(Steps), Continue(s)
  PROVE  /\ todo' \in Seq(Steps)
         /\ ToSet(todo') = ToSet(s) \union Rest
         /\ s # <<>> => todo' # <<>> /\ Now' = s[1]
         /\ s = <<>> /\ todo' # <<>> => /\ Now' = todo[2] /\ Now' \in Rest
                                        /\ Len(todo) >= 2
<1>1. todo \in Seq(Steps) /\ todo' = s \o Tail(todo)
  BY DEF Typed, Continue
<1>2. /\ todo' \in Seq(Steps) /\ Len(todo') = Len(s) + Len(todo) - 1
      /\ Len(s) \in Nat /\ Len(todo) \in Nat \ {0}
      /\ DOMAIN (todo') = 1 .. Len(todo') /\ DOMAIN s = 1 .. Len(s)
      /\ DOMAIN todo = 1 .. Len(todo)
      /\ \A i \in 1 .. Len(s) : todo'[i] = s[i]
      /\ \A i \in DOMAIN (todo') : i > Len(s) =>
           i - Len(s) + 1 \in 2 .. Len(todo)
             /\ todo'[i] = todo[i - Len(s) + 1]
      /\ \A i \in 2 .. Len(todo) :
           i + Len(s) - 1 \in DOMAIN (todo') /\ todo'[i + Len(s) - 1] = todo[i]
  BY <1>1, Splice
<1>3. Rest = {todo[i] : i \in 2 .. Len(todo)}
  BY Heading
<1>6. ToSet(todo') = ToSet(s) \union Rest
  <2>1. ASSUME NEW i \in DOMAIN (todo')
        PROVE  todo'[i] \in ToSet(s) \union Rest
    <3>1. CASE i <= Len(s)
      <4>1. i \in 1 .. Len(s)
        BY <1>2, <3>1
      <4> QED BY <1>2, <4>1 DEF ToSet
    <3>2. CASE i > Len(s)
      BY <1>2, <1>3, <3>2
    <3> QED BY <1>2, <3>1, <3>2
  <2>2. ASSUME NEW i \in DOMAIN s
        PROVE  i \in DOMAIN (todo') /\ todo'[i] = s[i]
    BY <1>2
  <2>3. ASSUME NEW e \in Rest
        PROVE  \E i \in DOMAIN (todo') : todo'[i] = e
    <3>1. PICK k \in 2 .. Len(todo) : e = todo[k]
      BY <1>3
    <3>2. k + Len(s) - 1 \in DOMAIN (todo') /\ todo'[k + Len(s) - 1] = todo[k]
      BY <1>2
    <3> QED BY <3>1, <3>2
  <2> QED BY <2>1, <2>2, <2>3 DEF ToSet
<1>9. ASSUME s # <<>> PROVE todo' # <<>> /\ Now' = s[1]
  <2>1. Len(s) >= 1
    BY <1>2, <1>9, EmptySeq
  <2>2. 1 \in 1 .. Len(s) /\ Len(todo') # 0
    BY <1>2, <2>1
  <2>3. Now' = todo'[1]
    BY <1>2, <2>2 DEF Now
  <2> QED BY <1>2, <2>2, <2>3
<1>10. ASSUME s = <<>>, todo' # <<>>
       PROVE  Now' = todo[2] /\ Now' \in Rest /\ Len(todo) >= 2
  <2>1. Len(s) = 0 /\ Len(todo') # 0
    BY <1>2, <1>10, EmptySeq
  <2>2. 2 \in 2 .. Len(todo)
    BY <1>2, <2>1
  <2>3. todo'[1] = todo[2] /\ Now' = todo'[1]
    BY <1>2, <1>10, <2>1, <2>2 DEF Now
  <2> QED BY <1>2, <1>3, <2>2, <2>3
<1> QED BY <1>2, <1>6, <1>9, <1>10

(* The order of the steps is kept if s is in order and may stand wherever  *)
(* the head of todo did.                                                   *)
LEMMA ShapeKept ==
  ASSUME Typed, Shape, Once, todo # <<>>,
         NEW s \in Seq(Steps), Continue(s),
         \A i, j \in DOMAIN s : i < j => s[i].do \in Before(s[j].do),
         \A e \in ToSet(s), k \in Kinds :
           Now.do \in Before(k) => e.do \in Before(k),
         s # <<>> /\ s[1].do = "dropRef" =>
           Len(s) >= 2 /\ s[2].do = "erase" /\ s[2].n = s[1].n
  PROVE  Shape'
<1>1. todo \in Seq(Steps) /\ todo' = s \o Tail(todo)
  BY DEF Typed, Continue
<1>2. /\ todo' \in Seq(Steps) /\ Len(todo') = Len(s) + Len(todo) - 1
      /\ Len(s) \in Nat /\ Len(todo) \in Nat \ {0}
      /\ DOMAIN (todo') = 1 .. Len(todo') /\ DOMAIN s = 1 .. Len(s)
      /\ DOMAIN todo = 1 .. Len(todo)
      /\ \A i \in 1 .. Len(s) : todo'[i] = s[i]
      /\ \A i \in DOMAIN (todo') : i > Len(s) =>
           i - Len(s) + 1 \in 2 .. Len(todo)
             /\ todo'[i] = todo[i - Len(s) + 1]
  BY <1>1, Splice
<1>3. /\ todo' # <<>> /\ s # <<>> => Now' = s[1]
      /\ todo' # <<>> /\ s = <<>> => Now' \in Rest
      /\ \A e \in Rest : e \in Steps /\ Now.do \in Before(e.do)
      /\ Now = todo[1]
  BY Continued, Heading
<1>4. ASSUME NEW i \in DOMAIN (todo'), NEW j \in DOMAIN (todo'), i < j
      PROVE  todo'[i].do \in Before(todo'[j].do)
  <2>1. CASE j <= Len(s)
    <3>1. i \in DOMAIN s /\ j \in DOMAIN s
      BY <1>2, <1>4, <2>1
    <3> QED BY <1>2, <1>4, <3>1
  <2>2. CASE i <= Len(s) /\ j > Len(s)
    <3>1. i \in DOMAIN s /\ todo'[i] = s[i] /\ s[i] \in ToSet(s)
      BY <1>2, <2>2 DEF ToSet
    <3>2. PICK k \in 2 .. Len(todo) : todo'[j] = todo[k]
      BY <1>2, <2>2
    <3>3. k \in DOMAIN todo /\ 1 \in DOMAIN todo /\ 1 < k
      BY <1>2
    <3>4. todo[k] \in Steps
      BY <1>1, <3>3, ElementOfSeq, <1>2
    <3>5. Now.do \in Before(todo[k].do) /\ todo[k].do \in Kinds
      BY <1>3, <3>3, <3>4 DEF Shape, Steps
    <3> QED BY <3>1, <3>2, <3>5
  <2>3. CASE i > Len(s)
    <3>1. i - Len(s) + 1 \in DOMAIN todo /\ j - Len(s) + 1 \in DOMAIN todo
          /\ i - Len(s) + 1 < j - Len(s) + 1
      BY <1>2, <1>4, <2>3
    <3>2. todo'[i] = todo[i - Len(s) + 1] /\ todo'[j] = todo[j - Len(s) + 1]
      BY <1>2, <1>4, <2>3
    <3> QED BY <3>1, <3>2 DEF Shape
  <2> QED BY <1>2, <2>1, <2>2, <2>3
<1>5. ASSUME Doing("dropRef")'
      PROVE  Len(todo') >= 2 /\ todo'[2].do = "erase" /\ todo'[2].n = Now'.n
  <2>1. todo' # <<>> /\ Now'.do = "dropRef"
    BY <1>5 DEF Doing, Now
  <2>2. CASE s = <<>>
    <3>1. Now' \in Rest
      BY <1>3, <2>1, <2>2
    <3> QED BY <1>3, <2>1, <3>1 DEF Before
  <2>3. CASE s # <<>>
    <3>1. Now' = s[1] /\ Len(s) >= 2 /\ s[2].do = "erase" /\ s[2].n = s[1].n
      BY <1>3, <2>1, <2>3
    <3> QED BY <1>2, <3>1
  <2> QED BY <2>2, <2>3
<1> QED BY <1>4, <1>5 DEF Shape

(* Each number stays the object of one step only.                          *)
LEMMA OnceKept ==
  ASSUME Typed, Shape, Once, todo # <<>>,
         NEW s \in Seq(Steps), Continue(s),
         \A i, j \in DOMAIN s :
           s[i].do \in Unique /\ s[j].do \in Unique /\ s[i].n = s[j].n => i = j,
         \A e \in ToSet(s), f \in Rest :
           e.do \in Unique /\ f.do \in Unique => e.n # f.n
  PROVE  Once'
<1>1. todo \in Seq(Steps) /\ todo' = s \o Tail(todo)
  BY DEF Typed, Continue
<1>2. /\ todo' \in Seq(Steps) /\ Len(todo') = Len(s) + Len(todo) - 1
      /\ Len(s) \in Nat /\ Len(todo) \in Nat \ {0}
      /\ DOMAIN (todo') = 1 .. Len(todo') /\ DOMAIN s = 1 .. Len(s)
      /\ DOMAIN todo = 1 .. Len(todo)
      /\ \A i \in 1 .. Len(s) : todo'[i] = s[i]
      /\ \A i \in DOMAIN (todo') : i > Len(s) =>
           i - Len(s) + 1 \in 2 .. Len(todo)
             /\ todo'[i] = todo[i - Len(s) + 1]
  BY <1>1, Splice
<1>4. \A k \in 2 .. Len(todo) : todo[k] \in Rest
  BY Heading
<1>5. ASSUME NEW i \in DOMAIN (todo'), NEW j \in DOMAIN (todo'), i < j,
             todo'[i].do \in Unique, todo'[j].do \in Unique
      PROVE  todo'[i].n # todo'[j].n
  <2>1. CASE j <= Len(s)
    <3>1. i \in DOMAIN s /\ j \in DOMAIN s /\ i # j
      BY <1>2, <1>5, <2>1
    <3> QED BY <1>2, <1>5, <3>1
  <2>2. CASE i <= Len(s) /\ j > Len(s)
    <3>1. i \in DOMAIN s /\ todo'[i] = s[i] /\ s[i] \in ToSet(s)
      BY <1>2, <2>2 DEF ToSet
    <3>2. PICK k \in 2 .. Len(todo) : todo'[j] = todo[k]
      BY <1>2, <2>2
    <3> QED BY <1>4, <1>5, <3>1, <3>2
  <2>3. CASE i > Len(s)
    <3>1. i - Len(s) + 1 \in DOMAIN todo /\ j - Len(s) + 1 \in DOMAIN todo
          /\ i - Len(s) + 1 # j - Len(s) + 1
      BY <1>2, <1>5, <2>3
    <3>2. todo'[i] = todo[i - Len(s) + 1] /\ todo'[j] = todo[j - Len(s) + 1]
      BY <1>2, <1>5, <2>3
    <3> QED BY <1>5, <3>1, <3>2 DEF Once
  <2> QED BY <1>2, <2>1, <2>2, <2>3
<1>6. \A i, j \in DOMAIN (todo') :
        todo'[i].do \in Unique /\ todo'[j].do \in Unique
          /\ todo'[i].n = todo'[j].n => i = j
  <2>1. \A i, j \in DOMAIN (todo') : i < j \/ j < i \/ i = j
    BY <1>2
  <2> QED BY <1>5, <2>1
<1> QED BY <1>6 DEF Once

(* The head is done and nothing takes its place.                           *)
LEMMA ContinueNone ==
  ASSUME Typed, Shape, Once, todo # <<>>, Continue(<<>>)
  PROVE  /\ todo' \in Seq(Steps) /\ ToSet(todo') = Rest
         /\ Shape' /\ Once'
         /\ todo' # <<>> => /\ Now' = todo[2] /\ Now' \in Rest
                            /\ Len(todo) >= 2
<1> DEFINE s == <<>>
<1>1. s \in Seq(Steps) /\ ToSet(s) = {} /\ DOMAIN s = {} /\ s = <<>>
  BY EmptySeq DEF ToSet
<1>2. Continue(s)
  OBVIOUS
<1> HIDE DEF s
<1>3. /\ todo' \in Seq(Steps) /\ ToSet(todo') = {} \union Rest
      /\ todo' # <<>> => /\ Now' = todo[2] /\ Now' \in Rest
                         /\ Len(todo) >= 2
  BY <1>1, <1>2, Continued
<1>4. Shape'
  BY <1>1, <1>2, ShapeKept
<1>5. Once'
  BY <1>1, <1>2, OnceKept
<1> QED BY <1>3, <1>4, <1>5

(* The head is replaced by another step on no number that others wait for. *)
LEMMA ContinueOne ==
  ASSUME Typed, Shape, Once, todo # <<>>,
         NEW e \in Steps, Continue(<<e>>),
         e.do \notin Unique, e.do # "dropRef",
         \A k \in Kinds : Now.do \in Before(k) => e.do \in Before(k)
  PROVE  /\ todo' \in Seq(Steps) /\ ToSet(todo') = {e} \union Rest
         /\ Shape' /\ Once'
         /\ todo' # <<>> /\ Now' = e
<1> DEFINE s == <<e>>
<1>1. s \in Seq(Steps) /\ s # <<>> /\ DOMAIN s = {1} /\ s[1] = e
  OBVIOUS
<1>2. ToSet(s) = {e}
  BY <1>1, Zenon DEF ToSet
<1>3. Continue(s)
  OBVIOUS
<1> HIDE DEF s
<1>4. /\ todo' \in Seq(Steps) /\ ToSet(todo') = {e} \union Rest
      /\ todo' # <<>> /\ Now' = e
  BY <1>1, <1>2, <1>3, Continued
<1>5. Shape'
  <2>1. \A i, j \in DOMAIN s : i < j => s[i].do \in Before(s[j].do)
    BY <1>1
  <2> QED BY <1>1, <1>2, <1>3, <2>1, ShapeKept
<1>6. Once'
  BY <1>1, <1>2, <1>3, OnceKept
<1> QED BY <1>4, <1>5, <1>6

(* The head is replaced by the deletion of its option.                     *)
LEMMA ContinueDeletion ==
  ASSUME Typed, Shape, Once, todo # <<>>,
         Now.do \in {"read", "prune", "store"}, Now.n \in Numbers,
         Continue(Deletion(Now.n))
  PROVE  /\ todo' \in Seq(Steps)
         /\ ToSet(todo') = {Step("dropRef", Now.n, Missing),
                            Step("erase", Now.n, Missing)} \union Rest
         /\ Shape' /\ Once'
         /\ todo' # <<>> /\ Now' = Step("dropRef", Now.n, Missing)
<1> DEFINE d == Step("dropRef", Now.n, Missing)
           e == Step("erase", Now.n, Missing)
           s == Deletion(Now.n)
<1>1. /\ d \in Steps /\ d.do = "dropRef" /\ d.n = Now.n
      /\ e \in Steps /\ e.do = "erase" /\ e.n = Now.n
  BY DEF Step, Steps, Kinds
<1>2. s = <<d, e>>
  BY DEF Deletion
<1> HIDE DEF d, e, s
<1>3. s \in Seq(Steps) /\ s # <<>> /\ DOMAIN s = {1, 2} /\ Len(s) = 2
      /\ s[1] = d /\ s[2] = e
  <2>1. s \in Seq(Steps) /\ Len(s) = 2 /\ s[1] = d /\ s[2] = e
    BY <1>1, <1>2
  <2> QED BY <2>1, EmptySeq, LenProperties
<1>4. ToSet(s) = {d, e}
  <2>1. ToSet(s) = {s[i] : i \in {1, 2}}
    BY <1>3 DEF ToSet
  <2> QED BY <1>3, <2>1
<1>5. Continue(s)
  BY DEF s
<1>6. /\ todo' \in Seq(Steps) /\ ToSet(todo') = {d, e} \union Rest
      /\ todo' # <<>> /\ Now' = d
  BY <1>3, <1>4, <1>5, Continued
<1>7. Shape'
  <2>1. \A i, j \in DOMAIN s : i < j => s[i].do \in Before(s[j].do)
    BY <1>1, <1>3 DEF Before
  <2>2. \A k \in Kinds : Now.do \in Before(k) =>
          "dropRef" \in Before(k) /\ "erase" \in Before(k)
    BY DEF Before, Kinds, Scan
  <2> QED BY <1>1, <1>3, <1>4, <1>5, <2>1, <2>2, ShapeKept
<1>8. Once'
  <2>1. \A i, j \in DOMAIN s : s[i].do \in Unique /\ s[j].do \in Unique
                                 /\ s[i].n = s[j].n => i = j
    BY <1>1, <1>3 DEF Unique
  <2>2. ASSUME NEW f \in Rest, f.do \in Unique PROVE f.n # Now.n
    <3>1. CASE Now.do = "store"
      <4>1. f \in Steps /\ "store" \in Before(f.do)
        BY <3>1, Heading
      <4> QED BY <2>2, <4>1 DEF Unique, Before, Scan
    <3>2. CASE Now.do \in Unique
      BY <2>2, <3>2, Heading
    <3> QED BY <3>1, <3>2 DEF Unique
  <2>3. \A g \in ToSet(s), f \in Rest :
          g.do \in Unique /\ f.do \in Unique => g.n # f.n
    BY <1>1, <1>4, <2>2
  <2> QED BY <1>3, <1>5, <2>1, <2>3, OnceKept
<1> QED BY <1>6, <1>7, <1>8 DEF d, e

(* What the steps of a kind may still have behind them.                    *)
LEMMA Behind ==
  ASSUME Typed, Shape, Once, todo # <<>>
  PROVE  /\ \A e \in Rest : e.do \notin {"dropRef", "store", "temporary",
                                        "setCurrent"}
         /\ Now.do \in {"sort", "refresh", "find", "temporary", "setCurrent"}
              => Rest = {}
         /\ Now.do \in {"add", "store"} => \A e \in Rest : e.do = "add"
         /\ Now.do = "prune" => \A e \in Rest : e.do \in {"prune", "add"}
         /\ Now.do = "listed" =>
              \A e \in Rest : e.do \in {"sort", "refresh", "find"}
         /\ Now.do # "dropRef" => \A e \in Rest : e.do # "erase"
<1>1. \A e \in Rest : e.do \in Kinds /\ Now.do \in Before(e.do)
  BY Heading DEF Steps
<1> QED BY <1>1 DEF Before, Kinds, Scan

(* An option is read, or its deletion planned.                             *)
LEMMA ReadOptionKeeps == IInv /\ ReadOption => IInv'
<1> SUFFICES ASSUME IInv, ReadOption PROVE IInv'
  OBVIOUS
<1>1. /\ todo # <<>> /\ Now.do = "read"
      /\ UNCHANGED <<order, option, bootNext, current, target, inserting,
                     healing, trusted>>
  BY DEF ReadOption, Doing, Now, nv, ghosts
<1>2. Typed /\ Shape /\ Once
  BY DEF IInv
<1>3. /\ ToSet(todo) = {Now} \union Rest /\ Now \in Steps
      /\ Now.n \in Numbers
      /\ \A e \in Rest : Sound(e)
      /\ \A e \in Rest : e.do \in Unique => e.n # Now.n
  <2>1. ToSet(todo) = {Now} \union Rest /\ Now \in Steps
        /\ \A e \in Rest : Now.do \in Unique /\ e.do \in Unique => e.n # Now.n
    BY <1>1, <1>2, Heading
  <2> QED BY <1>1, <1>2, <2>1 DEF Typed, Sound, Numbered, Unique
<1>4. \A e \in Rest : e.do \notin {"dropRef", "store", "temporary",
                                   "setCurrent", "erase"}
  BY <1>1, <1>2, Behind
<1>5. inserting = None
  BY <1>1 DEF IInv, InsertingIsNow, Doing, Now
<1>6. NoDuplicateNumbers' /\ OnlyAccidentsDangle'
  BY <1>1 DEF IInv, NoDuplicateNumbers, OnlyAccidentsDangle, Listed
<1>7. CASE option[Now.n] \in Contents
  <2> DEFINE o == [n |-> Now.n, c |-> option[Now.n]]
  <2>1. list' = Append(list, o) /\ Continue(<<>>)
    BY <1>7 DEF ReadOption
  <2>2. /\ todo' \in Seq(Steps) /\ ToSet(todo') = Rest
        /\ Shape' /\ Once'
        /\ todo' # <<>> => Now' \in Rest
    BY <1>1, <1>2, <2>1, ContinueNone
  <2>3. o \in Entries /\ o.n = Now.n /\ o.c = option[Now.n]
    BY <1>3, <1>7 DEF Entries
  <2> HIDE DEF o
  <2>4. /\ list \in Seq(Entries) /\ list' \in Seq(Entries)
        /\ Len(list') = Len(list) + 1 /\ Len(list) \in Nat
        /\ DOMAIN list = 1 .. Len(list) /\ DOMAIN (list') = 1 .. Len(list')
        /\ \A i \in 1 .. Len(list) : list'[i] = list[i]
        /\ list'[Len(list) + 1] = o
    BY <1>2, <2>1, <2>3, AppendProperties, LenProperties DEF Typed
  <2>5. ToSet(list') = ToSet(list) \union {o}
    <3>1. DOMAIN (list') = DOMAIN list \union {Len(list) + 1}
      BY <2>4
    <3> QED BY <2>4, <3>1 DEF ToSet
  <2>6. Typed'
    BY <1>1, <1>2, <1>3, <2>2, <2>4 DEF Typed, Sound, Steps, Entries
  <2>7. ListedOnce'
    <3>1. \A i, j \in DOMAIN (list') : list'[i].n = list'[j].n => i = j
      <4>1. \A i \in DOMAIN list : list[i].n # o.n
        BY <1>1, <1>3, <2>3 DEF IInv, ListedOnce, ToSet
      <4> QED BY <2>4, <4>1 DEF IInv, ListedOnce
    <3>2. \A e \in ToSet(todo'), p \in ToSet(list') :
            e.do = "read" => e.n # p.n
      BY <1>3, <2>2, <2>3, <2>5 DEF IInv, ListedOnce, Unique
    <3> QED BY <3>1, <3>2 DEF ListedOnce
  <2>8. ListIsCurrent' /\ Heals'
    BY <1>1, <1>3, <1>7, <2>2, <2>3, <2>5
       DEF IInv, ListIsCurrent, Heals, Gathering, InList, Pending, Listed, Doing, Now
  <2>9. PrunesListed' /\ DeletesOnly'
    BY <1>1, <1>3, <1>4, <2>2, <2>3, <2>5 DEF IInv, PrunesListed, DeletesOnly
  <2>10. /\ InsertingIsNow' /\ StoresTarget' /\ ErasesUnlisted'
         /\ TemporaryIsUnlisted' /\ BootCurrentIsBooted'
    BY <1>1, <1>4, <1>5, <2>2 DEF InsertingIsNow, StoresTarget, ErasesUnlisted,
         TemporaryIsUnlisted, BootCurrentIsBooted, Doing, Now
  <2> QED BY <1>6, <2>2, <2>6, <2>7, <2>8, <2>9, <2>10 DEF IInv
<1>8. CASE option[Now.n] \notin Contents
  <2>1. Continue(Deletion(Now.n)) /\ list' = list
    BY <1>8 DEF ReadOption
  <2> DEFINE d == Step("dropRef", Now.n, Missing)
             e == Step("erase", Now.n, Missing)
  <2>2. /\ todo' \in Seq(Steps) /\ ToSet(todo') = {d, e} \union Rest
        /\ Shape' /\ Once'
        /\ todo' # <<>> /\ Now' = d
    BY <1>1, <1>2, <1>3, <2>1, ContinueDeletion
  <2>3. d.do = "dropRef" /\ d.n = Now.n /\ e.do = "erase" /\ e.n = Now.n
    BY DEF Step
  <2>4. Sound(d) /\ Sound(e)
    BY <1>3, <2>3 DEF Sound, Numbered, Carrying, Searching
  <2> HIDE DEF d, e
  <2>5. Typed'
    BY <1>1, <1>2, <1>3, <2>1, <2>2, <2>4 DEF Typed, Sound, Steps, Entries
  <2>6. ListIsCurrent' /\ Heals'
    BY <1>1, <1>3, <1>4, <1>8, <2>1, <2>2, <2>3
       DEF IInv, ListIsCurrent, Heals, Gathering, InList, Pending, Listed, Doing, Now
  <2>7. PrunesListed' /\ DeletesOnly' /\ ListedOnce'
    BY <1>1, <1>3, <1>4, <1>8, <2>1, <2>2, <2>3
       DEF IInv, PrunesListed, DeletesOnly, ListedOnce, Contents
  <2>8. /\ InsertingIsNow' /\ StoresTarget' /\ ErasesUnlisted'
         /\ TemporaryIsUnlisted' /\ BootCurrentIsBooted'
    BY <1>1, <1>5, <2>2, <2>3 DEF InsertingIsNow, StoresTarget, ErasesUnlisted,
         TemporaryIsUnlisted, BootCurrentIsBooted, Doing, Now
  <2> QED BY <1>6, <2>2, <2>5, <2>6, <2>7, <2>8 DEF IInv
<1> QED BY <1>7, <1>8

(* What the invariant says of the step to be executed and of the others.   *)
LEMMA Ahead ==
  ASSUME IInv, todo # <<>>
  PROVE  /\ Typed /\ Shape /\ Once
         /\ ToSet(todo) = {Now} \union Rest
         /\ Now \in Steps /\ Sound(Now)
         /\ \A e \in Rest : /\ Sound(e)
                            /\ Now.do \in Unique /\ e.do \in Unique
                                 => e.n # Now.n
                            /\ e.do \notin {"dropRef", "store", "temporary",
                                            "setCurrent"}
                            /\ Now.do # "dropRef" => e.do # "erase"
<1>1. Typed /\ Shape /\ Once
  BY DEF IInv
<1> QED BY <1>1, Heading, Behind DEF Typed

(* The list is complete: what it lacks was deleted from the order.         *)
LEMMA ListingDoneKeeps == IInv /\ ListingDone => IInv'
<1> SUFFICES ASSUME IInv, ListingDone PROVE IInv'
  OBVIOUS
<1>1. /\ todo # <<>> /\ Now.do = "listed" /\ Continue(<<>>)
      /\ UNCHANGED <<order, option, bootNext, list, current, target,
                     inserting, healing>>
      /\ trusted' = (trusted \/ healing)
  BY DEF ListingDone, Doing, Now, nv
<1>2. /\ Typed /\ Shape /\ Once
      /\ ToSet(todo) = {Now} \union Rest /\ \A e \in Rest : Sound(e)
  BY <1>1, Ahead
<1>3. \A e \in Rest : e.do \in {"sort", "refresh", "find"}
  BY <1>1, <1>2, Behind
<1>4. /\ todo' \in Seq(Steps) /\ ToSet(todo') = Rest
      /\ Shape' /\ Once'
      /\ todo' # <<>> => Now' \in Rest
  BY <1>1, <1>2, ContinueNone
<1>5. Typed'
  BY <1>1, <1>2, <1>4 DEF Typed, Sound, Steps, Entries
<1>6. inserting = None /\ Gathering
  BY <1>1, <1>2 DEF IInv, InsertingIsNow, Doing, Now, Gathering
<1>7. /\ NoDuplicateNumbers' /\ ListedOnce' /\ ListIsCurrent' /\ Heals'
      /\ PrunesListed' /\ DeletesOnly'
  BY <1>1, <1>2, <1>3, <1>4, <1>6
     DEF IInv, NoDuplicateNumbers, ListedOnce, ListIsCurrent, Heals, Gathering,
         InList, Pending, Listed, PrunesListed, DeletesOnly
<1>8. /\ InsertingIsNow' /\ StoresTarget' /\ ErasesUnlisted'
      /\ TemporaryIsUnlisted' /\ BootCurrentIsBooted'
  BY <1>1, <1>3, <1>4, <1>6 DEF InsertingIsNow, StoresTarget, ErasesUnlisted,
       TemporaryIsUnlisted, BootCurrentIsBooted, Doing, Now
<1>9. ASSUME healing, NEW n \in Listed PROVE option[n] \in Contents
  <2>1. InList(n)
    BY <1>1, <1>2, <1>3, <1>9 DEF IInv, Heals, Pending, Doing, Now
  <2>2. PICK o \in ToSet(list) : o.n = n
    BY <2>1 DEF InList
  <2>3. o \in Entries
    BY <1>2, <2>2, LenProperties DEF Typed, ToSet
  <2> QED BY <1>6, <2>2, <2>3 DEF IInv, ListIsCurrent, Entries
<1>10. OnlyAccidentsDangle'
  BY <1>1, <1>9 DEF IInv, OnlyAccidentsDangle, Listed
<1> QED BY <1>4, <1>5, <1>7, <1>8, <1>10 DEF IInv

(* A sequence s without its entry i.                                       *)
LEMMA Removing ==
  ASSUME NEW S, NEW s \in Seq(S), IsInjective(s), NEW i \in DOMAIN s,
         NEW u, u = RemoveAt(s, i)
  PROVE  /\ u \in Seq(S) /\ IsInjective(u)
         /\ ToSet(u) = ToSet(s) \ {s[i]}
<1>1. Len(s) \in Nat /\ DOMAIN s = 1 .. Len(s) /\ i \in 1 .. Len(s)
  BY LenProperties
<1> DEFINE a == SubSeq(s, 1, i - 1)
           b == SubSeq(s, i + 1, Len(s))
<1>2. /\ a \in Seq(S) /\ Len(a) = i - 1
      /\ \A k \in 1 .. i - 1 : a[k] = s[k]
  <2>1. \A k \in 1 .. i - 1 : s[k] \in S
    BY <1>1
  <2>2. /\ a \in Seq(S)
        /\ Len(a) = IF 1 <= i - 1 THEN (i - 1) - 1 + 1 ELSE 0
        /\ \A k \in 1 .. (i - 1) - 1 + 1 : a[k] = s[1 + k - 1]
    BY <1>1, <2>1, SubSeqProperties
  <2> HIDE DEF a
  <2> QED BY <1>1, <2>2
<1>3. /\ b \in Seq(S) /\ Len(b) = Len(s) - i
      /\ \A k \in 1 .. Len(s) - i : b[k] = s[i + k]
  <2>1. \A k \in i + 1 .. Len(s) : s[k] \in S
    BY <1>1
  <2>2. /\ b \in Seq(S)
        /\ Len(b) = IF i + 1 <= Len(s) THEN Len(s) - (i + 1) + 1 ELSE 0
        /\ \A k \in 1 .. Len(s) - (i + 1) + 1 : b[k] = s[(i + 1) + k - 1]
    BY <1>1, <2>1, SubSeqProperties
  <2> HIDE DEF b
  <2>3. \A k \in 1 .. Len(s) - i : (i + 1) + k - 1 = i + k
    BY <1>1
  <2> QED BY <1>1, <2>2, <2>3
<1>4. u = a \o b
  BY DEF RemoveAt
<1> HIDE DEF a, b
<1>5. /\ u \in Seq(S) /\ DOMAIN u = 1 .. Len(s) - 1
      /\ \A k \in 1 .. i - 1 : u[k] = s[k]
      /\ \A k \in i .. Len(s) - 1 : u[k] = s[k + 1]
  <2>1. /\ u \in Seq(S) /\ Len(u) = Len(a) + Len(b)
        /\ \A k \in 1 .. Len(a) + Len(b) :
             u[k] = IF k <= Len(a) THEN a[k] ELSE b[k - Len(a)]
    <3>1. a \in Seq(S) /\ b \in Seq(S)
      BY <1>2, <1>3
    <3> QED BY <1>4, <3>1, ConcatProperties
  <2>2. DOMAIN u = 1 .. Len(u)
    BY <2>1, LenProperties
  <2>3. ASSUME NEW k \in 1 .. i - 1 PROVE u[k] = s[k]
    <3>1. k \in 1 .. Len(a) + Len(b) /\ k <= Len(a)
      BY <1>1, <1>2, <1>3
    <3> QED BY <1>2, <2>1, <3>1
  <2>4. ASSUME NEW k \in i .. Len(s) - 1 PROVE u[k] = s[k + 1]
    <3>1. k \in 1 .. Len(a) + Len(b) /\ ~(k <= Len(a))
      BY <1>1, <1>2, <1>3
    <3>2. k - Len(a) \in 1 .. Len(s) - i /\ i + (k - Len(a)) = k + 1
      BY <1>1, <1>2
    <3> QED BY <1>3, <2>1, <3>1, <3>2
  <2>5. Len(a) + Len(b) = Len(s) - 1
    BY <1>1, <1>2, <1>3
  <2> QED BY <2>1, <2>2, <2>3, <2>4, <2>5
<1>6. ASSUME NEW k \in DOMAIN u
      PROVE  \E m \in DOMAIN s : m = (IF k < i THEN k ELSE k + 1) /\ u[k] = s[m]
  BY <1>1, <1>5
<1>7. IsInjective(u)
  <2> SUFFICES ASSUME NEW k \in DOMAIN u, NEW m \in DOMAIN u, u[k] = u[m]
               PROVE  k = m
    BY DEF IsInjective
  <2>1. (IF k < i THEN k ELSE k + 1) = (IF m < i THEN m ELSE m + 1)
    BY <1>6 DEF IsInjective
  <2> QED BY <1>1, <1>5, <2>1
<1>8. ASSUME NEW k \in DOMAIN u PROVE u[k] \in ToSet(s) /\ u[k] # s[i]
  <2>1. PICK m \in DOMAIN s : m = (IF k < i THEN k ELSE k + 1) /\ u[k] = s[m]
    BY <1>6
  <2>2. m # i
    BY <1>1, <1>5, <2>1
  <2>3. s[m] # s[i]
    BY <2>2 DEF IsInjective
  <2> QED BY <2>1, <2>3, Zenon DEF ToSet
<1>9. ASSUME NEW n \in ToSet(s), n # s[i]
      PROVE  \E k \in DOMAIN u : u[k] = n
  <2>1. PICK k \in DOMAIN s : s[k] = n
    BY DEF ToSet
  <2>2. CASE k < i
    <3>1. k \in 1 .. i - 1 /\ k \in DOMAIN u
      BY <1>1, <1>5, <2>2
    <3> QED BY <1>5, <2>1, <3>1
  <2>3. CASE k > i
    <3>1. k - 1 \in i .. Len(s) - 1 /\ k - 1 \in DOMAIN u /\ (k - 1) + 1 = k
      BY <1>1, <1>5, <2>3
    <3> QED BY <1>5, <2>1, <3>1
  <2>4. k # i
    BY <1>9, <2>1
  <2> QED BY <1>1, <2>2, <2>3, <2>4
<1>10. ToSet(u) = ToSet(s) \ {s[i]}
  BY <1>8, <1>9 DEF ToSet
<1> QED BY <1>5, <1>7, <1>10

(* A number leaves the order, or the write of the order fails.             *)
LEMMA DropReferenceKeeps == IInv /\ DropReference => IInv'
<1> SUFFICES ASSUME IInv, DropReference PROVE IInv'
  OBVIOUS
<1>1. /\ todo # <<>> /\ Now.do = "dropRef" /\ Continue(<<>>)
      /\ UNCHANGED <<option, bootNext, list, current, target>>
      /\ inserting' = None
  BY DEF DropReference, Doing, Now
<1>2. /\ Typed /\ Shape /\ Once
      /\ ToSet(todo) = {Now} \union Rest /\ Sound(Now)
      /\ \A e \in Rest : /\ Sound(e)
                         /\ e.do \notin {"dropRef", "store", "temporary",
                                         "setCurrent"}
  BY <1>1, Ahead
<1>3. /\ todo' \in Seq(Steps) /\ ToSet(todo') = Rest
      /\ Shape' /\ Once'
      /\ todo' # <<>> => Now' = todo[2] /\ Now' \in Rest
  BY <1>1, <1>2, ContinueNone
<1>4. todo' # <<>> => Now'.do = "erase" /\ Now'.n = Now.n
  BY <1>1, <1>2, <1>3 DEF Shape, Doing, Now
<1>5. /\ order' \in Seq(Numbers) /\ IsInjective(order)'
      /\ \/ /\ Listed' = Listed \ {Now.n}
            /\ healing' = healing /\ trusted' = trusted
         \/ Listed' = Listed /\ ~healing' /\ ~trusted'
      /\ healing' \in BOOLEAN /\ trusted' \in BOOLEAN
  <2>1. order \in Seq(Numbers) /\ IsInjective(order)
    BY <1>2 DEF IInv, Typed, NoDuplicateNumbers
  <2>2. CASE /\ Now.n \notin Listed
             /\ UNCHANGED <<order, healing, trusted>>
    BY <1>2, <2>1, <2>2 DEF Typed, Listed
  <2>3. CASE /\ \E i \in DOMAIN order : /\ order[i] = Now.n
                                        /\ order' = RemoveAt(order, i)
             /\ UNCHANGED <<healing, trusted>>
    <3>1. PICK i \in DOMAIN order : /\ order[i] = Now.n
                                    /\ order' = RemoveAt(order, i)
      BY <2>3
    <3>2. /\ order' \in Seq(Numbers) /\ IsInjective(order')
          /\ ToSet(order') = ToSet(order) \ {Now.n}
      BY <2>1, <3>1, Removing
    <3> QED BY <1>2, <2>3, <3>2 DEF Typed, Listed
  <2>4. CASE healing' = FALSE /\ trusted' = FALSE /\ UNCHANGED order
    BY <2>1, <2>4 DEF Listed
  <2> QED BY <2>2, <2>3, <2>4 DEF DropReference
<1>6. Typed'
  BY <1>1, <1>2, <1>3, <1>5, StoreAssumption DEF Typed, Sound, Steps, Entries
<1>7. /\ ListIsCurrent' /\ Heals' /\ ListedOnce' /\ PrunesListed' /\ DeletesOnly'
  BY <1>1, <1>2, <1>3, <1>4, <1>5
     DEF IInv, ListIsCurrent, Heals, Gathering, InList, Pending, Doing, Now,
         ListedOnce, PrunesListed, DeletesOnly
<1>8. NoDuplicateNumbers'
  BY <1>5 DEF NoDuplicateNumbers
<1>9. OnlyAccidentsDangle'
  BY <1>1, <1>5 DEF IInv, OnlyAccidentsDangle, InsertingIsNow, Doing, Now
<1>10. ErasesUnlisted'
  BY <1>4, <1>5 DEF ErasesUnlisted, Doing, Now
<1>11. /\ InsertingIsNow' /\ StoresTarget'
       /\ TemporaryIsUnlisted' /\ BootCurrentIsBooted'
  BY <1>1, <1>4 DEF InsertingIsNow, StoresTarget, TemporaryIsUnlisted,
       BootCurrentIsBooted, Doing, Now
<1> QED BY <1>3, <1>6, <1>7, <1>8, <1>9, <1>10, <1>11 DEF IInv

(* The variable of a deleted option goes, or stays when that fails.        *)
LEMMA EraseOptionKeeps == IInv /\ EraseOption => IInv'
<1> SUFFICES ASSUME IInv, EraseOption PROVE IInv'
  OBVIOUS
<1>1. /\ todo # <<>> /\ Now.do = "erase" /\ Continue(<<>>)
      /\ option' \in {option, [option EXCEPT ![Now.n] = Missing]}
      /\ UNCHANGED <<order, bootNext, list, current, target, inserting,
                     healing, trusted>>
  BY DEF EraseOption, Doing, Now, ghosts
<1>2. /\ Typed /\ Shape /\ Once
      /\ ToSet(todo) = {Now} \union Rest /\ Sound(Now)
      /\ \A e \in Rest : /\ Sound(e)
                         /\ e.do \in Unique => e.n # Now.n
                         /\ e.do \notin {"dropRef", "store", "temporary",
                                         "setCurrent", "erase"}
  BY <1>1, Ahead DEF Unique
<1>3. /\ todo' \in Seq(Steps) /\ ToSet(todo') = Rest
      /\ Shape' /\ Once'
      /\ todo' # <<>> => Now' \in Rest
  BY <1>1, <1>2, ContinueNone
<1>4. Now.n \in Numbers
  BY <1>1, <1>2 DEF Sound, Numbered
<1>5. /\ option' \in [Numbers -> Contents \union {Corrupt, Missing}]
      /\ \A n \in Numbers : n # Now.n => option'[n] = option[n]
      /\ option'[Now.n] \in {option[Now.n], Missing}
  BY <1>1, <1>2, <1>4 DEF Typed
<1>6. Missing \notin Contents
  BY StoreAssumption DEF Contents
<1>7. /\ \A o \in ToSet(list) : o \in Entries /\ o.n \in Numbers
                                /\ o.c \in Contents
      /\ \A n \in Listed : n \in Numbers
  <2>1. \A o \in ToSet(list) : o \in Entries
    BY <1>2, LenProperties DEF Typed, ToSet
  <2>2. \A n \in Listed : n \in Numbers
    BY <1>2, LenProperties DEF Typed, ToSet, Listed
  <2> QED BY <2>1, <2>2 DEF Entries
<1>8. Typed'
  BY <1>1, <1>2, <1>3, <1>5 DEF Typed, Sound
<1>9. NoDuplicateNumbers' /\ ListedOnce' /\ Heals'
  BY <1>1, <1>2, <1>3
     DEF IInv, NoDuplicateNumbers, ListedOnce, Heals, InList, Pending, Listed,
         Doing, Now
<1>10. ListIsCurrent'
  <2> SUFFICES ASSUME Gathering' PROVE ListIsCurrent'
    BY DEF ListIsCurrent
  <2>1. Gathering
    BY <1>2, <1>3 DEF Gathering
  <2>2. option[Now.n] \notin Contents /\ option'[Now.n] \notin Contents
    BY <1>1, <1>2, <1>5, <1>6, <2>1 DEF IInv, ListIsCurrent
  <2>3. \A o \in ToSet(list) : o.n # Now.n
    BY <1>7, <2>1, <2>2 DEF IInv, ListIsCurrent
  <2>4. \A o \in ToSet(list) : option'[o.n] = o.c
    BY <1>5, <1>7, <2>1, <2>3 DEF IInv, ListIsCurrent
  <2>5. \A n \in Listed : option'[n] \in Contents =>
                            InList(n) \/ Pending(n)'
    BY <1>1, <1>2, <1>3, <1>5, <1>7, <2>1, <2>2
       DEF IInv, ListIsCurrent, Pending
  <2> QED BY <1>1, <1>2, <1>3, <2>4, <2>5 DEF ListIsCurrent, Listed, InList
<1>11. PrunesListed' /\ DeletesOnly'
  BY <1>1, <1>2, <1>3, <1>4, <1>5, <1>7
     DEF IInv, PrunesListed, DeletesOnly, Sound, Unique, Numbered
<1>12. OnlyAccidentsDangle'
  BY <1>1, <1>5, <1>7
     DEF IInv, OnlyAccidentsDangle, ErasesUnlisted, Doing, Now, Listed
<1>13. /\ InsertingIsNow' /\ StoresTarget' /\ ErasesUnlisted'
       /\ TemporaryIsUnlisted' /\ BootCurrentIsBooted'
  BY <1>1, <1>2, <1>3 DEF IInv, InsertingIsNow, StoresTarget, ErasesUnlisted,
       TemporaryIsUnlisted, BootCurrentIsBooted, Doing, Now
<1> QED BY <1>3, <1>8, <1>9, <1>10, <1>11, <1>12, <1>13 DEF IInv

(* A sequence s with e inserted as its entry i.                            *)
LEMMA Inserting ==
  ASSUME NEW S, NEW s \in Seq(S), IsInjective(s), NEW e \in S,
         e \notin ToSet(s), NEW i \in 1 .. Len(s) + 1,
         NEW u, u = InsertAt(s, i, e)
  PROVE  /\ u \in Seq(S) /\ IsInjective(u)
         /\ ToSet(u) = ToSet(s) \union {e}
<1>1. Len(s) \in Nat /\ DOMAIN s = 1 .. Len(s)
  BY LenProperties
<1> DEFINE a == SubSeq(s, 1, i - 1)
           b == SubSeq(s, i, Len(s))
           c == a \o <<e>>
<1>2. /\ a \in Seq(S) /\ Len(a) = i - 1
      /\ \A k \in 1 .. i - 1 : a[k] = s[k]
  <2>1. \A k \in 1 .. i - 1 : s[k] \in S
    BY <1>1
  <2>2. /\ a \in Seq(S)
        /\ Len(a) = IF 1 <= i - 1 THEN (i - 1) - 1 + 1 ELSE 0
        /\ \A k \in 1 .. (i - 1) - 1 + 1 : a[k] = s[1 + k - 1]
    BY <1>1, <2>1, SubSeqProperties
  <2> HIDE DEF a
  <2> QED BY <1>1, <2>2
<1>3. /\ b \in Seq(S) /\ Len(b) = Len(s) - i + 1
      /\ \A k \in 1 .. Len(s) - i + 1 : b[k] = s[i + k - 1]
  <2>1. \A k \in i .. Len(s) : s[k] \in S
    BY <1>1
  <2>2. /\ b \in Seq(S)
        /\ Len(b) = IF i <= Len(s) THEN Len(s) - i + 1 ELSE 0
        /\ \A k \in 1 .. Len(s) - i + 1 : b[k] = s[i + k - 1]
    BY <1>1, <2>1, SubSeqProperties
  <2> HIDE DEF b
  <2> QED BY <1>1, <2>2
<1>4. u = c \o b
  BY DEF InsertAt
<1> HIDE DEF a, b
<1>5. /\ c \in Seq(S) /\ Len(c) = i
      /\ \A k \in 1 .. i - 1 : c[k] = s[k]
      /\ c[i] = e
  <2>1. <<e>> \in Seq(S) /\ Len(<<e>>) = 1 /\ <<e>>[1] = e
    OBVIOUS
  <2>2. a \in Seq(S)
    BY <1>2
  <2>3. /\ c \in Seq(S) /\ Len(c) = Len(a) + Len(<<e>>)
        /\ \A k \in 1 .. Len(a) + Len(<<e>>) :
             c[k] = IF k <= Len(a) THEN a[k] ELSE <<e>>[k - Len(a)]
    BY <2>1, <2>2, ConcatProperties
  <2> HIDE DEF c
  <2> QED BY <1>1, <1>2, <2>1, <2>3
<1> HIDE DEF c
<1>6. /\ u \in Seq(S) /\ DOMAIN u = 1 .. Len(s) + 1
      /\ \A k \in 1 .. i - 1 : u[k] = s[k]
      /\ u[i] = e
      /\ \A k \in i + 1 .. Len(s) + 1 : u[k] = s[k - 1]
  <2>1. /\ u \in Seq(S) /\ Len(u) = Len(c) + Len(b)
        /\ \A k \in 1 .. Len(c) + Len(b) :
             u[k] = IF k <= Len(c) THEN c[k] ELSE b[k - Len(c)]
    <3>1. c \in Seq(S) /\ b \in Seq(S)
      BY <1>3, <1>5
    <3> QED BY <1>4, <3>1, ConcatProperties
  <2>2. DOMAIN u = 1 .. Len(u)
    BY <2>1, LenProperties
  <2>3. ASSUME NEW k \in 1 .. i PROVE u[k] = c[k]
    <3>1. k \in 1 .. Len(c) + Len(b) /\ k <= Len(c)
      BY <1>1, <1>3, <1>5
    <3> QED BY <2>1, <3>1
  <2>4. ASSUME NEW k \in i + 1 .. Len(s) + 1 PROVE u[k] = s[k - 1]
    <3>1. k \in 1 .. Len(c) + Len(b) /\ ~(k <= Len(c))
      BY <1>1, <1>3, <1>5
    <3>2. k - Len(c) \in 1 .. Len(s) - i + 1 /\ i + (k - Len(c)) - 1 = k - 1
      BY <1>1, <1>5
    <3> QED BY <1>3, <2>1, <3>1, <3>2
  <2>5. Len(c) + Len(b) = Len(s) + 1
    BY <1>1, <1>3, <1>5
  <2>6. i \in 1 .. i /\ \A k \in 1 .. i - 1 : k \in 1 .. i
    BY <1>1
  <2> QED BY <1>5, <2>1, <2>2, <2>3, <2>4, <2>5, <2>6
<1>7. ASSUME NEW k \in DOMAIN u, k # i
      PROVE  /\ (IF k < i THEN k ELSE k - 1) \in DOMAIN s
             /\ u[k] = s[IF k < i THEN k ELSE k - 1]
  BY <1>1, <1>6, <1>7
<1>8. ASSUME NEW k \in DOMAIN s PROVE s[k] # e /\ s[k] \in ToSet(s)
  BY DEF ToSet
<1>9. IsInjective(u)
  <2> SUFFICES ASSUME NEW k \in DOMAIN u, NEW m \in DOMAIN u, u[k] = u[m]
               PROVE  k = m
    BY DEF IsInjective
  <2>1. CASE k = i \/ m = i
    BY <1>6, <1>7, <1>8, <2>1
  <2>2. CASE k # i /\ m # i
    <3>1. (IF k < i THEN k ELSE k - 1) = (IF m < i THEN m ELSE m - 1)
      BY <1>7, <2>2 DEF IsInjective
    <3> QED BY <1>1, <1>6, <2>2, <3>1
  <2> QED BY <2>1, <2>2
<1>10. ASSUME NEW k \in DOMAIN u PROVE u[k] \in ToSet(s) \union {e}
  BY <1>6, <1>7, <1>8
<1>11. ASSUME NEW n \in ToSet(s) PROVE \E k \in DOMAIN u : u[k] = n
  <2>1. PICK k \in DOMAIN s : s[k] = n
    BY DEF ToSet
  <2>2. CASE k < i
    <3>1. k \in 1 .. i - 1 /\ k \in DOMAIN u
      BY <1>1, <1>6, <2>2
    <3> QED BY <1>6, <2>1, <3>1
  <2>3. CASE ~(k < i)
    <3>1. k + 1 \in i + 1 .. Len(s) + 1 /\ k + 1 \in DOMAIN u /\ (k + 1) - 1 = k
      BY <1>1, <1>6, <2>3
    <3> QED BY <1>6, <2>1, <3>1
  <2> QED BY <2>2, <2>3
<1>12. i \in DOMAIN u /\ u[i] = e
  BY <1>1, <1>6
<1>13. ToSet(u) = ToSet(s) \union {e}
  BY <1>10, <1>11, <1>12 DEF ToSet
<1> QED BY <1>6, <1>9, <1>13

(* The number of an option enters the order, or not.                       *)
LEMMA AddOptionKeeps == IInv /\ AddOption => IInv'
<1> SUFFICES ASSUME IInv, AddOption PROVE IInv'
  OBVIOUS
<1> DEFINE n == IF Now.n = None THEN FreeNumber ELSE Now.n
           e == Step("store", n, Now.c)
<1>1. /\ todo # <<>> /\ Now.do = "add" /\ target' = n
      /\ UNCHANGED <<option, bootNext, list, current, healing, trusted>>
      /\ \/ Continue(<<>>) /\ UNCHANGED <<order, inserting>>
         \/ n # None /\ Insert(n, Now.c)
  BY DEF AddOption, Doing, Now
<1>2. /\ Typed /\ Shape /\ Once /\ Now \in Steps /\ Sound(Now)
      /\ \A f \in Rest : Sound(f) /\ f.do = "add"
  BY <1>1, Ahead, Behind
<1>3. n \in Numbers \union {None}
  <2>1. FreeNumberIsFree
    BY <1>2, FreeNumberCorrect DEF Typed
  <2>2. FreeNumber \in Numbers \union {None}
    BY <2>1 DEF FreeNumberIsFree
  <2> QED BY <1>2, <2>2 DEF Steps
<1> HIDE DEF n
<1>4. inserting = None
  BY <1>1 DEF IInv, InsertingIsNow, Doing, Now
<1>5. \A k \in Listed : k # None /\ k \in Numbers
  <2>1. \A k \in Listed : k \in Numbers
    BY <1>2, LenProperties DEF Typed, ToSet, Listed
  <2> QED BY <2>1, StoreAssumption DEF Numbers
<1>6. CASE Continue(<<>>) /\ UNCHANGED <<order, inserting>>
  <2>1. /\ todo' \in Seq(Steps) /\ ToSet(todo') = Rest
        /\ Shape' /\ Once'
        /\ todo' # <<>> => Now' \in Rest
    BY <1>1, <1>2, <1>6, ContinueNone
  <2>2. Typed'
    BY <1>1, <1>2, <1>3, <1>6, <2>1 DEF Typed, Sound
  <2>3. /\ NoDuplicateNumbers' /\ OnlyAccidentsDangle' /\ ListedOnce'
        /\ ListIsCurrent' /\ PrunesListed' /\ DeletesOnly' /\ Heals'
    BY <1>1, <1>2, <1>6, <2>1
       DEF IInv, NoDuplicateNumbers, OnlyAccidentsDangle, Listed, ListedOnce,
           ListIsCurrent, Gathering, PrunesListed, DeletesOnly, Heals
  <2>4. /\ InsertingIsNow' /\ StoresTarget' /\ ErasesUnlisted'
        /\ TemporaryIsUnlisted' /\ BootCurrentIsBooted'
    BY <1>2, <1>4, <1>6, <2>1 DEF InsertingIsNow, StoresTarget,
         ErasesUnlisted, TemporaryIsUnlisted, BootCurrentIsBooted, Doing, Now
  <2> QED BY <2>1, <2>2, <2>3, <2>4 DEF IInv
<1>7. CASE /\ n # None /\ n \notin Listed
           /\ \E i \in 1 .. Len(order) + 1 : order' = InsertAt(order, i, n)
           /\ inserting' = n /\ Continue(<<e>>)
  <2>1. n \in Numbers
    BY <1>3, <1>7
  <2>2. order' \in Seq(Numbers) /\ IsInjective(order')
        /\ Listed' = Listed \union {n}
    <3>1. PICK i \in 1 .. Len(order) + 1 : order' = InsertAt(order, i, n)
      BY <1>7
    <3>2. order \in Seq(Numbers) /\ IsInjective(order) /\ n \notin ToSet(order)
      BY <1>2, <1>7 DEF Typed, IInv, NoDuplicateNumbers, Listed
    <3>3. /\ order' \in Seq(Numbers) /\ IsInjective(order')
          /\ ToSet(order') = ToSet(order) \union {n}
      BY <2>1, <3>1, <3>2, Inserting
    <3> QED BY <3>3 DEF Listed
  <2>3. e \in Steps /\ e.do = "store" /\ e.n = n /\ Sound(e)
    BY <1>1, <1>2, <2>1 DEF Step, Steps, Kinds, Sound, Carrying, Searching
  <2> HIDE DEF e
  <2>4. /\ todo' \in Seq(Steps) /\ ToSet(todo') = {e} \union Rest
        /\ Shape' /\ Once'
        /\ todo' # <<>> /\ Now' = e
    <3>1. \A k \in Kinds : Now.do \in Before(k) => e.do \in Before(k)
      BY <1>1, <2>3 DEF Before, Kinds, Scan
    <3> QED BY <1>1, <1>2, <1>7, <2>3, <3>1, ContinueOne DEF Unique
  <2>5. Typed'
    BY <1>1, <1>2, <1>7, <2>1, <2>2, <2>3, <2>4 DEF Typed, Sound
  <2>6. NoDuplicateNumbers' /\ OnlyAccidentsDangle'
    BY <1>1, <1>4, <1>5, <1>7, <2>2
       DEF IInv, NoDuplicateNumbers, OnlyAccidentsDangle
  <2>7. ListedOnce' /\ ListIsCurrent' /\ PrunesListed' /\ DeletesOnly' /\ Heals'
    BY <1>1, <1>2, <2>3, <2>4 DEF IInv, ListedOnce, ListIsCurrent, Gathering,
         PrunesListed, DeletesOnly, Heals
  <2>8. /\ InsertingIsNow' /\ StoresTarget' /\ ErasesUnlisted'
        /\ TemporaryIsUnlisted' /\ BootCurrentIsBooted'
    BY <1>1, <1>7, <2>3, <2>4 DEF InsertingIsNow, StoresTarget,
         ErasesUnlisted, TemporaryIsUnlisted, BootCurrentIsBooted, Doing, Now
  <2> QED BY <2>4, <2>5, <2>6, <2>7, <2>8 DEF IInv
<1> QED BY <1>1, <1>6, <1>7 DEF Insert

(* The option of the number is stored, or its deletion planned.            *)
LEMMA StoreOptionKeeps == IInv /\ StoreOption => IInv'
<1> SUFFICES ASSUME IInv, StoreOption PROVE IInv'
  OBVIOUS
<1>1. /\ todo # <<>> /\ Now.do = "store"
      /\ UNCHANGED <<order, bootNext, list, current, target, healing, trusted>>
  BY DEF StoreOption, Doing, Now
<1>2. /\ Typed /\ Shape /\ Once /\ Now \in Steps /\ Sound(Now)
      /\ \A f \in Rest : Sound(f) /\ f.do = "add"
  BY <1>1, Ahead, Behind
<1>3. Now.n \in Numbers /\ Now.c \in Contents
  BY <1>1, <1>2 DEF Sound, Numbered, Carrying
<1>4. inserting \in {None, Now.n} /\ Now.n = target
  BY <1>1 DEF IInv, InsertingIsNow, StoresTarget, Doing, Now
<1>5. \A k \in Listed : k # None /\ k \in Numbers
  <2>1. \A k \in Listed : k \in Numbers
    BY <1>2, LenProperties DEF Typed, ToSet, Listed
  <2> QED BY <2>1, StoreAssumption DEF Numbers
<1>6. NoDuplicateNumbers'
  BY <1>1 DEF IInv, NoDuplicateNumbers
<1>7. CASE /\ option' = [option EXCEPT ![Now.n] = Now.c]
           /\ inserting' = None /\ Continue(<<>>)
  <2>1. /\ todo' \in Seq(Steps) /\ ToSet(todo') = Rest
        /\ Shape' /\ Once'
        /\ todo' # <<>> => Now' \in Rest
    BY <1>1, <1>2, <1>7, ContinueNone
  <2>2. /\ option' \in [Numbers -> Contents \union {Corrupt, Missing}]
        /\ \A n \in Numbers : option'[n] = IF n = Now.n THEN Now.c ELSE option[n]
    BY <1>2, <1>3, <1>7 DEF Typed
  <2>3. Typed'
    BY <1>1, <1>2, <1>7, <2>1, <2>2 DEF Typed, Sound
  <2>4. OnlyAccidentsDangle'
    BY <1>1, <1>3, <1>4, <1>5, <2>2 DEF IInv, OnlyAccidentsDangle, Listed
  <2>5. ListedOnce' /\ ListIsCurrent' /\ PrunesListed' /\ DeletesOnly' /\ Heals'
    BY <1>1, <1>2, <2>1 DEF IInv, ListedOnce, ListIsCurrent, Gathering,
         PrunesListed, DeletesOnly, Heals
  <2>6. /\ InsertingIsNow' /\ StoresTarget' /\ ErasesUnlisted'
        /\ TemporaryIsUnlisted' /\ BootCurrentIsBooted'
    BY <1>2, <1>7, <2>1 DEF InsertingIsNow, StoresTarget,
         ErasesUnlisted, TemporaryIsUnlisted, BootCurrentIsBooted, Doing, Now
  <2> QED BY <1>6, <2>1, <2>3, <2>4, <2>5, <2>6 DEF IInv
<1>8. CASE Continue(Deletion(Now.n)) /\ UNCHANGED <<option, inserting>>
  <2> DEFINE d == Step("dropRef", Now.n, Missing)
             e == Step("erase", Now.n, Missing)
  <2>1. /\ todo' \in Seq(Steps) /\ ToSet(todo') = {d, e} \union Rest
        /\ Shape' /\ Once'
        /\ todo' # <<>> /\ Now' = d
    BY <1>1, <1>2, <1>3, <1>8, ContinueDeletion
  <2>2. d.do = "dropRef" /\ d.n = Now.n /\ e.do = "erase" /\ e.n = Now.n
    BY DEF Step
  <2>3. Sound(d) /\ Sound(e)
    BY <1>3, <2>2 DEF Sound, Numbered, Carrying, Searching
  <2> HIDE DEF d, e
  <2>4. Typed'
    BY <1>1, <1>2, <1>8, <2>1, <2>3 DEF Typed, Sound
  <2>5. OnlyAccidentsDangle'
    BY <1>1, <1>8 DEF IInv, OnlyAccidentsDangle, Listed
  <2>6. ListedOnce' /\ ListIsCurrent' /\ PrunesListed' /\ Heals'
    BY <1>1, <1>2, <2>1, <2>2 DEF IInv, ListedOnce, ListIsCurrent, Gathering,
         PrunesListed, Heals
  <2>7. DeletesOnly'
    BY <1>1, <1>2, <1>4, <2>1, <2>2 DEF DeletesOnly
  <2>8. /\ InsertingIsNow' /\ StoresTarget' /\ ErasesUnlisted'
        /\ TemporaryIsUnlisted' /\ BootCurrentIsBooted'
    BY <1>4, <1>8, <2>1, <2>2 DEF InsertingIsNow, StoresTarget,
         ErasesUnlisted, TemporaryIsUnlisted, BootCurrentIsBooted, Doing, Now
  <2> QED BY <1>6, <2>1, <2>4, <2>5, <2>6, <2>7, <2>8 DEF IInv
<1> QED BY <1>7, <1>8 DEF StoreOption

(* With nothing left to be done only the variables matter.                 *)
LEMMA Idle ==
  ASSUME Typed', NoDuplicateNumbers', OnlyAccidentsDangle', ListedOnce',
         todo' = <<>>, inserting' = None
  PROVE  IInv'
<1>1. ToSet(todo') = {} /\ DOMAIN (todo') = {}
  <2>1. todo' \in Seq(Steps) /\ Len(todo') = 0
    BY EmptySeq DEF Typed
  <2>2. DOMAIN (todo') = {}
    BY <2>1, LenProperties
  <2> QED BY <2>2 DEF ToSet
<1>2. Shape' /\ Once'
  BY <1>1 DEF Shape, Once, Doing
<1>3. ListIsCurrent' /\ PrunesListed' /\ DeletesOnly' /\ Heals'
  BY <1>1 DEF ListIsCurrent, Gathering, PrunesListed, DeletesOnly, Heals
<1>4. /\ InsertingIsNow' /\ StoresTarget' /\ ErasesUnlisted'
      /\ TemporaryIsUnlisted' /\ BootCurrentIsBooted'
  BY DEF InsertingIsNow, StoresTarget, ErasesUnlisted, TemporaryIsUnlisted,
         BootCurrentIsBooted, Doing
<1> QED BY <1>2, <1>3, <1>4 DEF IInv

(* Every way to write the elements of s, which are all different, into as  *)
(* many places leaves them all different.                                  *)
LEMMA Arranging ==
  ASSUME NEW s, NEW m \in Nat, DOMAIN s = 1 .. m, Len(s) = m,
         \A i, j \in 1 .. m : s[i] = s[j] => i = j,
         NEW t \in Arrangements(s)
  PROVE  t \in [1 .. m -> ToSet(s)] /\ ToSet(t) = ToSet(s) /\ IsInjective(t)
<1> DEFINE T == ToSet(s)
<1>1. t \in [1 .. m -> T] /\ ToSet(t) = T
  BY DEF Arrangements
<1>2. IsFiniteSet(1 .. m)
  BY FS_Interval
<1> DEFINE g == [i \in 1 .. m |-> s[i]]
<1>3. g \in Surjection(1 .. m, T) /\ g \in Injection(1 .. m, T)
  <2>1. g \in [1 .. m -> T]
    BY DEF ToSet
  <2>2. \A x \in T : \E i \in 1 .. m : g[i] = x
    BY DEF ToSet
  <2>3. \A i, j \in 1 .. m : g[i] = g[j] => i = j
    OBVIOUS
  <2> HIDE DEF g, T
  <2>4. IsInjective(g)
    BY <2>1, <2>3 DEF IsInjective
  <2> QED BY <2>1, <2>2, <2>4, Zenon DEF Surjection, Injection
<1> HIDE DEF g
<1>4. Cardinality(T) = Cardinality(1 .. m)
  BY <1>2, <1>3, FS_Surjection, Zenon
<1>5. t \in Surjection(1 .. m, T)
  <2>1. \A x \in T : \E i \in 1 .. m : t[i] = x
    BY <1>1 DEF ToSet
  <2> HIDE DEF T
  <2> QED BY <1>1, <2>1, Zenon DEF Surjection
<1>6. t \in Injection(1 .. m, T)
  BY <1>2, <1>4, <1>5, FS_Surjection, Zenon
<1> QED BY <1>1, <1>6, Zenon DEF Injection

(* The new order holds the numbers that were listed.                       *)
LEMMA WriteSortedOrderKeeps == IInv /\ WriteSortedOrder => IInv'
<1> SUFFICES ASSUME IInv, WriteSortedOrder PROVE IInv'
  OBVIOUS
<1> DEFINE s == [i \in 1 .. Len(list) |-> list[i].n]
<1>1. /\ todo # <<>> /\ Now.do = "sort" /\ Continue(<<>>)
      /\ UNCHANGED <<option, bootNext, list, current, target, inserting,
                     healing, trusted>>
      /\ order' \in Arrangements(s) \/ order' = order
  BY DEF WriteSortedOrder, Doing, Now, ghosts
<1>2. /\ Typed /\ Shape /\ Once /\ Rest = {}
      /\ ToSet(todo) = {Now} \union Rest
  BY <1>1, Ahead, Behind
<1>3. todo' = <<>> /\ todo' \in Seq(Steps) /\ ToSet(todo') = {}
  BY <1>1, <1>2, ContinueNone
<1>4. inserting' = None
  BY <1>1 DEF IInv, InsertingIsNow, Doing, Now
<1>5. /\ list \in Seq(Entries) /\ Len(list) \in Nat
      /\ DOMAIN list = 1 .. Len(list)
      /\ \A i \in 1 .. Len(list) : list[i] \in Entries /\ list[i] \in ToSet(list)
  <2>1. list \in Seq(Entries)
    BY <1>2 DEF Typed
  <2>2. Len(list) \in Nat /\ DOMAIN list = 1 .. Len(list)
        /\ list \in [1 .. Len(list) -> Entries]
    BY <2>1, LenProperties
  <2> QED BY <2>1, <2>2 DEF ToSet
<1>6. /\ order' \in Seq(Numbers) /\ IsInjective(order')
      /\ \/ order' = order
         \/ \A n \in Listed' : \E o \in ToSet(list) : o.n = n
  <2>1. CASE order' = order
    BY <1>2, <2>1 DEF Typed, IInv, NoDuplicateNumbers
  <2>2. CASE order' \in Arrangements(s)
    <3>1. DOMAIN s = 1 .. Len(list) /\ Len(s) = Len(list)
          /\ \A i, j \in 1 .. Len(list) : s[i] = s[j] => i = j
      BY <1>5 DEF IInv, ListedOnce
    <3>2. \A i \in 1 .. Len(list) : s[i] = list[i].n /\ s[i] \in Numbers
      BY <1>5 DEF Entries
    <3> HIDE DEF s
    <3>3. order' \in [1 .. Len(list) -> ToSet(s)] /\ ToSet(order') = ToSet(s)
          /\ IsInjective(order')
      BY <1>5, <2>2, <3>1, Arranging
    <3>4. ToSet(s) \subseteq Numbers
      BY <3>1, <3>2 DEF ToSet
    <3>5. order' \in Seq(Numbers)
      BY <1>5, <3>3, <3>4
    <3>6. \A n \in ToSet(s) : \E o \in ToSet(list) : o.n = n
      <4>1. \A n \in ToSet(s) : \E i \in 1 .. Len(list) : n = s[i]
        BY <3>1 DEF ToSet
      <4> QED BY <1>5, <3>2, <4>1
    <3>7. \A n \in Listed' : \E o \in ToSet(list) : o.n = n
      BY <3>3, <3>6 DEF Listed
    <3> QED BY <3>3, <3>5, <3>7
  <2> QED BY <1>1, <2>1, <2>2
<1>7. Typed'
  BY <1>1, <1>2, <1>3, <1>6 DEF Typed
<1>8. NoDuplicateNumbers'
  BY <1>6 DEF NoDuplicateNumbers
<1>9. OnlyAccidentsDangle'
  <2>1. \A o \in ToSet(list) : option[o.n] \in Contents
    BY <1>1, <1>2, <1>5 DEF IInv, ListIsCurrent, Gathering, Entries, ToSet
  <2> QED BY <1>1, <1>6, <2>1 DEF IInv, OnlyAccidentsDangle, Listed
<1>10. ListedOnce'
  BY <1>1, <1>3 DEF IInv, ListedOnce
<1> QED BY <1>3, <1>4, <1>7, <1>8, <1>9, <1>10, Idle

(* SetToSeq lists the elements of a finite set.                            *)
LEMMA Sequenced ==
  ASSUME NEW S, IsFiniteSet(S)
  PROVE  Cardinality(S) \in Nat /\ SetToSeq(S) \in [1 .. Cardinality(S) -> S]
<1>1. Cardinality(S) \in Nat /\ ExistsBijection(1 .. Cardinality(S), S)
  BY FS_CardinalityType
<1>2. \E f \in [1 .. Cardinality(S) -> S] : IsInjective(f)
  BY <1>1, Zenon DEF ExistsBijection, Bijection, Injection
<1> QED BY <1>1, <1>2, Zenon DEF SetToSeq

(* Each listed option is to be looked for, then the new ones to be added.  *)
LEMMA PlanRefreshKeeps == IInv /\ PlanRefresh => IInv'
<1> SUFFICES ASSUME IInv, PlanRefresh PROVE IInv'
  OBVIOUS
<1> DEFINE new == SetToSeq(Now.c \ ListedContents)
           p == [i \in 1 .. Len(list) |-> Step("prune", list[i].n, Now.c)]
           a == [i \in 1 .. Len(new) |-> Step("add", None, new[i])]
           s == p \o a
<1>1. /\ todo # <<>> /\ Now.do = "refresh" /\ Continue(s)
      /\ UNCHANGED <<order, option, bootNext, list, current, target,
                     inserting, healing, trusted>>
  BY DEF PlanRefresh, Doing, Now, ghosts, nv
<1>2. /\ Typed /\ Shape /\ Once /\ Rest = {} /\ Sound(Now)
      /\ ToSet(todo) = {Now} \union Rest
  BY <1>1, Ahead, Behind
<1>3. /\ list \in Seq(Entries) /\ Len(list) \in Nat
      /\ DOMAIN list = 1 .. Len(list)
      /\ \A i \in 1 .. Len(list) : list[i].n \in Numbers
                                   /\ list[i] \in ToSet(list)
  <2>1. list \in Seq(Entries)
    BY <1>2 DEF Typed
  <2>2. Len(list) \in Nat /\ DOMAIN list = 1 .. Len(list)
        /\ list \in [1 .. Len(list) -> Entries]
    BY <2>1, LenProperties
  <2> QED BY <2>1, <2>2 DEF ToSet, Entries
<1>4. Now.c \in SUBSET AutoContents
  BY <1>1, <1>2 DEF Sound, Searching
<1>5. Len(new) \in Nat /\ \A i \in 1 .. Len(new) : new[i] \in Contents
  <2>1. IsFiniteSet(Now.c \ ListedContents)
    BY <1>4, StoreAssumption, FS_Subset
  <2>2. /\ Cardinality(Now.c \ ListedContents) \in Nat
        /\ new \in [1 .. Cardinality(Now.c \ ListedContents)
                      -> Now.c \ ListedContents]
    BY <2>1, Sequenced
  <2> HIDE DEF new
  <2>3. Len(new) = Cardinality(Now.c \ ListedContents)
    BY <2>2
  <2> QED BY <1>4, <2>2, <2>3 DEF Contents
<1> HIDE DEF new
<1>6. /\ p \in Seq(Steps) /\ Len(p) = Len(list)
      /\ \A i \in 1 .. Len(p) : /\ p[i].do = "prune" /\ p[i].n = list[i].n
                                /\ Sound(p[i])
  <2>1. \A i \in 1 .. Len(list) : Step("prune", list[i].n, Now.c) \in Steps
    BY <1>3, <1>4 DEF Step, Steps, Kinds
  <2>2. p \in Seq(Steps) /\ Len(p) = Len(list)
    BY <1>3, <2>1
  <2>3. \A i \in 1 .. Len(p) : /\ p[i].do = "prune" /\ p[i].n = list[i].n
                               /\ p[i].c = Now.c
    BY <2>2 DEF Step
  <2> HIDE DEF p
  <2> QED BY <1>3, <1>4, <2>2, <2>3 DEF Sound, Numbered, Carrying, Searching
<1>7. /\ a \in Seq(Steps) /\ Len(a) = Len(new)
      /\ \A i \in 1 .. Len(a) : a[i].do = "add" /\ Sound(a[i])
  <2>1. \A i \in 1 .. Len(new) : Step("add", None, new[i]) \in Steps
    BY <1>5 DEF Step, Steps, Kinds
  <2>2. a \in Seq(Steps) /\ Len(a) = Len(new)
    BY <1>5, <2>1
  <2>3. \A i \in 1 .. Len(a) : a[i].do = "add" /\ a[i].c \in Contents
    BY <1>5, <2>2 DEF Step
  <2> HIDE DEF a
  <2> QED BY <2>2, <2>3 DEF Sound, Numbered, Carrying, Searching
<1> HIDE DEF p, a
<1>8. /\ s \in Seq(Steps) /\ Len(s) = Len(p) + Len(a) /\ DOMAIN s = 1 .. Len(s)
      /\ \A i \in DOMAIN s :
           IF i <= Len(p) THEN s[i] = p[i] /\ i \in 1 .. Len(p)
                          ELSE s[i] = a[i - Len(p)] /\ i - Len(p) \in 1 .. Len(a)
  <2>1. p \in Seq(Steps) /\ a \in Seq(Steps)
    BY <1>6, <1>7
  <2>2. /\ s \in Seq(Steps) /\ Len(s) = Len(p) + Len(a)
        /\ \A i \in 1 .. Len(p) + Len(a) :
             s[i] = IF i <= Len(p) THEN p[i] ELSE a[i - Len(p)]
    BY <2>1, ConcatProperties
  <2> HIDE DEF s
  <2>3. DOMAIN s = 1 .. Len(s) /\ Len(p) \in Nat /\ Len(a) \in Nat
    BY <2>1, <2>2, LenProperties
  <2> QED BY <2>2, <2>3
<1> HIDE DEF s
<1>9. \A i \in DOMAIN s :
        /\ s[i] \in Steps /\ Sound(s[i])
        /\ \/ s[i].do = "add" /\ i > Len(p)
           \/ s[i].do = "prune" /\ i \in 1 .. Len(list) /\ s[i].n = list[i].n
              /\ i <= Len(p)
  <2>1. \A i \in DOMAIN s : s[i] \in Steps
    BY <1>8, ElementOfSeq
  <2>2. ASSUME NEW i \in DOMAIN s, i <= Len(p)
        PROVE  /\ Sound(s[i]) /\ s[i].do = "prune" /\ i \in 1 .. Len(list)
               /\ s[i].n = list[i].n
    BY <1>6, <1>8, <2>2
  <2>3. ASSUME NEW i \in DOMAIN s, ~(i <= Len(p))
        PROVE  Sound(s[i]) /\ s[i].do = "add" /\ i > Len(p)
    <3>1. s[i] = a[i - Len(p)] /\ i - Len(p) \in 1 .. Len(a)
      BY <1>8, <2>3
    <3> QED BY <1>3, <1>6, <1>7, <1>8, <2>3, <3>1
  <2> QED BY <2>1, <2>2, <2>3
<1>10. Shape'
  <2>1. \A i, j \in DOMAIN s : i < j => s[i].do \in Before(s[j].do)
    <3>1. ASSUME NEW i \in DOMAIN s, NEW j \in DOMAIN s, i < j
          PROVE  (s[j].do = "add" /\ s[i].do \in {"add", "prune"})
                 \/ (s[i].do = "prune" /\ s[j].do = "prune")
      BY <1>3, <1>6, <1>8, <1>9, <3>1
    <3> QED BY <1>9, <3>1 DEF Before
  <2>2. \A k \in Kinds : Now.do \notin Before(k)
    BY <1>1 DEF Before, Kinds, Scan
  <2>3. s # <<>> => s[1].do # "dropRef"
    <3>1. s # <<>> => 1 \in DOMAIN s
      BY <1>8, EmptySeq
    <3> QED BY <1>9, <3>1
  <2> QED BY <1>1, <1>2, <1>8, <2>1, <2>2, <2>3, ShapeKept
<1>11. Once'
  <2>1. \A i, j \in DOMAIN s :
          s[i].do \in Unique /\ s[j].do \in Unique /\ s[i].n = s[j].n => i = j
    BY <1>3, <1>9 DEF IInv, ListedOnce, Unique
  <2> QED BY <1>1, <1>2, <1>8, <2>1, OnceKept
<1>12. /\ todo' \in Seq(Steps) /\ ToSet(todo') = ToSet(s)
       /\ todo' # <<>> => Now' \in ToSet(s)
  <2>1. /\ todo' \in Seq(Steps) /\ ToSet(todo') = ToSet(s) \union {}
        /\ s # <<>> => Now' = s[1]
        /\ s = <<>> /\ todo' # <<>> => Now' \in {}
    BY <1>1, <1>2, <1>8, Continued
  <2>2. s # <<>> => s[1] \in ToSet(s)
    <3>1. s # <<>> => 1 \in DOMAIN s
      BY <1>8, EmptySeq
    <3> QED BY <3>1, Zenon DEF ToSet
  <2> QED BY <2>1, <2>2
<1>13. \A e \in ToSet(s) :
         /\ Sound(e)
         /\ \/ e.do = "add"
            \/ e.do = "prune" /\ \E o \in ToSet(list) : o.n = e.n
  BY <1>3, <1>9 DEF ToSet
<1>14. Typed'
  BY <1>1, <1>2, <1>12, <1>13 DEF Typed, Sound
<1>15. PrunesListed'
  <2>1. \A o \in ToSet(list) : o.c = option[o.n]
    BY <1>1, <1>2 DEF IInv, ListIsCurrent, Gathering
  <2> QED BY <1>1, <1>12, <1>13, <2>1 DEF PrunesListed
<1>16. /\ NoDuplicateNumbers' /\ OnlyAccidentsDangle' /\ ListedOnce'
       /\ ListIsCurrent' /\ DeletesOnly' /\ Heals'
  BY <1>1, <1>12, <1>13 DEF IInv, NoDuplicateNumbers, OnlyAccidentsDangle,
       Listed, ListedOnce, ListIsCurrent, Gathering, DeletesOnly, Heals
<1>17. /\ InsertingIsNow' /\ StoresTarget' /\ ErasesUnlisted'
       /\ TemporaryIsUnlisted' /\ BootCurrentIsBooted'
  BY <1>1, <1>12, <1>13 DEF IInv, InsertingIsNow, StoresTarget, ErasesUnlisted,
       TemporaryIsUnlisted, BootCurrentIsBooted, Doing, Now
<1> QED BY <1>10, <1>11, <1>14, <1>15, <1>16, <1>17 DEF IInv

(* A listed option is deleted if it was found stale.                       *)
LEMMA PruneOptionKeeps == IInv /\ PruneOption => IInv'
<1> SUFFICES ASSUME IInv, PruneOption PROVE IInv'
  OBVIOUS
<1>1. /\ todo # <<>> /\ Now.do = "prune"
      /\ UNCHANGED <<order, option, bootNext, list, current, target,
                     inserting, healing, trusted>>
  BY DEF PruneOption, Doing, Now, ghosts, nv
<1>2. /\ Typed /\ Shape /\ Once /\ Sound(Now)
      /\ ToSet(todo) = {Now} \union Rest
      /\ \A e \in Rest : Sound(e) /\ e.do \in {"prune", "add"}
  BY <1>1, Ahead, Behind
<1>3. Now.n \in Numbers
  BY <1>1, <1>2 DEF Sound, Numbered
<1>4. inserting = None
  BY <1>1 DEF IInv, InsertingIsNow, Doing, Now
<1>5. NoDuplicateNumbers' /\ OnlyAccidentsDangle'
  BY <1>1 DEF IInv, NoDuplicateNumbers, OnlyAccidentsDangle, Listed
<1>6. CASE Continue(<<>>)
  <2>1. /\ todo' \in Seq(Steps) /\ ToSet(todo') = Rest
        /\ Shape' /\ Once'
        /\ todo' # <<>> => Now' \in Rest
    BY <1>1, <1>2, <1>6, ContinueNone
  <2>2. Typed'
    BY <1>1, <1>2, <2>1 DEF Typed, Sound
  <2>3. ListedOnce' /\ ListIsCurrent' /\ PrunesListed' /\ DeletesOnly' /\ Heals'
    BY <1>1, <1>2, <2>1 DEF IInv, ListedOnce, ListIsCurrent, Gathering,
         PrunesListed, DeletesOnly, Heals
  <2>4. /\ InsertingIsNow' /\ StoresTarget' /\ ErasesUnlisted'
        /\ TemporaryIsUnlisted' /\ BootCurrentIsBooted'
    BY <1>1, <1>2, <1>4, <2>1 DEF InsertingIsNow, StoresTarget,
         ErasesUnlisted, TemporaryIsUnlisted, BootCurrentIsBooted, Doing, Now
  <2> QED BY <1>5, <2>1, <2>2, <2>3, <2>4 DEF IInv
<1>7. CASE Continue(Deletion(Now.n)) /\ option[Now.n] \notin UserContents
  <2> DEFINE d == Step("dropRef", Now.n, Missing)
             e == Step("erase", Now.n, Missing)
  <2>1. /\ todo' \in Seq(Steps) /\ ToSet(todo') = {d, e} \union Rest
        /\ Shape' /\ Once'
        /\ todo' # <<>> /\ Now' = d
    BY <1>1, <1>2, <1>3, <1>7, ContinueDeletion
  <2>2. d.do = "dropRef" /\ d.n = Now.n /\ e.do = "erase" /\ e.n = Now.n
    BY DEF Step
  <2>3. Sound(d) /\ Sound(e)
    BY <1>3, <2>2 DEF Sound, Numbered, Carrying, Searching
  <2> HIDE DEF d, e
  <2>4. Typed'
    BY <1>1, <1>2, <2>1, <2>3 DEF Typed, Sound
  <2>5. ListedOnce' /\ ListIsCurrent' /\ PrunesListed' /\ Heals'
    BY <1>1, <1>2, <2>1, <2>2 DEF IInv, ListedOnce, ListIsCurrent, Gathering,
         PrunesListed, Heals
  <2>6. DeletesOnly'
    BY <1>1, <1>2, <1>7, <2>1, <2>2 DEF DeletesOnly
  <2>7. /\ InsertingIsNow' /\ StoresTarget' /\ ErasesUnlisted'
        /\ TemporaryIsUnlisted' /\ BootCurrentIsBooted'
    BY <1>1, <1>4, <2>1, <2>2 DEF InsertingIsNow, StoresTarget,
         ErasesUnlisted, TemporaryIsUnlisted, BootCurrentIsBooted, Doing, Now
  <2> QED BY <1>5, <2>1, <2>4, <2>5, <2>6, <2>7 DEF IInv
<1>8. Continue(<<>>)
      \/ (Continue(Deletion(Now.n)) /\ option[Now.n] \notin UserContents)
  <2>1. PICK i \in DOMAIN list :
          /\ list[i].n = Now.n
          /\ Continue(IF Stale(list[i].c, Now.c) THEN Deletion(Now.n) ELSE <<>>)
    BY Zenon DEF PruneOption
  <2>2. PICK o \in ToSet(list) : o.n = Now.n /\ o.c = option[Now.n]
    BY <1>1, <1>2 DEF IInv, PrunesListed
  <2>3. PICK j \in DOMAIN list : list[j] = o
    BY <2>2, Zenon DEF ToSet
  <2>4. list[i].c = option[Now.n]
    BY <2>1, <2>2, <2>3 DEF IInv, ListedOnce
  <2>5. CASE Stale(list[i].c, Now.c)
    <3>1. option[Now.n] \notin UserContents
      BY <2>4, <2>5, StoreAssumption DEF Stale
    <3> QED BY <2>1, <2>5, <3>1
  <2>6. CASE ~Stale(list[i].c, Now.c)
    BY <2>1, <2>6
  <2> QED BY <2>5, <2>6
<1> QED BY <1>6, <1>7, <1>8

(* What remains holds when one step e is left, on no number that is being  *)
(* deleted, read or pruned.                                                *)
LEMMA OneLeft ==
  ASSUME Typed', NoDuplicateNumbers', OnlyAccidentsDangle', ListedOnce',
         Shape', Once', inserting' = None, ToSet(todo') = {Now'},
         Now'.do \in {"temporary", "setCurrent"},
         TemporaryIsUnlisted', BootCurrentIsBooted'
  PROVE  IInv'
<1>1. ListIsCurrent' /\ PrunesListed' /\ DeletesOnly' /\ Heals'
  BY DEF ListIsCurrent, Gathering, PrunesListed, DeletesOnly, Heals
<1>2. InsertingIsNow' /\ StoresTarget' /\ ErasesUnlisted'
  BY DEF InsertingIsNow, StoresTarget, ErasesUnlisted, Doing, Now
<1> QED BY <1>1, <1>2 DEF IInv

(* The number of the option to boot is looked up, or a free one taken.     *)
LEMMA FindOptionKeeps == IInv /\ FindOption => IInv'
<1> SUFFICES ASSUME IInv, FindOption PROVE IInv'
  OBVIOUS
<1>1. /\ todo # <<>> /\ Now.do = "find"
      /\ UNCHANGED <<order, option, bootNext, list, current, target,
                     inserting, healing, trusted>>
  BY DEF FindOption, Doing, Now, ghosts, nv
<1>2. /\ Typed /\ Shape /\ Once /\ Rest = {} /\ Sound(Now)
      /\ ToSet(todo) = {Now} \union Rest
  BY <1>1, Ahead, Behind
<1>3. Now.c \in Contents
  BY <1>1, <1>2 DEF Sound, Carrying
<1>4. inserting' = None
  BY <1>1 DEF IInv, InsertingIsNow, Doing, Now
<1>5. NoDuplicateNumbers' /\ OnlyAccidentsDangle'
  BY <1>1 DEF IInv, NoDuplicateNumbers, OnlyAccidentsDangle, Listed
<1>6. \A k \in Kinds : Now.do \notin Before(k)
  BY <1>1 DEF Before, Kinds, Scan
<1>7. ASSUME NEW e \in Steps, e.do \in {"temporary", "setCurrent"}, Sound(e),
             Continue(<<e>>),
             e.do = "temporary" => e.n \notin Listed,
             e.do = "setCurrent" => option[e.n] = e.c
      PROVE  IInv'
  <2>1. /\ todo' \in Seq(Steps) /\ ToSet(todo') = {e} \union Rest
        /\ Shape' /\ Once'
        /\ todo' # <<>> /\ Now' = e
    BY <1>1, <1>2, <1>6, <1>7, ContinueOne DEF Unique
  <2>2. Typed'
    BY <1>1, <1>2, <1>7, <2>1 DEF Typed, Sound
  <2>3. ListedOnce'
    BY <1>1, <1>2, <1>7, <2>1 DEF IInv, ListedOnce
  <2>4. TemporaryIsUnlisted' /\ BootCurrentIsBooted'
    BY <1>1, <1>7, <2>1
       DEF TemporaryIsUnlisted, BootCurrentIsBooted, Listed, Doing, Now
  <2> QED BY <1>2, <1>4, <1>5, <1>7, <2>1, <2>2, <2>3, <2>4, OneLeft
<1>8. CASE Now.c \in ListedContents
  <2> DEFINE first == CHOOSE i \in DOMAIN list :
                        /\ list[i].c = Now.c
                        /\ \A j \in 1 .. i - 1 : list[j].c # Now.c
             e == Step("setCurrent", list[first].n, Now.c)
  <2>1. Continue(<<e>>)
    BY <1>8 DEF FindOption
  <2>2. /\ list \in Seq(Entries) /\ Len(list) \in Nat
        /\ DOMAIN list = 1 .. Len(list)
        /\ \A i \in 1 .. Len(list) : list[i] \in Entries
                                     /\ list[i] \in ToSet(list)
    <3>1. list \in Seq(Entries)
      BY <1>2 DEF Typed
    <3>2. Len(list) \in Nat /\ DOMAIN list = 1 .. Len(list)
          /\ list \in [1 .. Len(list) -> Entries]
      BY <3>1, LenProperties
    <3> QED BY <3>1, <3>2 DEF ToSet
  <2>3. first \in DOMAIN list /\ list[first].c = Now.c
    <3> DEFINE S == {i \in DOMAIN list : list[i].c = Now.c}
    <3>1. S \subseteq Nat /\ S # {}
      BY <1>8, <2>2 DEF ListedContents
    <3>2. PICK k \in S : \A j \in S : k <= j
      BY <3>1, LeastNatural
    <3>3. k \in DOMAIN list /\ list[k].c = Now.c
          /\ \A j \in 1 .. k - 1 : list[j].c # Now.c
      BY <2>2, <3>2
    <3>4. \E i \in DOMAIN list : /\ list[i].c = Now.c
                                 /\ \A j \in 1 .. i - 1 : list[j].c # Now.c
      BY <3>3, Zenon
    <3> QED BY <3>4, Zenon
  <2> HIDE DEF first
  <2>4. list[first].n \in Numbers /\ option[list[first].n] = Now.c
    BY <1>1, <1>2, <2>2, <2>3 DEF IInv, ListIsCurrent, Gathering, Entries
  <2>5. e \in Steps /\ e.do = "setCurrent" /\ e.n = list[first].n /\ e.c = Now.c
        /\ Sound(e)
    BY <1>3, <2>4 DEF Step, Steps, Kinds, Sound, Searching
  <2> HIDE DEF e
  <2> QED BY <1>7, <2>1, <2>4, <2>5
<1>9. CASE Now.c \notin ListedContents /\ FreeNumber = None
  <2>1. Continue(<<>>)
    BY <1>9 DEF FindOption
  <2>2. todo' = <<>> /\ todo' \in Seq(Steps) /\ ToSet(todo') = {}
    BY <1>1, <1>2, <2>1, ContinueNone
  <2>3. Typed'
    BY <1>1, <1>2, <2>2 DEF Typed
  <2>4. ListedOnce'
    BY <1>1, <2>2 DEF IInv, ListedOnce
  <2> QED BY <1>4, <1>5, <2>2, <2>3, <2>4, Idle
<1>10. CASE Now.c \notin ListedContents /\ FreeNumber # None
  <2> DEFINE e == Step("temporary", FreeNumber, Now.c)
  <2>1. Continue(<<e>>)
    BY <1>10 DEF FindOption
  <2>2. FreeNumber \in Numbers /\ FreeNumber \notin Listed
    <3>1. FreeNumberIsFree
      BY <1>2, FreeNumberCorrect DEF Typed
    <3> QED BY <1>10, <3>1 DEF FreeNumberIsFree
  <2>3. e \in Steps /\ e.do = "temporary" /\ e.n = FreeNumber /\ Sound(e)
    BY <1>3, <2>2 DEF Step, Steps, Kinds, Sound, Searching
  <2> HIDE DEF e
  <2> QED BY <1>7, <2>1, <2>2, <2>3
<1> QED BY <1>8, <1>9, <1>10

(* The temporary option is stored, or the boot given up.                   *)
LEMMA StoreTemporaryKeeps == IInv /\ StoreTemporary => IInv'
<1> SUFFICES ASSUME IInv, StoreTemporary PROVE IInv'
  OBVIOUS
<1> DEFINE e == Step("setCurrent", Now.n, Now.c)
<1>1. /\ todo # <<>> /\ Now.do = "temporary"
      /\ UNCHANGED <<order, bootNext, list, current, target, inserting,
                     healing, trusted>>
      /\ \/ /\ option' = [option EXCEPT ![Now.n] = Now.c]
            /\ Continue(<<e>>)
         \/ Continue(<<>>) /\ option' = option
  BY DEF StoreTemporary, Doing, Now, ghosts
<1>2. /\ Typed /\ Shape /\ Once /\ Rest = {} /\ Sound(Now)
      /\ ToSet(todo) = {Now} \union Rest
  BY <1>1, Ahead, Behind
<1>3. Now.n \in Numbers /\ Now.c \in Contents /\ Now.n \notin Listed
  BY <1>1, <1>2
     DEF Sound, Numbered, Carrying, IInv, TemporaryIsUnlisted, Doing, Now
<1>4. inserting' = None
  BY <1>1 DEF IInv, InsertingIsNow, Doing, Now
<1>5. NoDuplicateNumbers'
  BY <1>1 DEF IInv, NoDuplicateNumbers
<1>6. CASE Continue(<<>>) /\ option' = option
  <2>1. todo' = <<>> /\ todo' \in Seq(Steps) /\ ToSet(todo') = {}
    BY <1>1, <1>2, <1>6, ContinueNone
  <2>2. Typed'
    BY <1>1, <1>2, <1>6, <2>1 DEF Typed
  <2>3. OnlyAccidentsDangle' /\ ListedOnce'
    BY <1>1, <1>6, <2>1 DEF IInv, OnlyAccidentsDangle, Listed, ListedOnce
  <2> QED BY <1>4, <1>5, <2>1, <2>2, <2>3, Idle
<1>7. CASE option' = [option EXCEPT ![Now.n] = Now.c] /\ Continue(<<e>>)
  <2>1. /\ option' \in [Numbers -> Contents \union {Corrupt, Missing}]
        /\ \A n \in Numbers : option'[n] = IF n = Now.n THEN Now.c ELSE option[n]
    BY <1>2, <1>3, <1>7 DEF Typed
  <2>2. e \in Steps /\ e.do = "setCurrent" /\ e.n = Now.n /\ e.c = Now.c
        /\ Sound(e)
    BY <1>3 DEF Step, Steps, Kinds, Sound, Searching
  <2> HIDE DEF e
  <2>3. /\ todo' \in Seq(Steps) /\ ToSet(todo') = {e} \union Rest
        /\ Shape' /\ Once'
        /\ todo' # <<>> /\ Now' = e
    <3>1. \A k \in Kinds : Now.do \notin Before(k)
      BY <1>1 DEF Before, Kinds, Scan
    <3> QED BY <1>1, <1>2, <1>7, <2>2, <3>1, ContinueOne DEF Unique
  <2>4. Typed'
    BY <1>1, <1>2, <2>1, <2>2, <2>3 DEF Typed, Sound
  <2>5. OnlyAccidentsDangle'
    <3>1. \A n \in Listed : n \in Numbers
      BY <1>2, LenProperties DEF Typed, ToSet, Listed
    <3> QED BY <1>1, <1>3, <2>1, <3>1 DEF IInv, OnlyAccidentsDangle, Listed
  <2>6. ListedOnce' /\ TemporaryIsUnlisted' /\ BootCurrentIsBooted'
    BY <1>1, <1>2, <1>3, <2>1, <2>2, <2>3
       DEF IInv, ListedOnce, TemporaryIsUnlisted, BootCurrentIsBooted, Doing, Now
  <2> QED BY <1>2, <1>4, <1>5, <2>2, <2>3, <2>4, <2>5, <2>6, OneLeft
<1> QED BY <1>1, <1>6, <1>7

(* BootCurrent is set and the operation is over.                           *)
LEMMA SetBootCurrentKeeps == IInv /\ SetBootCurrent => IInv'
<1> SUFFICES ASSUME IInv, SetBootCurrent PROVE IInv'
  OBVIOUS
<1>1. /\ todo # <<>> /\ Now.do = "setCurrent" /\ Continue(<<>>)
      /\ current' = Now.n
      /\ UNCHANGED <<order, option, bootNext, list, target, inserting,
                     healing, trusted>>
  BY DEF SetBootCurrent, Doing, Now, nv, ghosts
<1>2. /\ Typed /\ Shape /\ Once /\ Rest = {} /\ Sound(Now)
  BY <1>1, Ahead, Behind
<1>3. todo' = <<>> /\ todo' \in Seq(Steps) /\ ToSet(todo') = {}
  BY <1>1, <1>2, ContinueNone
<1>4. inserting' = None
  BY <1>1 DEF IInv, InsertingIsNow, Doing, Now
<1>5. Typed'
  BY <1>1, <1>2, <1>3 DEF Typed, Sound, Numbered
<1>6. NoDuplicateNumbers' /\ OnlyAccidentsDangle' /\ ListedOnce'
  BY <1>1, <1>3
     DEF IInv, NoDuplicateNumbers, OnlyAccidentsDangle, Listed, ListedOnce
<1> QED BY <1>3, <1>4, <1>5, <1>6, Idle

(* Only the variables survive a loss of power.                             *)
LEMMA RestartKeeps == IInv /\ Restart => IInv'
<1> SUFFICES ASSUME IInv, Restart PROVE IInv'
  OBVIOUS
<1>1. /\ todo' = <<>> /\ list' = <<>>
      /\ current' = None /\ target' = None /\ inserting' = None
      /\ healing' = FALSE /\ trusted' = (trusted /\ inserting = None)
      /\ UNCHANGED <<order, option, bootNext>>
  BY DEF Restart, nv
<1>2. /\ todo' \in Seq(Steps) /\ list' \in Seq(Entries)
      /\ ToSet(todo') = {} /\ ToSet(list') = {} /\ DOMAIN (list') = {}
  <2>1. DOMAIN (todo') = {} /\ DOMAIN (list') = {}
    BY <1>1
  <2> QED BY <1>1, <2>1, EmptySeq DEF ToSet
<1>3. Typed'
  BY <1>1, <1>2 DEF IInv, Typed
<1>4. NoDuplicateNumbers' /\ OnlyAccidentsDangle' /\ ListedOnce'
  BY <1>1, <1>2
     DEF IInv, NoDuplicateNumbers, OnlyAccidentsDangle, Listed, ListedOnce
<1> QED BY <1>1, <1>3, <1>4, Idle

(* What any operation leaves alone when it begins.                         *)
LEMMA Beginning ==
  ASSUME IInv, NEW s \in Seq(Steps), NEW n \in Numbers \union {None},
         Begin(s, n), \A e \in ToSet(s) : Sound(e)
  PROVE  /\ todo = <<>> /\ todo' = s /\ list' = <<>>
         /\ ToSet(list') = {}
         /\ UNCHANGED <<order, option>> /\ target' = n
         /\ inserting' = None
         /\ Typed' /\ NoDuplicateNumbers' /\ OnlyAccidentsDangle' /\ ListedOnce'
<1>1. /\ todo = <<>> /\ todo' = s /\ list' = <<>> /\ target' = n
      /\ healing' = TRUE
      /\ UNCHANGED <<order, option, bootNext, current, inserting, trusted>>
  BY DEF Begin, nv
<1>2. inserting = None
  BY <1>1 DEF IInv, InsertingIsNow, Doing
<1>3. DOMAIN (list') = {} /\ ToSet(list') = {}
  <2>1. DOMAIN (list') = {}
    BY <1>1
  <2> QED BY <2>1 DEF ToSet
<1>4. Typed'
  BY <1>1, EmptySeq DEF IInv, Typed
<1>5. NoDuplicateNumbers' /\ OnlyAccidentsDangle' /\ ListedOnce'
  BY <1>1, <1>3
     DEF IInv, NoDuplicateNumbers, OnlyAccidentsDangle, Listed, ListedOnce
<1> QED BY <1>1, <1>2, <1>3, <1>4, <1>5

(* A listing reads the number of every entry and then is done.             *)
LEMMA ListingSteps ==
  ASSUME order \in Seq(Numbers)
  PROVE  /\ Listing \in Seq(Steps) /\ Len(Listing) = Len(order) + 1
         /\ Len(order) \in Nat /\ DOMAIN order = 1 .. Len(order)
         /\ \A i \in 1 .. Len(order) :
              /\ Listing[i].do = "read" /\ Listing[i].n = order[i]
              /\ Sound(Listing[i])
         /\ Listing[Len(order) + 1].do = "listed"
         /\ Sound(Listing[Len(order) + 1])
<1> DEFINE r == [i \in 1 .. Len(order) |-> Step("read", order[i], Missing)]
           d == <<Step("listed", None, Missing)>>
<1>1. Len(order) \in Nat /\ DOMAIN order = 1 .. Len(order)
      /\ \A i \in 1 .. Len(order) : order[i] \in Numbers
  BY LenProperties
<1>2. /\ r \in Seq(Steps) /\ Len(r) = Len(order)
      /\ \A i \in 1 .. Len(order) :
           r[i].do = "read" /\ r[i].n = order[i]
  <2>1. \A i \in 1 .. Len(order) : Step("read", order[i], Missing) \in Steps
    BY <1>1 DEF Step, Steps, Kinds
  <2>2. r \in Seq(Steps) /\ Len(r) = Len(order)
    BY <1>1, <2>1
  <2> QED BY <2>2 DEF Step
<1>3. d \in Seq(Steps) /\ Len(d) = 1 /\ d[1].do = "listed"
  <2>1. Step("listed", None, Missing) \in Steps
    BY DEF Step, Steps, Kinds
  <2> QED BY <2>1 DEF Step
<1>4. Listing = r \o d
  BY DEF Listing
<1> HIDE DEF r, d
<1>5. /\ Listing \in Seq(Steps) /\ Len(Listing) = Len(order) + 1
      /\ \A i \in 1 .. Len(order) + 1 :
           Listing[i] = IF i <= Len(order) THEN r[i] ELSE d[i - Len(order)]
  <2>1. r \in Seq(Steps) /\ d \in Seq(Steps)
    BY <1>2, <1>3
  <2>2. /\ Listing \in Seq(Steps) /\ Len(Listing) = Len(r) + Len(d)
        /\ \A i \in 1 .. Len(r) + Len(d) :
             Listing[i] = IF i <= Len(r) THEN r[i] ELSE d[i - Len(r)]
    BY <1>4, <2>1, ConcatProperties
  <2> QED BY <1>2, <1>3, <2>2
<1>6. \A i \in 1 .. Len(order) : Listing[i] = r[i]
  BY <1>1, <1>5
<1>7. Listing[Len(order) + 1] = d[1]
  <2>1. Len(order) + 1 \in 1 .. Len(order) + 1 /\ ~(Len(order) + 1 <= Len(order))
        /\ (Len(order) + 1) - Len(order) = 1
    BY <1>1
  <2> QED BY <1>5, <2>1
<1>8. \A i \in 1 .. Len(order) :
        /\ Listing[i].do = "read" /\ Listing[i].n = order[i]
        /\ Sound(Listing[i])
  BY <1>1, <1>2, <1>6 DEF Sound, Numbered, Carrying, Searching
<1>9. Listing[Len(order) + 1].do = "listed" /\ Sound(Listing[Len(order) + 1])
  BY <1>3, <1>7 DEF Sound, Numbered, Carrying, Searching
<1> QED BY <1>1, <1>5, <1>8, <1>9

(* Every operation that lists the options, with what it does then.         *)
LEMMA ListingBegins ==
  ASSUME IInv, NEW s \in Seq(Steps),
         Len(s) \in {Len(order) + 1, Len(order) + 2},
         \A i \in 1 .. Len(order) + 1 : s[i] = Listing[i],
         Len(s) = Len(order) + 2 =>
           /\ s[Len(s)].do \in {"sort", "refresh", "find"}
           /\ Sound(s[Len(s)]),
         Begin(s, None)
  PROVE  IInv'
<1>1. order \in Seq(Numbers) /\ IsInjective(order)
  BY DEF IInv, Typed, NoDuplicateNumbers
<1> DEFINE m == Len(order)
           z == Len(s)
<1>2. /\ m \in Nat /\ DOMAIN order = 1 .. m
      /\ DOMAIN s = 1 .. z /\ z \in Nat /\ z \in {m + 1, m + 2}
      /\ z = m + 2 => s[z].do \in {"sort", "refresh", "find"} /\ Sound(s[z])
      /\ \A i \in 1 .. m : s[i].do = "read" /\ s[i].n = order[i]
      /\ s[m + 1].do = "listed"
      /\ \A i \in 1 .. m + 1 : Sound(s[i])
  <2>1. /\ Len(order) \in Nat /\ DOMAIN order = 1 .. Len(order)
        /\ \A i \in 1 .. Len(order) :
             /\ Listing[i].do = "read" /\ Listing[i].n = order[i]
             /\ Sound(Listing[i])
        /\ Listing[Len(order) + 1].do = "listed"
        /\ Sound(Listing[Len(order) + 1])
    BY <1>1, ListingSteps
  <2>2. \A i \in 1 .. Len(order) + 1 :
          i \in 1 .. Len(order) \/ i = Len(order) + 1
    BY <2>1
  <2>3. \A i \in 1 .. Len(order) : i \in 1 .. Len(order) + 1
    BY <2>1
  <2>4. Len(order) + 1 \in 1 .. Len(order) + 1
    BY <2>1
  <2>5. DOMAIN s = 1 .. Len(s) /\ Len(s) \in Nat
    BY LenProperties
  <2>6. /\ Len(s) \in {Len(order) + 1, Len(order) + 2}
        /\ \A i \in 1 .. Len(order) + 1 : s[i] = Listing[i]
        /\ Len(s) = Len(order) + 2 =>
             s[Len(s)].do \in {"sort", "refresh", "find"} /\ Sound(s[Len(s)])
    OBVIOUS
  <2> QED BY <2>1, <2>2, <2>3, <2>4, <2>5, <2>6, Zenon
<1> HIDE DEF m, z
<1>3. \A i \in DOMAIN s :
        \/ i \in 1 .. m
        \/ i = m + 1
        \/ i = z /\ i = m + 2
           /\ s[i].do \in {"sort", "refresh", "find"} /\ Sound(s[i])
  BY <1>2
<1>4. \A e \in ToSet(s) : Sound(e)
  <2>1. \A i \in DOMAIN s : Sound(s[i])
    BY <1>2, <1>3
  <2> QED BY <2>1 DEF ToSet
<1>5. /\ todo' = s /\ list' = <<>> /\ ToSet(list') = {}
      /\ UNCHANGED <<order, option>> /\ inserting' = None
      /\ Typed' /\ NoDuplicateNumbers' /\ OnlyAccidentsDangle' /\ ListedOnce'
  BY <1>4, Beginning
<1>6. \A i \in DOMAIN s : s[i].do \in {"read", "listed", "sort", "refresh", "find"}
  BY <1>2, <1>3
<1>7. 1 \in DOMAIN s /\ s # <<>> /\ Now' = s[1] /\ Now' \in ToSet(s)
  <2>1. 1 \in DOMAIN s
    BY <1>2
  <2>2. Now' = s[1] /\ s # <<>>
    BY <1>2, <1>5, <2>1, EmptySeq DEF Now
  <2>3. s[1] \in ToSet(s)
    BY <2>1, Zenon DEF ToSet
  <2> QED BY <2>1, <2>2, <2>3
<1>8. \A e \in ToSet(s) : e.do \in {"read", "listed", "sort", "refresh", "find"}
  BY <1>6 DEF ToSet
<1>9. Shape'
  <2>1. ASSUME NEW i \in DOMAIN s, NEW j \in DOMAIN s, i < j
        PROVE  s[i].do \in Before(s[j].do)
    <3>1. CASE j \in 1 .. m
      <4>1. i \in 1 .. m
        BY <1>2, <2>1, <3>1
      <4> QED BY <1>2, <3>1, <4>1 DEF Before, Scan
    <3>2. CASE j = m + 1
      <4>1. i \in 1 .. m
        BY <1>2, <2>1, <3>2
      <4> QED BY <1>2, <3>2, <4>1 DEF Before, Scan
    <3>3. CASE s[j].do \in {"sort", "refresh", "find"} /\ j = m + 2
      <4>1. i \in 1 .. m \/ i = m + 1
        BY <1>2, <2>1, <3>3
      <4> QED BY <1>2, <3>3, <4>1 DEF Before, Scan
    <3> QED BY <1>3, <3>1, <3>2, <3>3
  <2>2. ~Doing("dropRef")'
    BY <1>7, <1>8 DEF Doing, Now
  <2> QED BY <1>5, <2>1, <2>2 DEF Shape
<1>10. Once'
  <2>1. \A i \in DOMAIN s :
          s[i].do \in Unique => i \in 1 .. m /\ s[i].n = order[i]
    BY <1>2, <1>3 DEF Unique
  <2>2. \A i, j \in DOMAIN s : s[i].do \in Unique /\ s[j].do \in Unique
                                 /\ s[i].n = s[j].n => i = j
    BY <1>1, <1>2, <2>1 DEF IsInjective
  <2> QED BY <1>5, <2>2 DEF Once
<1>11. \A n \in Listed' : Pending(n)'
  <2>1. ASSUME NEW n \in ToSet(order)
        PROVE  \E e \in ToSet(s) : e.do = "read" /\ e.n = n
    <3>1. PICK i \in DOMAIN order : order[i] = n
      BY DEF ToSet
    <3>2. i \in 1 .. m /\ i \in DOMAIN s
      BY <1>2
    <3>3. s[i] \in ToSet(s)
      BY <3>2, Zenon DEF ToSet
    <3> QED BY <1>2, <3>1, <3>2, <3>3
  <2> QED BY <1>5, <2>1 DEF Listed, Pending
<1>12. ListIsCurrent' /\ PrunesListed' /\ DeletesOnly' /\ Heals'
  BY <1>5, <1>8, <1>11 DEF ListIsCurrent, PrunesListed, DeletesOnly, Heals
<1>13. /\ InsertingIsNow' /\ StoresTarget' /\ ErasesUnlisted'
       /\ TemporaryIsUnlisted' /\ BootCurrentIsBooted'
  BY <1>5, <1>7, <1>8 DEF InsertingIsNow, StoresTarget, ErasesUnlisted,
       TemporaryIsUnlisted, BootCurrentIsBooted, Doing, Now
<1> QED BY <1>5, <1>9, <1>10, <1>12, <1>13 DEF IInv

(* A listing followed by one step.                                         *)
LEMMA ListingThenBegins ==
  ASSUME IInv, NEW e \in Steps, Sound(e),
         e.do \in {"sort", "refresh", "find"},
         Begin(Listing \o <<e>>, None)
  PROVE  IInv'
<1> DEFINE s == Listing \o <<e>>
<1>1. Listing \in Seq(Steps) /\ Len(Listing) = Len(order) + 1
      /\ Len(order) \in Nat
  BY ListingSteps DEF IInv, Typed
<1>2. <<e>> \in Seq(Steps) /\ Len(<<e>>) = 1 /\ <<e>>[1] = e
  OBVIOUS
<1>3. /\ s \in Seq(Steps) /\ Len(s) = Len(Listing) + Len(<<e>>)
      /\ \A i \in 1 .. Len(Listing) + Len(<<e>>) :
           s[i] = IF i <= Len(Listing) THEN Listing[i]
                                       ELSE <<e>>[i - Len(Listing)]
  <2>1. Listing \in Seq(Steps) /\ <<e>> \in Seq(Steps)
    BY <1>1, <1>2
  <2> QED BY <2>1, ConcatProperties
<1>4. Begin(s, None)
  OBVIOUS
<1> HIDE DEF s
<1>5. Len(s) = Len(order) + 2
  BY <1>1, <1>2, <1>3
<1>6. \A i \in 1 .. Len(order) + 1 : s[i] = Listing[i]
  BY <1>1, <1>2, <1>3
<1>7. s[Len(s)] = e
  BY <1>1, <1>2, <1>3, <1>5
<1> QED BY <1>3, <1>4, <1>5, <1>6, <1>7, ListingBegins

(* Each operation starts with the list empty and its first steps planned.  *)
LEMMA OperationsKeep == IInv /\ Operations => IInv'
<1> SUFFICES ASSUME IInv, Operations PROVE IInv'
  OBVIOUS
<1>1. CASE GetLoadOptions
  <2>1. Listing \in Seq(Steps) /\ Len(Listing) = Len(order) + 1
        /\ Len(order) \in Nat
    BY ListingSteps DEF IInv, Typed
  <2> QED BY <1>1, <2>1, ListingBegins DEF GetLoadOptions
<1>2. CASE AddLoadOption
  <2>1. PICK n \in Numbers \union {None}, c \in Contents :
          Begin(<<Step("add", n, c)>>, n)
    BY <1>2, Zenon DEF AddLoadOption
  <2> DEFINE e == Step("add", n, c)
  <2>2. e \in Steps /\ e.do = "add" /\ Sound(e)
    BY DEF Step, Steps, Kinds, Sound, Numbered, Searching
  <2>3. Begin(<<e>>, n)
    BY <2>1
  <2> HIDE DEF e
  <2>4. <<e>> \in Seq(Steps) /\ ToSet(<<e>>) = {e} /\ Head(<<e>>) = e
        /\ DOMAIN <<e>> = {1} /\ <<e>>[1] = e
    BY <2>2 DEF ToSet
  <2>5. /\ todo' = <<e>> /\ list' = <<>> /\ ToSet(list') = {}
        /\ inserting' = None
        /\ Typed' /\ NoDuplicateNumbers' /\ OnlyAccidentsDangle' /\ ListedOnce'
    BY <2>2, <2>3, <2>4, Beginning
  <2>6. Shape' /\ Once'
    BY <2>2, <2>4, <2>5 DEF Shape, Once, Doing
  <2>7. /\ ListIsCurrent' /\ PrunesListed' /\ DeletesOnly' /\ Heals'
    BY <2>2, <2>4, <2>5
       DEF ListIsCurrent, Gathering, PrunesListed, DeletesOnly, Heals
  <2>8. /\ InsertingIsNow' /\ StoresTarget' /\ ErasesUnlisted'
        /\ TemporaryIsUnlisted' /\ BootCurrentIsBooted'
    BY <2>2, <2>4, <2>5 DEF InsertingIsNow, StoresTarget, ErasesUnlisted,
         TemporaryIsUnlisted, BootCurrentIsBooted, Doing
  <2> QED BY <2>5, <2>6, <2>7, <2>8 DEF IInv
<1>3. CASE DeleteLoadOption
  <2>1. PICK n \in Numbers : Begin(Deletion(n), n)
    BY <1>3, Zenon DEF DeleteLoadOption
  <2> DEFINE d == Step("dropRef", n, Missing)
             e == Step("erase", n, Missing)
             s == Deletion(n)
  <2>2. /\ d \in Steps /\ d.do = "dropRef" /\ d.n = n /\ Sound(d)
        /\ e \in Steps /\ e.do = "erase" /\ e.n = n /\ Sound(e)
    BY DEF Step, Steps, Kinds, Sound, Numbered, Searching, Carrying
  <2>3. s = <<d, e>> /\ Begin(s, n)
    BY <2>1 DEF Deletion
  <2> HIDE DEF d, e, s
  <2>4. s \in Seq(Steps) /\ DOMAIN s = {1, 2} /\ s[1] = d /\ s[2] = e
        /\ Len(s) = 2 /\ s # <<>> /\ Head(s) = d
    <3>1. s \in Seq(Steps) /\ Len(s) = 2 /\ s[1] = d /\ s[2] = e
      BY <2>2, <2>3
    <3>2. DOMAIN s = 1 .. 2
      BY <3>1, LenProperties
    <3>3. s # <<>> /\ Head(s) = d
      BY <3>1, EmptySeq
    <3> QED BY <3>1, <3>2, <3>3
  <2>5. ToSet(s) = {d, e}
    <3>1. ToSet(s) = {s[i] : i \in {1, 2}}
      BY <2>4 DEF ToSet
    <3> QED BY <2>4, <3>1
  <2>6. /\ todo' = s /\ list' = <<>> /\ ToSet(list') = {}
        /\ inserting' = None /\ target' = n
        /\ Typed' /\ NoDuplicateNumbers' /\ OnlyAccidentsDangle' /\ ListedOnce'
    BY <2>2, <2>3, <2>4, <2>5, Beginning
  <2>7. Shape'
    <3>1. \A i, j \in DOMAIN s : i < j => s[i].do \in Before(s[j].do)
      BY <2>2, <2>4 DEF Before
    <3> QED BY <2>2, <2>4, <2>6, <3>1 DEF Shape, Now
  <2>8. Once'
    BY <2>2, <2>4, <2>6 DEF Once, Unique
  <2>9. ListIsCurrent' /\ PrunesListed' /\ DeletesOnly' /\ Heals'
    BY <2>2, <2>5, <2>6
       DEF ListIsCurrent, Gathering, PrunesListed, DeletesOnly, Heals
  <2>10. /\ InsertingIsNow' /\ StoresTarget' /\ ErasesUnlisted'
         /\ TemporaryIsUnlisted' /\ BootCurrentIsBooted'
    BY <2>2, <2>4, <2>6 DEF InsertingIsNow, StoresTarget, ErasesUnlisted,
         TemporaryIsUnlisted, BootCurrentIsBooted, Doing
  <2> QED BY <2>6, <2>7, <2>8, <2>9, <2>10 DEF IInv
<1>4. CASE SortLoadOptions
  <2> DEFINE e == Step("sort", None, Missing)
  <2>1. e \in Steps /\ e.do = "sort" /\ Sound(e) /\ Begin(Listing \o <<e>>, None)
    BY <1>4 DEF SortLoadOptions, Step, Steps, Kinds, Sound, Numbered, Carrying,
                Searching
  <2> HIDE DEF e
  <2> QED BY <2>1, ListingThenBegins
<1>5. CASE RefreshAllBootOption
  <2>1. PICK found \in SUBSET AutoContents :
          Begin(Listing \o <<Step("refresh", None, found)>>, None)
    BY <1>5, Zenon DEF RefreshAllBootOption
  <2> DEFINE e == Step("refresh", None, found)
  <2>2. e \in Steps /\ e.do = "refresh" /\ Sound(e)
        /\ Begin(Listing \o <<e>>, None)
    BY <2>1 DEF Step, Steps, Kinds, Sound, Numbered, Carrying
  <2> HIDE DEF e
  <2> QED BY <2>2, ListingThenBegins
<1>6. CASE BootOption
  <2>1. PICK n \in Numbers \union {None}, c \in Contents :
          IF n # None /\ option[IF n = None THEN 0 ELSE n] = c
          THEN Begin(<<Step("setCurrent", n, c)>>, None)
          ELSE Begin(Listing \o <<Step("find", None, c)>>, None)
    BY <1>6, Zenon DEF BootOption
  <2>2. CASE n # None /\ option[n] = c
    <3> DEFINE e == Step("setCurrent", n, c)
    <3>1. e \in Steps /\ e.do = "setCurrent" /\ e.n = n /\ e.c = c /\ Sound(e)
          /\ Begin(<<e>>, None)
      BY <2>1, <2>2 DEF Step, Steps, Kinds, Sound, Numbered, Searching
    <3> HIDE DEF e
    <3>2. <<e>> \in Seq(Steps) /\ ToSet(<<e>>) = {e} /\ Head(<<e>>) = e
          /\ DOMAIN <<e>> = {1} /\ <<e>>[1] = e /\ <<e>> # <<>>
      BY <3>1 DEF ToSet
    <3>3. /\ todo' = <<e>> /\ list' = <<>> /\ ToSet(list') = {}
          /\ inserting' = None /\ option' = option
          /\ Typed' /\ NoDuplicateNumbers' /\ OnlyAccidentsDangle'
          /\ ListedOnce'
      BY <3>1, <3>2, Beginning
    <3>4. Now' = e
      BY <3>2, <3>3 DEF Now
    <3>5. Shape' /\ Once'
      BY <3>1, <3>2, <3>3 DEF Shape, Once, Doing
    <3>6. TemporaryIsUnlisted' /\ BootCurrentIsBooted'
      BY <2>2, <3>1, <3>2, <3>3
         DEF TemporaryIsUnlisted, BootCurrentIsBooted, Doing, Now
    <3> QED BY <3>1, <3>2, <3>3, <3>4, <3>5, <3>6, OneLeft
  <2>3. CASE ~(n # None /\ option[n] = c)
    <3> DEFINE e == Step("find", None, c)
    <3>1. Begin(Listing \o <<e>>, None)
      BY <2>1, <2>3
    <3>2. e \in Steps /\ e.do = "find" /\ Sound(e)
      BY DEF Step, Steps, Kinds, Sound, Numbered, Searching
    <3> HIDE DEF e
    <3> QED BY <3>1, <3>2, ListingThenBegins
  <2> QED BY <2>2, <2>3
<1> QED BY <1>1, <1>2, <1>3, <1>4, <1>5, <1>6 DEF Operations

----------------------------------------------------------------------------
(* The theorems. *)

(* Whatever earlier firmware left, nothing is to be done at first.         *)
LEMMA InitHolds == Init => IInv
<1> SUFFICES ASSUME Init PROVE IInv
  OBVIOUS
<1>1. /\ option \in [Numbers -> Contents \union {Corrupt, Missing}]
      /\ bootNext \in Numbers \union {None}
      /\ todo = <<>> /\ list = <<>>
      /\ current = None /\ target = None /\ inserting = None
      /\ healing = FALSE /\ trusted = NoDangling
  BY DEF Init
<1>2. order \in Seq(Numbers) /\ IsInjective(order)
  <2>1. PICK k \in 0 .. MaxNumber + 1 : order \in [1 .. k -> Numbers]
    BY DEF Init, Orders
  <2>2. k \in Nat
    BY <2>1, StoreAssumption
  <2> QED BY <2>1, <2>2 DEF Init, Orders
<1>3. /\ todo \in Seq(Steps) /\ list \in Seq(Entries)
      /\ ToSet(todo) = {} /\ ToSet(list) = {}
      /\ DOMAIN todo = {} /\ DOMAIN list = {}
  <2>1. DOMAIN todo = {} /\ DOMAIN list = {}
    BY <1>1
  <2> QED BY <1>1, <2>1, EmptySeq DEF ToSet
<1>4. Typed
  BY <1>1, <1>2, <1>3 DEF Typed, NoDangling
<1>5. Shape /\ Once /\ ListedOnce /\ NoDuplicateNumbers
  BY <1>1, <1>2, <1>3 DEF Shape, Once, ListedOnce, NoDuplicateNumbers, Doing
<1>6. ListIsCurrent /\ PrunesListed /\ DeletesOnly /\ Heals
  BY <1>1, <1>3 DEF ListIsCurrent, Gathering, PrunesListed, DeletesOnly, Heals
<1>7. /\ InsertingIsNow /\ StoresTarget /\ ErasesUnlisted
      /\ TemporaryIsUnlisted /\ BootCurrentIsBooted
  BY <1>1 DEF InsertingIsNow, StoresTarget, ErasesUnlisted,
              TemporaryIsUnlisted, BootCurrentIsBooted, Doing
<1>8. OnlyAccidentsDangle
  BY <1>1 DEF OnlyAccidentsDangle, NoDangling
<1> QED BY <1>4, <1>5, <1>6, <1>7, <1>8 DEF IInv

(* Each action keeps the inductive invariant.                              *)
LEMMA NextKeeps == IInv /\ [Next]_vars => IInv'
<1>1. IInv /\ Working => IInv'
  BY ReadOptionKeeps, ListingDoneKeeps, DropReferenceKeeps, EraseOptionKeeps,
     AddOptionKeeps, StoreOptionKeeps, WriteSortedOrderKeeps, PlanRefreshKeeps,
     PruneOptionKeeps, FindOptionKeeps, StoreTemporaryKeeps, SetBootCurrentKeeps
     DEF Working
<1>2. IInv /\ Next => IInv'
  BY <1>1, OperationsKeep, RestartKeeps DEF Next
<1>3. IInv /\ UNCHANGED vars => IInv'
  <2> SUFFICES ASSUME IInv, UNCHANGED vars PROVE IInv'
    OBVIOUS
  <2>1. UNCHANGED <<order, option, bootNext, todo, list, current, target,
                    inserting, healing, trusted>>
    BY DEF vars, nv, ghosts
  <2>2. Typed' /\ Shape' /\ Once' /\ ListedOnce' /\ NoDuplicateNumbers'
    BY <2>1 DEF IInv, Typed, Shape, Once, ListedOnce, NoDuplicateNumbers,
                Doing, Now
  <2>3. ListIsCurrent' /\ PrunesListed' /\ DeletesOnly' /\ Heals'
    BY <2>1 DEF IInv, ListIsCurrent, Gathering, InList, Pending, Listed,
                PrunesListed, DeletesOnly, Heals, Doing, Now
  <2>4. /\ InsertingIsNow' /\ StoresTarget' /\ ErasesUnlisted'
        /\ TemporaryIsUnlisted' /\ BootCurrentIsBooted' /\ OnlyAccidentsDangle'
    BY <2>1 DEF IInv, InsertingIsNow, StoresTarget, ErasesUnlisted, Listed,
                TemporaryIsUnlisted, BootCurrentIsBooted, OnlyAccidentsDangle,
                Doing, Now
  <2> QED BY <2>2, <2>3, <2>4 DEF IInv
<1> QED BY <1>2, <1>3

(* The inductive invariant holds in every reachable state.                 *)
LEMMA Invariance == Spec => []IInv
BY InitHolds, NextKeeps, PTL DEF Spec

(* Every variable keeps its type, and every step of an operation has the   *)
(* number it works on.                                                     *)
THEOREM TypeCorrect == Spec => []TypeOK
<1>1. IInv => TypeOK
  <2> SUFFICES ASSUME IInv PROVE TypeOK
    OBVIOUS
  <2>1. Typed
    BY DEF IInv
  <2>2. /\ todo \in Seq(Steps) /\ list \in Seq(Entries)
        /\ \A i \in DOMAIN todo : todo[i] \in Steps /\ Sound(todo[i])
        /\ \A i \in DOMAIN list : list[i] \in Entries
    <3>1. DOMAIN todo = 1 .. Len(todo) /\ DOMAIN list = 1 .. Len(list)
      BY <2>1, LenProperties DEF Typed
    <3> QED BY <2>1, <3>1 DEF Typed, ToSet
  <2>3. ASSUME NEW i \in DOMAIN todo
        PROVE  /\ todo[i].do \in Kinds /\ todo[i].n \in Numbers \union {None}
               /\ todo[i].n = None => todo[i].do \in {"listed", "add", "sort",
                                                     "refresh", "find"}
    <3>1. None \notin Numbers
      BY StoreAssumption DEF Numbers
    <3> QED BY <2>2, <3>1 DEF Steps, Sound, Kinds, Numbered
  <2> QED BY <2>1, <2>2, <2>3 DEF TypeOK, Typed, Kinds, Entries
<1> QED BY <1>1, Invariance, PTL

(* No mix of additions, sorts, refreshes, interrupted and failed writes    *)
(* puts an option into BootOrder twice: a listing reads different numbers, *)
(* so the sorted order made from it has different numbers too, and an      *)
(* addition looks the number up first.                                     *)
THEOREM NoDuplicates == Spec => []NoDuplicateNumbers
<1>1. IInv => NoDuplicateNumbers
  BY DEF IInv
<1> QED BY <1>1, Invariance, PTL

(* While no accident happened every number in BootOrder, but for the one   *)
(* that is being added, has a readable variable; a listing whose writes to *)
(* BootOrder succeed ends with that again.                                 *)
THEOREM Dangling == Spec => []OnlyAccidentsDangle
<1>1. IInv => OnlyAccidentsDangle
  BY DEF IInv
<1> QED BY <1>1, Invariance, PTL

(* BootCurrent is only ever set to a number whose variable holds the       *)
(* option that is booted.                                                  *)
THEOREM CurrentIsBooted == Spec => []BootCurrentIsBooted
<1>1. IInv => BootCurrentIsBooted
  BY DEF IInv
<1> QED BY <1>1, Invariance, PTL

(* In every reachable state the next free number is free.                  *)
THEOREM FreeAlways == Spec => []FreeNumberIsFree
<1>1. IInv => FreeNumberIsFree
  BY FreeNumberCorrect DEF IInv, Typed
<1> QED BY <1>1, Invariance, PTL

(* The two steps that take something away take it from the number that the *)
(* operation was asked to change, or from an option that is not a user's.  *)
LEMMA UserOptionsKept ==
  ASSUME IInv, Next, NEW n \in Listed, option[n] \in UserContents,
         n \notin {target, target'}
  PROVE  n \in ToSet(order') /\ option'[n] = option[n]
<1>1. n \in Numbers /\ n \in ToSet(order) /\ option[n] \in Contents
  <2>1. order \in Seq(Numbers)
    BY DEF IInv, Typed
  <2> QED BY <2>1, LenProperties DEF Listed, ToSet, Contents
<1>2. option \in [Numbers -> Contents \union {Corrupt, Missing}]
  BY DEF IInv, Typed
<1>3. CASE UNCHANGED <<order, option>>
  BY <1>1, <1>3
<1>4. CASE DropReference
  <2>1. /\ todo # <<>> /\ Now.do = "dropRef" /\ option' = option
    BY <1>4 DEF DropReference, Doing, Now
  <2>2. Now.n # n
    <3>1. Now \in ToSet(todo)
      BY <2>1, Ahead
    <3> QED BY <2>1, <3>1 DEF IInv, DeletesOnly
  <2>3. CASE order' = order
    BY <1>1, <2>1, <2>3
  <2>4. CASE \E i \in DOMAIN order : /\ order[i] = Now.n
                                     /\ order' = RemoveAt(order, i)
    <3>1. PICK i \in DOMAIN order : order[i] = Now.n /\ order' = RemoveAt(order, i)
      BY <2>4
    <3>2. ToSet(order') = ToSet(order) \ {Now.n}
      <4>1. order \in Seq(Numbers) /\ IsInjective(order)
        BY DEF IInv, Typed, NoDuplicateNumbers
      <4> QED BY <3>1, <4>1, Removing
    <3> QED BY <1>1, <2>1, <2>2, <3>2
  <2> QED BY <1>4, <2>3, <2>4 DEF DropReference
<1>5. CASE EraseOption
  <2>1. /\ todo # <<>> /\ Now.do = "erase" /\ order' = order
        /\ option' \in {option, [option EXCEPT ![Now.n] = Missing]}
    BY <1>5 DEF EraseOption, Doing, Now
  <2>2. Now.n # n
    <3>1. Now \in ToSet(todo)
      BY <2>1, Ahead
    <3> QED BY <2>1, <3>1 DEF IInv, DeletesOnly
  <2> QED BY <1>1, <1>2, <2>1, <2>2
<1>6. CASE AddOption
  <2>1. option' = option
    BY <1>6 DEF AddOption
  <2>2. /\ target' \in Numbers \union {None}
        /\ \/ order' = order
           \/ /\ target' \notin Listed /\ target' # None
              /\ \E i \in 1 .. Len(order) + 1 :
                   order' = InsertAt(order, i, target')
    <3>1. IInv'
      BY <1>6, AddOptionKeeps
    <3>2. target' \in Numbers \union {None}
      BY <3>1 DEF IInv, Typed
    <3> QED BY <1>6, <3>2 DEF AddOption, Insert
  <2>3. CASE order' = order
    BY <1>1, <2>1, <2>3
  <2>4. CASE order' # order
    <3>1. PICK i \in 1 .. Len(order) + 1 : order' = InsertAt(order, i, target')
      BY <2>2, <2>4
    <3>2. target' \in Numbers /\ target' \notin ToSet(order)
      BY <2>2, <2>4 DEF Listed
    <3>3. order \in Seq(Numbers) /\ IsInjective(order)
      BY DEF IInv, Typed, NoDuplicateNumbers
    <3>4. ToSet(order') = ToSet(order) \union {target'}
      BY <3>1, <3>2, <3>3, Inserting
    <3> QED BY <1>1, <2>1, <3>4
  <2> QED BY <2>3, <2>4
<1>7. CASE StoreOption
  <2>1. /\ Now.n = target /\ order' = order
        /\ option' \in {option, [option EXCEPT ![Now.n] = Now.c]}
    BY <1>7 DEF StoreOption, IInv, StoresTarget
  <2> QED BY <1>1, <1>2, <2>1
<1>8. CASE WriteSortedOrder
  <2> DEFINE s == [i \in 1 .. Len(list) |-> list[i].n]
  <2>1. /\ todo # <<>> /\ Now.do = "sort" /\ option' = option
        /\ order' \in Arrangements(s) \/ order' = order
    BY <1>8 DEF WriteSortedOrder, Doing, Now
  <2>2. CASE order' = order
    BY <1>1, <2>1, <2>2
  <2>3. CASE order' \in Arrangements(s)
    <3>1. ToSet(todo) = {Now} \union Rest /\ Rest = {}
      BY <2>1, Ahead, Behind
    <3>2. InList(n)
      BY <1>1, <2>1, <3>1
         DEF IInv, ListIsCurrent, Gathering, Pending, Listed
    <3>3. PICK i \in DOMAIN list : list[i].n = n
      BY <3>2 DEF InList, ToSet
    <3>4. DOMAIN list = 1 .. Len(list)
      <4>1. list \in Seq(Entries)
        BY DEF IInv, Typed
      <4> QED BY <4>1, LenProperties
    <3>5. n \in ToSet(s)
      BY <3>3, <3>4 DEF ToSet
    <3> QED BY <2>1, <2>3, <3>5 DEF Arrangements
  <2> QED BY <2>1, <2>2, <2>3
<1>9. CASE StoreTemporary
  <2>1. /\ Now.n \notin Listed /\ order' = order
        /\ option' \in {option, [option EXCEPT ![Now.n] = Now.c]}
    BY <1>9 DEF StoreTemporary, IInv, TemporaryIsUnlisted
  <2> QED BY <1>1, <1>2, <2>1
<1>10. CASE ReadOption \/ ListingDone \/ PlanRefresh \/ PruneOption
            \/ FindOption \/ SetBootCurrent
  BY <1>3, <1>10 DEF ReadOption, ListingDone, PlanRefresh, PruneOption,
                     FindOption, SetBootCurrent, nv
<1>11. CASE Operations
  BY <1>3, <1>11 DEF Operations, GetLoadOptions, AddLoadOption,
       DeleteLoadOption, SortLoadOptions, RefreshAllBootOption, BootOption,
       Begin, nv
<1>12. CASE Restart
  BY <1>3, <1>12 DEF Restart, nv
<1> QED BY <1>4, <1>5, <1>6, <1>7, <1>8, <1>9, <1>10, <1>11, <1>12
        DEF Next, Working

(* No step of any operation, interrupted or failing anywhere, removes or   *)
(* changes an option of the user in BootOrder that the operation was not   *)
(* asked to change.                                                        *)
THEOREM UserOptions == Spec => UserOptionsSurvive
<1> DEFINE Survives ==
             \A n \in Listed :
               option[n] \in UserContents /\ n \notin {target, target'} =>
                 /\ n \in ToSet(order')
                 /\ option'[n] = option[n]
<1>1. IInv /\ Next => Survives
  BY UserOptionsKept
<1>2. IInv /\ [Next]_vars => [Survives]_vars
  BY <1>1
<1> QED BY <1>2, Invariance, PTL DEF Spec, UserOptionsSurvive
=============================================================================
