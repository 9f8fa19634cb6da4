----------------------- MODULE PartitionCacheProofs -----------------------
(***************************************************************************)
(* The partition cache, for all paths, partitions and lengths of the list, *)
(* with disks that come and go and resets at any time.                     *)
(*                                                                         *)
(* That HDDP is the list of partitions last booted from follows from what  *)
(* one rewriting of it keeps (CachedIsUse).  The other two properties need *)
(* what an expansion has learnt so far: the instances that have been tried *)
(* lead nowhere (Tried), and the ones before the path last booted from are *)
(* there for another partition's sake (LastFirst).                         *)
(***************************************************************************)
EXTENDS PartitionCache, FiniteSetTheorems, FunctionTheorems,
        SequenceTheorems, WellFoundedInduction, TLAPS

----------------------------------------------------------------------------
(* Numbers.                                                                *)

(* A set of natural numbers that is not empty has a least element.         *)
LEMMA LeastNatural ==
  ASSUME NEW S, S \subseteq Nat, S # {}
  PROVE  \E k \in S : \A j \in S : k <= j
<1>1. PICK k \in S : \A j \in S : <<j, k>> \notin OpToRel(<, Nat)
  BY NatLessThanWellFounded, WFMin, Zenon
<1>2. ASSUME NEW j \in S PROVE k <= j
  <2>1. ~ (<<j, k>> \in {ss \in Nat \X Nat : ss[1] < ss[2]})
    BY <1>1, Zenon DEF OpToRel
  <2>2. ~ (j < k)
    BY <2>1
  <2> QED BY <2>2
<1> QED BY <1>2

(* A bounded one has a largest.                                            *)
LEMMA MaxExists ==
  ASSUME NEW k \in Nat, NEW S, S \subseteq 0 .. k, S # {}
  PROVE  Max(S) \in S /\ \A x \in S : x <= Max(S)
<1> DEFINE Above == {n \in Nat : \A x \in S : x <= n}
<1>1. k \in Above
  OBVIOUS
<1>2. PICK u \in Above : \A n \in Above : u <= n
  BY <1>1, LeastNatural
<1>3. u \in S
  <2>1. SUFFICES ASSUME u \notin S PROVE FALSE
    OBVIOUS
  <2>2. \A x \in S : x \in Nat /\ x < u
    BY <1>2, <2>1
  <2>3. PICK y \in S : TRUE
    OBVIOUS
  <2>4. y \in Nat /\ y < u /\ u \in Nat
    BY <1>2, <2>2
  <2>5. u - 1 \in Nat /\ \A x \in S : x <= u - 1
    BY <2>2, <2>4
  <2>6. u - 1 \in Above
    BY <2>5
  <2> QED BY <1>2, <2>4, <2>6
<1>4. \A x \in S : x <= u
  BY <1>2
<1>5. \E x \in S : \A y \in S : x >= y
  BY <1>2, <1>3, <1>4
<1> QED BY <1>5 DEF Max

Sorted(s) == \A i, j \in DOMAIN s : i < j => s[i] < s[j]

(* Every finite set of numbers can be put in order: if one of size n could *)
(* not, the rest of it without its largest could, and that comes last.     *)
LEMMA CanBeSorted ==
  ASSUME NEW k \in Nat, NEW S, S \subseteq 0 .. k
  PROVE  \E s \in [1 .. Cardinality(S) -> S] : Sorted(s)
<1> DEFINE Bad == {n \in Nat : \E T \in SUBSET (0 .. k) :
                     /\ Cardinality(T) = n
                     /\ \A s \in [1 .. n -> T] : ~Sorted(s)}
<1>1. \A T \in SUBSET (0 .. k) : IsFiniteSet(T) /\ Cardinality(T) \in Nat
  <2>1. IsFiniteSet(0 .. k)
    BY FS_Interval
  <2> QED BY <2>1, FS_Subset, FS_CardinalityType
<1>2. Bad = {}
  <2>1. SUFFICES ASSUME Bad # {} PROVE FALSE
    OBVIOUS
  <2>2. PICK n \in Bad : \A m \in Bad : n <= m
    BY <2>1, LeastNatural
  <2>3. PICK T \in SUBSET (0 .. k) :
          Cardinality(T) = n /\ \A s \in [1 .. n -> T] : ~Sorted(s)
    BY <2>2
  <2> HIDE DEF Bad
  <2>4. T # {}
    <3>1. SUFFICES ASSUME T = {} PROVE FALSE
      OBVIOUS
    <3>2. n = 0
      BY <2>3, <3>1, FS_EmptySet
    <3>3. [i \in 1 .. 0 |-> i] \in [1 .. n -> T]
      BY <3>2
    <3>4. Sorted([i \in 1 .. 0 |-> i])
      BY DEF Sorted
    <3> QED BY <2>3, <3>3, <3>4
  <2>5. Max(T) \in T /\ \A x \in T : x <= Max(T)
    BY <2>4, MaxExists
  <2> DEFINE R == T \ {Max(T)}
             m == n - 1
  <2>6. IsFiniteSet(T) /\ n \in Nat
    BY <1>1, <2>3
  <2>7. Cardinality(R) = m /\ m \in Nat
    <3>1. IsFiniteSet(R) /\ Cardinality(R) = Cardinality(T) - 1
      BY <2>5, <2>6, FS_RemoveElement
    <3>2. Cardinality(R) \in Nat
      BY <3>1, FS_CardinalityType
    <3> QED BY <2>3, <3>1, <3>2
  <2>8. m \notin Bad
    BY <2>2, <2>6, <2>7 DEF Bad
  <2>9. R \in SUBSET (0 .. k)
    OBVIOUS
  <2>10. PICK s \in [1 .. m -> R] : Sorted(s)
    BY <2>7, <2>8, <2>9 DEF Bad
  <2> DEFINE t == [i \in 1 .. n |-> IF i = n THEN Max(T) ELSE s[i]]
  <2>11. \A i \in 1 .. m : s[i] \in T /\ s[i] < Max(T)
    <3> TAKE i \in 1 .. m
    <3>1. s[i] \in R
      BY <2>10
    <3>2. s[i] \in T /\ s[i] # Max(T)
      BY <3>1
    <3>3. \A x \in T : x \in Nat
      OBVIOUS
    <3>4. s[i] \in Nat /\ Max(T) \in Nat /\ s[i] <= Max(T)
      BY <2>5, <3>2, <3>3
    <3> QED BY <3>2, <3>4
  <2>12. t \in [1 .. n -> T]
    BY <2>5, <2>6, <2>7, <2>11
  <2>13. Sorted(t)
    <3> SUFFICES ASSUME NEW i \in 1 .. n, NEW j \in 1 .. n, i < j
                 PROVE  t[i] < t[j]
      BY DEF Sorted
    <3>1. i \in 1 .. m /\ i # n
      BY <2>6, <2>7
    <3>2. t[i] = s[i]
      BY <3>1
    <3>3. CASE j = n
      BY <2>11, <3>1, <3>2, <3>3
    <3>4. CASE j # n
      <4>1. j \in 1 .. m /\ t[j] = s[j]
        BY <2>6, <2>7, <3>4
      <4>2. DOMAIN s = 1 .. m
        BY <2>10
      <4> QED BY <2>10, <3>1, <3>2, <4>1, <4>2 DEF Sorted
    <3> QED BY <3>3, <3>4
  <2> QED BY <2>3, <2>12, <2>13
<1>3. Cardinality(S) \in Nat /\ S \in SUBSET (0 .. k)
  BY <1>1
<1> QED BY <1>2, <1>3
(* The positions of list, or some of them, in order.                       *)
Order(positions) ==
  CHOOSE s \in [1 .. Cardinality(positions) -> positions] :
    \A i, j \in DOMAIN s : i < j => s[i] < s[j]

LEMMA OrderSorts ==
  ASSUME NEW k \in Nat, NEW S, S \subseteq 0 .. k
  PROVE  /\ Cardinality(S) \in Nat
         /\ Order(S) \in [1 .. Cardinality(S) -> S]
         /\ Sorted(Order(S))
         /\ \A x \in S : \E i \in 1 .. Cardinality(S) : Order(S)[i] = x
<1> DEFINE n == Cardinality(S)
           s == Order(S)
<1>1. IsFiniteSet(S) /\ n \in Nat
  <2>1. IsFiniteSet(0 .. k)
    BY FS_Interval
  <2> QED BY <2>1, FS_Subset, FS_CardinalityType
<1>2. \E f \in [1 .. n -> S] : \A i, j \in DOMAIN f : i < j => f[i] < f[j]
  BY CanBeSorted DEF Sorted
<1>3. s \in [1 .. n -> S] /\ Sorted(s)
  BY <1>2 DEF Order, Sorted
<1> HIDE DEF s
<1>4. \A x \in S : \E i \in 1 .. n : s[i] = x
  <2>1. \A i, j \in 1 .. n : i # j => s[i] # s[j]
    <3> SUFFICES ASSUME NEW i \in 1 .. n, NEW j \in 1 .. n, i # j
                 PROVE  s[i] # s[j]
      OBVIOUS
    <3>1. i < j \/ j < i
      BY <1>1
    <3>2. s[i] < s[j] \/ s[j] < s[i]
      BY <1>3, <3>1 DEF Sorted
    <3>3. s[i] \in S /\ s[j] \in S
      BY <1>3
    <3>4. \A x \in S : x \in Nat
      OBVIOUS
    <3> DEFINE a == s[i]
               b == s[j]
    <3>5. a \in Nat /\ b \in Nat /\ (a < b \/ b < a)
      BY <3>2, <3>3, <3>4
    <3> HIDE DEF a, b
    <3>6. a # b
      BY <3>5
    <3> QED BY <3>6 DEF a, b
  <2>2. s \in Injection(1 .. n, S)
    BY <1>3, <2>1, Zenon DEF Injection, IsInjective
  <2>3. IsFiniteSet(1 .. n) /\ Cardinality(1 .. n) = n
    <3>1. IsFiniteSet(1 .. n)
          /\ Cardinality(1 .. n) = IF 1 > n THEN 0 ELSE n - 1 + 1
      BY <1>1, FS_Interval
    <3> QED BY <1>1, <3>1
  <2>4. s \in Surjection(1 .. n, S)
    BY <1>1, <2>2, <2>3, FS_Injection
  <2> QED BY <2>4, Zenon DEF Surjection
<1> QED BY <1>1, <1>3, <1>4 DEF s

----------------------------------------------------------------------------
(* Paths and lists of them.                                                *)

Once(list) == \A i, j \in DOMAIN list : list[i] = list[j] => i = j

List == {l \in Seq(Paths) : Len(l) <= Limit /\ Once(l)}

LEMMA RelatedToItself == ASSUME NEW p \in Paths PROVE Related(p, p)
<1>1. p \in Seq(ToSet(p))
  BY CacheAssumption
<1>2. Len(p) \in Nat
  BY <1>1, LenProperties
<1> QED BY <1>2 DEF Related, IsPrefix

(* The instances that BmCachePartitionDevicePath keeps.                    *)
Others(list, path) ==
  {i \in DOMAIN list : path \in ToSet(list) => ~Related(list[i], path)}

(* What one rewriting of the list does: path comes first, then as many of  *)
(* the kept instances as fit, by their old positions o.                    *)
LEMMA CachedShape ==
  ASSUME NEW list \in List, NEW path \in Paths
  PROVE  LET new == Cached(list, path)
             o   == Order(Others(list, path))
             n   == Cardinality(Others(list, path))
         IN  /\ n \in Nat /\ o \in [1 .. n -> Others(list, path)]
             /\ Sorted(o)
             /\ \A x \in Others(list, path) : \E k \in 1 .. n : o[k] = x
             /\ new \in Seq(Paths) /\ new # <<>> /\ new[1] = path
             /\ Len(new) = IF n < Limit THEN n + 1 ELSE Limit
             /\ \A k \in 2 .. Len(new) : k - 1 \in 1 .. n
                                         /\ new[k] = list[o[k - 1]]
<1> DEFINE S == Others(list, path)
           n == Cardinality(S)
           o == Order(S)
           rest == [i \in DOMAIN o |-> list[o[i]]]
           all == <<path>> \o rest
           new == Cached(list, path)
<1>1. list \in Seq(Paths) /\ Len(list) \in Nat /\ DOMAIN list = 1 .. Len(list)
  BY LenProperties DEF List
<1>2. S \subseteq 0 .. Len(list) /\ S \subseteq 1 .. Len(list)
  BY <1>1 DEF Others
<1>3. /\ n \in Nat /\ o \in [1 .. n -> S] /\ Sorted(o)
      /\ \A x \in S : \E k \in 1 .. n : o[k] = x
  BY <1>1, <1>2, OrderSorts
<1>4. new = First(Limit, all)
  BY DEF Cached, Instances, Others, Order
<1> HIDE DEF S, n, o
<1>5. rest \in Seq(Paths) /\ Len(rest) = n /\ \A i \in 1 .. n : rest[i] = list[o[i]]
  <2>1. DOMAIN o = 1 .. n
    BY <1>3
  <2>2. \A i \in 1 .. n : list[o[i]] \in Paths
    <3> TAKE i \in 1 .. n
    <3>1. o[i] \in 1 .. Len(list)
      BY <1>2, <1>3
    <3> QED BY <1>1, <3>1
  <2>3. rest \in [1 .. n -> Paths]
    BY <2>1, <2>2
  <2>4. rest \in Seq(Paths)
    BY <1>3, <2>3, IsASeq
  <2> QED BY <1>3, <2>1, <2>3, <2>4, LenProperties
<1> HIDE DEF rest
<1>6. all \in Seq(Paths) /\ Len(all) = n + 1 /\ all[1] = path
      /\ \A k \in 2 .. n + 1 : all[k] = rest[k - 1]
  <2>1. <<path>> \in Seq(Paths) /\ Len(<<path>>) = 1 /\ <<path>>[1] = path
    OBVIOUS
  <2> QED BY <1>3, <1>5, <2>1, ConcatProperties
<1> HIDE DEF all
<1> DEFINE m == IF Len(all) < Limit THEN Len(all) ELSE Limit
<1>7. m \in Nat \ {0} /\ m <= Len(all) /\ m <= Limit
      /\ m = IF n < Limit THEN n + 1 ELSE Limit
  BY <1>3, <1>6, CacheAssumption
<1>8. new = SubSeq(all, 1, m)
  BY <1>4 DEF First
<1> HIDE DEF m, new
<1>9. new \in Seq(Paths) /\ Len(new) = m /\ \A k \in 1 .. m : new[k] = all[k]
  BY <1>6, <1>7, <1>8, SubSeqProperties, ElementOfSeq
<1>10. \A k \in 2 .. m : k - 1 \in 1 .. n /\ new[k] = list[o[k - 1]]
  BY <1>3, <1>5, <1>6, <1>7, <1>9
<1> QED BY <1>3, <1>6, <1>7, <1>9, <1>10 DEF S, n, o, new

(* So it stays a list; what it keeps it keeps in order, at old positions   *)
(* q; and what it drops is related to path, or behind all that is kept in  *)
(* a full list.                                                            *)
LEMMA CachedKeeps ==
  ASSUME NEW list \in List, NEW path \in Paths
  PROVE  LET new == Cached(list, path)
         IN  /\ new \in List /\ new # <<>> /\ new[1] = path
             /\ \E q \in [2 .. Len(new) -> 1 .. Len(list)] :
                  /\ \A k \in 2 .. Len(new) : new[k] = list[q[k]]
                  /\ \A j, k \in 2 .. Len(new) : j < k => q[j] < q[k]
                  /\ \A i \in 1 .. Len(list) :
                       \/ Related(path, list[i])
                       \/ \E k \in 2 .. Len(new) : q[k] = i
                       \/ /\ Len(new) = Limit
                          /\ \A k \in 2 .. Len(new) : q[k] < i
<1> DEFINE S == Others(list, path)
           n == Cardinality(S)
           o == Order(S)
           new == Cached(list, path)
           m == Len(new)
           q == [k \in 2 .. m |-> o[k - 1]]
<1>1. list \in Seq(Paths) /\ Len(list) \in Nat /\ DOMAIN list = 1 .. Len(list)
      /\ Once(list)
  BY LenProperties DEF List
<1>2. S \subseteq 1 .. Len(list)
  BY <1>1 DEF Others
<1>3. \A x \in S : list[x] # path
  <2> SUFFICES ASSUME NEW x \in S, list[x] = path PROVE FALSE
    OBVIOUS
  <2>1. path \in ToSet(list)
    BY <1>1, <1>2 DEF ToSet
  <2> QED BY <2>1, RelatedToItself DEF Others
<1>4. \A i \in 1 .. Len(list) : i \in S \/ Related(path, list[i])
  BY <1>1 DEF Others, Related
<1>5. /\ n \in Nat /\ o \in [1 .. n -> S] /\ Sorted(o)
      /\ \A x \in S : \E k \in 1 .. n : o[k] = x
      /\ new \in Seq(Paths) /\ new # <<>> /\ new[1] = path
      /\ m = (IF n < Limit THEN n + 1 ELSE Limit)
      /\ \A k \in 2 .. m : k - 1 \in 1 .. n /\ new[k] = list[o[k - 1]]
  BY CachedShape
<1> HIDE DEF S, n, o, new
<1>6. m \in Nat \ {0} /\ m <= Limit /\ DOMAIN new = 1 .. m
  BY <1>5, CacheAssumption, LenProperties
<1> HIDE DEF m
<1>7. DOMAIN o = 1 .. n /\ \A k \in 1 .. n : o[k] \in 1 .. Len(list) /\ o[k] \in S
  BY <1>2, <1>5
<1>8. \A j, k \in 1 .. n : j < k => o[j] < o[k]
  BY <1>5, <1>7 DEF Sorted
<1>9. q \in [2 .. m -> 1 .. Len(list)] /\ \A k \in 2 .. m : q[k] \in S
  BY <1>5, <1>7
<1>10. \A k \in 2 .. m : new[k] = list[q[k]]
  BY <1>5
<1>11. \A j, k \in 2 .. m : j < k => q[j] < q[k]
  <2> SUFFICES ASSUME NEW j \in 2 .. m, NEW k \in 2 .. m, j < k
               PROVE  q[j] < q[k]
    OBVIOUS
  <2>1. j - 1 \in 1 .. n /\ k - 1 \in 1 .. n /\ j - 1 < k - 1
    BY <1>5, <1>6
  <2> QED BY <1>8, <2>1
<1>12. ASSUME NEW i \in 1 .. Len(list), ~Related(path, list[i]),
              \A k \in 2 .. m : q[k] # i
       PROVE  m = Limit /\ \A k \in 2 .. m : q[k] < i
  <2>1. PICK e \in 1 .. n : o[e] = i
    BY <1>4, <1>5, <1>12
  <2>2. n \in Nat /\ m \in Nat /\ e \in Nat /\ 1 <= e /\ e <= n
    BY <1>5, <1>6, <2>1
  <2>3. e + 1 > m
    <3>1. SUFFICES ASSUME e + 1 <= m PROVE FALSE
      BY <2>2
    <3>2. e + 1 \in 2 .. m /\ (e + 1) - 1 = e
      BY <2>2, <3>1
    <3>3. q[e + 1] = i
      BY <2>1, <3>2
    <3> QED BY <1>12, <3>2, <3>3
  <2>4. m = Limit
    <3>1. m # n + 1
      BY <2>2, <2>3
    <3> QED BY <1>5, <3>1
  <2>5. ASSUME NEW k \in 2 .. m PROVE q[k] < i
    <3>1. k - 1 \in 1 .. n /\ k - 1 < e
      BY <2>2, <2>3
    <3> QED BY <1>8, <2>1, <3>1
  <2> QED BY <2>4, <2>5
<1> HIDE DEF q
<1>13. Once(new)
  <2> SUFFICES ASSUME NEW j \in 1 .. m, NEW k \in 1 .. m, j < k, new[j] = new[k]
               PROVE  FALSE
    BY <1>6 DEF Once
  <2>1. k \in 2 .. m
    OBVIOUS
  <2>2. new[k] = list[q[k]] /\ q[k] \in 1 .. Len(list) /\ q[k] \in S
    BY <1>9, <1>10, <2>1
  <2>3. j \in 2 .. m
    BY <1>3, <1>5, <2>2
  <2>4. new[j] = list[q[j]] /\ q[j] \in 1 .. Len(list)
    BY <1>9, <1>10, <2>3
  <2>5. q[j] < q[k]
    BY <1>11, <2>1, <2>3
  <2>6. q[j] = q[k]
    BY <1>1, <2>2, <2>4 DEF Once
  <2> QED BY <2>2, <2>4, <2>5, <2>6
<1>14. new \in List
  BY <1>5, <1>6, <1>13 DEF List, m
<1>15. \A i \in 1 .. Len(list) :
         \/ Related(path, list[i])
         \/ \E k \in 2 .. m : q[k] = i
         \/ m = Limit /\ \A k \in 2 .. m : q[k] < i
  BY <1>12
<1> QED BY <1>5, <1>9, <1>10, <1>11, <1>14, <1>15 DEF m, new

(* In a list that holds nothing twice, a path has one position.            *)
LEMMA PositionInList ==
  ASSUME NEW list \in List, NEW i \in 1 .. Len(list)
  PROVE  History!Position(list[i], list) = i
<1>1. DOMAIN list = 1 .. Len(list) /\ Once(list)
  BY LenProperties DEF List
<1>2. \A j \in DOMAIN list : list[j] = list[i] => j = i
  BY <1>1 DEF Once
<1> QED BY <1>1, <1>2 DEF History!Position

(* That is a use of path, as the history sees it.                          *)
LEMMA CachedIsUse ==
  ASSUME hddp \in List, NEW path \in Paths, hddp' = Cached(hddp, path)
  PROVE  History!Use(path)
<1> DEFINE new == Cached(hddp, path)
           m == Len(new)
<1>1. new \in List /\ new # <<>> /\ new[1] = path
  BY CachedKeeps
<1>2. PICK q \in [2 .. m -> 1 .. Len(hddp)] :
        /\ \A k \in 2 .. m : new[k] = hddp[q[k]]
        /\ \A j, k \in 2 .. m : j < k => q[j] < q[k]
        /\ \A i \in 1 .. Len(hddp) :
             \/ Related(path, hddp[i])
             \/ \E k \in 2 .. m : q[k] = i
             \/ m = Limit /\ \A k \in 2 .. m : q[k] < i
  BY CachedKeeps
<1> HIDE DEF new
<1>3. /\ new \in Seq(Paths) /\ m \in Nat \ {0} /\ m <= Limit
      /\ DOMAIN new = 1 .. m /\ Once(new)
  BY <1>1, LenProperties, EmptySeq DEF List
<1>4. hddp \in Seq(Paths) /\ Len(hddp) \in Nat /\ DOMAIN hddp = 1 .. Len(hddp)
  BY LenProperties DEF List
<1>5. hddp # Invalid /\ new # Invalid
  BY <1>3, <1>4, CacheAssumption
<1>6. Head(new) = path
  BY <1>1, <1>3
<1>7. ToSet(Tail(new)) = {new[k] : k \in 2 .. m}
  <2>1. Tail(new) \in Seq(Paths) /\ Len(Tail(new)) = m - 1
        /\ \A i \in 1 .. m - 1 : Tail(new)[i] = new[i + 1]
    BY <1>1, <1>3, HeadTailProperties
  <2>2. DOMAIN Tail(new) = 1 .. m - 1
    BY <2>1, LenProperties
  <2>3. \A i \in 1 .. m - 1 : i + 1 \in 2 .. m
    BY <1>3
  <2>4. \A k \in 2 .. m : k - 1 \in 1 .. m - 1 /\ (k - 1) + 1 = k
    BY <1>3
  <2>5. ASSUME NEW k \in 2 .. m PROVE new[k] \in {Tail(new)[i] : i \in 1 .. m - 1}
    <3>1. Tail(new)[k - 1] = new[k]
      BY <2>1, <2>4
    <3> QED BY <2>4, <3>1
  <2>6. ASSUME NEW i \in 1 .. m - 1 PROVE Tail(new)[i] \in {new[k] : k \in 2 .. m}
    BY <2>1, <2>3
  <2> QED BY <2>2, <2>5, <2>6 DEF ToSet
<1>8. ToSet(new) \subseteq ToSet(hddp) \union {path}
  <2>1. ASSUME NEW k \in 1 .. m, k # 1 PROVE new[k] \in ToSet(hddp)
    <3>1. k \in 2 .. m
      BY <2>1
    <3>2. q[k] \in 1 .. Len(hddp) /\ new[k] = hddp[q[k]]
      BY <1>2, <3>1
    <3> QED BY <1>4, <3>2 DEF ToSet
  <2> QED BY <1>1, <1>3, <2>1 DEF ToSet
<1>9. \A k \in 2 .. m : /\ History!Position(new[k], hddp) = q[k]
                        /\ History!Position(new[k], new) = k
                        /\ q[k] \in Nat
  <2> TAKE k \in 2 .. m
  <2>1. q[k] \in 1 .. Len(hddp) /\ new[k] = hddp[q[k]] /\ k \in 1 .. Len(new)
    BY <1>2, <1>3
  <2>2. History!Position(hddp[q[k]], hddp) = q[k]
    BY <2>1, PositionInList
  <2>3. History!Position(new[k], new) = k
    BY <1>1, <2>1, PositionInList
  <2> QED BY <2>1, <2>2, <2>3
<1>10. \A j, k \in 2 .. m : q[j] < q[k] => j < k
  <2> SUFFICES ASSUME NEW j \in 2 .. m, NEW k \in 2 .. m, q[j] < q[k], ~(j < k)
               PROVE  FALSE
    OBVIOUS
  <2>1. q[j] \in Nat /\ q[k] \in Nat
    BY <1>9
  <2>2. CASE k < j
    <3>1. q[k] < q[j]
      BY <1>2, <2>2
    <3> QED BY <2>1, <3>1
  <2>3. CASE k = j
    BY <2>1, <2>3
  <2> QED BY <2>2, <2>3
<1>11. \A x, y \in ToSet(Tail(new)) :
         History!Position(x, hddp) < History!Position(y, hddp)
           => History!Position(x, new) < History!Position(y, new)
  BY <1>7, <1>9, <1>10
<1>12. ASSUME NEW x \in ToSet(hddp) \ ToSet(new)
       PROVE  \/ Related(path, x)
              \/ /\ m = Limit
                 /\ \A r \in ToSet(Tail(new)) :
                      History!Position(r, hddp) < History!Position(x, hddp)
  <2>1. PICK i \in 1 .. Len(hddp) : hddp[i] = x
    BY <1>4 DEF ToSet
  <2>2. \A k \in 2 .. m : q[k] # i
    <3> SUFFICES ASSUME NEW k \in 2 .. m, q[k] = i PROVE FALSE
      OBVIOUS
    <3>1. new[k] = x /\ k \in DOMAIN new
      BY <1>2, <1>3, <2>1
    <3> QED BY <1>12, <3>1 DEF ToSet
  <2>3. History!Position(x, hddp) = i
    BY <2>1, PositionInList
  <2> QED BY <1>2, <1>7, <1>9, <2>1, <2>2, <2>3
<1>13. \A r : Related(path, r) => History!Related(path, r)
  BY DEF History!Related, Related, History!IsPrefix, IsPrefix
<1>14. hddp' = new
  BY DEF new
<1>15. IsInjective(new)
  BY <1>3 DEF IsInjective, Once
<1>16. /\ (IF hddp = Invalid THEN <<>> ELSE hddp) = hddp
       /\ (IF hddp = Invalid THEN <<>> ELSE hddp)' = new
  BY <1>5, <1>14
<1>17. \A x \in ToSet(hddp) \ ToSet(new) :
         \/ History!Related(path, x)
         \/ /\ m = Limit
            /\ \A r \in ToSet(Tail(new)) :
                 History!Position(r, hddp) < History!Position(x, hddp)
  BY <1>12, <1>13
<1>18. m <= Limit
  BY <1>3
<1> DEFINE old == IF hddp = Invalid THEN <<>> ELSE hddp
<1>19. old = hddp /\ old' = new
  BY <1>16
<1> HIDE DEF m, old
<1>20. old' # <<>> /\ Head(old') = path
  BY <1>1, <1>6, <1>19
<1>21. Len(old') <= Limit /\ History!IsInjective(old')
  BY <1>15, <1>18, <1>19 DEF History!IsInjective, IsInjective, m
<1>22. History!ToSet(old') \subseteq History!ToSet(old) \union {path}
  BY <1>8, <1>19 DEF History!ToSet, ToSet
<1>23. \A x, y \in History!ToSet(Tail(old')) :
         History!Position(x, old) < History!Position(y, old)
           => History!Position(x, old') < History!Position(y, old')
  BY <1>11, <1>19 DEF History!ToSet, ToSet
<1>24. \A x \in History!ToSet(old) \ History!ToSet(old') :
         \/ History!Related(path, x)
         \/ /\ Len(old') = Limit
            /\ \A r \in History!ToSet(Tail(old')) :
                 History!Position(r, old) < History!Position(x, old)
  BY <1>17, <1>19 DEF History!ToSet, ToSet, m
<1> QED BY <1>20, <1>21, <1>22, <1>23, <1>24 DEF History!Use, old

----------------------------------------------------------------------------
(* The inductive invariant.                                                *)

TypeOK ==
  /\ hddp \in List \union {Invalid}
  /\ present \subseteq Paths /\ connected \subseteq Paths
  /\ wanted \in Wanted \union {None}
  /\ cache \in List /\ untried \in Seq(Paths)
  /\ result \in Paths \union {None} /\ last \in Paths \union {None}
  /\ searching \in BOOLEAN /\ triedAll \in BOOLEAN /\ settled \in BOOLEAN

(* While a partition is expanded, CachedDevicePath is what the variable    *)
(* holds, and what remains to be tried is the end of it.                   *)
Behind ==
  wanted # None =>
    /\ hddp # Invalid /\ cache = hddp
    /\ Len(untried) <= Len(cache)
    /\ \A j \in 1 .. Len(untried) :
         untried[j] = cache[Len(cache) - Len(untried) + j]
    /\ searching <=> untried = <<>>
    /\ triedAll => searching

(* The instances before it lead nowhere, unless a disk came meanwhile; and *)
(* after ConnectAll everything is connected.                               *)
Tried ==
  wanted # None /\ settled =>
    /\ \A i \in 1 .. Len(cache) - Len(untried) : ~Bootable(cache[i])
    /\ triedAll => connected = present

(* Before x in list are only paths that hold Watched if they also hold     *)
(* another partition, whose boot may have brought them there.              *)
ForAnother(path) == \E p \in Wanted \ {Watched} : Holds(path, p)
FirstFor(list, x) ==
  \A k \in 1 .. Len(list) : list[k] = x =>
    \A j \in 1 .. k - 1 : Holds(list[j], Watched) => ForAnother(list[j])

LastFirst == hddp # Invalid => FirstFor(hddp, last)

IInv == TypeOK /\ Behind /\ Tried /\ LastFirst

----------------------------------------------------------------------------
(* Steps of an expansion.                                                  *)

(* The instance tried next.                                                *)
LEMMA NextUntried ==
  ASSUME TypeOK, Behind, wanted # None, untried # <<>>
  PROVE  LET i == Len(cache) - Len(untried) + 1
         IN  /\ i \in 1 .. Len(cache) /\ Len(untried) \in Nat \ {0}
             /\ Head(untried) = cache[i] /\ Head(untried) \in Paths
             /\ Tail(untried) \in Seq(Paths)
             /\ Len(cache) - Len(Tail(untried)) = i
             /\ Len(Tail(untried)) = Len(untried) - 1
             /\ \A j \in 1 .. Len(Tail(untried)) :
                  Tail(untried)[j] = cache[Len(cache) - Len(Tail(untried)) + j]
<1> DEFINE n == Len(untried)
           c == Len(cache)
<1>1. untried \in Seq(Paths) /\ cache \in Seq(Paths)
  BY DEF TypeOK, List
<1>2. n \in Nat \ {0} /\ c \in Nat
  BY <1>1, EmptySeq, LenProperties
<1>3. n <= c /\ \A j \in 1 .. n : untried[j] = cache[c - n + j]
  BY DEF Behind
<1>4. /\ Head(untried) = untried[1] /\ Head(untried) \in Paths
      /\ Tail(untried) \in Seq(Paths) /\ Len(Tail(untried)) = n - 1
      /\ \A j \in 1 .. n - 1 : Tail(untried)[j] = untried[j + 1]
  <2>1. Head(untried) = untried[1] /\ Head(untried) \in Paths
    BY <1>1, HeadTailProperties
  <2>2. /\ Tail(untried) \in Seq(Paths) /\ Len(Tail(untried)) = n - 1
        /\ \A j \in 1 .. n - 1 : Tail(untried)[j] = untried[j + 1]
    BY <1>1, HeadTailProperties
  <2> QED BY <2>1, <2>2
<1> HIDE DEF n, c
<1>5. c - n + 1 \in 1 .. c /\ c - (n - 1) = c - n + 1
  BY <1>2, <1>3
<1>6. untried[1] = cache[c - n + 1]
  BY <1>2, <1>3
<1>7. ASSUME NEW j \in 1 .. n - 1
      PROVE  Tail(untried)[j] = cache[c - (n - 1) + j]
  <2>1. j + 1 \in 1 .. n /\ c - n + (j + 1) = c - (n - 1) + j
    BY <1>2
  <2>2. untried[j + 1] = cache[c - n + (j + 1)]
    BY <1>3, <2>1
  <2> QED BY <1>4, <2>1, <2>2
<1> QED BY <1>2, <1>4, <1>5, <1>6, <1>7 DEF n, c

(* A path that leads to nothing, connected as far as it goes, does not     *)
(* lead anywhere when everything is connected.                             *)
LEMMA NoMoreLeads ==
  ASSUME NEW path, ~Leads(path, connected \union Upwards(path))
  PROVE  ~Leads(path, present)
BY DEF Leads, InFileSystem

LEMMA PassKeepsTried ==
  ASSUME TypeOK, Behind, Tried, wanted # None, untried # <<>>,
         settled => ~Bootable(Head(untried)), PassInstance,
         UNCHANGED <<present, formatted, settled>>, connected' \subseteq Paths
  PROVE  TypeOK' /\ Behind' /\ Tried' /\ UNCHANGED <<hddp, wanted, last>>
<1> DEFINE i == Len(cache) - Len(untried) + 1
<1>1. /\ untried' = Tail(untried) /\ searching' = (Len(untried) = 1)
      /\ UNCHANGED <<hddp, wanted, bare, cache, triedAll, result, last>>
  BY DEF PassInstance, NextInstance, request
<1>2. /\ i \in 1 .. Len(cache) /\ Len(untried) \in Nat \ {0}
      /\ Head(untried) = cache[i] /\ Tail(untried) \in Seq(Paths)
      /\ Len(cache) - Len(Tail(untried)) = i
      /\ Len(Tail(untried)) = Len(untried) - 1
      /\ \A j \in 1 .. Len(Tail(untried)) :
           Tail(untried)[j] = cache[Len(cache) - Len(Tail(untried)) + j]
  BY NextUntried
<1>3. TypeOK'
  BY <1>1, <1>2 DEF TypeOK
<1>4. ~triedAll
  BY DEF Behind, TypeOK
<1>5. cache \in Seq(Paths) /\ Len(cache) \in Nat
  BY LenProperties DEF TypeOK, List
<1>6. searching' <=> untried' = <<>>
  <2>1. Tail(untried) = <<>> <=> Len(Tail(untried)) = 0
    BY <1>2, EmptySeq
  <2>2. Len(Tail(untried)) = 0 <=> Len(untried) = 1
    BY <1>2
  <2>3. searching' <=> Len(untried) = 1
    BY <1>1
  <2> QED BY <1>1, <2>1, <2>2, <2>3
<1>7. Behind'
  BY <1>1, <1>2, <1>4, <1>5, <1>6 DEF Behind
<1>8. ASSUME settled, NEW k \in 1 .. i PROVE ~Bootable(cache[k])
  <2>1. k = i \/ k \in 1 .. Len(cache) - Len(untried)
    BY <1>2, <1>5
  <2> QED BY <1>2, <1>8, <2>1 DEF Tried
<1>9. \A p : Bootable(p)' = Bootable(p)
  BY <1>1 DEF Bootable, Leads, InFileSystem, Upwards, Below, Holds
<1>10. Tried'
  BY <1>1, <1>2, <1>4, <1>8, <1>9 DEF Tried
<1> QED BY <1>1, <1>3, <1>7, <1>10

(* When the list is rewritten for another partition, the paths before x    *)
(* are still there for one: the new head is, and the others keep order.    *)
LEMMA CachedKeepsFirst ==
  ASSUME NEW list \in List, NEW path \in Paths, ForAnother(path),
         NEW x, FirstFor(list, x)
  PROVE  FirstFor(Cached(list, path), x)
<1> DEFINE new == Cached(list, path)
           m == Len(new)
<1>1. new \in List /\ new # <<>> /\ new[1] = path
  BY CachedKeeps
<1>2. PICK q \in [2 .. m -> 1 .. Len(list)] :
        /\ \A k \in 2 .. m : new[k] = list[q[k]]
        /\ \A j, k \in 2 .. m : j < k => q[j] < q[k]
  BY CachedKeeps
<1>3. m \in Nat /\ Len(list) \in Nat
  BY <1>1, LenProperties DEF List
<1> HIDE DEF new, m
<1>4. ASSUME NEW k \in 1 .. m, new[k] = x, NEW j \in 1 .. k - 1,
             Holds(new[j], Watched)
      PROVE  ForAnother(new[j])
  <2>1. CASE j = 1
    BY <1>1, <2>1
  <2>2. CASE j # 1
    <3>1. j \in 2 .. m /\ k \in 2 .. m /\ j < k
      BY <1>3, <2>2
    <3>2. /\ new[k] = list[q[k]] /\ new[j] = list[q[j]] /\ q[j] < q[k]
          /\ q[j] \in 1 .. Len(list) /\ q[k] \in 1 .. Len(list)
      BY <1>2, <3>1
    <3>3. q[j] \in 1 .. q[k] - 1
      BY <1>3, <3>2
    <3>4. Holds(list[q[j]], Watched)
      BY <1>4, <3>2
    <3>5. ForAnother(list[q[j]])
      BY <1>4, <3>2, <3>3, <3>4 DEF FirstFor
    <3> QED BY <3>2, <3>5
  <2> QED BY <2>1, <2>2
<1> QED BY <1>4 DEF FirstFor, m, new

LEMMA HeadIsFirst ==
  ASSUME NEW list \in List, list # <<>> PROVE FirstFor(list, list[1])
<1>1. /\ DOMAIN list = 1 .. Len(list) /\ Len(list) \in Nat \ {0}
      /\ \A i, j \in DOMAIN list : list[i] = list[j] => i = j
  BY LenProperties, EmptySeq DEF List, Once
<1>2. \A k \in 1 .. Len(list) : list[k] = list[1] => k = 1
  BY <1>1
<1>3. 1 .. (1 - 1) = {}
  OBVIOUS
<1> QED BY <1>2, <1>3 DEF FirstFor

LEMMA NoneIsFirst ==
  ASSUME NEW list \in List PROVE FirstFor(list, None)
<1>1. list \in Seq(Paths)
  BY DEF List
<1>2. \A k \in 1 .. Len(list) : list[k] \in Paths
  BY <1>1, LenProperties
<1> QED BY <1>2, CacheAssumption DEF FirstFor

(* An expansion that finds path: the list is rewritten, or the write       *)
(* fails, or path is first in it already.                                  *)
LEMMA FoundKeepsInv ==
  ASSUME IInv, wanted # None, NEW path \in Paths, Holds(path, wanted),
         NEW saved \in BOOLEAN, Return(path, saved),
         \/ hddp' = Cached(cache, path) /\ saved
         \/ UNCHANGED hddp /\ ~saved
         \/ UNCHANGED hddp /\ saved /\ cache # <<>> /\ path = cache[1],
         UNCHANGED <<present, settled>>, connected' \subseteq Paths
  PROVE  /\ IInv'
         /\ result' = path /\ wanted' = None
         /\ \/ History!Use(path)
            \/ UNCHANGED (IF hddp = Invalid THEN <<>> ELSE hddp)
<1>1. /\ result' = path /\ wanted' = None /\ cache' = <<>> /\ untried' = <<>>
      /\ searching' = FALSE /\ triedAll' = FALSE
      /\ last' = IF wanted # Watched \/ path = None THEN last
                 ELSE IF saved THEN path ELSE None
  BY DEF Return
<1>2. hddp \in List /\ cache = hddp /\ FirstFor(hddp, last) /\ path # None
  BY CacheAssumption DEF IInv, TypeOK, Behind, LastFirst
<1>3. <<>> \in List
  BY EmptySeq, CacheAssumption DEF List, Once
<1>4. hddp' \in List
  BY <1>2, CachedKeeps
<1>5. TypeOK'
  <2>1. last' \in Paths \union {None}
    BY <1>1 DEF IInv, TypeOK
  <2>2. present' \subseteq Paths /\ settled' \in BOOLEAN
    BY DEF IInv, TypeOK
  <2> QED BY <1>1, <1>3, <1>4, <2>1, <2>2, EmptySeq DEF TypeOK
<1>6. Behind' /\ Tried'
  BY <1>1 DEF Behind, Tried
<1>7. FirstFor(hddp', last')
  <2>1. CASE wanted # Watched
    <3>1. ForAnother(path) /\ last' = last
      BY <1>1, <2>1 DEF ForAnother, IInv, TypeOK
    <3> QED BY <1>2, <3>1, CachedKeepsFirst
  <2>2. CASE wanted = Watched /\ ~saved
    <3>1. last' = None
      BY <1>1, <1>2, <2>2
    <3> QED BY <1>4, <3>1, NoneIsFirst
  <2>3. CASE wanted = Watched /\ saved
    <3>1. last' = path
      BY <1>1, <1>2, <2>3
    <3>2. hddp' # <<>> /\ hddp'[1] = path
      BY <1>2, <2>3, CachedKeeps
    <3> QED BY <1>4, <3>1, <3>2, HeadIsFirst
  <2> QED BY <2>1, <2>2, <2>3
<1>8. LastFirst'
  BY <1>7 DEF LastFirst, FirstFor, ForAnother, Holds
<1>9. \/ History!Use(path)
      \/ UNCHANGED (IF hddp = Invalid THEN <<>> ELSE hddp)
  BY <1>2, CachedIsUse
<1> QED BY <1>1, <1>5, <1>6, <1>8, <1>9 DEF IInv

(* What an expansion's last step tells of the path found.                  *)
Found(path) ==
  /\ path \in Paths /\ Holds(path, wanted)
  /\ result' = path /\ wanted' = None /\ ~triedAll'
  /\ \/ History!Use(path)
     \/ UNCHANGED (IF hddp = Invalid THEN <<>> ELSE hddp)

Continues == UNCHANGED <<hddp, wanted>>

LEMMA SaveFinds ==
  ASSUME IInv, wanted # None, NEW path \in Paths, Holds(path, wanted),
         Save(path),
         UNCHANGED <<present, settled>>, connected' \subseteq Paths
  PROVE  IInv' /\ Found(path)
<1>1. CASE hddp' = Cached(cache, path) /\ Return(path, TRUE)
  <2>1. ~triedAll'
    BY <1>1 DEF Return
  <2> QED BY <1>1, <2>1, FoundKeepsInv DEF Found
<1>2. CASE UNCHANGED hddp /\ Return(path, FALSE)
  <2>1. ~triedAll'
    BY <1>2 DEF Return
  <2> QED BY <1>2, <2>1, FoundKeepsInv DEF Found
<1> QED BY <1>1, <1>2 DEF Save

LEMMA TryInstanceStep ==
  ASSUME IInv, TryInstance
  PROVE  /\ IInv'
         /\ \/ Continues /\ UNCHANGED triedAll
            \/ untried # <<>> /\ Found(Head(untried))
<1> DEFINE path == Head(untried)
           handles == connected \union Upwards(path)
<1>1. wanted # None /\ untried # <<>> /\ UNCHANGED <<present, formatted, settled>>
  BY DEF TryInstance, disks
<1>2. path \in Paths /\ cache # <<>>
  <2>1. Len(cache) - Len(untried) + 1 \in 1 .. Len(cache) /\ path \in Paths
    BY <1>1, NextUntried DEF IInv
  <2>2. Len(<<>>) = 0
    OBVIOUS
  <2> QED BY <2>1, <2>2
<1>3. connected' \subseteq Paths
  <2>1. connected' = connected \/ connected' = handles \union Opened(path, handles)
    BY DEF TryInstance
  <2>2. handles \subseteq Paths /\ Opened(path, handles) \subseteq Paths
    BY DEF IInv, TypeOK, Upwards, Opened
  <2> QED BY <2>1, <2>2 DEF IInv, TypeOK
<1>4. CASE Holds(path, wanted) /\ path \in present /\ Leads(path, handles)
  <2>1. UseInstance(path)
    BY <1>4 DEF TryInstance
  <2>2. CASE path = cache[1]
    <3>1. UNCHANGED hddp /\ Return(path, TRUE)
      BY <2>1, <2>2 DEF UseInstance
    <3>2. ~triedAll'
      BY <3>1 DEF Return
    <3>3. /\ IInv' /\ result' = path /\ wanted' = None
          /\ \/ History!Use(path)
             \/ UNCHANGED (IF hddp = Invalid THEN <<>> ELSE hddp)
      BY <1>1, <1>2, <1>3, <1>4, <2>2, <3>1, FoundKeepsInv
    <3>4. Found(path)
      BY <1>2, <1>4, <3>2, <3>3 DEF Found
    <3> QED BY <1>1, <3>3, <3>4
  <2>3. CASE path # cache[1]
    <3>1. Save(path)
      BY <2>1, <2>3 DEF UseInstance
    <3> QED BY <1>1, <1>2, <1>3, <1>4, <3>1, SaveFinds
  <2> QED BY <2>2, <2>3
<1>5. CASE ~(Holds(path, wanted) /\ path \in present /\ Leads(path, handles))
  <2>1. PassInstance
    BY <1>5 DEF TryInstance
  <2>2. ~Bootable(path)
    BY <1>5, NoMoreLeads DEF Bootable
  <2>3. TypeOK' /\ Behind' /\ Tried' /\ UNCHANGED <<hddp, wanted, last>>
    BY <1>1, <1>3, <2>1, <2>2, PassKeepsTried DEF IInv
  <2>4. LastFirst'
    BY <2>3 DEF IInv, LastFirst, FirstFor, ForAnother, Holds
  <2>5. UNCHANGED triedAll
    BY <2>1 DEF PassInstance, NextInstance
  <2> QED BY <2>3, <2>4, <2>5 DEF IInv, Continues
<1> QED BY <1>4, <1>5

LEMMA FindPartitionStep ==
  ASSUME IInv, FindPartition
  PROVE  IInv' /\ searching /\ \E path \in Leading : Found(path)
<1>1. PICK path \in Leading, tried \in SUBSET (Candidates \ Leading) :
        /\ connected' = connected \union
                        UNION {Opened(p, connected) : p \in tried \union {path}}
        /\ Save(path)
  BY DEF FindPartition
<1>2. wanted # None /\ searching /\ UNCHANGED <<present, formatted, settled>>
  BY DEF FindPartition, disks
<1>3. path \in Paths /\ Holds(path, wanted)
  BY DEF Leading, Candidates, IInv, TypeOK
<1>4. connected' \subseteq Paths
  <2>1. \A p : Opened(p, connected) \subseteq Paths
    BY DEF Opened, IInv, TypeOK
  <2> QED BY <1>1, <2>1 DEF IInv, TypeOK
<1> QED BY <1>1, <1>2, <1>3, <1>4, SaveFinds

LEMMA NothingFoundStep ==
  ASSUME IInv, NothingFound
  PROVE  /\ IInv' /\ searching /\ wanted # None /\ Leading = {} /\ UNCHANGED hddp
         /\ \/ Continues
            \/ triedAll /\ ~triedAll' /\ wanted' = None /\ result' = None
<1>1. /\ wanted # None /\ searching /\ Leading = {}
      /\ UNCHANGED <<present, formatted, settled>>
  BY DEF NothingFound, disks
<1>2. CASE triedAll
  <2>1. /\ connected' = connected \union
                        UNION {Opened(p, connected) : p \in Candidates}
        /\ UNCHANGED hddp /\ Return(None, FALSE)
    BY <1>2 DEF NothingFound
  <2>2. /\ result' = None /\ wanted' = None /\ cache' = <<>> /\ untried' = <<>>
        /\ searching' = FALSE /\ triedAll' = FALSE /\ last' = last
    BY <2>1 DEF Return
  <2>3. connected' \subseteq Paths
    <3>1. \A p : Opened(p, connected) \subseteq Paths
      BY DEF Opened, IInv, TypeOK
    <3> QED BY <2>1, <3>1 DEF IInv, TypeOK
  <2>4. <<>> \in List
    BY EmptySeq, CacheAssumption DEF List, Once
  <2>5. TypeOK'
    BY <1>1, <2>1, <2>2, <2>3, <2>4, EmptySeq DEF IInv, TypeOK
  <2>6. Behind' /\ Tried'
    BY <2>2 DEF Behind, Tried
  <2>7. LastFirst'
    BY <2>1, <2>2 DEF IInv, LastFirst, FirstFor, ForAnother, Holds
  <2> QED BY <1>1, <1>2, <2>1, <2>2, <2>5, <2>6, <2>7 DEF IInv
<1>3. CASE ~triedAll
  <2>1. /\ connected' = present /\ triedAll' = TRUE
        /\ UNCHANGED <<hddp, wanted, bare, cache, untried, searching, result, last>>
    BY <1>3 DEF NothingFound, request
  <2>2. TypeOK'
    BY <1>1, <2>1 DEF IInv, TypeOK
  <2>3. Behind'
    BY <1>1, <2>1 DEF IInv, Behind
  <2>4. \A p : Bootable(p)' = Bootable(p)
    BY <1>1, <2>1 DEF Bootable, Leads, InFileSystem, Upwards, Below, Holds
  <2>5. Tried'
    BY <1>1, <2>1, <2>4 DEF IInv, Tried
  <2>6. LastFirst'
    BY <2>1 DEF IInv, LastFirst, FirstFor, ForAnother, Holds
  <2> QED BY <1>1, <2>1, <2>2, <2>3, <2>5, <2>6 DEF IInv, Continues
<1> QED BY <1>2, <1>3

LEMMA BeginStep ==
  ASSUME IInv, NEW partition \in Wanted, NEW ends \in BOOLEAN,
         Begin(partition, ends)
  PROVE  /\ IInv' /\ wanted = None /\ ~triedAll'
         /\ UNCHANGED (IF hddp = Invalid THEN <<>> ELSE hddp)
<1>1. /\ wanted = None /\ wanted' = partition
      /\ hddp' = IF hddp = Invalid THEN <<>> ELSE hddp
      /\ cache' = hddp' /\ untried' = hddp'
      /\ searching' = (hddp' = <<>>) /\ triedAll' = FALSE /\ settled' = TRUE
      /\ UNCHANGED <<present, connected, result, last>>
  BY DEF Begin, disks
<1>2. <<>> \in List /\ \A l \in List : l \in Seq(Paths) /\ Len(l) \in Nat
  BY EmptySeq, CacheAssumption, LenProperties DEF List, Once
<1>3. hddp' \in List /\ hddp' # Invalid
  BY <1>1, <1>2, CacheAssumption DEF IInv, TypeOK
<1>4. TypeOK'
  BY <1>1, <1>2, <1>3 DEF IInv, TypeOK
<1>5. Len(hddp') - Len(hddp') = 0 /\ \A j \in 1 .. Len(hddp') : 0 + j = j
  BY <1>2, <1>3
<1>6. Behind'
  <2>1. hddp' # Invalid /\ cache' = hddp' /\ Len(untried') <= Len(cache')
    BY <1>1, <1>2, <1>3
  <2>2. (searching' <=> untried' = <<>>) /\ (triedAll' => searching')
    BY <1>1, Zenon
  <2>3. \A j \in 1 .. Len(untried') :
          untried'[j] = cache'[Len(cache') - Len(untried') + j]
    BY <1>1, <1>5
  <2> QED BY <2>1, <2>2, <2>3 DEF Behind
<1>7. 1 .. 0 = {}
  OBVIOUS
<1>8. Tried'
  BY <1>1, <1>5, <1>7 DEF Tried
<1>9. LastFirst'
  <2>1. CASE hddp = Invalid
    <3>1. hddp' = <<>> /\ Len(<<>>) = 0
      BY <1>1, <2>1
    <3>2. FirstFor(hddp', last')
      BY <1>7, <3>1 DEF FirstFor
    <3> QED BY <3>2 DEF LastFirst, FirstFor, ForAnother, Holds
  <2>2. CASE hddp # Invalid
    BY <1>1, <2>2 DEF IInv, LastFirst, FirstFor, ForAnother, Holds
  <2> QED BY <2>1, <2>2
<1>10. UNCHANGED (IF hddp = Invalid THEN <<>> ELSE hddp)
  BY <1>1, <1>3
<1> QED BY <1>1, <1>4, <1>6, <1>8, <1>9, <1>10 DEF IInv

(* Disks come and go.                                                      *)
LEMMA DiskStep ==
  ASSUME IInv, NEW port, Plug(port) \/ Unplug(port)
  PROVE  IInv' /\ Continues /\ UNCHANGED triedAll
<1>1. /\ settled' = FALSE
      /\ UNCHANGED <<hddp, wanted, bare, cache, untried, searching, triedAll,
                     result, last>>
  BY DEF Plug, Unplug, request
<1>2. present' \subseteq Paths /\ connected' \subseteq Paths
  <2>1. CASE Plug(port)
    BY <2>1 DEF Plug, IInv, TypeOK
  <2>2. CASE Unplug(port)
    BY <2>2 DEF Unplug, IInv, TypeOK
  <2> QED BY <2>1, <2>2
<1>3. TypeOK'
  BY <1>1, <1>2 DEF IInv, TypeOK
<1>4. Behind'
  BY <1>1 DEF IInv, Behind
<1>5. Tried'
  BY <1>1 DEF Tried
<1>6. LastFirst'
  BY <1>1 DEF IInv, LastFirst, FirstFor, ForAnother, Holds
<1> QED BY <1>1, <1>3, <1>4, <1>5, <1>6 DEF IInv, Continues

LEMMA ResetStep ==
  ASSUME IInv, Reset
  PROVE  IInv' /\ UNCHANGED hddp /\ connected' = {} /\ result' = None /\ ~triedAll'
<1>1. /\ connected' = {} /\ wanted' = None /\ cache' = <<>> /\ untried' = <<>>
      /\ searching' = FALSE /\ triedAll' = FALSE /\ result' = None
      /\ settled' = TRUE /\ UNCHANGED <<hddp, present, last>>
  BY DEF Reset, disks
<1>2. <<>> \in List /\ <<>> \in Seq(Paths)
  BY EmptySeq, CacheAssumption DEF List, Once
<1>3. TypeOK'
  BY <1>1, <1>2 DEF IInv, TypeOK
<1>4. Behind' /\ Tried'
  BY <1>1 DEF Behind, Tried
<1>5. LastFirst'
  BY <1>1 DEF IInv, LastFirst, FirstFor, ForAnother, Holds
<1> QED BY <1>1, <1>3, <1>4, <1>5 DEF IInv

LEMMA InitInv == Init => IInv
<1> SUFFICES ASSUME Init PROVE IInv
  OBVIOUS
<1>1. <<>> \in List /\ <<>> \in Seq(Paths) /\ Len(<<>>) = 0 /\ 1 .. 0 = {}
  BY EmptySeq, CacheAssumption DEF List, Once
<1>2. TypeOK
  BY <1>1 DEF Init, TypeOK
<1>3. Behind /\ Tried
  BY DEF Init, Behind, Tried
<1>4. LastFirst
  BY <1>1 DEF Init, LastFirst, FirstFor
<1> QED BY <1>2, <1>3, <1>4 DEF IInv

LEMMA StepInv == IInv /\ [Next]_vars => IInv'
<1> SUFFICES ASSUME IInv, [Next]_vars PROVE IInv'
  OBVIOUS
<1>1. CASE \E partition \in Wanted, ends \in BOOLEAN : Begin(partition, ends)
  BY <1>1, BeginStep
<1>2. CASE TryInstance
  BY <1>2, TryInstanceStep
<1>3. CASE FindPartition
  BY <1>3, FindPartitionStep
<1>4. CASE NothingFound
  BY <1>4, NothingFoundStep
<1>5. CASE \E port \in {Head(p) : p \in Paths} : Plug(port) \/ Unplug(port)
  BY <1>5, DiskStep
<1>6. CASE Reset
  BY <1>6, ResetStep
<1>7. CASE UNCHANGED vars
  <2>1. UNCHANGED <<hddp, present, formatted, connected, wanted, bare, cache,
                    untried, searching, triedAll, result, settled, last>>
    BY <1>7 DEF vars, disks, request
  <2>2. TypeOK' /\ Behind'
    BY <2>1 DEF IInv, TypeOK, Behind
  <2>3. Tried'
    BY <2>1 DEF IInv, Tried, Bootable, Leads, InFileSystem, Upwards, Below, Holds
  <2>4. LastFirst'
    BY <2>1 DEF IInv, LastFirst, FirstFor, ForAnother, Holds
  <2> QED BY <2>2, <2>3, <2>4 DEF IInv
<1> QED BY <1>1, <1>2, <1>3, <1>4, <1>5, <1>6, <1>7 DEF Next

----------------------------------------------------------------------------
(* The theorems.                                                           *)

(* Whatever is booted, plugged and unplugged, the variables stay what they *)
(* are meant to be: the list in HDDP holds no path twice and never grows   *)
(* beyond its limit, what remains to be tried is the end of the list that  *)
(* was read, and what has been tried leads nowhere.                        *)
THEOREM Invariance == Spec => []IInv
BY InitInv, StepInv, PTL DEF Spec

(* HDDP implements the list of partitions last booted from: each step of   *)
(* BmExpandPartitionDevicePath that changes the variable is one use of the *)
(* path it returns, or deletes a variable that was not valid.              *)
THEOREM CacheIsHistory == Spec => ImplementsHistory
<1>1. Init => History!Init
  BY DEF Init, History!Init
<1>2. ASSUME IInv, [Next]_vars
      PROVE  [\E p \in Paths : History!Use(p)]_(IF hddp = Invalid THEN <<>> ELSE hddp)
  <2> DEFINE old == IF hddp = Invalid THEN <<>> ELSE hddp
  <2> SUFFICES (\E p \in Paths : History!Use(p)) \/ UNCHANGED old
    OBVIOUS
  <2>1. CASE \E partition \in Wanted, ends \in BOOLEAN : Begin(partition, ends)
    BY <1>2, <2>1, BeginStep
  <2>2. CASE TryInstance
    BY <1>2, <2>2, TryInstanceStep DEF Found, Continues
  <2>3. CASE FindPartition
    BY <1>2, <2>3, FindPartitionStep DEF Found
  <2>4. CASE NothingFound
    BY <1>2, <2>4, NothingFoundStep
  <2>5. CASE \E port \in {Head(p) : p \in Paths} : Plug(port) \/ Unplug(port)
    BY <1>2, <2>5, DiskStep DEF Continues
  <2>6. CASE Reset
    BY <1>2, <2>6, ResetStep
  <2>7. CASE UNCHANGED vars
    BY <2>7 DEF vars
  <2> QED BY <1>2, <2>1, <2>2, <2>3, <2>4, <2>5, <2>6, <2>7 DEF Next
<1> QED BY <1>1, <1>2, Invariance, PTL DEF Spec, ImplementsHistory, History!Spec

(* How an expansion ends that finds something.                             *)
LEMMA HowItEnds ==
  ASSUME IInv, [Next]_vars, Ends
  PROVE  \/ TryInstance /\ untried # <<>> /\ Found(Head(untried))
         \/ searching /\ \E path \in Leading : Found(path)
         \/ triedAll /\ searching /\ Leading = {} /\ result' = None
         \/ connected' = {} /\ result' = None
<1>1. CASE \E partition \in Wanted, ends \in BOOLEAN : Begin(partition, ends)
  BY <1>1, BeginStep DEF Ends
<1>2. CASE TryInstance
  BY <1>2, TryInstanceStep DEF Continues, Ends
<1>3. CASE FindPartition
  BY <1>3, FindPartitionStep
<1>4. CASE NothingFound
  BY <1>4, NothingFoundStep DEF Continues, Ends
<1>5. CASE \E port \in {Head(p) : p \in Paths} : Plug(port) \/ Unplug(port)
  BY <1>5, DiskStep DEF Continues, Ends
<1>6. CASE Reset
  BY <1>6, ResetStep
<1>7. CASE UNCHANGED vars
  BY <1>7 DEF vars, request, Ends
<1> QED BY <1>1, <1>2, <1>3, <1>4, <1>5, <1>6, <1>7 DEF Next

(* When all instances have been tried, none of them leads anywhere.        *)
LEMMA NoneLeads ==
  ASSUME IInv, wanted # None, settled, searching
  PROVE  \A i \in DOMAIN cache : ~Bootable(cache[i])
<1>1. untried = <<>> /\ Len(<<>>) = 0
  BY DEF IInv, Behind
<1>2. Len(cache) \in Nat /\ DOMAIN cache = 1 .. Len(cache)
  BY LenProperties DEF IInv, TypeOK, List
<1>3. Len(cache) - Len(untried) = Len(cache)
  BY <1>1, <1>2
<1> QED BY <1>2, <1>3 DEF IInv, Tried

(* With copies of a disk plugged in, BmExpandPartitionDevicePath stays     *)
(* with the one its partition was found on last.                           *)
THEOREM BootsStayWithDisk == Spec => StaysWithDisk
<1>1. ASSUME IInv, [Next]_vars, Ends, settled, settled', wanted = Watched,
             last \in ToSet(cache), Bootable(last), result' # None
      PROVE  result' = last \/ \E p \in Wanted \ {Watched} : Holds(result', p)
  <2>1. wanted # None
    BY <1>1 DEF Ends
  <2>2. ~searching
    <3>1. \E i \in DOMAIN cache : Bootable(cache[i])
      BY <1>1 DEF ToSet
    <3> QED BY <1>1, <2>1, <3>1, NoneLeads
  <2>3. untried # <<>> /\ Found(Head(untried))
    BY <1>1, <2>2, HowItEnds
  <2> DEFINE i == Len(cache) - Len(untried) + 1
  <2>4. i \in 1 .. Len(cache) /\ Head(untried) = cache[i] /\ Len(untried) \in Nat
    BY <1>1, <2>1, <2>3, NextUntried DEF IInv
  <2>5. Len(cache) \in Nat /\ DOMAIN cache = 1 .. Len(cache)
    BY <1>1, LenProperties DEF IInv, TypeOK, List
  <2>6. PICK k \in 1 .. Len(cache) : cache[k] = last
    BY <1>1, <2>5 DEF ToSet
  <2>7. ~(k \in 1 .. Len(cache) - Len(untried))
    BY <1>1, <2>1, <2>6 DEF IInv, Tried
  <2>8. k = i \/ i \in 1 .. k - 1
    BY <2>4, <2>5, <2>7
  <2>9. result' = cache[i] /\ Holds(cache[i], Watched)
    BY <1>1, <2>3, <2>4 DEF Found
  <2>10. FirstFor(cache, last)
    BY <1>1, <2>1 DEF IInv, Behind, LastFirst
  <2>11. k = i \/ ForAnother(cache[i])
    BY <2>6, <2>8, <2>9, <2>10 DEF FirstFor
  <2> QED BY <2>6, <2>9, <2>11 DEF ForAnother
<1>2. IInv /\ [Next]_vars =>
        (Ends /\ settled /\ settled' /\ wanted = Watched /\ last \in ToSet(cache)
           /\ Bootable(last) /\ result' # None
         => result' = last \/ \E p \in Wanted \ {Watched} : Holds(result', p))
  BY <1>1
<1> QED BY <1>2, Invariance, PTL DEF Spec, StaysWithDisk

(* ConnectAll is the last resort, and finds what there is.                 *)
THEOREM ConnectsAllLast == Spec => ConnectsAllAsLastResort
<1>1. ASSUME IInv, [Next]_vars, triedAll', ~triedAll, settled
      PROVE  \A i \in DOMAIN cache : ~Bootable(cache[i])
  <2>1. NothingFound
    <3>1. CASE \E partition \in Wanted, ends \in BOOLEAN : Begin(partition, ends)
      BY <1>1, <3>1, BeginStep
    <3>2. CASE TryInstance
      BY <1>1, <3>2, TryInstanceStep DEF Found
    <3>3. CASE FindPartition
      BY <1>1, <3>3, FindPartitionStep DEF Found
    <3>4. CASE \E port \in {Head(p) : p \in Paths} : Plug(port) \/ Unplug(port)
      BY <1>1, <3>4, DiskStep
    <3>5. CASE Reset
      BY <1>1, <3>5, ResetStep
    <3>6. CASE UNCHANGED vars
      BY <1>1, <3>6 DEF vars
    <3> QED BY <1>1, <3>1, <3>2, <3>3, <3>4, <3>5, <3>6 DEF Next
  <2> QED BY <1>1, <2>1, NothingFoundStep, NoneLeads
<1>2. ASSUME IInv, [Next]_vars, Ends, settled, result' = None, connected' # {}
      PROVE  \A p \in Paths : ~Bootable(p)
  <2>1. \A p : Found(p) => result' # None
    BY CacheAssumption DEF Found
  <2>2. triedAll /\ Leading = {}
    BY <1>2, <2>1, HowItEnds
  <2>3. connected = present
    BY <1>2, <2>2 DEF IInv, Tried, Ends
  <2> QED BY <2>2, <2>3 DEF Leading, Candidates, Bootable
<1>3. IInv /\ [Next]_vars =>
        /\ triedAll' /\ ~triedAll /\ settled
             => \A i \in DOMAIN cache : ~Bootable(cache[i])
        /\ Ends /\ settled /\ result' = None /\ connected' # {}
             => \A p \in Paths : ~Bootable(p)
  BY <1>1, <1>2
<1> QED BY <1>3, Invariance, PTL DEF Spec, ConnectsAllAsLastResort
=============================================================================
