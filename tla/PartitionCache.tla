--------------------------- MODULE PartitionCache ---------------------------
(***************************************************************************)
(* How a boot option that names only a partition (its signature, not the   *)
(* controller and port the disk hangs on) is expanded to a full path, and  *)
(* the HDDP variable that remembers the full paths booted from:            *)
(* BmExpandPartitionDevicePath and the functions it calls.                 *)
(*                                                                         *)
(* A path is the sequence of its nodes, the first the port, the others the *)
(* partitions: a partition may hold partitions.  Copies of a disk carry    *)
(* the same partitions, so several paths may match one option.  Disks are  *)
(* plugged and unplugged at any time, also while an option is expanded,    *)
(* and after a reset nothing is connected.                                 *)
(***************************************************************************)
EXTENDS Naturals, FiniteSets, SequencesExt

CONSTANTS
  Paths,    \* the full paths of partitions that there may be
  Wanted,   \* the partitions that boot options name
  Watched,  \* the one of them whose boots are recorded
  Limit,    \* entries of HDDP: 12
  Invalid,  \* HDDP is no device path
  None      \* no path, no partition

ASSUME CacheAssumption ==
  /\ Limit \in Nat \ {0}
  /\ Watched \in Wanted
  /\ None \notin Wanted \union Paths /\ Invalid \notin Seq(Paths)
  /\ \A p \in Paths : p \in Seq(ToSet(p)) /\ Len(p) >= 2

VARIABLES
  hddp,       \* the variable HDDP; missing when empty
  present,    \* the partitions on the disks plugged in
  formatted,  \* those of them with a file system
  connected,  \* those with handles
  wanted,     \* the partition being expanded, or None
  bare,       \* nothing follows the partition in the option's path
  cache,      \* CachedDevicePath
  untried,    \* its instances that remain to be tried
  searching,  \* all of them have been tried
  triedAll,   \* ConnectAllAttempted
  result,     \* path of the partition that was found, or None
  settled,    \* history: no disk came or went since the expansion began
  last        \* history: where Watched was last found, if that was saved

disks == <<present, formatted>>
request == <<wanted, bare>>
vars == <<hddp, disks, connected, request, cache, untried, searching,
          triedAll, result, settled, last>>

Holds(path, partition) == partition \in ToSet(Tail(path))
Upwards(path) == {q \in Paths : IsPrefix(q, path)}
Below(path) == {q \in Paths : IsStrictPrefix(path, q)}
Related(p, q) == IsPrefix(p, q) \/ IsPrefix(q, p)

----------------------------------------------------------------------------
(* Definitions named X_Y are variants of X with a plausible mistake Y; no  *)
(* specification uses them.                                                *)

First(n, list) == SubSeq(list, 1, IF Len(list) < n THEN Len(list) ELSE n)

(* The instances of list at these positions, in their order.               *)
Instances(list, positions) ==
  LET order == CHOOSE s \in [1 .. Cardinality(positions) -> positions] :
                 \A i, j \in DOMAIN s : i < j => s[i] < s[j]
  IN  [i \in DOMAIN order |-> list[order[i]]]

Cached_AtTheEnd(list, path) ==
  LET others == {i \in DOMAIN list : list[i] # path}
  IN  First(Limit, Instances(list, others) \o <<path>>)

(* BmCachePartitionDevicePath: an exact match takes all instances with it  *)
(* that begin like path or that path begins like.                          *)
Cached(list, path) ==
  LET others == {i \in DOMAIN list :
                   path \in ToSet(list) => ~Related(list[i], path)}
  IN  First(Limit, <<path>> \o Instances(list, others))

(* BmGetNextLoadOptionDevicePath finds a load option behind path, when     *)
(* handles are those connected: the file system that the path leads to     *)
(* or, if the path ends here, one of a nested partition, which it          *)
(* connects.                                                               *)
InFileSystem(path, handles) ==
  Upwards(path) \intersect handles \intersect formatted # {}

Leads(path, handles) ==
  \/ InFileSystem(path, handles)
  \/ bare /\ Below(path) \intersect formatted # {}

Opened(path, handles) ==
  IF bare /\ ~InFileSystem(path, handles)
  THEN Below(path) \intersect present ELSE {}

----------------------------------------------------------------------------
Init ==
  /\ hddp \in {<<>>, Invalid}
  /\ present = {} /\ formatted = {} /\ connected = {}
  /\ wanted = None /\ bare = FALSE
  /\ cache = <<>> /\ untried = <<>>
  /\ searching = FALSE /\ triedAll = FALSE
  /\ result = None
  /\ settled = TRUE /\ last = None

(* HDDP is read; an invalid one is deleted.                                *)
Begin(partition, ends) ==
  /\ wanted = None
  /\ wanted' = partition /\ bare' = ends
  /\ hddp' = IF hddp = Invalid THEN <<>> ELSE hddp
  /\ cache' = hddp' /\ untried' = hddp'
  /\ searching' = (hddp' = <<>>) /\ triedAll' = FALSE
  /\ settled' = TRUE
  /\ UNCHANGED <<disks, connected, result, last>>

(* The expansion ends; what it returns may have been saved.                *)
Return(path, saved) ==
  /\ result' = path
  /\ wanted' = None /\ bare' = FALSE
  /\ cache' = <<>> /\ untried' = <<>>
  /\ searching' = FALSE /\ triedAll' = FALSE
  /\ last' = IF wanted # Watched \/ path = None THEN last
             ELSE IF saved THEN path ELSE None

(* The cache goes to the variable; a failure to write it is ignored.       *)
Save(path) ==
  \/ hddp' = Cached(cache, path) /\ Return(path, TRUE)
  \/ UNCHANGED hddp /\ Return(path, FALSE)

NextInstance ==
  /\ untried' = Tail(untried)
  /\ searching' = (Len(untried) = 1)
  /\ UNCHANGED <<hddp, request, cache, triedAll, result, last>>

PassInstance_AndTheRest ==
  IF Holds(Head(untried), wanted)
  THEN /\ untried' = <<>> /\ searching' = TRUE
       /\ UNCHANGED <<hddp, request, cache, triedAll, result, last>>
  ELSE NextInstance

PassInstance == NextInstance

UseInstance_Unadjusted(path) == UNCHANGED hddp /\ Return(path, TRUE)

(* An instance that leads to a load option comes to the front.             *)
UseInstance(path) ==
  IF path = cache[1] THEN UNCHANGED hddp /\ Return(path, TRUE)
  ELSE Save(path)

(* The next cached instance that holds the partition is connected, with    *)
(* all on the way to it, if its disk is there.                             *)
TryInstance ==
  LET path    == Head(untried)
      handles == connected \union Upwards(path)
  IN  /\ wanted # None /\ untried # <<>>
      /\ IF Holds(path, wanted) /\ path \in present
         THEN /\ connected' = handles \union Opened(path, handles)
              /\ IF Leads(path, handles) THEN UseInstance(path)
                 ELSE PassInstance
         ELSE UNCHANGED connected /\ PassInstance
      /\ UNCHANGED <<disks, settled>>

(* The partitions with handles in the order of those, which is any; the    *)
(* ones tried in vain leave nested partitions connected.                   *)
Candidates == {p \in connected : Holds(p, wanted)}
Leading == {p \in Candidates : Leads(p, connected)}

FindPartition ==
  /\ wanted # None /\ searching
  /\ \E path \in Leading, tried \in SUBSET (Candidates \ Leading) :
       /\ connected' = connected \union
                       UNION {Opened(p, connected) : p \in tried \union {path}}
       /\ Save(path)
  /\ UNCHANGED <<disks, settled>>

(* With nothing found everything is connected, once.                       *)
NothingFound ==
  /\ wanted # None /\ searching
  /\ Leading = {}
  /\ IF triedAll
     THEN /\ connected' = connected \union
                          UNION {Opened(p, connected) : p \in Candidates}
          /\ UNCHANGED hddp
          /\ Return(None, FALSE)
     ELSE /\ connected' = present
          /\ triedAll' = TRUE
          /\ UNCHANGED <<hddp, request, cache, untried, searching, result, last>>
  /\ UNCHANGED <<disks, settled>>

----------------------------------------------------------------------------
(* The user. *)

Plug(port) ==
  LET of == {p \in Paths : Head(p) = port}
  IN  /\ of \intersect present = {}
      /\ \E on \in SUBSET of \ {{}}, fs \in SUBSET of :
           /\ \A p \in on : Upwards(p) \subseteq on
           /\ fs \subseteq on
           /\ present' = present \union on
           /\ formatted' = formatted \union fs
           /\ connected' \in {connected, connected \union on}
      /\ settled' = FALSE
      /\ UNCHANGED <<hddp, request, cache, untried, searching, triedAll, result,
                     last>>

Unplug(port) ==
  LET of == {p \in Paths : Head(p) = port}
  IN  /\ of \intersect present # {}
      /\ present' = present \ of
      /\ formatted' = formatted \ of
      /\ connected' = connected \ of
      /\ settled' = FALSE
      /\ UNCHANGED <<hddp, request, cache, untried, searching, triedAll, result,
                     last>>

(* At any time; only the variable survives.                                *)
Reset ==
  /\ connected' = {}
  /\ wanted' = None /\ bare' = FALSE
  /\ cache' = <<>> /\ untried' = <<>>
  /\ searching' = FALSE /\ triedAll' = FALSE
  /\ result' = None
  /\ settled' = TRUE
  /\ UNCHANGED <<hddp, disks, last>>

Next ==
  \/ \E partition \in Wanted, ends \in BOOLEAN : Begin(partition, ends)
  \/ TryInstance \/ FindPartition \/ NothingFound
  \/ \E port \in {Head(p) : p \in Paths} : Plug(port) \/ Unplug(port)
  \/ Reset

Spec == Init /\ [][Next]_vars

----------------------------------------------------------------------------
(* Properties. *)

(* A load option is behind path, once everything on the disks plugged in   *)
(* is connected.                                                           *)
Bootable(path) ==
  path \in present /\ Holds(path, wanted) /\ Leads(path, present)

Ends == wanted # None /\ wanted' = None

(* HDDP is the list of partitions last booted from, however often boots    *)
(* fail, writes fail or the machine is reset.                              *)
History == INSTANCE PartitionHistory WITH
             recent <- IF hddp = Invalid THEN <<>> ELSE hddp
ImplementsHistory == History!Spec

(* Booting stays with the disk: an option is expanded to the path where    *)
(* its partition was found last, even if a copy of the disk is plugged in  *)
(* as well, if that path is still remembered and leads somewhere.  Only a  *)
(* nested partition, whose path holds both its own partition and the one   *)
(* around it, may be found instead.                                        *)
StaysWithDisk ==
  [][Ends /\ settled /\ settled' /\ wanted = Watched /\ last \in ToSet(cache)
       /\ Bootable(last) /\ result' # None
     => result' = last \/ \E p \in Wanted \ {Watched} : Holds(result', p)]_vars

(* "A connect all is not required on every boot": everything is connected  *)
(* only if no remembered path leads to a load option, and then a partition *)
(* that is there is found.                                                 *)
ConnectsAllAsLastResort ==
  [][/\ triedAll' /\ ~triedAll /\ settled
          => \A i \in DOMAIN cache : ~Bootable(cache[i])
     /\ Ends /\ settled /\ result' = None /\ connected' # {}
          => \A p \in Paths : ~Bootable(p)]_vars
=============================================================================
