-------------------------- MODULE PartitionHistory --------------------------
(***************************************************************************)
(* What the HDDP variable promises: the partitions last booted from, the   *)
(* latest first, each once, at most Limit of them.  A boot may forget      *)
(* other paths only if they lie above or below its own, or at the end of a *)
(* full list.                                                              *)
(***************************************************************************)
EXTENDS Naturals, SequencesExt, Functions

CONSTANTS
  Paths,  \* the partitions, each the sequence of its path's nodes
  Limit   \* the length of the list, not 0

VARIABLE recent

Related(p, q) == IsPrefix(p, q) \/ IsPrefix(q, p)

Position(p, list) == CHOOSE i \in DOMAIN list : list[i] = p

Init == recent = <<>>

Use(p) ==
  /\ recent' # <<>> /\ Head(recent') = p
  /\ Len(recent') <= Limit /\ IsInjective(recent')
  /\ ToSet(recent') \subseteq ToSet(recent) \union {p}
  /\ LET kept    == ToSet(Tail(recent'))
         dropped == ToSet(recent) \ ToSet(recent')
     IN  /\ \A q, r \in kept :
              Position(q, recent) < Position(r, recent)
                => Position(q, recent') < Position(r, recent')
         /\ \A q \in dropped :
              \/ Related(p, q)
              \/ /\ Len(recent') = Limit
                 /\ \A r \in kept : Position(r, recent) < Position(q, recent)

Spec == Init /\ [][\E p \in Paths : Use(p)]_recent
=============================================================================
