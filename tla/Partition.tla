------------------------------ MODULE Partition ------------------------------
(***************************************************************************)
(* What crs::disjoint_set promises: a partition of its points, blocks of   *)
(* which are merged, and their number.                                     *)
(***************************************************************************)
EXTENDS FiniteSets

CONSTANT Points

VARIABLES blocks,   \* the partition
          ngroups   \* how many groups the set says it has

vars == <<blocks, ngroups>>

Singletons == {{p} : p \in Points}

Init == blocks = Singletons /\ ngroups = Cardinality(Points)

Merge(a, b) ==
  /\ blocks' = (blocks \ {a, b}) \cup {a \cup b}
  /\ ngroups' = Cardinality(blocks')

Separate == blocks' = Singletons /\ ngroups' = Cardinality(Points)

Next == Separate \/ \E a, b \in blocks : Merge(a, b)

Spec == Init /\ [][Next]_vars
=============================================================================
