----------------------------- MODULE DisjointSet -----------------------------
(***************************************************************************)
(* crs::disjoint_set (crs/disjoint_set.h, crs/disjoint_set.cpp): a forest  *)
(* of parent indices with union by rank.  A point has no parent until it   *)
(* is first looked for.                                                    *)
(***************************************************************************)
EXTENDS Naturals, FiniteSets

CONSTANTS Points,   \* the indices 0..sz - 1
          Unset     \* static_cast<size_t> (-1)

VARIABLES parent,    \* the parent and the rank of each point of _cont
          rank,
          ngroups    \* _ngroups

vars == <<parent, rank, ngroups>>

Init ==
  /\ parent = [p \in Points |-> Unset]
  /\ rank = [p \in Points |-> 0]
  /\ ngroups = Cardinality(Points)

Climb(par, p) ==
  LET climb[q \in DOMAIN par] == IF par[q] = q THEN q ELSE climb[par[q]]
  IN  climb[p]

\* The root that find returns, without what it writes.
RootOf(par, p) == IF par[p] = Unset THEN p ELSE Climb(par, par[p])

\* find makes a set of an unset point and links any other one to its root.
Found(par, p) == [par EXCEPT ![p] = RootOf(par, p)]

Find(p) ==
  /\ parent' = Found(parent, p)
  /\ UNCHANGED <<rank, ngroups>>

\* A new set: for a point that is in none, or is the root of one.
MakeSet(p) ==
  /\ parent[p] \in {Unset, p}
  /\ parent' = [parent EXCEPT ![p] = p]
  /\ UNCHANGED <<rank, ngroups>>

\* Fault: the first root is always linked to the second one.
JoinUnranked(p, q) ==
  LET par == Found(Found(parent, p), q)
      r   == RootOf(par, p)
      s   == RootOf(par, q)
  IN  /\ parent' = IF r = s THEN par ELSE [par EXCEPT ![r] = s]
      /\ rank' = IF r # s /\ rank[r] = rank[s] THEN [rank EXCEPT ![r] = @ + 1] ELSE rank
      /\ ngroups' = IF r = s THEN ngroups ELSE ngroups - 1

\* Fault: points of one set are joined again.
JoinAgain(p, q) ==
  LET par == Found(Found(parent, p), q)
      r   == RootOf(par, p)
      s   == RootOf(par, q)
  IN  /\ parent' = IF rank[r] < rank[s] THEN [par EXCEPT ![r] = s]
                                        ELSE [par EXCEPT ![s] = r]
      /\ rank' = IF rank[r] = rank[s] THEN [rank EXCEPT ![r] = @ + 1] ELSE rank
      /\ ngroups' = IF ngroups = 0 THEN 0 ELSE ngroups - 1

\* The root of the smaller rank is linked to the other one.
Join(p, q) ==
  LET par == Found(Found(parent, p), q)
      r   == RootOf(par, p)
      s   == RootOf(par, q)
  IN  \/ /\ r = s
         /\ parent' = par /\ UNCHANGED <<rank, ngroups>>
      \/ /\ r # s
         /\ parent' = IF rank[r] < rank[s] THEN [par EXCEPT ![r] = s]
                                           ELSE [par EXCEPT ![s] = r]
         /\ rank' = IF rank[r] = rank[s] THEN [rank EXCEPT ![r] = @ + 1] ELSE rank
         /\ ngroups' = ngroups - 1

Clear ==
  /\ ngroups' = Cardinality(Points)
  /\ parent' = [p \in Points |-> Unset]
  /\ rank' = [p \in Points |-> 0]

Next ==
  \/ \E p \in Points : Find(p) \/ MakeSet(p)
  \/ \E p, q \in Points : Join(p, q)
  \/ Clear

Spec == Init /\ [][Next]_vars

-----------------------------------------------------------------------------
\* Type invariant.
TypeOK ==
  /\ parent \in [Points -> Points \cup {Unset}]
  /\ rank \in [Points -> 0..Cardinality(Points)]
  /\ ngroups \in 0..Cardinality(Points)

\* find never follows an unset parent, which would index the vector with -1
\* (lines 48-51), and ranks grow towards the root, so that its climb ends.  A tree
\* of rank r has at least 2^r points: the climb takes at most log2 steps.
RanksBoundTrees ==
  /\ \A p \in Points : parent[p] \notin {p, Unset} =>
       parent[parent[p]] # Unset /\ rank[p] < rank[parent[p]]
  /\ \A p \in Points : parent[p] = p =>
       2 ^ rank[p] <= Cardinality({q \in Points : RootOf(parent, q) = p})

\* The sets are those that were joined, find keeps them, and ngroups counts them.
Abstract == INSTANCE Partition WITH
  blocks <- {{q \in Points : RootOf(parent, q) = RootOf(parent, p)} : p \in Points}
ImplementsPartition == Abstract!Spec
=============================================================================
