-------------------------------- MODULE Heap --------------------------------
(***************************************************************************)
(* crs::heap (crs/heap.h): a binary heap in a vector, indexed from 0, with *)
(* the smallest value at the top.  at (i) and peek () are reads; get () and *)
(* remove () of an empty heap are undefined and never called.              *)
(***************************************************************************)
EXTENDS Naturals, FiniteSets

CONSTANTS Values,    \* the values, naturals ordered by _comp
          MaxSize    \* bound: values in the heap

VARIABLES nodes,   \* the vector, a function from 0..size () - 1
          call,    \* history: the last call
          taken    \* history: the value that call took out

vars == <<nodes, call, taken>>

Size(c) == Cardinality(DOMAIN c)

Init == nodes = [i \in {} |-> 0] /\ call = "none" /\ taken = <<>>

AncestorIndex(i) == IF i = 0 THEN 0 ELSE (i - 1) \div 2
DescendantIndex(i) == 2 * i + 1

Swap(c, i, j) == [c EXCEPT ![i] = c[j], ![j] = c[i]]

PushBack(c, v) == [i \in 0..Size(c) |-> IF i < Size(c) THEN c[i] ELSE v]

PopBack(c) == [i \in 0..Size(c) - 2 |-> c[i]]

\* A vector, and the index of the value that is moved in it.
Places(c) == [DOMAIN c -> Values] \X Nat

BubbleUp(c, i) ==
  LET up[p \in Places(c)] ==
        LET d == p[1]
            j == p[2]
            a == AncestorIndex(j)
        IN  IF a < j /\ d[j] < d[a] THEN up[<<Swap(d, j, a), a>>] ELSE d
  IN  up[<<c, i>>]

\* Fault: the left descendant is taken without looking at the right one.
SmallerDescendantLeft(c, i, sz) == DescendantIndex(i)

\* The smaller one of the descendants below sz.
SmallerDescendant(c, i, sz) ==
  LET d == DescendantIndex(i)
  IN  IF d + 1 < sz /\ c[d + 1] < c[d] THEN d + 1 ELSE d

BubbleDown(c, i, sz) ==
  LET down[p \in Places(c)] ==
        LET d == p[1]
            j == p[2]
            s == SmallerDescendant(d, j, sz)
        IN  IF s < sz /\ d[s] < d[j] THEN down[<<Swap(d, j, s), s>>] ELSE d
  IN  down[<<c, i>>]

Insert(v) ==
  /\ Size(nodes) < MaxSize
  /\ nodes' = BubbleUp(PushBack(nodes, v), Size(nodes))
  /\ call' = "insert" /\ taken' = <<>>

\* Fault: the value moved into the gap is only bubbled down.
RemoveDownOnly(i) ==
  LET last == Size(nodes) - 1
  IN  /\ Size(nodes) > 0
      /\ nodes' = IF i < last
                  THEN PopBack(BubbleDown(Swap(nodes, i, last), i, last))
                  ELSE PopBack(nodes)
      /\ call' = "remove"
      /\ taken' = <<nodes[IF i < last THEN i ELSE last]>>

\* An index past the end takes the last value.
Remove(i) ==
  LET last == Size(nodes) - 1
  IN  /\ Size(nodes) > 0
      /\ nodes' = IF i < last
                  THEN PopBack(BubbleDown(BubbleUp(Swap(nodes, i, last), i), i, last))
                  ELSE PopBack(nodes)
      /\ call' = "remove"
      /\ taken' = <<nodes[IF i < last THEN i ELSE last]>>

Get ==
  LET last == Size(nodes) - 1
  IN  /\ Size(nodes) > 0
      /\ nodes' = PopBack(BubbleDown(Swap(nodes, 0, last), 0, last))
      /\ call' = "get" /\ taken' = <<nodes[0]>>

Next ==
  \/ \E v \in Values : Insert(v)
  \/ \E i \in 0..Size(nodes) : Remove(i)
  \/ Get

Spec == Init /\ [][Next]_vars

-----------------------------------------------------------------------------
\* Type invariant.
TypeOK ==
  /\ \E n \in 0..MaxSize : nodes \in [0..n - 1 -> Values]
  /\ call \in {"none", "insert", "remove", "get"}
  /\ taken \in {<<>>} \cup {<<v>> : v \in Values}

\* No value is smaller than its ancestor, after removals in the middle as well
\* (lines 154-165: the last value may belong above or below the gap).
HeapOrdered ==
  \A i \in DOMAIN nodes : ~(nodes[i] < nodes[AncestorIndex(i)])

\* The heap holds what was inserted and not taken out: nothing is lost or doubled
\* by the swaps.  get takes a smallest value (test/test_heap.cpp sorts with it).
Abstract == INSTANCE PriorityBag WITH
  bag <- [v \in Values |-> Cardinality({i \in DOMAIN nodes : nodes[i] = v})]
ImplementsPriorityBag == Abstract!Spec
=============================================================================
