--------------------------- MODULE CompositeCore ---------------------------
(***************************************************************************)
(* msdc::cDAQCore (crs/msdc/composite_core.{h,cpp}): a ring pool whose     *)
(* points are linked with the state of the field they were measured in,    *)
(* and an index of these states.  Points are numbered in the order they    *)
(* are acquired; the swap thread of RingPool saves one pool at a time and  *)
(* gives up the oldest one when the ring is full.                          *)
(***************************************************************************)
EXTENDS Integers, Sequences, FiniteSets

CONSTANTS RootSize, PoolSize, MemPools,   \* of the ring
          MaxPoints,   \* bound: points acquired
          MaxFields,   \* bound: states of the field
          Null

Fields == 1..MaxFields

VARIABLES
  linkOf,      \* link of every point acquired, in order
  saved,       \* pools that the swap thread has saved
  first,       \* the oldest point of the ring
  field,       \* _field
  newState,    \* _newFieldState
  made,        \* history: states of the field made so far
  linkTo,      \* link of each field state: a point
  index,       \* _fieldIndex
  freed,       \* history: how often each field state was deleted
  swapping,    \* the pool being given up, between its release and its fixed link
  stale        \* a deleted field state was written

coreVars == <<linkOf, saved, first, field, newState, made, linkTo, index, freed, swapping, stale>>

Acquired == 0..Len(linkOf) - 1
Link(point) == linkOf[point + 1]

Init ==
  /\ linkOf = <<>> /\ saved = 0 /\ first = 0
  /\ field = Null /\ newState = FALSE /\ made = 0
  /\ linkTo = [f \in Fields |-> 0]
  /\ index = {}
  /\ freed = [f \in Fields |-> 0]
  /\ swapping = Null
  /\ stale = FALSE

\* field (): a state that differs from the present one; one that was never linked goes.
SetField ==
  /\ made < MaxFields
  /\ freed' = IF newState THEN [freed EXCEPT ![field] = @ + 1] ELSE freed
  /\ made' = made + 1
  /\ field' = made + 1
  /\ newState' = TRUE
  /\ UNCHANGED <<linkOf, saved, first, linkTo, index, swapping, stale>>

\* acquire: the point is pushed, and the first one of a state puts it in the index.
\* The swap thread is MemPools full pools behind at most.
Acquire ==
  /\ Len(linkOf) < MaxPoints
  /\ Len(linkOf) < (saved + MemPools) * PoolSize
  /\ linkOf' = Append(linkOf, field)
  /\ IF newState
     THEN /\ linkTo' = [linkTo EXCEPT ![field] = Len(linkOf)]
          /\ index' = index \cup {field}
     ELSE UNCHANGED <<linkTo, index>>
  /\ newState' = FALSE
  /\ UNCHANGED <<saved, first, field, made, freed, swapping, stale>>

\* Fault: _release is called for the state of every point but the first.
BegunInLast(from) == {Link(p) : p \in from + 1..from + PoolSize - 1} \ {Null}

\* The field states of the points of a pool at which the link changes, as _swap walks it.
BegunIn(from) ==
  {Link(p) : p \in {q \in from + 1..from + PoolSize - 1 : Link(q) # Link(q - 1)}} \ {Null}

\* _swap, when the ring comes round: begin () moves, and _release deletes the states
\* that begin inside the pool.
GiveUp ==
  /\ swapping = Null
  /\ saved + MemPools >= RootSize
  /\ first = (saved + MemPools - RootSize) * PoolSize
  /\ Len(linkOf) >= (saved + 1) * PoolSize
  /\ LET gone == BegunIn(first)
     IN  /\ freed' = [f \in Fields |-> IF f \in gone THEN freed[f] + 1 ELSE freed[f]]
         /\ index' = index \ gone
  /\ first' = first + PoolSize
  /\ swapping' = first
  /\ UNCHANGED <<linkOf, saved, field, newState, made, linkTo, stale>>

\* _fixLink: the state of the oldest point left is linked with it; and the pool is saved.
FixLink ==
  /\ swapping # Null
  /\ LET f == Link(first)
     IN  IF f = Null THEN UNCHANGED <<linkTo, stale>>
         ELSE linkTo' = [linkTo EXCEPT ![f] = first] /\ stale' = (stale \/ freed[f] > 0)
  /\ swapping' = Null
  /\ saved' = saved + 1
  /\ UNCHANGED <<linkOf, first, field, newState, made, index, freed>>

\* A pool is saved in a file pool that was not used before.
Save ==
  /\ saved + MemPools < RootSize
  /\ Len(linkOf) >= (saved + 1) * PoolSize
  /\ saved' = saved + 1
  /\ UNCHANGED <<linkOf, first, field, newState, made, linkTo, index, freed, swapping, stale>>

Next == SetField \/ Acquire \/ GiveUp \/ FixLink \/ Save

Spec == Init /\ [][Next]_coreVars

-----------------------------------------------------------------------------
\* A field state is deleted once at most, and not while the index has it: neither by
\* the swap thread, twice, nor by field () after it was linked (lines 18-34, 64-74).
FieldsFreedOnce ==
  \A f \in Fields : freed[f] <= 1 /\ (f \in index => freed[f] = 0)

\* Between begin () and end () a point's field state exists (composite_core.h:125-131).
\* This does not hold: a state that begins in a pool is deleted with the pool although
\* the next pools still refer to it, and the one that ends in it stays.
LinkedExists ==
  ~stale /\ \A p \in first..Len(linkOf) - 1 : Link(p) # Null => freed[Link(p)] = 0
=============================================================================
