----------------------------- MODULE IntervalMap -----------------------------
(***************************************************************************)
(* crs::interval_map (crs/interval_map.h): the whole range of keys split   *)
(* into intervals, kept as a std::map from the first key of an interval to *)
(* its value.  Entries are keys of the map; the map is a function from     *)
(* them.  Keys are naturals, of which the code uses only the order.        *)
(***************************************************************************)
EXTENDS Naturals

CONSTANTS Keys,      \* the values of the type K
          Values,    \* the values of the type V
          InitVal,   \* the constructor's val
          MinKey     \* std::numeric_limits<K>::min ()

ASSUME IntervalMapAssumption ==
  /\ Keys \subseteq Nat
  /\ MinKey \in Keys /\ \A k \in Keys : MinKey <= k
  /\ InitVal \in Values

VARIABLE map   \* _map

Init == map = [k \in {MinKey} |-> InitVal]

LastOf(S) == CHOOSE k \in S : \A j \in S : j <= k

\* The entry right before a key.
Before(m, key) == LastOf({k \in DOMAIN m : k < key})

\* operator[]: the value of the last entry that is not above the key.
Lookup(m, key) == m[LastOf({k \in DOMAIN m : k <= key})]

\* The entry at keyEnd is there already, or gets the value that holds up to it.
SplitAt(m, key) ==
  IF key \in DOMAIN m THEN m
  ELSE [k \in DOMAIN m \cup {key} |-> IF k = key THEN m[Before(m, key)] ELSE m[k]]

SetAt(m, key, val) ==
  [k \in DOMAIN m \cup {key} |-> IF k = key THEN val ELSE m[k]]

\* Fault: the entry before keyBegin is not looked for, so keyBegin stays.
LeftRedundantNever(m, key) == FALSE

\* The entry at keyBegin repeats the value before it.
LeftRedundant(m, key) ==
  (\E k \in DOMAIN m : k < key) /\ m[Before(m, key)] = m[key]

Erase(m, S) == [k \in DOMAIN m \ S |-> m[k]]

\* Fault: the entry at keyEnd is erased with the interval.
AssignErasingEnd(keyBegin, keyEnd, val) ==
  /\ keyBegin < keyEnd
  /\ LET m == SetAt(SplitAt(map, keyEnd), keyBegin, val)
     IN  map' = Erase(m, {k \in DOMAIN m :
                            \/ k = keyBegin /\ LeftRedundant(m, keyBegin)
                            \/ keyBegin < k /\ k <= keyEnd})

\* An empty interval is refused (assign returns false) and changes nothing.
Assign(keyBegin, keyEnd, val) ==
  /\ keyBegin < keyEnd
  /\ LET m == SetAt(SplitAt(map, keyEnd), keyBegin, val)
     IN  map' = Erase(m, {k \in DOMAIN m :
                            \/ k = keyBegin /\ LeftRedundant(m, keyBegin)
                            \/ keyBegin < k /\ k < keyEnd
                            \/ k = keyEnd /\ m[keyEnd] = val})

Next == \E keyBegin, keyEnd \in Keys, val \in Values : Assign(keyBegin, keyEnd, val)

Spec == Init /\ [][Next]_map

-----------------------------------------------------------------------------
\* Type invariant: the entry at MinKey, without which operator[] would step off
\* the beginning of the map (line 150), survives every assignment.
TypeOK ==
  /\ DOMAIN map \subseteq Keys /\ MinKey \in DOMAIN map
  /\ map \in [DOMAIN map -> Values]

\* The representation is canonical: consecutive entries have different values
\* (lines 41-43), through every overlap of old and new intervals.
Canonical ==
  \A j, k \in DOMAIN map :
    (j < k /\ \A i \in DOMAIN map : i <= j \/ k <= i) => map[j] # map[k]

\* Values inside the interval are overwritten, values outside are not changed
\* (lines 88-95).
Abstract == INSTANCE PointwiseMap WITH value <- [k \in Keys |-> Lookup(map, k)]
ImplementsPointwiseMap == Abstract!Spec
=============================================================================
