---------------------------- MODULE PointwiseMap ----------------------------
(***************************************************************************)
(* What crs::interval_map promises: a value for every key, and an          *)
(* assignment that overwrites one half-open interval and nothing else.     *)
(***************************************************************************)
EXTENDS Naturals

CONSTANTS Keys, Values, InitVal

VARIABLE value   \* the value associated with each key

Init == value = [k \in Keys |-> InitVal]

Overwrite(keyBegin, keyEnd, val) ==
  value' = [k \in Keys |-> IF keyBegin <= k /\ k < keyEnd THEN val ELSE value[k]]

Next == \E keyBegin, keyEnd \in Keys, val \in Values :
          keyBegin < keyEnd /\ Overwrite(keyBegin, keyEnd, val)

Spec == Init /\ [][Next]_value
=============================================================================
