----------------------------- MODULE PriorityBag -----------------------------
(***************************************************************************)
(* What crs::heap promises: a bag of values from which get takes a         *)
(* smallest one and remove takes the one it was asked for.                 *)
(***************************************************************************)
EXTENDS Naturals

CONSTANT Values

VARIABLES bag,     \* how many times each value is there
          call,    \* the last call
          taken    \* what it took out

vars == <<bag, call, taken>>

Init == bag = [v \in Values |-> 0] /\ call = "none" /\ taken = <<>>

Insert(v) ==
  /\ bag' = [bag EXCEPT ![v] = @ + 1]
  /\ call' = "insert" /\ taken' = <<>>

Take(v) ==
  /\ bag[v] > 0
  /\ bag' = [bag EXCEPT ![v] = @ - 1]
  /\ taken' = <<v>>

Remove(v) == Take(v) /\ call' = "remove"

Get(v) ==
  /\ Take(v) /\ call' = "get"
  /\ \A w \in Values : bag[w] > 0 => v <= w

Next == \E v \in Values : Insert(v) \/ Remove(v) \/ Get(v)

Spec == Init /\ [][Next]_vars
=============================================================================
