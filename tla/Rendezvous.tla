----------------------------- MODULE Rendezvous -----------------------------
(***************************************************************************)
(* What crs::barrier promises: a call that enters leaves successfully only *)
(* when Count calls have been made in all, and a timed call may abandon    *)
(* the barrier only before that.                                           *)
(***************************************************************************)
EXTENDS Naturals

CONSTANTS Parties, Count

VARIABLES made,     \* how many calls have been made
          inside,   \* the threads blocked in a call
          passed    \* the threads a call of which has succeeded

vars == <<made, inside, passed>>

Init == made = 0 /\ inside = {} /\ passed = {}

Enter(t) ==
  /\ t \notin inside
  /\ made' = made + 1
  /\ \/ inside' = inside \cup {t} /\ UNCHANGED passed
     \/ made' >= Count /\ passed' = passed \cup {t} /\ UNCHANGED inside

Leave(t) ==
  /\ t \in inside
  /\ made >= Count
  /\ inside' = inside \ {t}
  /\ passed' = passed \cup {t}
  /\ UNCHANGED made

Abandon(t) ==
  /\ t \in inside
  /\ made < Count
  /\ inside' = inside \ {t}
  /\ UNCHANGED <<made, passed>>

Next == \E t \in Parties : Enter(t) \/ Leave(t) \/ Abandon(t)

Spec == Init /\ [][Next]_vars
=============================================================================
