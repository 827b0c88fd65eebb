-------------------------- MODULE CountingSemaphore --------------------------
(***************************************************************************)
(* What crs::semaphore promises, without its mutex and its condition       *)
(* variable: a bounded count; a caller obtains one unit when there is one, *)
(* and a timed caller is turned away only at a moment when there is none.  *)
(***************************************************************************)
EXTENDS Naturals

CONSTANTS Threads,     \* callers of wait, wait_for and wait_until
          MaxCount,    \* the largest count
          InitCount,   \* the count a semaphore is created with
          Increments   \* the increments that post is called with

VARIABLES value,   \* units nobody has taken yet
          caller   \* "out", "patient" (wait) or "timed" (wait_for, wait_until)

vars == <<value, caller>>

Init == value = InitCount /\ caller = [t \in Threads |-> "out"]

Post(inc) ==
  /\ value' = IF value + inc > MaxCount THEN MaxCount ELSE value + inc
  /\ UNCHANGED caller

Call(t) ==
  /\ caller[t] = "out"
  /\ \E kind \in {"patient", "timed"} : caller' = [caller EXCEPT ![t] = kind]
  /\ UNCHANGED value

Obtain(t) ==
  /\ caller[t] # "out"
  /\ value > 0
  /\ value' = value - 1
  /\ caller' = [caller EXCEPT ![t] = "out"]

\* A caller that finds a unit waiting never shows up as a caller.
ObtainAtOnce == value > 0 /\ value' = value - 1 /\ UNCHANGED caller

GiveUp(t) ==
  /\ caller[t] = "timed"
  /\ value = 0
  /\ caller' = [caller EXCEPT ![t] = "out"]
  /\ UNCHANGED value

Next ==
  \/ \E inc \in Increments : Post(inc)
  \/ ObtainAtOnce
  \/ \E t \in Threads : Call(t) \/ Obtain(t) \/ GiveUp(t)

Spec == Init /\ [][Next]_vars
=============================================================================
