------------------------------ MODULE Semaphore ------------------------------
(***************************************************************************)
(* crs::semaphore (crs/semaphore.h, crs/semaphore.cpp): a counter under a  *)
(* mutex and one condition variable.  A critical section is one step: the  *)
(* mutex is held from its first to its last statement and is released only *)
(* while a thread blocks on the condition variable.                        *)
(***************************************************************************)
EXTENDS Naturals, FiniteSets

CONSTANTS Threads,     \* callers of wait, wait_for and wait_until
          MaxCount,    \* std::numeric_limits<unsigned int>::max ()
          InitCount,   \* the constructor's cnt
          Increments   \* the values of inc that post is called with

ASSUME SemaphoreAssumption ==
  /\ IsFiniteSet(Threads)
  /\ MaxCount \in Nat
  /\ InitCount \in 0..MaxCount
  /\ Increments \subseteq 0..MaxCount

VARIABLES counter,   \* _counter
          pc,        \* where each thread is in its call
          timed      \* whether that call is wait_for or wait_until

vars == <<counter, pc, timed>>

(***************************************************************************)
(* "asleep"  blocked in the wait of the condition variable;                *)
(* "awake"   unblocked, has to lock the mutex and test the predicate;      *)
(* "expired" its time is over: tests the predicate for the last time.      *)
(***************************************************************************)
Places == {"idle", "asleep", "awake", "expired"}

In(place) == {t \in Threads : pc[t] = place}

Goto(t, place) == pc' = [pc EXCEPT ![t] = place]

Init ==
  /\ counter = InitCount
  /\ pc = [t \in Threads |-> "idle"]
  /\ timed = [t \in Threads |-> FALSE]

NotifyOne ==
  \/ In("asleep") = {} /\ UNCHANGED pc
  \/ \E t \in In("asleep") : Goto(t, "awake")

\* Fault: notify only when the counter was zero, as if one unit could not be
\* available already while an earlier notified thread is still on its way.
PostNotifyOnFirst(inc) ==
  /\ LET allowed == MaxCount - counter
     IN  counter' = counter + (IF inc < allowed THEN inc ELSE allowed)
  /\ IF counter = 0 THEN NotifyOne ELSE UNCHANGED pc
  /\ UNCHANGED timed

\* The addition saturates and exactly one sleeper is notified, whatever inc is.
Post(inc) ==
  /\ LET allowed == MaxCount - counter
     IN  counter' = counter + (IF inc < allowed THEN inc ELSE allowed)
  /\ NotifyOne
  /\ UNCHANGED timed

\* The predicate holds: the call takes one unit and returns.
Take(t) ==
  /\ 0 < counter
  /\ counter' = counter - 1
  /\ Goto(t, "idle")

Wait(t, isTimed) ==
  /\ pc[t] = "idle"
  /\ timed' = [timed EXCEPT ![t] = isTimed]
  /\ \/ Take(t)
     \/ counter = 0 /\ Goto(t, "asleep") /\ UNCHANGED counter

Recheck(t) ==
  /\ pc[t] = "awake"
  /\ \/ Take(t)
     \/ counter = 0 /\ Goto(t, "asleep") /\ UNCHANGED counter
  /\ UNCHANGED timed

\* Fault: a timed wait reports failure because the time is over, unit or no unit.
LastCheckByClock(t) ==
  pc[t] = "expired" /\ Goto(t, "idle") /\ UNCHANGED <<counter, timed>>

\* The timed waits return what the predicate says after the time is over.
LastCheck(t) ==
  /\ pc[t] = "expired"
  /\ \/ Take(t)
     \/ counter = 0 /\ Goto(t, "idle") /\ UNCHANGED counter
  /\ UNCHANGED timed

Expire(t) ==
  /\ pc[t] = "asleep" /\ timed[t]
  /\ Goto(t, "expired")
  /\ UNCHANGED <<counter, timed>>

\* A condition variable may unblock a thread that nobody notified.
SpuriousWakeup(t) ==
  /\ pc[t] = "asleep"
  /\ Goto(t, "awake")
  /\ UNCHANGED <<counter, timed>>

Next ==
  \/ \E inc \in Increments : Post(inc)
  \/ \E t \in Threads :
       \/ \E isTimed \in BOOLEAN : Wait(t, isTimed)
       \/ Recheck(t)
       \/ LastCheck(t)
       \/ Expire(t)
       \/ SpuriousWakeup(t)

Spec == Init /\ [][Next]_vars

\* A thread that was unblocked gets the mutex: its sections are short.
FairSpec == Spec /\ \A t \in Threads : WF_vars(Recheck(t)) /\ WF_vars(LastCheck(t))

-----------------------------------------------------------------------------
\* Type invariant: the unsigned counter never leaves 0..MaxCount, and only a
\* timed call expires (semaphore.cpp:38-40 and the two timed waits).
TypeOK ==
  /\ counter \in 0..MaxCount
  /\ pc \in [Threads -> Places]
  /\ timed \in [Threads -> BOOLEAN]
  /\ \A t \in Threads : pc[t] = "expired" => timed[t]

\* No lost wake-up (post, semaphore.cpp:35-42, against wait, 44-49): while somebody
\* sleeps, every unit on the counter has an unblocked thread on its way to it.
\* Post notifies one thread only, so this needs increments of at most one: after
\* post (2) one of two sleepers may sleep on beside a unit.
WakeupsCoverUnits ==
  In("asleep") # {} => counter <= Cardinality(In("awake"))

\* An available unit and a sleeping thread do not coexist for ever: the notified
\* threads take the units or the sleepers leave.
UnitsReachSleepers ==
  (0 < counter /\ In("asleep") # {}) ~> (counter = 0 \/ In("asleep") = {})

\* The semaphore implements the abstract one, in which a timed call fails only at
\* a moment when no unit is available and nobody obtains a unit twice.
Abstract == INSTANCE CountingSemaphore WITH
  value  <- counter,
  caller <- [t \in Threads |-> IF pc[t] = "idle" THEN "out"
                               ELSE IF timed[t] THEN "timed" ELSE "patient"]
ImplementsCountingSemaphore == Abstract!Spec
=============================================================================
