------------------------------- MODULE Barrier -------------------------------
(***************************************************************************)
(* crs::barrier (crs/barrier.h, crs/barrier.cpp): a one-shot countdown     *)
(* under a mutex with one condition variable.  A critical section is one   *)
(* step.  A timed call that gives up is not counted back, so a thread that *)
(* tries again counts twice; calls and passed are history variables.       *)
(***************************************************************************)
EXTENDS Naturals, FiniteSets

CONSTANTS Parties,    \* the threads that meet at the barrier
          Count,      \* the constructor's cnt
          Attempts    \* bound: calls one thread makes

VARIABLES counter,    \* _counter
          pc,         \* where each thread is in its call
          timed,      \* whether that call is wait_for or wait_until
          calls,      \* history: how many calls each thread has made
          passed      \* history: the threads a call of which has succeeded

vars == <<counter, pc, timed, calls, passed>>

(***************************************************************************)
(* "asleep"  blocked in the wait of the condition variable;                *)
(* "awake"   unblocked, has to lock the mutex and test the predicate;      *)
(* "expired" its time is over: tests the predicate for the last time.      *)
(***************************************************************************)
Places == {"out", "asleep", "awake", "expired"}

In(place) == {t \in Parties : pc[t] = place}

\* The calls made so far, as <<thread, ordinal>>, and the threads that made them.
Arrivals == {a \in Parties \X (1..Attempts) : a[2] <= calls[a[1]]}
ArrivedThreads == {t \in Parties : calls[t] > 0}

Init ==
  /\ counter = Count
  /\ pc = [t \in Parties |-> "out"]
  /\ timed = [t \in Parties |-> FALSE]
  /\ calls = [t \in Parties |-> 0]
  /\ passed = {}

Pass(t) == passed' = passed \cup {t}

\* A call that finds the barrier open returns at once.
WalkThrough(t) ==
  counter = 0 /\ Pass(t) /\ UNCHANGED <<counter, pc>>

\* Fault: the last to arrive wakes only one of the others.
OpenOne(t) ==
  /\ counter = 1
  /\ counter' = 0
  /\ Pass(t)
  /\ \/ In("asleep") = {} /\ UNCHANGED pc
     \/ \E s \in In("asleep") : pc' = [pc EXCEPT ![s] = "awake"]

\* The last call opens the barrier and notifies everybody.
Open(t) ==
  /\ counter = 1
  /\ counter' = 0
  /\ pc' = [s \in Parties |-> IF pc[s] = "asleep" THEN "awake" ELSE pc[s]]
  /\ Pass(t)

Block(t) ==
  /\ counter > 1
  /\ counter' = counter - 1
  /\ pc' = [pc EXCEPT ![t] = "asleep"]
  /\ UNCHANGED passed

Wait(t, isTimed) ==
  /\ pc[t] = "out"
  /\ calls[t] < Attempts
  /\ calls' = [calls EXCEPT ![t] = @ + 1]
  /\ timed' = [timed EXCEPT ![t] = isTimed]
  /\ WalkThrough(t) \/ Open(t) \/ Block(t)

\* Fault: an unblocked thread returns without testing the predicate again.
RecheckNothing(t) ==
  /\ pc[t] = "awake"
  /\ Pass(t)
  /\ pc' = [pc EXCEPT ![t] = "out"]
  /\ UNCHANGED <<counter, timed, calls>>

Recheck(t) ==
  /\ pc[t] = "awake"
  /\ \/ counter = 0 /\ Pass(t) /\ pc' = [pc EXCEPT ![t] = "out"]
     \/ counter # 0 /\ pc' = [pc EXCEPT ![t] = "asleep"] /\ UNCHANGED passed
  /\ UNCHANGED <<counter, timed, calls>>

\* Fault: a timed call reports failure because the time is over.
LastCheckByClock(t) ==
  /\ pc[t] = "expired"
  /\ pc' = [pc EXCEPT ![t] = "out"]
  /\ UNCHANGED <<counter, timed, calls, passed>>

\* The predicate decides what a timed call returns; the countdown is not undone.
LastCheck(t) ==
  /\ pc[t] = "expired"
  /\ IF counter = 0 THEN Pass(t) ELSE UNCHANGED passed
  /\ pc' = [pc EXCEPT ![t] = "out"]
  /\ UNCHANGED <<counter, timed, calls>>

Expire(t) ==
  /\ pc[t] = "asleep" /\ timed[t]
  /\ pc' = [pc EXCEPT ![t] = "expired"]
  /\ UNCHANGED <<counter, timed, calls, passed>>

SpuriousWakeup(t) ==
  /\ pc[t] = "asleep"
  /\ pc' = [pc EXCEPT ![t] = "awake"]
  /\ UNCHANGED <<counter, timed, calls, passed>>

Next ==
  \E t \in Parties :
    \/ \E isTimed \in BOOLEAN : Wait(t, isTimed)
    \/ Recheck(t)
    \/ LastCheck(t)
    \/ Expire(t)
    \/ SpuriousWakeup(t)

Spec == Init /\ [][Next]_vars

\* A thread that was unblocked gets the mutex: its sections are short.
FairSpec == Spec /\ \A t \in Parties : WF_vars(Recheck(t)) /\ WF_vars(LastCheck(t))

-----------------------------------------------------------------------------
\* Type invariant: the countdown stays in 0..Count although a timed-out call is
\* never counted back (barrier.cpp:38-43).
TypeOK ==
  /\ counter \in 0..Count
  /\ pc \in [Parties -> Places]
  /\ timed \in [Parties -> BOOLEAN]
  /\ calls \in [Parties -> 0..Attempts]
  /\ passed \subseteq Parties

\* The countdown and the calls made agree until the barrier opens: a part of the
\* inductive invariant that ThreadingProofs proves.
CountdownMatches ==
  /\ counter > 0 => counter + Cardinality(Arrivals) = Count
  /\ counter = 0 => Cardinality(Arrivals) >= Count

\* Nobody sleeps behind an open barrier: the last arrival's notify_all cannot be
\* missed by a thread that is counted but not yet asleep (barrier.cpp:43-49).
NobodySleepsBehindOpenBarrier ==
  counter = 0 => In("asleep") = {}

\* As long as every thread has called once at most, nobody passes before Count
\* different threads have arrived, through spurious wake-ups and time-outs.  A
\* thread that calls again after a time-out counts twice (barrier.h:52-58), and
\* may let the others pass without somebody they wait for.
OpensAfterCountThreads ==
  (passed # {} /\ \A t \in Parties : calls[t] <= 1) =>
    Cardinality(ArrivedThreads) >= Count

\* Once Count calls were made every blocked thread returns.
EverybodyReturns ==
  (Cardinality(Arrivals) >= Count) ~> (\A t \in Parties : pc[t] = "out")

\* The barrier implements the rendezvous: no call succeeds before Count calls were
\* made, and one that fails fails in front of a closed barrier (barrier.h:43-78).
Abstract == INSTANCE Rendezvous WITH
  made   <- Cardinality(Arrivals),
  inside <- {t \in Parties : pc[t] # "out"}
ImplementsRendezvous == Abstract!Spec
=============================================================================
