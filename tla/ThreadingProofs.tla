--------------------------- MODULE ThreadingProofs ---------------------------
(***************************************************************************)
(* Theorems about crs::semaphore, crs::barrier and the two threads, for    *)
(* every set of callers and every bound.  What holds of one object holds   *)
(* of Threading, whatever else goes on there.                              *)
(***************************************************************************)
EXTENDS Threading, FunctionTheorems, FiniteSetTheorems, TLAPS


-----------------------------------------------------------------------------
(***************************************************************************)
(* The semaphore.  First its counter stays in 0..MaxCount.                 *)
(***************************************************************************)

\* One step keeps the type invariant.
LEMMA TypeStep == TypeOK /\ [Next]_vars => TypeOK'
<1> SUFFICES ASSUME TypeOK, [Next]_vars PROVE TypeOK'
  OBVIOUS
<1> USE SemaphoreAssumption DEF TypeOK, Places, Goto, In
<1>1. ASSUME NEW inc \in Increments, Post(inc) PROVE TypeOK'
  BY <1>1 DEF Post, NotifyOne
<1>2. ASSUME NEW t \in Threads, NEW isTimed \in BOOLEAN, Wait(t, isTimed) PROVE TypeOK'
  BY <1>2 DEF Wait, Take
<1>3. ASSUME NEW t \in Threads, Recheck(t) PROVE TypeOK'
  BY <1>3 DEF Recheck, Take
<1>4. ASSUME NEW t \in Threads, LastCheck(t) PROVE TypeOK'
  BY <1>4 DEF LastCheck, Take
<1>5. ASSUME NEW t \in Threads, Expire(t) PROVE TypeOK'
  BY <1>5 DEF Expire
<1>6. ASSUME NEW t \in Threads, SpuriousWakeup(t) PROVE TypeOK'
  BY <1>6 DEF SpuriousWakeup
<1>7. CASE UNCHANGED vars
  BY <1>7 DEF vars
<1>8. QED
  BY <1>1, <1>2, <1>3, <1>4, <1>5, <1>6, <1>7 DEF Next

\* The counter of crs::semaphore never leaves 0..MaxCount, whatever is posted
\* (semaphore.cpp:35-49).
THEOREM CounterBounded == Spec => []TypeOK
<1>1. Init => TypeOK
  BY SemaphoreAssumption DEF Init, TypeOK, Places
<1>2. QED
  BY <1>1, TypeStep, PTL DEF Spec

-----------------------------------------------------------------------------
(***************************************************************************)
(* No lost wake-up, when no call posts more than one unit.                 *)
(***************************************************************************)

\* A step that moves nobody into or out of "awake", adds no unit and puts nobody
\* to sleep keeps the units covered.
LEMMA CoverMonotone ==
  ASSUME TypeOK, TypeOK', WakeupsCoverUnits,
         In("awake") \subseteq In("awake")',
         counter' <= counter,
         In("asleep")' # {} => In("asleep") # {}
  PROVE  WakeupsCoverUnits'
<1>1. IsFiniteSet(In("awake")')
  BY SemaphoreAssumption, FS_Subset DEF In
<1>2. Cardinality(In("awake")) <= Cardinality(In("awake")')
  BY <1>1, FS_Subset
<1>3. Cardinality(In("awake")) \in Nat /\ Cardinality(In("awake")') \in Nat
  BY <1>1, FS_Subset, FS_CardinalityType
<1>4. QED
  BY <1>2, <1>3 DEF WakeupsCoverUnits, TypeOK

\* A woken sleeper is one more thread on its way to a unit.
LEMMA WakingCounts ==
  ASSUME TypeOK, NEW t \in In("asleep"), Goto(t, "awake")
  PROVE  /\ Cardinality(In("awake")') = Cardinality(In("awake")) + 1
         /\ Cardinality(In("awake")) \in Nat
<1>1. In("awake")' = In("awake") \cup {t} /\ t \notin In("awake")
  BY DEF In, Goto, TypeOK
<1>2. IsFiniteSet(In("awake"))
  BY SemaphoreAssumption, FS_Subset DEF In
<1>3. QED
  BY <1>1, <1>2, FS_AddElement, FS_CardinalityType

\* A thread that leaves "awake" is one thread less on its way to a unit.
LEMMA LeavingCounts ==
  ASSUME TypeOK, NEW t \in In("awake"), NEW to \in Places \ {"awake"}, Goto(t, to)
  PROVE  /\ Cardinality(In("awake")') = Cardinality(In("awake")) - 1
         /\ Cardinality(In("awake")) \in Nat
         /\ Cardinality(In("awake")') \in Nat
<1>1. In("awake")' = In("awake") \ {t}
  BY DEF In, Goto, TypeOK, Places
<1>2. IsFiniteSet(In("awake"))
  BY SemaphoreAssumption, FS_Subset DEF In
<1>3. QED
  BY <1>1, <1>2, FS_RemoveElement, FS_CardinalityType

\* Units stay covered by unblocked threads: the inductive invariant, whose
\* increments of at most one are what post's single notify_one relies on.
THEOREM UnitsCovered ==
  ASSUME Increments \subseteq {0, 1}
  PROVE  Spec => []WakeupsCoverUnits
<1>1. Init => WakeupsCoverUnits
  BY DEF Init, WakeupsCoverUnits, In
<1>2. TypeOK /\ TypeOK' /\ WakeupsCoverUnits /\ [Next]_vars => WakeupsCoverUnits'
  <2> SUFFICES ASSUME TypeOK, TypeOK', WakeupsCoverUnits, [Next]_vars
               PROVE  WakeupsCoverUnits'
    OBVIOUS
  <2>1. ASSUME NEW inc \in Increments, Post(inc) PROVE WakeupsCoverUnits'
    <3>1. counter' <= counter + 1
      BY <2>1, SemaphoreAssumption DEF Post, TypeOK
    <3>2. CASE In("asleep") = {} /\ UNCHANGED pc
      BY <3>2 DEF WakeupsCoverUnits, In
    <3>3. ASSUME NEW t \in In("asleep"), Goto(t, "awake") PROVE WakeupsCoverUnits'
      <4>1. /\ Cardinality(In("awake")') = Cardinality(In("awake")) + 1
            /\ Cardinality(In("awake")) \in Nat
        BY <3>3, WakingCounts
      <4>2. counter <= Cardinality(In("awake"))
        BY <3>3 DEF WakeupsCoverUnits
      <4>3. counter' <= Cardinality(In("awake")')
        BY <3>1, <4>1, <4>2 DEF TypeOK
      <4>4. QED  BY <4>3 DEF WakeupsCoverUnits
    <3>4. QED
      BY <2>1, <3>2, <3>3 DEF Post, NotifyOne
  <2>2. ASSUME NEW t \in Threads, NEW isTimed \in BOOLEAN, Wait(t, isTimed)
        PROVE WakeupsCoverUnits'
    <3>1. CASE Take(t)
      <4>1. /\ In("awake") \subseteq In("awake")' /\ counter' <= counter
            /\ In("asleep")' # {} => In("asleep") # {}
        BY <2>2, <3>1 DEF Wait, Take, Goto, In, TypeOK
      <4>2. QED  BY <4>1, CoverMonotone
    <3>2. CASE counter = 0 /\ UNCHANGED counter
      <4>1. IsFiniteSet(In("awake")')
        BY SemaphoreAssumption, FS_Subset DEF In
      <4>2. QED  BY <3>2, <4>1, FS_CardinalityType DEF WakeupsCoverUnits
    <3>3. QED  BY <2>2, <3>1, <3>2 DEF Wait
  <2>3. ASSUME NEW t \in Threads, Recheck(t) PROVE WakeupsCoverUnits'
    <3>1. CASE Take(t)
      <4>1. In("asleep")' = In("asleep") /\ t \in In("awake")
        BY <2>3, <3>1 DEF Recheck, Take, Goto, In, TypeOK
      <4>2. /\ Cardinality(In("awake")') = Cardinality(In("awake")) - 1
            /\ Cardinality(In("awake")) \in Nat
        BY <3>1, <4>1, LeavingCounts DEF Take, Places
      <4>3. QED  BY <3>1, <4>1, <4>2 DEF Take, WakeupsCoverUnits, TypeOK
    <3>2. CASE counter = 0 /\ UNCHANGED counter
      <4>1. IsFiniteSet(In("awake")')
        BY SemaphoreAssumption, FS_Subset DEF In
      <4>2. QED  BY <3>2, <4>1, FS_CardinalityType DEF WakeupsCoverUnits
    <3>3. QED  BY <2>3, <3>1, <3>2 DEF Recheck
  <2>4. ASSUME NEW t \in Threads, LastCheck(t) PROVE WakeupsCoverUnits'
    <3>1. /\ In("awake") \subseteq In("awake")' /\ counter' <= counter
          /\ In("asleep")' # {} => In("asleep") # {}
      BY <2>4 DEF LastCheck, Take, Goto, In, TypeOK
    <3>2. QED  BY <3>1, CoverMonotone
  <2>5. ASSUME NEW t \in Threads, Expire(t) PROVE WakeupsCoverUnits'
    <3>1. /\ In("awake") \subseteq In("awake")' /\ counter' <= counter
          /\ In("asleep")' # {} => In("asleep") # {}
      BY <2>5 DEF Expire, Goto, In, TypeOK
    <3>2. QED  BY <3>1, CoverMonotone
  <2>6. ASSUME NEW t \in Threads, SpuriousWakeup(t) PROVE WakeupsCoverUnits'
    <3>1. /\ In("awake") \subseteq In("awake")' /\ counter' <= counter
          /\ In("asleep")' # {} => In("asleep") # {}
      BY <2>6 DEF SpuriousWakeup, Goto, In, TypeOK
    <3>2. QED  BY <3>1, CoverMonotone
  <2>7. CASE UNCHANGED vars
    BY <2>7 DEF vars, WakeupsCoverUnits, In
  <2>8. QED
    BY <2>1, <2>2, <2>3, <2>4, <2>5, <2>6, <2>7 DEF Next
<1>3. QED
  BY <1>1, <1>2, CounterBounded, PTL DEF Spec

-----------------------------------------------------------------------------
(***************************************************************************)
(* Refinement of the counting semaphore.                                   *)
(***************************************************************************)

\* Every step of the code's semaphore is a step of the abstract one or a stutter.
LEMMA StepSimulation ==
  TypeOK /\ [Next]_vars => [Abstract!Next]_(Abstract!vars)
<1> SUFFICES ASSUME TypeOK, [Next]_vars PROVE [Abstract!Next]_(Abstract!vars)
  OBVIOUS
<1> DEFINE callers == [t \in Threads |-> IF pc[t] = "idle" THEN "out"
                                        ELSE IF timed[t] THEN "timed" ELSE "patient"]
<1> USE SemaphoreAssumption DEF Goto, In, TypeOK, Places
<1>1. ASSUME NEW inc \in Increments, Post(inc) PROVE Abstract!Post(inc)
  <2>1. counter' = IF counter + inc > MaxCount THEN MaxCount ELSE counter + inc
    BY <1>1 DEF Post
  <2>2. callers' = callers
    BY <1>1 DEF Post, NotifyOne
  <2>3. QED  BY <2>1, <2>2 DEF Abstract!Post
<1>2. ASSUME NEW t \in Threads, NEW isTimed \in BOOLEAN, Wait(t, isTimed)
      PROVE  Abstract!ObtainAtOnce \/ Abstract!Call(t)
  <2>1. CASE Take(t)
    <3>1. callers' = callers
      BY <1>2, <2>1 DEF Wait, Take
    <3>2. QED  BY <2>1, <3>1 DEF Take, Abstract!ObtainAtOnce
  <2>2. CASE counter = 0 /\ Goto(t, "asleep") /\ UNCHANGED counter
    <3>1. callers' = [callers EXCEPT ![t] = IF isTimed THEN "timed" ELSE "patient"]
      BY <1>2, <2>2 DEF Wait
    <3>2. callers[t] = "out"
      BY <1>2 DEF Wait
    <3>3. QED  BY <2>2, <3>1, <3>2 DEF Abstract!Call
  <2>3. QED  BY <1>2, <2>1, <2>2 DEF Wait
<1>3. ASSUME NEW t \in Threads, pc[t] # "idle", Take(t), UNCHANGED timed
      PROVE  Abstract!Obtain(t)
  <2>1. callers' = [callers EXCEPT ![t] = "out"] /\ callers[t] # "out"
    BY <1>3 DEF Take
  <2>2. QED  BY <1>3, <2>1 DEF Take, Abstract!Obtain
<1>4. ASSUME NEW t \in Threads, Recheck(t)
      PROVE  Abstract!Obtain(t) \/ UNCHANGED Abstract!vars
  <2>1. CASE Take(t)  BY <1>3, <1>4, <2>1 DEF Recheck
  <2>2. CASE counter = 0 /\ Goto(t, "asleep") /\ UNCHANGED counter
    <3>1. callers' = callers  BY <1>4, <2>2 DEF Recheck
    <3>2. QED  BY <2>2, <3>1 DEF Abstract!vars
  <2>3. QED  BY <1>4, <2>1, <2>2 DEF Recheck
<1>5. ASSUME NEW t \in Threads, LastCheck(t)
      PROVE  Abstract!Obtain(t) \/ Abstract!GiveUp(t)
  <2>1. CASE Take(t)  BY <1>3, <1>5, <2>1 DEF LastCheck
  <2>2. CASE counter = 0 /\ Goto(t, "idle") /\ UNCHANGED counter
    <3>1. callers' = [callers EXCEPT ![t] = "out"] /\ callers[t] = "timed"
      BY <1>5, <2>2 DEF LastCheck
    <3>2. QED  BY <2>2, <3>1 DEF Abstract!GiveUp
  <2>3. QED  BY <1>5, <2>1, <2>2 DEF LastCheck
<1>6. ASSUME NEW t \in Threads, Expire(t) \/ SpuriousWakeup(t)
      PROVE  UNCHANGED Abstract!vars
  <2>1. callers' = callers  BY <1>6 DEF Expire, SpuriousWakeup
  <2>2. QED  BY <1>6, <2>1 DEF Expire, SpuriousWakeup, Abstract!vars
<1>7. CASE UNCHANGED vars
  BY <1>7 DEF vars, Abstract!vars
<1>8. QED
  BY <1>1, <1>2, <1>4, <1>5, <1>6, <1>7 DEF Next, Abstract!Next

\* crs::semaphore implements the counting semaphore: a timed call fails only while
\* the count is zero, a successful call takes exactly one unit (semaphore.h:44-65).
THEOREM SemaphoreImplements == Spec => ImplementsCountingSemaphore
<1>1. Init => Abstract!Init
  BY DEF Init, Abstract!Init
<1>2. QED
  BY <1>1, StepSimulation, CounterBounded, PTL DEF Spec, Abstract!Spec, ImplementsCountingSemaphore

-----------------------------------------------------------------------------
(***************************************************************************)
(* The same of the semaphore of Threading.                                 *)
(***************************************************************************)

\* The semaphore's variables change by its own steps only.
LEMMA SemaphorePart == FairSpecAll => Spec
<1>1. InitAll => Init
  BY DEF InitAll
<1>2. [NextAll]_allVars => [Next]_vars
  BY DEF NextAll, allVars
<1>3. QED
  BY <1>1, <1>2, PTL DEF FairSpecAll, Spec

\* Posts of at most one unit lose no wake-up.
THEOREM SemaphoreUnitsCovered ==
  ASSUME Increments \subseteq {0, 1}
  PROVE  FairSpecAll => []WakeupsCoverUnits
BY SemaphorePart, UnitsCovered, PTL

-----------------------------------------------------------------------------
(***************************************************************************)
(* The barrier, by itself, for every set of parties and every count.  Its  *)
(* inductive invariant: the countdown agrees with the calls made, the      *)
(* barrier is open once somebody has passed, and an open barrier has no    *)
(* sleepers.                                                               *)
(***************************************************************************)
BarrierInv ==
  /\ B!TypeOK
  /\ B!CountdownMatches
  /\ passed # {} => countdown = 0
  /\ B!NobodySleepsBehindOpenBarrier

\* Cardinality is the same operator in every module.
LEMMA SameCardinality ==
  ASSUME NEW S
  PROVE  B!Cardinality(S) = Cardinality(S)
BY DEF B!Cardinality, Cardinality

\* There are finitely many calls.
LEMMA ArrivalsFinite == IsFiniteSet(B!Arrivals)
<1>1. IsFiniteSet(1..Attempts)
  BY BarrierAssumption, FS_Interval
<1>2. IsFiniteSet(Parties \X (1..Attempts))
  BY <1>1, BarrierAssumption, FS_Product
<1>3. QED
  BY <1>2, FS_Subset DEF B!Arrivals

\* One more call is one more arrival.
LEMMA CallCounts ==
  ASSUME B!TypeOK, NEW t \in Parties, calls[t] < Attempts,
         calls' = [calls EXCEPT ![t] = @ + 1]
  PROVE  /\ B!Cardinality(B!Arrivals)' = B!Cardinality(B!Arrivals) + 1
         /\ B!Cardinality(B!Arrivals) \in Nat
<1> DEFINE a == <<t, calls[t] + 1>>
<1>1. B!Arrivals' = B!Arrivals \cup {a} /\ a \notin B!Arrivals
  BY BarrierAssumption DEF B!Arrivals, B!TypeOK
<1>2. QED
  BY <1>1, ArrivalsFinite, FS_AddElement, FS_CardinalityType, SameCardinality

\* What a call does after it has been counted: it moves on within the barrier.
Moves(t, to) ==
  /\ UNCHANGED <<countdown, limited, calls>>
  /\ place' = [place EXCEPT ![t] = to]
  /\ to = "asleep" => countdown # 0
  /\ UNCHANGED passed \/ (countdown = 0 /\ B!Pass(t))

\* The invariant holds initially.
LEMMA BarrierInvInit == B!Init => BarrierInv
<1> SUFFICES ASSUME B!Init PROVE BarrierInv
  OBVIOUS
<1>1. B!TypeOK
  BY BarrierAssumption DEF B!Init, B!TypeOK, B!Places
<1>2. B!Arrivals = {}
  BY BarrierAssumption DEF B!Init, B!Arrivals
<1>3. B!CountdownMatches
  BY <1>2, FS_EmptySet, BarrierAssumption, SameCardinality DEF B!Init, B!CountdownMatches
<1>4. QED
  BY <1>1, <1>3 DEF B!Init, BarrierInv, B!NobodySleepsBehindOpenBarrier, B!In

\* Every step of a thread keeps the invariant.
LEMMA BarrierInvStep == BarrierInv /\ [B!Next]_(B!vars) => BarrierInv'
<1> SUFFICES ASSUME BarrierInv, [B!Next]_(B!vars) PROVE BarrierInv'
  OBVIOUS
<1> USE BarrierAssumption
<1>0. B!TypeOK /\ B!CountdownMatches
  BY DEF BarrierInv
<1>1. ASSUME NEW t \in Parties, NEW isTimed \in BOOLEAN, B!Wait(t, isTimed)
      PROVE  BarrierInv'
  <2>1. /\ B!Cardinality(B!Arrivals)' = B!Cardinality(B!Arrivals) + 1
        /\ B!Cardinality(B!Arrivals) \in Nat
    BY <1>0, <1>1, CallCounts DEF B!Wait
  <2>2. B!TypeOK'
    BY <1>0, <1>1 DEF B!Wait, B!WalkThrough, B!Open, B!Block, B!Pass, B!TypeOK, B!Places
  <2>3. B!CountdownMatches'
    BY <1>0, <1>1, <2>1 DEF B!Wait, B!WalkThrough, B!Open, B!Block, B!TypeOK, B!CountdownMatches
  <2>4. passed' # {} => countdown' = 0
    BY <1>1 DEF BarrierInv, B!Wait, B!WalkThrough, B!Open, B!Block, B!TypeOK
  <2>5. B!NobodySleepsBehindOpenBarrier'
    <3>1. CASE B!WalkThrough(t)
      BY <3>1 DEF BarrierInv, B!WalkThrough, B!NobodySleepsBehindOpenBarrier, B!In
    <3>2. CASE B!Open(t)
      BY <1>0, <3>2 DEF B!Open, B!NobodySleepsBehindOpenBarrier, B!In, B!TypeOK
    <3>3. CASE B!Block(t)
      BY <1>0, <3>3 DEF B!Block, B!NobodySleepsBehindOpenBarrier, B!TypeOK
    <3>4. QED  BY <1>1, <3>1, <3>2, <3>3 DEF B!Wait
  <2>6. QED  BY <2>2, <2>3, <2>4, <2>5 DEF BarrierInv
<1>2. ASSUME NEW t \in Parties, NEW to \in B!Places, Moves(t, to)
      PROVE  BarrierInv'
  <2>1. B!TypeOK'
    BY <1>0, <1>2 DEF Moves, B!Pass, B!TypeOK, B!Places
  <2>2. B!CountdownMatches'
    BY <1>0, <1>2 DEF Moves, B!CountdownMatches, B!Arrivals
  <2>3. passed' # {} => countdown' = 0
    BY <1>2 DEF Moves, BarrierInv
  <2>4. B!NobodySleepsBehindOpenBarrier'
    BY <1>0, <1>2 DEF Moves, BarrierInv, B!NobodySleepsBehindOpenBarrier, B!In, B!TypeOK
  <2>5. QED  BY <2>1, <2>2, <2>3, <2>4 DEF BarrierInv
<1>3. ASSUME NEW t \in Parties, B!Recheck(t) PROVE BarrierInv'
  <2>1. Moves(t, "out") \/ Moves(t, "asleep")
    BY <1>3 DEF B!Recheck, Moves
  <2>2. QED  BY <1>2, <2>1 DEF B!Places
<1>4. ASSUME NEW t \in Parties, B!LastCheck(t) PROVE BarrierInv'
  <2>1. Moves(t, "out")
    BY <1>4 DEF B!LastCheck, Moves
  <2>2. QED  BY <1>2, <2>1 DEF B!Places
<1>5. ASSUME NEW t \in Parties, B!Expire(t) PROVE BarrierInv'
  <2>1. Moves(t, "expired")
    BY <1>5 DEF B!Expire, Moves
  <2>2. QED  BY <1>2, <2>1 DEF B!Places
<1>6. ASSUME NEW t \in Parties, B!SpuriousWakeup(t) PROVE BarrierInv'
  <2>1. Moves(t, "awake")
    BY <1>6 DEF B!SpuriousWakeup, Moves
  <2>2. QED  BY <1>2, <2>1 DEF B!Places
<1>7. CASE UNCHANGED B!vars
  BY <1>7 DEF B!vars, BarrierInv, B!TypeOK, B!CountdownMatches, B!Arrivals,
              B!NobodySleepsBehindOpenBarrier, B!In
<1>8. QED
  BY <1>1, <1>3, <1>4, <1>5, <1>6, <1>7 DEF B!Next

\* The inductive invariant of crs::barrier (barrier.cpp:34-50).
THEOREM BarrierCorrect == B!Spec => []BarrierInv
<1>1. QED
  BY BarrierInvInit, BarrierInvStep, PTL DEF B!Spec

\* The countdown never leaves 0..Count.
THEOREM BarrierTypeCorrect == B!Spec => []B!TypeOK
<1>1. BarrierInv => B!TypeOK
  BY DEF BarrierInv
<1>2. QED
  BY <1>1, BarrierCorrect, PTL

\* The last arrival's notify_all leaves nobody asleep.
THEOREM BarrierLeavesNoSleeper == B!Spec => []B!NobodySleepsBehindOpenBarrier
<1>1. BarrierInv => B!NobodySleepsBehindOpenBarrier
  BY DEF BarrierInv
<1>2. QED
  BY <1>1, BarrierCorrect, PTL

-----------------------------------------------------------------------------
\* When a thread calls at most once, calls and threads are the same in number.
LEMMA OneCallOneThread ==
  ASSUME B!TypeOK, \A t \in Parties : calls[t] <= 1
  PROVE  B!Cardinality(B!ArrivedThreads) = B!Cardinality(B!Arrivals)
<1> DEFINE f == [t \in B!ArrivedThreads |-> <<t, 1>>]
<1>1. \A t \in Parties : /\ calls[t] > 0 => calls[t] = 1 /\ 1 \in 1..Attempts
                         /\ \A n \in 1..Attempts : n <= calls[t] => n = 1 /\ calls[t] > 0
  BY BarrierAssumption DEF B!TypeOK
<1>2. B!Arrivals = {<<t, 1>> : t \in B!ArrivedThreads}
  BY <1>1 DEF B!Arrivals, B!ArrivedThreads
<1>3. ExistsBijection(B!ArrivedThreads, B!Arrivals)
  <2>1. f \in [B!ArrivedThreads -> B!Arrivals]
    BY <1>2
  <2>2. \A s, t \in B!ArrivedThreads : f[s] = f[t] => s = t
    OBVIOUS
  <2>3. \A a \in B!Arrivals : \E t \in B!ArrivedThreads : f[t] = a
    BY <1>2
  <2>4. QED
    BY <2>1, <2>2, <2>3, Fun_IsBij DEF ExistsBijection
<1>4. IsFiniteSet(B!ArrivedThreads)
  BY BarrierAssumption, FS_Subset DEF B!ArrivedThreads
<1>5. QED
  BY <1>3, <1>4, ArrivalsFinite, FS_Bijection, SameCardinality

\* Called once per thread, the barrier lets nobody pass before Count different
\* threads have arrived: what the tests use it for (test_barrier.cpp:13-33).
THEOREM BarrierOpensOnlyAfterAll == B!Spec => []B!OpensAfterCountThreads
<1>1. BarrierInv => B!OpensAfterCountThreads
  BY OneCallOneThread DEF BarrierInv, B!CountdownMatches, B!OpensAfterCountThreads
<1>2. QED
  BY <1>1, BarrierCorrect, PTL

-----------------------------------------------------------------------------
\* Every step maps to a step of the rendezvous or to a stutter.
LEMMA BarrierSimulation ==
  BarrierInv /\ BarrierInv' /\ [B!Next]_(B!vars) => [B!Abstract!Next]_(B!Abstract!vars)
<1> SUFFICES ASSUME BarrierInv, BarrierInv', [B!Next]_(B!vars)
             PROVE  [B!Abstract!Next]_(B!Abstract!vars)
  OBVIOUS
<1> DEFINE made == B!Cardinality(B!Arrivals)
           inside == {t \in Parties : place[t] # "out"}
<1>0. B!TypeOK /\ B!CountdownMatches /\ B!CountdownMatches' /\ made \in Nat /\ Count \in Nat
  BY ArrivalsFinite, FS_CardinalityType, BarrierAssumption, SameCardinality DEF BarrierInv
<1>1. ASSUME NEW t \in Parties, NEW isTimed \in BOOLEAN, B!Wait(t, isTimed)
      PROVE  B!Abstract!Enter(t)
  <2>1. made' = made + 1
    BY <1>0, <1>1, CallCounts DEF B!Wait
  <2>2. t \notin inside
    BY <1>1 DEF B!Wait
  <2>3. CASE B!WalkThrough(t) \/ B!Open(t)
    <3>1. inside' = inside /\ passed' = passed \cup {t}
      BY <2>3 DEF B!WalkThrough, B!Open, B!Pass
    <3>2. made' >= Count
      BY <1>0, <2>3 DEF B!WalkThrough, B!Open, B!CountdownMatches
    <3>3. QED  BY <2>1, <2>2, <3>1, <3>2 DEF B!Abstract!Enter
  <2>4. CASE B!Block(t)
    <3>1. inside' = inside \cup {t} /\ UNCHANGED passed
      BY <1>0, <2>4 DEF B!Block, B!TypeOK
    <3>2. QED  BY <2>1, <2>2, <3>1 DEF B!Abstract!Enter
  <2>5. QED  BY <1>1, <2>3, <2>4 DEF B!Wait
<1>2. ASSUME NEW t \in inside, UNCHANGED <<countdown, calls>>,
             place' = [place EXCEPT ![t] = "out"],
             IF countdown = 0 THEN B!Pass(t) ELSE UNCHANGED passed
      PROVE  B!Abstract!Leave(t) \/ B!Abstract!Abandon(t)
  <2>1. made' = made
    BY <1>2 DEF B!Arrivals
  <2>2. inside' = inside \ {t}
    BY <1>0, <1>2 DEF B!TypeOK
  <2>3. IF made >= Count THEN B!Pass(t) ELSE UNCHANGED passed
    BY <1>0, <1>2, BarrierAssumption DEF B!CountdownMatches, B!TypeOK
  <2>4. QED
    BY <1>0, <1>2, <2>1, <2>2, <2>3 DEF B!Abstract!Leave, B!Abstract!Abandon, B!Pass
<1>3. ASSUME NEW t \in inside, NEW to \in B!Places \ {"out"},
             UNCHANGED <<countdown, calls, passed>>, place' = [place EXCEPT ![t] = to]
      PROVE  UNCHANGED B!Abstract!vars
  <2>1. made' = made
    BY <1>3 DEF B!Arrivals
  <2>2. inside' = inside
    BY <1>0, <1>3 DEF B!TypeOK, B!Places
  <2>3. QED
    BY <1>3, <2>1, <2>2 DEF B!Abstract!vars
<1>4. ASSUME NEW t \in Parties, B!Recheck(t)
      PROVE  B!Abstract!Leave(t) \/ B!Abstract!Abandon(t) \/ UNCHANGED B!Abstract!vars
  <2>1. t \in inside
    BY <1>4 DEF B!Recheck
  <2>2. CASE countdown = 0 /\ B!Pass(t) /\ place' = [place EXCEPT ![t] = "out"]
    BY <1>2, <1>4, <2>1, <2>2 DEF B!Recheck
  <2>3. CASE countdown # 0 /\ place' = [place EXCEPT ![t] = "asleep"] /\ UNCHANGED passed
    BY <1>3, <1>4, <2>1, <2>3 DEF B!Recheck, B!Places
  <2>4. QED  BY <1>4, <2>2, <2>3 DEF B!Recheck
<1>5. ASSUME NEW t \in Parties, B!LastCheck(t)
      PROVE  B!Abstract!Leave(t) \/ B!Abstract!Abandon(t)
  <2>1. t \in inside
    BY <1>5 DEF B!LastCheck
  <2>2. QED  BY <1>2, <1>5, <2>1 DEF B!LastCheck
<1>6. ASSUME NEW t \in Parties, B!Expire(t) \/ B!SpuriousWakeup(t)
      PROVE  UNCHANGED B!Abstract!vars
  <2>1. t \in inside
    BY <1>6 DEF B!Expire, B!SpuriousWakeup
  <2>2. QED  BY <1>3, <1>6, <2>1 DEF B!Expire, B!SpuriousWakeup, B!Places
<1>7. CASE UNCHANGED B!vars
  BY <1>7 DEF B!vars, B!Abstract!vars, B!Arrivals
<1>8. QED
  BY <1>1, <1>4, <1>5, <1>6, <1>7 DEF B!Next, B!Abstract!Next

\* crs::barrier implements the rendezvous: a blocked call succeeds only after
\* Count calls were made and fails only before that (barrier.h:43-78).
THEOREM BarrierIsRendezvous == B!Spec => B!ImplementsRendezvous
<1>1. B!Init => B!Abstract!Init
  <2> SUFFICES ASSUME B!Init PROVE B!Abstract!Init
    OBVIOUS
  <2>1. B!Arrivals = {}
    BY BarrierAssumption DEF B!Init, B!Arrivals
  <2>2. QED
    BY <2>1, FS_EmptySet, SameCardinality DEF B!Init, B!Abstract!Init
<1>2. QED
  BY <1>1, BarrierSimulation, BarrierCorrect, PTL
     DEF B!Spec, B!Abstract!Spec, B!ImplementsRendezvous

-----------------------------------------------------------------------------
(***************************************************************************)
(* The POSIX thread, by itself, for any number of users.                   *)
(***************************************************************************)

\* Type correctness.
THEOREM ThreadTypeCorrect == T!Spec => []T!TypeOK
<1>1. T!Init => T!TypeOK
  BY DEF T!Init, T!TypeOK, T!Places
<1>2. T!TypeOK /\ [T!Next]_(T!vars) => T!TypeOK'
  <2> SUFFICES ASSUME T!TypeOK, [T!Next]_(T!vars) PROVE T!TypeOK'
    OBVIOUS
  <2> USE DEF T!TypeOK, T!Places, T!Go, T!threadVars, T!flagVars
  <2>1. CASE T!Start \/ T!TestTerminate \/ T!TestActive
    BY <2>1 DEF T!Start, T!TestTerminate, T!TestActive
  <2>2. ASSUME NEW result \in StepResults, T!StepReturns(result) PROVE T!TypeOK'
    BY <2>2 DEF T!StepReturns
  <2>3. CASE T!Wait \/ T!SpuriousWakeup
    BY <2>3 DEF T!Wait, T!SpuriousWakeup
  <2>4. CASE T!ClearRunning
    BY <2>4 DEF T!ClearRunning
  <2>5. CASE T!End
    BY <2>5 DEF T!End
  <2>6. CASE T!Kill
    BY <2>6 DEF T!Kill
  <2>7. CASE T!PostTerminate
    BY <2>7 DEF T!PostTerminate
  <2>8. CASE T!Join
    BY <2>8 DEF T!Join
  <2>9. CASE T!OwnerWakes
    BY <2>9 DEF T!OwnerWakes, T!WakeUp
  <2>10. ASSUME NEW u \in Users, T!Resume(u) PROVE T!TypeOK'
    BY <2>10 DEF T!Resume, T!Post
  <2>11. ASSUME NEW u \in Users, T!Stop(u) PROVE T!TypeOK'
    BY <2>11 DEF T!Stop, T!Post
  <2>12. ASSUME NEW u \in Users, T!UserWakes(u) PROVE T!TypeOK'
    BY <2>12 DEF T!UserWakes, T!WakeUp
  <2>13. CASE UNCHANGED T!vars
    BY <2>13 DEF T!vars
  <2>14. QED
    BY <2>1, <2>2, <2>3, <2>4, <2>5, <2>6, <2>7, <2>8, <2>9, <2>10, <2>11, <2>12, <2>13
       DEF T!Next, T!ThreadStep
<1>3. QED
  BY <1>1, <1>2, PTL DEF T!Spec

\* A raised flag that the thread has already tested is announced: by the wake-up
\* flag or by somebody who still has to raise that one.
WakeInv ==
  /\ at = "asleep" => ~wakeupFlag
  /\ (activateFlag /\ at \in {"wait", "asleep"}) => wakeupFlag \/ T!WakeUpPending
  /\ (terminateFlag /\ at \in {"testActive", "wait", "asleep"}) => wakeupFlag \/ T!WakeUpPending

\* No wake-up is lost, although the flags are tested without the mutex.
THEOREM ThreadNoLostWakeup == T!Spec => []T!NoMissedWakeup
<1>1. T!Init => WakeInv
  BY DEF T!Init, WakeInv
<1>2. T!TypeOK /\ WakeInv /\ [T!Next]_(T!vars) => WakeInv'
  <2> SUFFICES ASSUME T!TypeOK, WakeInv, [T!Next]_(T!vars) PROVE WakeInv'
    OBVIOUS
  <2> USE DEF WakeInv, T!WakeUpPending, T!Go, T!threadVars, T!flagVars
  <2>1. CASE T!ThreadStep \/ T!SpuriousWakeup
    BY <2>1 DEF T!ThreadStep, T!Start, T!TestTerminate, T!TestActive, T!StepReturns, T!Wait,
                T!ClearRunning, T!End, T!SpuriousWakeup
  <2>2. CASE T!Kill \/ T!PostTerminate \/ T!Join
    BY <2>2 DEF T!Kill, T!PostTerminate, T!Join
  <2>3. ASSUME T!WakeUp PROVE WakeInv'
    BY <2>3 DEF T!WakeUp
  <2>4. ASSUME NEW u \in Users, T!Resume(u) \/ T!Stop(u) PROVE WakeInv'
    BY <2>4 DEF T!Resume, T!Stop, T!Post, T!TypeOK
  <2>5. CASE UNCHANGED T!vars
    BY <2>5 DEF T!vars
  <2>6. QED
    BY <2>1, <2>2, <2>3, <2>4, <2>5 DEF T!Next, T!OwnerWakes, T!UserWakes
<1>3. WakeInv => T!NoMissedWakeup
  BY DEF WakeInv, T!NoMissedWakeup
<1>4. QED
  BY <1>1, <1>2, <1>3, ThreadTypeCorrect, PTL DEF T!Spec

\* With kill () in the destructor, no object is freed under a thread that is in
\* Run (), provided the thread had started (line 155 reads _running_flag).
THEOREM ThreadFreedOutsideRun ==
  ASSUME StartedFirst
  PROVE  T!Spec => []T!FreedAfterRun
<1>1. T!Init => T!FreedAfterRun
  BY DEF T!Init, T!FreedAfterRun
<1>2. T!TypeOK /\ T!FreedAfterRun /\ [T!Next]_(T!vars) => T!FreedAfterRun'
  <2> SUFFICES ASSUME T!TypeOK, T!FreedAfterRun, [T!Next]_(T!vars) PROVE T!FreedAfterRun'
    OBVIOUS
  <2> USE DEF T!FreedAfterRun, T!Go, T!threadVars, T!flagVars
  <2>1. CASE T!ThreadStep \/ T!SpuriousWakeup
    BY <2>1 DEF T!ThreadStep, T!Start, T!TestTerminate, T!TestActive, T!StepReturns, T!Wait,
                T!ClearRunning, T!End, T!SpuriousWakeup
  <2>2. CASE T!Kill
    BY <2>2 DEF T!Kill, T!TypeOK
  <2>3. CASE T!PostTerminate \/ T!OwnerWakes \/ T!Join
    BY <2>3 DEF T!PostTerminate, T!OwnerWakes, T!WakeUp, T!Join
  <2>4. ASSUME NEW u \in Users, T!Resume(u) \/ T!Stop(u) \/ T!UserWakes(u)
        PROVE  T!FreedAfterRun'
    BY <2>4 DEF T!Resume, T!Stop, T!UserWakes, T!WakeUp
  <2>5. CASE UNCHANGED T!vars
    BY <2>5 DEF T!vars
  <2>6. QED
    BY <2>1, <2>2, <2>3, <2>4, <2>5 DEF T!Next
<1>3. QED
  BY <1>1, <1>2, ThreadTypeCorrect, PTL DEF T!Spec

\* The object is freed only when its thread has ended.
ThreadFreedAfterEnd == owner = "freed" => at = "ended"

\* A thread whose Step never ends it ends only when it is told to, and is told to
\* only by the owner that joins it.
KillInv ==
  /\ at \in {"exit", "leaving", "ended"} => terminateFlag
  /\ terminateFlag => owner \in {"waking", "joining", "freed"}
  /\ ThreadFreedAfterEnd

\* kill () in the destructor is enough when the thread has started and Step never
\* ends it: no member of a freed object is read any more, not even by line 53.
THEOREM FreedAfterTheEnd ==
  ASSUME StartedFirst, StepResults \subseteq {"again"}
  PROVE  T!Spec => []ThreadFreedAfterEnd
<1>1. T!Init => KillInv
  BY DEF T!Init, KillInv, ThreadFreedAfterEnd
<1>2. T!TypeOK /\ KillInv /\ [T!Next]_(T!vars) => KillInv'
  <2> SUFFICES ASSUME T!TypeOK, KillInv, [T!Next]_(T!vars) PROVE KillInv'
    OBVIOUS
  <2> USE DEF KillInv, ThreadFreedAfterEnd, T!Go, T!threadVars, T!flagVars
  <2>1. CASE T!ThreadStep \/ T!SpuriousWakeup
    BY <2>1 DEF T!ThreadStep, T!Start, T!TestTerminate, T!TestActive, T!StepReturns, T!Wait,
                T!ClearRunning, T!End, T!SpuriousWakeup, T!TypeOK
  <2>2. CASE T!Kill
    BY <2>2 DEF T!Kill, T!TypeOK
  <2>3. CASE T!PostTerminate \/ T!Join
    BY <2>3 DEF T!PostTerminate, T!Join
  <2>4. CASE T!OwnerWakes
    BY <2>4 DEF T!OwnerWakes, T!WakeUp
  <2>5. ASSUME NEW u \in Users, T!Resume(u) \/ T!Stop(u) \/ T!UserWakes(u) PROVE KillInv'
    BY <2>5 DEF T!Resume, T!Stop, T!UserWakes, T!WakeUp
  <2>6. CASE UNCHANGED T!vars
    BY <2>6 DEF T!vars
  <2>7. QED
    BY <2>1, <2>2, <2>3, <2>4, <2>5, <2>6 DEF T!Next
<1>3. KillInv => ThreadFreedAfterEnd
  BY DEF KillInv
<1>4. QED
  BY <1>1, <1>2, <1>3, ThreadTypeCorrect, PTL DEF T!Spec

-----------------------------------------------------------------------------
(***************************************************************************)
(* The same in the composition.                                            *)
(***************************************************************************)

\* The thread's variables change by its own steps and those of its users only.
LEMMA ThreadPart == FairSpecAll => T!Spec
<1>1. InitAll => T!Init
  BY DEF InitAll
<1>2. [NextAll]_allVars => [T!Next]_(T!vars)
  BY DEF NextAll, allVars, threadVars, T!vars, T!threadVars, T!flagVars
<1>3. QED
  BY <1>1, <1>2, PTL DEF FairSpecAll, T!Spec

\* The barrier's variables change by its own steps only.
LEMMA BarrierPart == FairSpecAll => B!Spec
<1>1. InitAll => B!Init
  BY DEF InitAll
<1>2. [NextAll]_allVars => [B!Next]_(B!vars)
  BY DEF NextAll, allVars, barrierVars, B!vars
<1>3. QED
  BY <1>1, <1>2, PTL DEF FairSpecAll, B!Spec

\* An open barrier has no sleepers, for any number of parties.
THEOREM NoSleeperLeftBehind == FairSpecAll => []NobodySleepsBehindOpenBarrier
BY BarrierPart, BarrierLeavesNoSleeper, PTL DEF NobodySleepsBehindOpenBarrier

\* Called once per thread, the barrier lets nobody pass before Count different
\* threads have arrived.
THEOREM OpensOnlyAfterAll == FairSpecAll => []OpensAfterCountThreads
BY BarrierPart, BarrierOpensOnlyAfterAll, PTL DEF OpensAfterCountThreads

\* The barrier implements the rendezvous.
THEOREM BarrierImplements == FairSpecAll => ImplementsRendezvous
BY BarrierPart, BarrierIsRendezvous, PTL DEF ImplementsRendezvous

\* The thread misses no wake-up, for any number of users.
THEOREM NoLostWakeup == FairSpecAll => []NoMissedWakeup
BY ThreadPart, ThreadNoLostWakeup, PTL DEF NoMissedWakeup

\* kill () never lets an object be freed under a started thread that is in Run.
THEOREM FreedOutsideRun ==
  ASSUME StartedFirst
  PROVE  FairSpecAll => []FreedAfterRun
BY ThreadPart, ThreadFreedOutsideRun, PTL DEF FreedAfterRun

-----------------------------------------------------------------------------
(***************************************************************************)
(* The Windows thread.  Its event of having stopped is set by its last     *)
(* step only, which kill waits for, and once it has ended it does nothing. *)
(***************************************************************************)
WinInv == (evntStopped => winAt = "ended") /\ W!FreedAfterEnd

LEMMA WinStep == WinInv /\ [NextAll]_allVars => WinInv'
<1> SUFFICES ASSUME WinInv, [NextAll]_allVars PROVE WinInv'
  OBVIOUS
<1> USE DEF WinInv, W!FreedAfterEnd, W!events
<1>1. CASE W!ThreadStep
  <2> USE DEF W!Go
  <2>1. CASE W!Start
    BY <2>1 DEF W!Start
  <2>2. CASE W!TestTerminate \/ W!TestActivate \/ W!StepReturns \/ W!ResumeReturns
    BY <2>2 DEF W!TestTerminate, W!TestActivate, W!StepReturns, W!ResumeReturns
  <2>3. CASE W!ReportStopped
    BY <2>3 DEF W!ReportStopped
  <2>4. QED
    BY <1>1, <2>1, <2>2, <2>3 DEF W!ThreadStep
<1>2. CASE W!Kill
  BY <1>2 DEF W!Kill
<1>3. CASE W!Finish
  BY <1>3 DEF W!Finish, W!PostTerminate, W!WakeUp, W!Join
<1>4. ASSUME NEW u \in Users, W!User(u) PROVE WinInv'
  BY <1>4 DEF W!User, W!Resume, W!SetResume, W!Stop
<1>5. CASE UNCHANGED winThreadVars
  BY <1>5 DEF winThreadVars
<1>6. QED
  BY <1>1, <1>2, <1>3, <1>4, <1>5 DEF NextAll, allVars, W!Next

\* kill () does not free a thread's object before the thread has reported its end, even if
\* it is called before the thread has begun (win32.thread.cpp:167-177).
THEOREM FreedAfterEndOnWindows == FairSpecAll => []W!FreedAfterEnd
<1>1. InitAll => WinInv
  BY DEF InitAll, W!Init, WinInv, W!FreedAfterEnd
<1>2. WinInv => W!FreedAfterEnd
  BY DEF WinInv
<1>3. QED
  BY <1>1, <1>2, WinStep, PTL DEF FairSpecAll
=============
