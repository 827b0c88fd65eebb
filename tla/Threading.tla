------------------------------ MODULE Threading ------------------------------
(***************************************************************************)
(* The library's means to make threads wait for each other: a semaphore,   *)
(* a barrier, a thread with its wake-up and the Windows variant of that    *)
(* thread, one object of each.  They share nothing: a behaviour works on   *)
(* one of them, so that the state spaces are explored side by side.        *)
(***************************************************************************)
EXTENDS Semaphore

CONSTANTS Parties,       \* the threads that meet at the barrier
          Count,         \* its constructor's cnt
          Attempts,      \* bound: calls one of them makes
          Users,         \* the threads that call Resume and Stop
          StepResults,   \* how Step ends
          StartedFirst,  \* TRUE: a thread is not killed before it has started
          MaxCalls       \* bound: calls of Resume and Stop on Windows, of each user

ASSUME BarrierAssumption ==
  /\ IsFiniteSet(Parties)
  /\ Count \in Nat
  /\ Attempts \in Nat

ASSUME PosixThreadAssumption ==
  /\ StepResults \subseteq {"again", "finished", "thrown"}
  /\ StartedFirst \in BOOLEAN /\ MaxCalls \in Nat

VARIABLES object,                                       \* what is worked on
          countdown, place, limited, calls, passed,     \* the barrier
          at, runningFlag, activateFlag, terminateFlag, \* the thread
          wakeupFlag, caller, owner,
          winAt, evntActivate, evntResume, evntTerminate, \* the Windows thread
          evntStopped, winCaller, winCalls, winOwner

barrierVars == <<countdown, place, limited, calls, passed>>
threadVars == <<at, runningFlag, activateFlag, terminateFlag, wakeupFlag, caller, owner>>
winThreadVars == <<winAt, evntActivate, evntResume, evntTerminate, evntStopped, winCaller,
                   winCalls, winOwner>>
allVars == <<object, vars, barrierVars, threadVars, winThreadVars>>

B == INSTANCE Barrier WITH counter <- countdown, pc <- place, timed <- limited
T == INSTANCE PosixThread
W == INSTANCE WinThread WITH
  at <- winAt, caller <- winCaller, calls <- winCalls, owner <- winOwner

InitAll ==
  /\ object \in {"semaphore", "barrier", "thread", "win_thread"}
  /\ Init /\ B!Init /\ T!Init /\ W!Init

NextAll ==
  /\ \/ object = "semaphore" /\ Next /\ UNCHANGED <<barrierVars, threadVars, winThreadVars>>
     \/ object = "barrier" /\ B!Next /\ UNCHANGED <<vars, threadVars, winThreadVars>>
     \/ object = "thread" /\ T!Next /\ UNCHANGED <<vars, barrierVars, winThreadVars>>
     \/ object = "win_thread" /\ W!Next /\ UNCHANGED <<vars, barrierVars, threadVars>>
  /\ UNCHANGED object

\* The fairness of the four: whoever was unblocked gets the mutex, the thread is
\* scheduled, and a call that was begun goes on.
FairSpecAll ==
  /\ InitAll /\ [][NextAll]_allVars
  /\ \A t \in Threads : /\ WF_vars(object = "semaphore" /\ Recheck(t))
                        /\ WF_vars(object = "semaphore" /\ LastCheck(t))
  /\ \A p \in Parties : /\ WF_barrierVars(object = "barrier" /\ B!Recheck(p))
                        /\ WF_barrierVars(object = "barrier" /\ B!LastCheck(p))
  /\ WF_threadVars(object = "thread" /\ T!ThreadStep)
  /\ WF_threadVars(object = "thread" /\ (T!PostTerminate \/ T!OwnerWakes \/ T!Join))
  /\ \A u \in Users : WF_threadVars(object = "thread" /\ T!UserWakes(u))
  /\ WF_winThreadVars(object = "win_thread" /\ W!ThreadStep)
  /\ WF_winThreadVars(object = "win_thread" /\ W!Finish)
  /\ \A u \in Users : WF_winThreadVars(object = "win_thread" /\ W!SetResume(u))

-----------------------------------------------------------------------------
\* crs::barrier (Barrier.tla): an open barrier has no sleepers.
NobodySleepsBehindOpenBarrier == B!NobodySleepsBehindOpenBarrier

\* crs::barrier: nobody passes before Count different threads have arrived.
OpensAfterCountThreads == B!OpensAfterCountThreads

\* crs::barrier: every blocked thread returns.
EverybodyReturns == B!EverybodyReturns

\* crs::barrier implements a rendezvous.
ImplementsRendezvous == B!ImplementsRendezvous

\* CrossClass::cPosixThread (PosixThread.tla): no wake-up is lost.
NoMissedWakeup == T!NoMissedWakeup

\* CrossClass::cPosixThread: Run () has returned before the object is freed.
FreedAfterRun == T!FreedAfterRun

\* CrossClass::cPosixThread: kill () returns.  The same class on Windows (WinThread.tla)
\* stops when it is killed, before its object is freed, and runs when it is resumed.
KillReturns == T!KillReturns /\ W!WinThreadStops
=============================================================================
