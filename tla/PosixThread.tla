----------------------------- MODULE PosixThread -----------------------------
(***************************************************************************)
(* CrossClass::cPosixThread (crs/thread.h, crs/bits/posix.thread.h,        *)
(* crs/bits/posix.thread.cpp): a thread that calls Step () while it is     *)
(* active and sleeps on a condition variable while it is not; the users    *)
(* that Resume and Stop it; and its owner, whose destructor calls kill ()  *)
(* and then frees the object.  Step belongs to a derived class: here it    *)
(* may do nothing, and ends as StepResults says.                           *)
(***************************************************************************)
CONSTANTS Users,         \* threads that call Resume and Stop
          StepResults,   \* how Step ends: a subset of {"again", "finished", "thrown"}
          StartedFirst   \* TRUE: the owner waits until the thread has started

VARIABLES
  at,              \* where the thread is
  runningFlag,     \* _running_flag
  activateFlag,    \* _activate_flag
  terminateFlag,   \* _terminate_flag
  wakeupFlag,      \* _wakeup_flag, under _wakeup_mutex
  caller,          \* where each user is: "idle", or about to call _wake_up
  owner            \* where the owner is: "alive", in kill (), or "freed"

threadVars == <<at, runningFlag>>
flagVars == <<activateFlag, terminateFlag, wakeupFlag>>
vars == <<threadVars, flagVars, caller, owner>>

Places == {"created", "testTerminate", "testActive", "step", "wait", "asleep",
           "exit", "leaving", "ended"}

Init ==
  /\ at = "created" /\ runningFlag = FALSE
  /\ activateFlag = FALSE /\ terminateFlag = FALSE /\ wakeupFlag = FALSE
  /\ caller = [u \in Users |-> "idle"]
  /\ owner = "alive"

-----------------------------------------------------------------------------
(* The thread: thread_routine and Run.                                     *)

Go(from, to) == at = from /\ at' = to

Start ==
  /\ Go("created", "testTerminate")
  /\ runningFlag' = TRUE
  /\ UNCHANGED <<flagVars, caller, owner>>

TestTerminate ==
  /\ Go("testTerminate", IF terminateFlag THEN "exit" ELSE "testActive")
  /\ UNCHANGED <<runningFlag, flagVars, caller, owner>>

TestActive ==
  /\ Go("testActive", IF activateFlag THEN "step" ELSE "wait")
  /\ UNCHANGED <<runningFlag, flagVars, caller, owner>>

StepReturns(result) ==
  /\ Go("step", IF result = "again" THEN "testTerminate" ELSE "exit")
  /\ UNCHANGED <<runningFlag, flagVars, caller, owner>>

\* Fault: the flag is not tested, as if a notification could not come too early.
WaitBlindly ==
  /\ Go("wait", "asleep")
  /\ UNCHANGED <<runningFlag, flagVars, caller, owner>>

\* With the mutex: sleep while the wake-up flag is down, then clear it.
Wait ==
  /\ \/ wakeupFlag /\ Go("wait", "testTerminate") /\ wakeupFlag' = FALSE
     \/ ~wakeupFlag /\ Go("wait", "asleep") /\ UNCHANGED wakeupFlag
  /\ UNCHANGED <<runningFlag, activateFlag, terminateFlag, caller, owner>>

SpuriousWakeup ==
  /\ Go("asleep", "wait")
  /\ UNCHANGED <<runningFlag, flagVars, caller, owner>>

ClearRunning ==
  /\ Go("exit", "leaving")
  /\ runningFlag' = FALSE
  /\ UNCHANGED <<flagVars, caller, owner>>

\* thread_routine reads _thread_routine_result once more and returns.
End ==
  /\ Go("leaving", "ended")
  /\ UNCHANGED <<runningFlag, flagVars, caller, owner>>

ThreadStep ==
  \/ Start \/ TestTerminate \/ TestActive \/ Wait \/ ClearRunning \/ End
  \/ \E result \in StepResults : StepReturns(result)

-----------------------------------------------------------------------------
(* Users and owner.  An object's methods are called while it is alive.     *)

\* _wake_up, under the mutex.
WakeUp ==
  /\ wakeupFlag' = TRUE
  /\ at' = IF at = "asleep" THEN "wait" ELSE at
  /\ UNCHANGED <<runningFlag, activateFlag, terminateFlag>>

Post(u) == caller[u] = "idle" /\ caller' = [caller EXCEPT ![u] = "waking"]

Resume(u) ==
  /\ owner = "alive" /\ Post(u)
  /\ activateFlag' = TRUE
  /\ UNCHANGED <<threadVars, terminateFlag, wakeupFlag, owner>>

Stop(u) ==
  /\ owner = "alive" /\ Post(u)
  /\ activateFlag' = FALSE
  /\ UNCHANGED <<threadVars, terminateFlag, wakeupFlag, owner>>

\* Fault: the caller returns without waking the thread.
UserWakesNobody(u) ==
  /\ caller[u] = "waking"
  /\ caller' = [caller EXCEPT ![u] = "idle"]
  /\ UNCHANGED <<threadVars, flagVars, owner>>

UserWakes(u) ==
  /\ caller[u] = "waking"
  /\ WakeUp
  /\ caller' = [caller EXCEPT ![u] = "idle"]
  /\ UNCHANGED owner

\* Fault: kill takes a thread that is not active for one that does not run.
KillActive ==
  /\ owner = "alive" /\ \A u \in Users : caller[u] = "idle"
  /\ StartedFirst => at # "created"
  /\ owner' = IF activateFlag THEN "terminating" ELSE "freed"
  /\ UNCHANGED <<threadVars, flagVars, caller>>

\* kill: a thread that does not run is neither terminated nor joined.
Kill ==
  /\ owner = "alive" /\ \A u \in Users : caller[u] = "idle"
  /\ StartedFirst => at # "created"
  /\ owner' = IF runningFlag THEN "terminating" ELSE "freed"
  /\ UNCHANGED <<threadVars, flagVars, caller>>

PostTerminate ==
  /\ owner = "terminating"
  /\ terminateFlag' = TRUE
  /\ owner' = "waking"
  /\ UNCHANGED <<threadVars, activateFlag, wakeupFlag, caller>>

OwnerWakes ==
  /\ owner = "waking"
  /\ WakeUp
  /\ owner' = "joining"
  /\ UNCHANGED caller

Join ==
  /\ owner = "joining" /\ at = "ended"
  /\ owner' = "freed"
  /\ UNCHANGED <<threadVars, flagVars, caller>>

-----------------------------------------------------------------------------
Next ==
  \/ ThreadStep \/ SpuriousWakeup
  \/ Kill \/ PostTerminate \/ OwnerWakes \/ Join
  \/ \E u \in Users : Resume(u) \/ Stop(u) \/ UserWakes(u)

Spec == Init /\ [][Next]_vars

\* The thread is scheduled, Step returns, and a call that was begun goes on.
FairSpec ==
  /\ Spec
  /\ WF_vars(ThreadStep)
  /\ WF_vars(PostTerminate \/ OwnerWakes \/ Join)
  /\ \A u \in Users : WF_vars(UserWakes(u))

-----------------------------------------------------------------------------
\* Type invariant.
TypeOK ==
  /\ at \in Places /\ runningFlag \in BOOLEAN
  /\ runningFlag <=> at \notin {"created", "leaving", "ended"}
  /\ activateFlag \in BOOLEAN /\ terminateFlag \in BOOLEAN /\ wakeupFlag \in BOOLEAN
  /\ caller \in [Users -> {"idle", "waking"}]
  /\ owner \in {"alive", "terminating", "waking", "joining", "freed"}

\* Somebody has changed a flag and still has to wake the thread.
WakeUpPending == owner = "waking" \/ \E u \in Users : caller[u] = "waking"

\* No lost wake-up: the flags are tested without the mutex (lines 86-88), but a
\* thread sleeps beside a raised flag only until the one that raised it goes on.
NoMissedWakeup ==
  (at = "asleep" /\ (activateFlag \/ terminateFlag)) => WakeUpPending

\* Run () has returned before the object is freed (thread.h:24-25: kill () in the
\* destructor).  Only the last read of line 53 may be left to a thread that has
\* ended by itself.
FreedAfterRun == owner = "freed" => at \in {"leaving", "ended"}

\* kill () returns: the thread notices the flag wherever it is.
KillReturns == owner = "terminating" ~> owner = "freed"
=============================================================================
