----------------------------- MODULE WinThread -----------------------------
(***************************************************************************)
(* CrossClass::cWin32Thread (crs/bits/win32.thread.{h,cpp}): a thread that *)
(* calls Step while it is activated.  Its flags are events of the system,  *)
(* all of them reset by hand; its owner kills it before freeing it.        *)
(***************************************************************************)
EXTENDS Naturals

CONSTANTS Users,      \* threads that call Resume and Stop
          MaxCalls    \* bound: calls of each user

VARIABLES
  at,            \* where the thread is
  evntActivate, evntResume, evntTerminate, evntStopped,
  caller,        \* where each user is
  calls,         \* history: calls of each user
  owner          \* where kill and the destructor are

winThreadVars == <<at, evntActivate, evntResume, evntTerminate, evntStopped, caller, calls, owner>>
events == <<evntActivate, evntResume, evntTerminate, evntStopped>>

Init ==
  /\ at = "created"
  /\ evntActivate = FALSE /\ evntResume = FALSE /\ evntTerminate = FALSE /\ evntStopped = FALSE
  /\ caller = [u \in Users |-> "out"] /\ calls = [u \in Users |-> 0]
  /\ owner = "out"

-----------------------------------------------------------------------------
(* thread_routine and Run.                                                 *)

Go(from, to) == at = from /\ at' = to /\ UNCHANGED <<caller, calls, owner>>

Start ==
  /\ Go("created", "testing")
  /\ evntStopped' = FALSE
  /\ UNCHANGED <<evntActivate, evntResume, evntTerminate>>

TestTerminate ==
  /\ Go("testing", IF evntTerminate THEN "returned" ELSE "choosing")
  /\ UNCHANGED events

TestActivate ==
  /\ Go("choosing", IF evntActivate THEN "step" ELSE "waiting")
  /\ UNCHANGED events

\* Step may end the thread; an exception ends it as well.
StepReturns ==
  /\ Go("step", "testing") \/ Go("step", "returned")
  /\ UNCHANGED events

\* The event stays set.
ResumeReturns ==
  /\ evntResume
  /\ Go("waiting", "testing")
  /\ UNCHANGED events

\* The last thing that the thread does with the object.
ReportStopped ==
  /\ Go("returned", "ended")
  /\ evntStopped' = TRUE
  /\ UNCHANGED <<evntActivate, evntResume, evntTerminate>>

-----------------------------------------------------------------------------
(* Resume, Stop and kill.                                                  *)

Resume(u) ==
  /\ owner = "out" /\ caller[u] = "out" /\ calls[u] < MaxCalls
  /\ evntActivate' = TRUE
  /\ caller' = [caller EXCEPT ![u] = "resuming"]
  /\ calls' = [calls EXCEPT ![u] = @ + 1]
  /\ UNCHANGED <<at, evntResume, evntTerminate, evntStopped, owner>>

SetResume(u) ==
  /\ caller[u] = "resuming"
  /\ evntResume' = TRUE
  /\ caller' = [caller EXCEPT ![u] = "out"]
  /\ UNCHANGED <<at, evntActivate, evntTerminate, evntStopped, calls, owner>>

Stop(u) ==
  /\ owner = "out" /\ caller[u] = "out" /\ calls[u] < MaxCalls
  /\ evntActivate' = FALSE
  /\ calls' = [calls EXCEPT ![u] = @ + 1]
  /\ UNCHANGED <<at, evntResume, evntTerminate, evntStopped, caller, owner>>

\* A thread that reported its end is not waited for.
Kill ==
  /\ owner = "out" /\ \A u \in Users : caller[u] = "out"
  /\ owner' = IF evntStopped THEN "freed" ELSE "terminating"
  /\ UNCHANGED <<at, events, caller, calls>>

PostTerminate ==
  /\ owner = "terminating"
  /\ evntTerminate' = TRUE /\ owner' = "resuming"
  /\ UNCHANGED <<at, evntActivate, evntResume, evntStopped, caller, calls>>

\* Fault: the thread is not woken up.
WakeUpNobody ==
  /\ owner = "resuming"
  /\ owner' = "joining"
  /\ UNCHANGED <<at, events, caller, calls>>

WakeUp ==
  /\ owner = "resuming"
  /\ evntResume' = TRUE /\ owner' = "joining"
  /\ UNCHANGED <<at, evntActivate, evntTerminate, evntStopped, caller, calls>>

Join ==
  /\ owner = "joining" /\ evntStopped
  /\ owner' = "freed"
  /\ UNCHANGED <<at, events, caller, calls>>

ThreadStep ==
  \/ Start \/ TestTerminate \/ TestActivate \/ StepReturns \/ ResumeReturns \/ ReportStopped
Finish == PostTerminate \/ WakeUp \/ Join
User(u) == Resume(u) \/ SetResume(u) \/ Stop(u)

Next == ThreadStep \/ Kill \/ Finish \/ \E u \in Users : User(u)

Spec == Init /\ [][Next]_winThreadVars

\* The thread is scheduled, and a call that was begun is ended.
Fairness ==
  /\ WF_winThreadVars(ThreadStep)
  /\ WF_winThreadVars(Finish)
  /\ \A u \in Users : WF_winThreadVars(SetResume(u))
FairSpec == Spec /\ Fairness

-----------------------------------------------------------------------------
\* The object is freed after the thread has done with it, even if kill is called before
\* the thread has begun (kill, lines 167-177).
FreedAfterEnd == owner = "freed" => at = "ended"

\* kill () returns: the thread sees that it is terminated.
KillReturns == owner = "terminating" ~> owner = "freed"

\* Resume is never lost: a thread that stays activated takes a step.
ResumeActivates ==
  \A u \in Users : (caller[u] = "resuming") ~> (at \in {"step", "returned", "ended"} \/ ~evntActivate)

\* A thread that is killed is gone before its object, and one that is resumed runs.
WinThreadStops == []FreedAfterEnd /\ KillReturns /\ ResumeActivates

\* A thread that was stopped sleeps until it is resumed (thread.h: Resume, Stop).  This
\* does not hold: nothing resets evntResume.
StoppedThreadSleeps == ~evntActivate /\ (\A u \in Users : caller[u] = "out") /\ owner = "out" => ~evntResume
=============================================================================
