------------------------------ MODULE WinPort ------------------------------
(***************************************************************************)
(* sc::win32RS232port (crs/sc/win32.rs232port.cpp): overlapped reads and   *)
(* writes that wait for their own event and for m_evntTerminate, which     *)
(* only the next open () resets.  A thread of its own calls receive ()     *)
(* until it returns false (test-3/twbyte/loop.cpp).                        *)
(***************************************************************************)
EXTENDS Naturals

CONSTANTS WriteSize,    \* bytes of each write
          MaxReads,     \* bound: reads that are over at once, in a session
          MaxOpens      \* bound: sessions

VARIABLES
  open,          \* m_bConnected
  timeouts,      \* the timeouts of the device: "original" or "new"
  terminate,     \* m_evntTerminate
  terminated,    \* m_evntTerminated
  reader,        \* where receive () is: "none", "out", "waiting" or "stopped"
  writer,        \* where write () is: "out" or "waiting", "writing" in between
  left,          \* nBytesRest of write ()
  cut,           \* history: a write of this session was cut short
  waiter,        \* where postTerminate (true) is: "out", "waiting" or "back"
  reads, opens   \* history: reads that were over at once; calls of open ()

eventVars == <<terminate, terminated>>
winVars == <<open, timeouts, eventVars, reader, writer, left, cut, waiter, reads, opens>>

Init ==
  /\ open = FALSE /\ timeouts = "original" /\ terminate = FALSE /\ terminated = FALSE
  /\ reader = "none" /\ writer = "out" /\ left = 0 /\ cut = FALSE /\ waiter = "out"
  /\ reads = 0 /\ opens = 0

-----------------------------------------------------------------------------
(* The session.                                                            *)

Idle == reader \in {"none", "stopped"} /\ writer = "out" /\ waiter # "waiting"

\* A port that was created but cannot be set up stays connected, and open () throws.
OpenAs(term) ==
  /\ Idle /\ opens < MaxOpens
  /\ opens' = opens + 1
  /\ terminate' = FALSE /\ terminated' = term
  /\ \/ open' = TRUE /\ timeouts' = "new" /\ reader' = "out"
     \/ open' = TRUE /\ timeouts' = "new" /\ reader' = "none"
     \/ open' = FALSE /\ timeouts' = "original" /\ reader' = "none"
  /\ cut' = FALSE /\ waiter' = "out" /\ reads' = 0
  /\ UNCHANGED <<writer, left>>

\* Fault: the event of the last session stays set.
OpenStale == OpenAs(terminated)

Open == OpenAs(FALSE)

Close ==
  /\ open /\ reader # "out" /\ reader # "waiting" /\ writer = "out"
  /\ terminate' = TRUE /\ open' = FALSE /\ timeouts' = "original"
  /\ UNCHANGED <<terminated, reader, writer, left, cut, waiter, reads, opens>>

-----------------------------------------------------------------------------
(* receive ().                                                             *)

\* The bytes are there: the events are not looked at.
ReadAtOnce ==
  /\ reader = "out" /\ reads < MaxReads
  /\ reads' = reads + 1
  /\ UNCHANGED <<open, timeouts, eventVars, reader, writer, left, cut, waiter, opens>>

ReadPends ==
  /\ reader = "out"
  /\ reader' = "waiting"
  /\ UNCHANGED <<open, timeouts, eventVars, writer, left, cut, waiter, reads, opens>>

\* Some bytes, or none when the time is out.
ReadCompletes ==
  /\ reader = "waiting"
  /\ reader' = "out"
  /\ UNCHANGED <<open, timeouts, eventVars, writer, left, cut, waiter, reads, opens>>

\* Fault: nobody is told that the reader stops.
ReadTerminatedSilently ==
  /\ reader = "waiting" /\ terminate
  /\ reader' = "stopped"
  /\ UNCHANGED <<open, timeouts, eventVars, writer, left, cut, waiter, reads, opens>>

ReadTerminated ==
  /\ reader = "waiting" /\ terminate
  /\ reader' = "stopped" /\ terminated' = TRUE
  /\ UNCHANGED <<open, timeouts, terminate, writer, left, cut, waiter, reads, opens>>

-----------------------------------------------------------------------------
(* write ().                                                               *)

BeginWrite ==
  /\ open /\ writer = "out"
  /\ writer' = "writing" /\ left' = WriteSize
  /\ UNCHANGED <<open, timeouts, eventVars, reader, cut, waiter, reads, opens>>

\* A part was written, at once or after a wait.
Written(n) ==
  /\ left' = left - n
  /\ writer' = IF n = left THEN "out" ELSE "writing"
  /\ UNCHANGED <<open, timeouts, eventVars, reader, cut, waiter, reads, opens>>

WriteAtOnce == writer = "writing" /\ \E n \in 1..left : Written(n)

WritePends ==
  /\ writer = "writing"
  /\ writer' = "waiting"
  /\ UNCHANGED <<open, timeouts, eventVars, reader, left, cut, waiter, reads, opens>>

WriteCompletes == writer = "waiting" /\ \E n \in 1..left : Written(n)

\* Fault: a pending write gives up without having been terminated.
WriteGivesUp ==
  /\ writer = "waiting"
  /\ writer' = "out" /\ cut' = TRUE
  /\ UNCHANGED <<open, timeouts, eventVars, reader, left, waiter, reads, opens>>

\* The rest is dropped, and write () returns as if it had been written.
WriteTerminated ==
  /\ writer = "waiting" /\ terminate
  /\ writer' = "out" /\ cut' = TRUE
  /\ UNCHANGED <<open, timeouts, eventVars, reader, left, waiter, reads, opens>>

-----------------------------------------------------------------------------
(* postTerminate ().                                                       *)

PostTerminate(wait) ==
  /\ open /\ reader # "none" /\ waiter # "waiting"
  /\ terminate' = TRUE
  /\ waiter' = IF wait THEN "waiting" ELSE waiter
  /\ UNCHANGED <<open, timeouts, terminated, reader, writer, left, cut, reads, opens>>

WaitReturns ==
  /\ waiter = "waiting" /\ terminated
  /\ waiter' = "back"
  /\ UNCHANGED <<open, timeouts, eventVars, reader, writer, left, cut, reads, opens>>

Next ==
  \/ Open \/ Close
  \/ ReadAtOnce \/ ReadPends \/ ReadCompletes \/ ReadTerminated
  \/ BeginWrite \/ WriteAtOnce \/ WritePends \/ WriteCompletes \/ WriteTerminated
  \/ (\E wait \in BOOLEAN : PostTerminate(wait)) \/ WaitReturns

Spec == Init /\ [][Next]_winVars

\* The threads run; a wait that is entered with m_evntTerminate set returns before the
\* read it has just issued times out.
Fairness ==
  /\ WF_winVars(ReadPends) /\ WF_winVars(ReadCompletes) /\ SF_winVars(ReadTerminated)
  /\ WF_winVars(WaitReturns)
FairSpec == Spec /\ Fairness

-----------------------------------------------------------------------------
\* postTerminate (true) returns when the thread that reads in this session has left
\* receive () for good ("reset termination event on sequential open"); a write is only
\* cut short in a session that was terminated; a closed port has its own timeouts.
WinPortOrderly ==
  /\ waiter = "back" => reader = "stopped"
  /\ cut => terminate
  /\ ~open => timeouts = "original"

\* postTerminate (true) returns, and a reader that was told to stop stops.
WinPortStops ==
  /\ (waiter = "waiting") ~> (waiter # "waiting")
  /\ (terminate /\ reader = "waiting") ~> (reader = "stopped")
=============================================================================
