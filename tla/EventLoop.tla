------------------------------ MODULE EventLoop ------------------------------
(***************************************************************************)
(* CrossClass::event_loop with epoll (crs/eveloop.h,                       *)
(* crs/bits/posix.eveloop.cpp): the thread that runs "while (runOnce ())", *)
(* user threads that add, remove and feed descriptors, and threads that    *)
(* terminate the loop through its control pipe.  A critical section is one *)
(* step, except that handle_events keeps descriptors_list_mutex from its   *)
(* first event to its last.  The control pipe is a set: check_terminate    *)
(* empties it whatever its length.                                         *)
(***************************************************************************)
EXTENDS Naturals, FiniteSets

CONSTANTS Fds,         \* file descriptors of event_descriptor objects
          ControlFd,   \* the read end of control_pipe
          Prepared,    \* the descriptors whose needs_prepare () is true
          Users,       \* threads that call add, remove and push
          UserOps,     \* the calls they make: a subset of {"add", "push", "remove"}
          AnyOrder,    \* FALSE: a descriptor is added after all lower ones
          Waiters,     \* threads that call terminate (true)
          Posters      \* threads that call terminate (false)

ASSUME EventLoopAssumption ==
  /\ Fds \subseteq Nat /\ IsFiniteSet(Fds)
  /\ ControlFd \in Nat \ Fds
  /\ Prepared \subseteq Fds
  /\ UserOps \subseteq {"add", "push", "remove"}
  /\ AnyOrder \in BOOLEAN
  /\ Waiters \cap Posters = {}

Terminators == Waiters \cup Posters

VARIABLES
  listed,         \* fds with a non-null pointer in the memory of descriptors_list
  listSize,       \* descriptors_list.size ()
  prepareList,    \* the descriptors in prepare_list
  watched,        \* fds in the epoll set, besides the control pipe
  polledOut,      \* watched fds polled for EPOLLOUT too
  slots,          \* events.size (), what epoll_wait may return at most
  ready,          \* fds with input, or hung up
  wants,          \* fds whose want2write () is true
  pipe,           \* kinds of bytes in the control pipe
  edge,           \* the edge-triggered pipe was written since epoll reported it
  restartFlag,    \* restart_flag
  loop,           \* where the loop thread is
  batchIn,        \* EPOLLIN events not handled yet
  batchOut,       \* EPOLLOUT events not handled yet
  gotTerminate,   \* we_got_terminate_signal
  terminateFlag,  \* terminate_flag
  term,           \* where each terminating thread is
  op              \* where each user thread is, and with which descriptor

loopVars == <<loop, batchIn, batchOut, gotTerminate>>
listVars == <<listed, listSize, prepareList, watched, polledOut, slots>>
pipeVars == <<pipe, edge>>
vars == <<listVars, ready, wants, pipeVars, restartFlag, loopVars,
          terminateFlag, term, op>>

Idle == [at |-> "idle", fd |-> ControlFd]

Init ==
  /\ listed = {} /\ listSize = 0 /\ prepareList = {}
  /\ watched = {} /\ polledOut = {} /\ slots = 1
  /\ ready = {} /\ wants = {}
  /\ pipe = {} /\ edge = FALSE /\ restartFlag = FALSE
  /\ loop = "prepare" /\ batchIn = {} /\ batchOut = {} /\ gotTerminate = FALSE
  /\ terminateFlag = FALSE
  /\ term = [w \in Terminators |-> "idle"]
  /\ op = [u \in Users |-> Idle]

\* descriptors_list_mutex is not held by the loop thread.
MutexFree == loop \notin {"dispatch", "notify", "leaving"}

PipeOut(byte) == pipe' = pipe \cup {byte} /\ edge' = TRUE

-----------------------------------------------------------------------------
(* The descriptor list.                                                    *)

\* resize (fd + 1, 0) makes fd the last entry: it shortens the list when a higher
\* descriptor is listed, and when the list grows again the entries in between are
\* null, those that were cut off included.
AddDescriptor(fd) ==
  /\ listed' = {f \in listed : f < listSize \/ fd < f} \cup {fd}
  /\ listSize' = fd + 1
  /\ prepareList' = prepareList \cup ({fd} \cap Prepared)
  /\ watched' = watched \cup {fd}
  /\ slots' = slots + 1
  /\ UNCHANGED polledOut

\* Fault: the descriptor stays in the epoll set.
RemoveDescriptorKeepingWatch(fd) ==
  IF fd < listSize /\ fd \notin listed
  THEN UNCHANGED listVars
  ELSE /\ listed' = listed \ {fd}
       /\ prepareList' = prepareList \ {fd}
       /\ slots' = slots - 1
       /\ UNCHANGED <<listSize, watched, polledOut>>

\* Fault: the events array is not shortened when a descriptor goes.
RemoveDescriptorKeepingSlot(fd) ==
  IF fd < listSize /\ fd \notin listed
  THEN UNCHANGED listVars
  ELSE /\ listed' = listed \ {fd}
       /\ prepareList' = prepareList \ {fd}
       /\ watched' = watched \ {fd}
       /\ polledOut' = polledOut \ {fd}
       /\ UNCHANGED <<listSize, slots>>

RemoveDescriptor(fd) ==
  IF fd < listSize /\ fd \notin listed
  THEN UNCHANGED listVars
  ELSE /\ listed' = listed \ {fd}
       /\ prepareList' = prepareList \ {fd}
       /\ watched' = watched \ {fd}
       /\ polledOut' = polledOut \ {fd}
       /\ slots' = slots - 1
       /\ UNCHANGED listSize

-----------------------------------------------------------------------------
(* The loop thread: prepare, do_poll, handle_events, over and over.        *)

\* Listed descriptors are polled for output as they want to write; the others are
\* dropped from epoll and from the prepare list.
Prepare ==
  /\ loop = "prepare"
  /\ LET dropped == prepareList \ listed
     IN  /\ watched' = watched \ dropped
         /\ prepareList' = prepareList \ dropped
         /\ slots' = slots - Cardinality(dropped)
         /\ polledOut' = prepareList \cap listed \cap wants
  /\ loop' = "poll"
  /\ UNCHANGED <<listed, listSize, ready, wants, pipeVars, restartFlag, batchIn,
                 batchOut, gotTerminate, terminateFlag, term, op>>

\* epoll_wait reports the pipe once per write; the rest is level-triggered.  There
\* is room for every event (SlotsMatch), and a descriptor polled for output is
\* taken to be writable.
DoPoll ==
  /\ loop = "poll"
  /\ batchIn' = (ready \cap watched) \cup {f \in {ControlFd} : edge}
  /\ batchOut' = polledOut
  /\ batchIn' \cup batchOut' # {}
  /\ edge' = FALSE
  /\ loop' = "flag"
  /\ UNCHANGED <<listVars, ready, wants, pipe, restartFlag, gotTerminate,
                 terminateFlag, term, op>>

\* A hard restart drops the whole batch, events of the control pipe included.
CheckRestartFlag ==
  /\ loop = "flag"
  /\ \/ /\ restartFlag
        /\ restartFlag' = FALSE
        /\ loop' = "prepare" /\ batchIn' = {} /\ batchOut' = {}
     \/ /\ ~restartFlag
        /\ loop' = "lock"
        /\ UNCHANGED <<restartFlag, batchIn, batchOut>>
  /\ UNCHANGED <<listVars, ready, wants, pipeVars, gotTerminate, terminateFlag, term, op>>

LockList ==
  /\ loop = "lock"
  /\ loop' = "dispatch"
  /\ gotTerminate' = FALSE
  /\ UNCHANGED <<listVars, ready, wants, pipeVars, restartFlag, batchIn, batchOut,
                 terminateFlag, term, op>>

\* Fault: the waiting thread is confirmed as soon as the byte is read.
HandleControlConfirming ==
  /\ loop = "dispatch" /\ ControlFd \in batchIn
  /\ gotTerminate' = ("T" \in pipe)
  /\ terminateFlag' = (terminateFlag \/ "T" \in pipe)
  /\ pipe' = {}
  /\ edge' = FALSE
  /\ batchIn' = batchIn \ {ControlFd}
  /\ UNCHANGED <<listVars, ready, wants, restartFlag, loop, batchOut, term, op>>

\* Fault: a pipe that holds both kinds of bytes is taken for a restart.
HandleControlExact ==
  /\ loop = "dispatch" /\ ControlFd \in batchIn
  /\ gotTerminate' = (pipe = {"T"})
  /\ pipe' = {}
  /\ edge' = FALSE
  /\ batchIn' = batchIn \ {ControlFd}
  /\ UNCHANGED <<listVars, ready, wants, restartFlag, loop, batchOut,
                 terminateFlag, term, op>>

\* check_terminate empties the pipe.
HandleControl ==
  /\ loop = "dispatch" /\ ControlFd \in batchIn
  /\ gotTerminate' = ("T" \in pipe)
  /\ pipe' = {}
  /\ edge' = FALSE
  /\ batchIn' = batchIn \ {ControlFd}
  /\ UNCHANGED <<listVars, ready, wants, restartFlag, loop, batchOut,
                 terminateFlag, term, op>>

\* handle_read and handle_write of a descriptor, or, when they or the descriptor
\* fail, handle_disconnect and remove_descriptor.  An fd without an entry is a
\* null pointer; one past the end of the list is undefined, with the old pointer
\* still there as long as the memory is.
HandleDescriptor(fd) ==
  /\ loop = "dispatch" /\ fd \in batchIn \cup batchOut
  /\ batchIn' = batchIn \ {fd}
  /\ batchOut' = batchOut \ {fd}
  /\ \/ /\ fd \notin listed
        /\ loop' = "crashed"
        /\ UNCHANGED <<listVars, ready, wants>>
     \/ /\ fd \in listed
        /\ ready' = IF fd \in batchIn THEN ready \ {fd} ELSE ready
        /\ wants' = IF fd \in batchOut THEN wants \ {fd} ELSE wants
        /\ UNCHANGED <<listVars, loop>>
     \/ /\ fd \in listed
        /\ ready' = ready \ {fd}
        /\ wants' = wants \ {fd}
        /\ RemoveDescriptor(fd)
        /\ UNCHANGED loop
  /\ UNCHANGED <<pipeVars, restartFlag, gotTerminate, terminateFlag, term, op>>

\* Fault: the last event, that of the control pipe, is left out.
FinishBatchEarly ==
  /\ loop = "dispatch" /\ batchIn \cup batchOut \subseteq {ControlFd}
  /\ loop' = IF gotTerminate THEN "notify" ELSE "prepare"
  /\ batchIn' = {}
  /\ UNCHANGED <<listVars, ready, wants, pipeVars, restartFlag, batchOut,
                 gotTerminate, terminateFlag, term, op>>

FinishBatch ==
  /\ loop = "dispatch" /\ batchIn \cup batchOut = {}
  /\ loop' = IF gotTerminate THEN "notify" ELSE "prepare"
  /\ UNCHANGED <<listVars, ready, wants, pipeVars, restartFlag, batchIn, batchOut,
                 gotTerminate, terminateFlag, term, op>>

\* notify_terminate wakes one waiting thread, still under descriptors_list_mutex.
NotifyTerminate ==
  /\ loop = "notify"
  /\ terminateFlag' = TRUE
  /\ \/ {w \in Terminators : term[w] = "asleep"} = {} /\ UNCHANGED term
     \/ \E w \in Terminators : term[w] = "asleep" /\ term' = [term EXCEPT ![w] = "test"]
  /\ loop' = "leaving"
  /\ UNCHANGED <<listVars, ready, wants, pipeVars, restartFlag, batchIn, batchOut,
                 gotTerminate, op>>

LeaveLoop ==
  /\ loop = "leaving"
  /\ loop' = "ended"
  /\ UNCHANGED <<listVars, ready, wants, pipeVars, restartFlag, batchIn, batchOut,
                 gotTerminate, terminateFlag, term, op>>

LoopStep ==
  \/ Prepare \/ DoPoll \/ CheckRestartFlag \/ LockList \/ HandleControl
  \/ \E fd \in Fds : HandleDescriptor(fd)
  \/ FinishBatch \/ NotifyTerminate \/ LeaveLoop

-----------------------------------------------------------------------------
(* terminate (fWaitConfirmation).                                          *)

PostTerminate(w) ==
  /\ term[w] = "idle"
  /\ PipeOut("T")
  /\ term' = [term EXCEPT ![w] = IF w \in Waiters THEN "test" ELSE "done"]
  /\ UNCHANGED <<listVars, ready, wants, restartFlag, loopVars, terminateFlag, op>>

TestTerminateFlag(w) ==
  /\ term[w] = "test"
  /\ term' = [term EXCEPT ![w] = IF terminateFlag THEN "done" ELSE "asleep"]
  /\ terminateFlag' = FALSE
  /\ UNCHANGED <<listVars, ready, wants, pipeVars, restartFlag, loopVars, op>>

-----------------------------------------------------------------------------
(* The user threads.                                                       *)

Add(u, fd) ==
  /\ op[u] = Idle /\ "add" \in UserOps /\ MutexFree
  /\ fd \notin watched \cup listed
  /\ AnyOrder \/ \A f \in listed : f < fd
  /\ AddDescriptor(fd)
  /\ op' = [op EXCEPT ![u] = [at |-> "restart", fd |-> fd]]
  /\ UNCHANGED <<ready, wants, pipeVars, restartFlag, loopVars, terminateFlag, term>>

\* A descriptor gets something to write; its sender then calls restart (false).
Push(u, fd) ==
  /\ op[u] = Idle /\ "push" \in UserOps
  /\ fd \in listed \cap Prepared
  /\ wants' = wants \cup {fd}
  /\ op' = [op EXCEPT ![u] = [at |-> "restart", fd |-> fd]]
  /\ UNCHANGED <<listVars, ready, pipeVars, restartFlag, loopVars, terminateFlag, term>>

\* Fault: the loop is not told.
RestartSilently(u) ==
  /\ op[u].at = "restart"
  /\ op' = [op EXCEPT ![u] = Idle]
  /\ UNCHANGED <<listVars, ready, wants, pipeVars, restartFlag, loopVars,
                 terminateFlag, term>>

Restart(u) ==
  /\ op[u].at = "restart"
  /\ PipeOut("R")
  /\ op' = [op EXCEPT ![u] = Idle]
  /\ UNCHANGED <<listVars, ready, wants, restartFlag, loopVars, terminateFlag, term>>

\* remove: restart (true) sets the flag and writes to the pipe, then the
\* descriptor is taken out under the mutex.
Remove(u, fd) ==
  /\ op[u] = Idle /\ "remove" \in UserOps
  /\ fd \in watched \/ fd < listSize
  /\ restartFlag' = TRUE
  /\ op' = [op EXCEPT ![u] = [at |-> "hardRestart", fd |-> fd]]
  /\ UNCHANGED <<listVars, ready, wants, pipeVars, loopVars, terminateFlag, term>>

HardRestart(u) ==
  /\ op[u].at = "hardRestart"
  /\ PipeOut("R")
  /\ op' = [op EXCEPT ![u].at = "unlink"]
  /\ UNCHANGED <<listVars, ready, wants, restartFlag, loopVars, terminateFlag, term>>

Unlink(u) ==
  /\ op[u].at = "unlink" /\ MutexFree
  /\ IF op[u].fd \in watched \/ op[u].fd < listSize
     THEN RemoveDescriptor(op[u].fd)
     ELSE UNCHANGED listVars     \* epoll_ctl fails, and remove throws
  /\ ready' = ready \ {op[u].fd}
  /\ wants' = wants \ {op[u].fd}
  /\ op' = [op EXCEPT ![u] = Idle]
  /\ UNCHANGED <<pipeVars, restartFlag, loopVars, terminateFlag, term>>

\* The peer of a descriptor sends something or hangs up.
Arrive(fd) ==
  /\ fd \in watched \ ready
  /\ ready' = ready \cup {fd}
  /\ UNCHANGED <<listVars, wants, pipeVars, restartFlag, loopVars, terminateFlag, term, op>>

UserStep(u) ==
  \/ \E fd \in Fds : Add(u, fd) \/ Push(u, fd) \/ Remove(u, fd)
  \/ Restart(u) \/ HardRestart(u) \/ Unlink(u)

-----------------------------------------------------------------------------
\* A crash of the loop thread ends the process; no property looks past it.
Next ==
  \/ LoopStep
  \/ \E w \in Terminators : PostTerminate(w) \/ TestTerminateFlag(w)
  \/ \E u \in Users : UserStep(u)
  \/ \E fd \in Fds : Arrive(fd)

Spec == Init /\ [][Next]_vars

\* The loop thread runs while it can, a call that was begun is carried on, and
\* epoll_wait blocks only without events.
FairSpec ==
  /\ Spec
  /\ WF_vars(LoopStep)
  /\ \A w \in Terminators : WF_vars(TestTerminateFlag(w))
  /\ \A u \in Users :
       WF_vars(Restart(u) \/ HardRestart(u) \/ Unlink(u))

-----------------------------------------------------------------------------
\* Type invariant.
TypeOK ==
  /\ listed \subseteq Fds /\ listSize \in Nat
  /\ prepareList \subseteq Prepared
  /\ watched \subseteq Fds /\ polledOut \subseteq prepareList
  /\ slots \in Nat
  /\ ready \subseteq Fds /\ wants \subseteq Prepared
  /\ pipe \subseteq {"R", "T"} /\ edge \in BOOLEAN /\ restartFlag \in BOOLEAN
  /\ loop \in {"prepare", "poll", "flag", "lock", "dispatch", "notify", "leaving",
               "ended", "crashed"}
  /\ batchIn \subseteq Fds \cup {ControlFd} /\ batchOut \subseteq Prepared
  /\ gotTerminate \in BOOLEAN /\ terminateFlag \in BOOLEAN
  /\ term \in [Terminators -> {"idle", "test", "asleep", "done"}]
  /\ op \in [Users -> [at : {"idle", "restart", "hardRestart", "unlink"},
                       fd : Fds \cup {ControlFd}]]

\* events has one entry for the control pipe and one for each watched descriptor,
\* through every order of adds, removes and disconnects (lines 312, 355, 384).
SlotsMatch == slots = Cardinality(watched) + 1

\* Adding a descriptor keeps the ones that are registered: whatever epoll watches
\* has its entry in descriptors_list (add_descriptor, lines 281-314).
WatchedHasDescriptor == watched \subseteq listed

\* Only descriptors with an entry are called (handle_events, lines 476-502).
NoNullDispatch == loop # "crashed"

\* A terminate byte in the pipe always has a wake-up that will make the loop read
\* it: an edge epoll still has to report, or an event in the current batch.
NoLostTerminate ==
  "T" \in pipe =>
    edge \/ ControlFd \in batchIn \/ loop \in {"notify", "leaving", "ended", "crashed"}

\* terminate (true) returns only after the loop has called its last descriptor:
\* the batch that holds the terminate byte is finished first (lines 540-544).
ConfirmedAfterLastDispatch ==
  (\E w \in Waiters : term[w] = "done") => loop \in {"leaving", "ended"}

\* terminate (true) ends: the loop reads the byte and confirms.  Calls of remove
\* that never stop may hold the loop up for ever; ones that do stop must not.
TerminationConfirmed ==
  <>[](\A u \in Users : op[u].at \in {"idle", "restart"}) =>
    \A w \in Waiters : term[w] = "test" ~> (term[w] = "done" \/ loop = "crashed")

\* A descriptor that wants to write is written to, or removed, unless the loop
\* is terminated first: restart makes the loop poll for output.
WantServed ==
  \A fd \in Prepared :
    fd \in wants ~> (fd \notin wants \/ loop \in {"leaving", "ended"})
=============================================================================
