------------------------------ MODULE IpChannel ------------------------------
(***************************************************************************)
(* CrossClass::posix_ip_channel (crs/bits/): any thread pushes bytes into  *)
(* a pipe that blocks, and the event loop, whose read end does not, hands  *)
(* what it reads to a callback, one read for each event.                   *)
(***************************************************************************)
EXTENDS Naturals, Sequences, SequencesExt

CONSTANTS Pushers,       \* threads, each of which pushes one message
          PushSize,      \* its bytes
          PipeSize,      \* what the pipe holds
          AllocatedSize, \* allocated_size of the callback's data
          Interrupts     \* TRUE: a signal may interrupt write ()

VARIABLES
  pushAt,                \* where each push () is: "out", "writing" or "done"
  msg,                   \* where msg points to, counted from the message's first byte
  bytesRest,             \* bytes_rest
  pipeBytes,             \* what is in the pipe
  called                 \* history: the bytes the callback was called with, one call after another

ipVars == <<pushAt, msg, bytesRest, pipeBytes, called>>

Init ==
  /\ pushAt = [p \in Pushers |-> "out"]
  /\ msg = [p \in Pushers |-> 0] /\ bytesRest = [p \in Pushers |-> 0]
  /\ pipeBytes = <<>> /\ called = <<>>

Push(p) ==
  /\ pushAt[p] = "out"
  /\ pushAt' = [pushAt EXCEPT ![p] = "writing"]
  /\ bytesRest' = [bytesRest EXCEPT ![p] = PushSize]
  /\ UNCHANGED <<msg, pipeBytes, called>>

\* Fault: what is left is written from the beginning again.
WriteAgain(p) ==
  /\ pushAt[p] = "writing"
  /\ \E n \in 1..bytesRest[p] :
       /\ n <= PipeSize - Len(pipeBytes)
       /\ pipeBytes' = pipeBytes \o [i \in 1..n |-> <<p, i>>]
       /\ bytesRest' = [bytesRest EXCEPT ![p] = @ - n]
       /\ pushAt' = [pushAt EXCEPT ![p] = IF n = bytesRest[p] THEN "done" ELSE @]
  /\ UNCHANGED <<msg, called>>

\* write () blocks while the pipe is full, and may take a part.
WriteBytes(p) ==
  /\ pushAt[p] = "writing"
  /\ \E n \in 1..bytesRest[p] :
       /\ n <= PipeSize - Len(pipeBytes)
       /\ pipeBytes' = pipeBytes \o [i \in 1..n |-> <<p, msg[p] + i>>]
       /\ msg' = [msg EXCEPT ![p] = @ + n]
       /\ bytesRest' = [bytesRest EXCEPT ![p] = @ - n]
       /\ pushAt' = [pushAt EXCEPT ![p] = IF n = bytesRest[p] THEN "done" ELSE @]
  /\ UNCHANGED called

\* EINTR: the -1 is taken for a number of bytes.
Interrupted(p) ==
  /\ pushAt[p] = "writing" /\ msg[p] > 0
  /\ msg' = [msg EXCEPT ![p] = @ - 1]
  /\ bytesRest' = [bytesRest EXCEPT ![p] = @ + 1]
  /\ UNCHANGED <<pushAt, pipeBytes, called>>

HandleRead ==
  /\ pipeBytes # <<>>
  /\ LET n == IF Len(pipeBytes) < AllocatedSize THEN Len(pipeBytes) ELSE AllocatedSize
     IN  /\ called' = called \o SubSeq(pipeBytes, 1, n)
         /\ pipeBytes' = SubSeq(pipeBytes, n + 1, Len(pipeBytes))
  /\ UNCHANGED <<pushAt, msg, bytesRest>>

PushStep(p) == IF Interrupts THEN WriteBytes(p) \/ Interrupted(p) ELSE WriteBytes(p)

Next == (\E p \in Pushers : Push(p) \/ PushStep(p)) \/ HandleRead

Spec == Init /\ [][Next]_ipVars

\* The event loop runs, its callback returns, and a thread whose write may go on does.
FairSpec ==
  /\ Spec
  /\ WF_ipVars(HandleRead)
  /\ \A p \in Pushers : SF_ipVars(WriteBytes(p))

-----------------------------------------------------------------------------
\* What a push () has written is what the callbacks get of it, each byte once and in
\* order, though in other pieces than it was pushed (push, handle_read).
Passed == called \o pipeBytes
PushedInOrder ==
  /\ \A i, j \in DOMAIN Passed :
       i < j /\ Passed[i][1] = Passed[j][1] => Passed[i][2] < Passed[j][2]
  /\ \A b \in ToSet(Passed) : \A k \in 1..b[2] : <<b[1], k>> \in ToSet(Passed)
PushedOnce ==
  \A p \in Pushers :
    pushAt[p] = "done" => {b \in ToSet(Passed) : b[1] = p} = {p} \X (1..PushSize)

\* push () returns, though the pipe is smaller than what is pushed.
PushReturns == \A p \in Pushers : (pushAt[p] = "writing") ~> (pushAt[p] = "done")

ChannelServes == [](PushedInOrder /\ PushedOnce) /\ PushReturns
=============================================================================
