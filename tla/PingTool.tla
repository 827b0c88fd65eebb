------------------------------ MODULE PingTool ------------------------------
(***************************************************************************)
(* ude::pingTool (crs/ude/pingtool.cpp): a device that measures round      *)
(* trips.  Its packet holds a mark, value (0), and a time, value (1); what *)
(* it posts is a handle of the same contents until the packet is written   *)
(* to the connection.  Answers come late or not at all.  A time is the     *)
(* number of the request it was read for, the difference to a later one is *)
(* the delta of that request.  One user calls the tool; its mutex is free  *)
(* while the user waits for an answer.                                     *)
(***************************************************************************)
EXTENDS Naturals, Sequences, SequencesExt

CONSTANTS
  PingWays,      \* the user's calls: a subset of {"poll", "timed", "forever"}
  Orderly,       \* TRUE: reset () is called when what was posted is written, and a user
                 \* that has given an answer up by it does not poll before it asks again
  Cleared,       \* TRUE: the memory of a new packet is zero
  MaxPings,      \* bound: requests
  MaxMarks       \* bound: calls of reset ()

VARIABLES
  mark,          \* _packet.value (0)
  time,          \* _packet.value (1)
  expecting,     \* _flag
  user,          \* where the user is: out, or asleep or awake in a call
  way,           \* the call the user is in
  line,          \* the requests on their way, and the answers on their way back
  pings,         \* history: the number of requests
  returned       \* what the last call has returned; Failure while it lasts

pingVars == <<mark, time, expecting, user, way, line, pings, returned>>

Zero == [kind |-> "zero", of |-> 0]
Garbage == [kind |-> "garbage", of |-> 0]
Stamp(n) == [kind |-> "stamp", of |-> n]
Delta(t) == [kind |-> "delta", of |-> t.of]
Failure == [kind |-> "failure", of |-> 0]      \* -1.0 or infinity
Handle == [mark |-> 0, time |-> Zero]          \* a posted packet: the tool's own contents

Init ==
  /\ mark = 1 /\ time \in {Zero} \cup (IF Cleared THEN {} ELSE {Garbage})
  /\ expecting = FALSE /\ user = "out" /\ way = "poll"
  /\ line = <<>> /\ pings = 0 /\ returned = Failure

Return(value) == user' = "out" /\ returned' = value

\* The time is read, the packet posted and an answer expected.
Request ==
  /\ pings < MaxPings
  /\ time' = Stamp(pings + 1) /\ pings' = pings + 1
  /\ line' = Append(line, Handle)
  /\ expecting' = TRUE

\* What was measured is returned and forgotten.
Collect == Return(time) /\ time' = Zero

\* Without waiting: asks, or collects what has been measured since it has asked.
Poll ==
  /\ user = "out" /\ "poll" \in PingWays
  /\ Orderly => expecting \/ time.kind # "stamp"
  /\ \/ expecting /\ Return(Failure) /\ UNCHANGED <<time, expecting, line, pings>>
     \/ ~expecting /\ time = Zero /\ Request /\ Return(Failure)
     \/ ~expecting /\ time # Zero /\ Collect /\ UNCHANGED <<expecting, line, pings>>
  /\ UNCHANGED <<mark, way>>

Ping(w) ==
  /\ user = "out" /\ w \in PingWays \ {"poll"}
  /\ \/ expecting /\ Return(Failure) /\ UNCHANGED <<time, expecting, line, pings, way>>
     \/ ~expecting /\ Request /\ user' = "asleep" /\ way' = w /\ returned' = Failure
  /\ UNCHANGED mark

\* Only the timed wait has a predicate.
Awake ==
  /\ user = "awake"
  /\ IF way = "timed" /\ expecting
     THEN user' = "asleep" /\ UNCHANGED <<time, expecting, returned>>
     ELSE Collect /\ expecting' = FALSE
  /\ UNCHANGED <<mark, way, line, pings>>

SpuriousWakeup ==
  /\ user = "asleep" /\ user' = "awake"
  /\ UNCHANGED <<mark, time, expecting, way, line, pings, returned>>

\* Fault: a call that gives up expects no answer any more.
ExpireForgetting ==
  /\ user = "asleep" /\ way = "timed"
  /\ expecting' = FALSE
  /\ IF expecting THEN Return(Failure) /\ time' = Zero ELSE Collect
  /\ UNCHANGED <<mark, way, line, pings>>

\* A call that gives up leaves the tool expecting the answer.
Expire ==
  /\ user = "asleep" /\ way = "timed"
  /\ IF expecting
     THEN Return(Failure) /\ UNCHANGED <<time, expecting>>
     ELSE Collect /\ UNCHANGED expecting
  /\ UNCHANGED <<mark, way, line, pings>>

\* A new mark, and no answer is expected any more; the time is left.
Reset ==
  /\ user = "out" /\ mark < MaxMarks
  /\ Orderly => \A i \in DOMAIN line : line[i] # Handle
  /\ mark' = mark + 1 /\ expecting' = FALSE
  /\ UNCHANGED <<time, user, way, line, pings, returned>>

\* A posted packet is written: from now on its contents are its own.
Write(i) ==
  /\ line[i] = Handle
  /\ line' = [line EXCEPT ![i] = [mark |-> mark, time |-> time]]
  /\ UNCHANGED <<mark, time, expecting, user, way, pings, returned>>

\* Fault: the mark is not looked at.
TakeAnyMark ==
  /\ line # <<>> /\ line' = Tail(line)
  /\ LET packet == IF Head(line) = Handle THEN [mark |-> mark, time |-> time] ELSE Head(line)
     IN  IF expecting
         THEN /\ expecting' = FALSE /\ time' = Delta(packet.time)
              /\ user' = IF user = "asleep" THEN "awake" ELSE user
         ELSE UNCHANGED <<expecting, time, user>>
  /\ UNCHANGED <<mark, way, pings, returned>>

\* A packet is delivered: the answer of a server, or what the device manager of the
\* tool's own process delivers without having sent it.
Take ==
  /\ line # <<>>
  /\ LET packet == IF Head(line) = Handle THEN [mark |-> mark, time |-> time] ELSE Head(line)
     IN  IF expecting /\ packet.mark = mark
         THEN /\ expecting' = FALSE /\ time' = Delta(packet.time)
              /\ user' = IF user = "asleep" THEN "awake" ELSE user
         ELSE UNCHANGED <<expecting, time, user>>
  /\ line' = Tail(line)
  /\ UNCHANGED <<mark, way, pings, returned>>

\* Nobody answers.
Lose ==
  /\ line # <<>> /\ line' = Tail(line)
  /\ UNCHANGED <<mark, time, expecting, user, way, pings, returned>>

Next ==
  \/ Poll \/ (\E w \in PingWays : Ping(w)) \/ Awake \/ SpuriousWakeup \/ Expire \/ Reset
  \/ (\E i \in DOMAIN line : Write(i)) \/ Take \/ Lose

Spec == Init /\ [][Next]_pingVars

-----------------------------------------------------------------------------
\* Type invariant.
TypeOK ==
  LET Times == [kind : {"zero", "garbage", "stamp", "delta"}, of : 0..MaxPings]
  IN  /\ mark \in 1..MaxMarks /\ time \in Times /\ pings \in 0..MaxPings
      /\ expecting \in BOOLEAN /\ user \in {"out", "asleep", "awake"}
      /\ way \in {"poll", "timed", "forever"}
      /\ line \in Seq([mark : 0..MaxMarks, time : Times])
      /\ returned \in Times \cup {Failure}

\* What the tool returns is a round trip, and that of its latest request: never a time,
\* never what is in a fresh packet, never the answer to an earlier request, although
\* answers to several may be on their way when calls have given up and reset () has made
\* a new mark (ping, reset, take; pingtool.cpp:48, 75, 107, 114).
OwnRoundTrip == returned = Failure \/ returned = Delta(Stamp(pings))
=============================================================================
