----------------------------- MODULE ClientStub -----------------------------
(***************************************************************************)
(* ude::client_stub (crs/ude/server.cpp): the server's end of a            *)
(* connection.  As a device it takes packets, which it hands to            *)
(* send_packet () or, when the output is busy, keeps in _queue.  They come *)
(* from the request thread and from callers of register_request () while   *)
(* the event loop asks want2write (), waits, and calls handle_write ().    *)
(* Packets are written whole here: NetPeer.tla says how.                   *)
(***************************************************************************)
EXTENDS Sequences, SequencesExt

CONSTANTS Parcels      \* the packets, each of which is taken once

VARIABLES queue,       \* _queue
          sending,     \* the packets in _outBuf: none, or one, which is _outFlag
          loopAt,      \* where the loop is; it holds _queueMutex while it writes
          refused,     \* packets that take () could not send and has not queued yet
          via,         \* history: how the packet in _outBuf came there
          took,        \* history: the packets take () has sent and those it had to queue
          wrote        \* history: the packets of either kind that were written

stubVars == <<queue, sending, loopAt, refused, via, took, wrote>>

Kinds == {"direct", "queued"}
Writing == loopAt \in {"writing", "written"}

Init ==
  /\ queue = <<>> /\ sending = <<>> /\ refused = <<>>
  /\ loopAt = "prepare" /\ via = "direct"
  /\ took = [k \in Kinds |-> <<>>] /\ wrote = [k \in Kinds |-> <<>>]

\* send_packet does nothing while a packet is being sent.
SendPacket(p, k) == sending = <<>> /\ sending' = <<p>> /\ via' = k

\* One call at a time: deliver_response holds _dnsMutex.
Take(p) ==
  /\ refused = <<>> /\ \A k \in Kinds : ~Contains(took[k], p)
  /\ \/ /\ SendPacket(p, "direct") /\ UNCHANGED refused
        /\ took' = [took EXCEPT !["direct"] = Append(@, p)]
     \/ /\ sending # <<>> /\ refused' = <<p>> /\ UNCHANGED <<sending, via>>
        /\ took' = [took EXCEPT !["queued"] = Append(@, p)]
  /\ UNCHANGED <<queue, loopAt, wrote>>

\* take () goes on, once it has _queueMutex; it does not look at the output again.
PushBack ==
  /\ refused # <<>> /\ ~Writing
  /\ queue' = queue \o refused /\ refused' = <<>>
  /\ UNCHANGED <<sending, loopAt, via, took, wrote>>

\* Fault: output is wanted when packets are queued, not when one is being sent.
PrepareQueued ==
  /\ loopAt = "prepare"
  /\ loopAt' = IF queue # <<>> THEN "armed" ELSE "asleep"
  /\ UNCHANGED <<queue, sending, refused, via, took, wrote>>

\* The loop asks want2write () and polls the socket for output, or only for input.
Prepare ==
  /\ loopAt = "prepare"
  /\ loopAt' = IF sending # <<>> THEN "armed" ELSE "asleep"
  /\ UNCHANGED <<queue, sending, refused, via, took, wrote>>

\* Input, a restart, or the time-out of the poll; a call of take () is none of them.
WakeUp ==
  /\ loopAt \in {"asleep", "armed"} /\ loopAt' = "prepare"
  /\ UNCHANGED <<queue, sending, refused, via, took, wrote>>

\* The socket is ready for output.
HandleWrite ==
  /\ loopAt = "armed" /\ loopAt' = "writing"
  /\ UNCHANGED <<queue, sending, refused, via, took, wrote>>

\* net_peer::handle_write () writes what there is, or as much as the socket takes: the
\* call then says so and the loop ends.
WriteOut ==
  /\ loopAt = "writing"
  /\ \/ sending # <<>> /\ loopAt' = "prepare" /\ UNCHANGED <<sending, wrote>>
     \/ /\ wrote' = [wrote EXCEPT ![via] = @ \o sending]
        /\ sending' = <<>> /\ loopAt' = "written"
  /\ UNCHANGED <<queue, refused, via, took>>

\* Fault: the packet that was handed on stays in the queue.
SendNextAgain ==
  /\ loopAt = "written"
  /\ IF queue # <<>> /\ sending = <<>>
     THEN SendPacket(Head(queue), "queued") /\ loopAt' = "writing"
     ELSE loopAt' = "prepare" /\ UNCHANGED <<sending, via>>
  /\ UNCHANGED <<queue, refused, took, wrote>>

\* The output is free: the next packet of the queue, unless take () was faster.
SendNext ==
  /\ loopAt = "written"
  /\ IF queue # <<>> /\ sending = <<>>
     THEN SendPacket(Head(queue), "queued") /\ queue' = Tail(queue) /\ loopAt' = "writing"
     ELSE loopAt' = "prepare" /\ UNCHANGED <<queue, sending, via>>
  /\ UNCHANGED <<refused, took, wrote>>

Next ==
  \/ \E p \in Parcels : Take(p)
  \/ PushBack \/ Prepare \/ WakeUp \/ HandleWrite \/ WriteOut \/ SendNext

Loop == Prepare \/ HandleWrite \/ WriteOut \/ SendNext
Ready == HandleWrite
Done == WriteOut /\ loopAt' = "written"

Spec == Init /\ [][Next]_stubVars

\* The loop runs; the peer reads, so that the socket has room again and again; nothing
\* has to wake the loop up.
Fairness == WF_stubVars(Loop) /\ SF_stubVars(Ready) /\ SF_stubVars(Done)
FairSpec == Spec /\ Fairness

-----------------------------------------------------------------------------
\* Type invariant.
TypeOK ==
  /\ queue \in Seq(Parcels) /\ sending \in Seq(Parcels) /\ refused \in Seq(Parcels)
  /\ Len(sending) <= 1 /\ Len(refused) <= 1 /\ via \in Kinds
  /\ loopAt \in {"prepare", "asleep", "armed", "writing", "written"}
  /\ took \in [Kinds -> Seq(Parcels)] /\ wrote \in [Kinds -> Seq(Parcels)]

\* "always take all packets" (server.cpp:118): whichever thread calls, a packet is on the
\* socket or waits in one place, once; and neither of those that were sent at once nor
\* of those that were queued does one overtake another.
InOutput(k) == IF via = k THEN sending ELSE <<>>
StubLosesNothing ==
  /\ took["direct"] = wrote["direct"] \o InOutput("direct")
  /\ took["queued"] = wrote["queued"] \o InOutput("queued") \o queue \o refused

\* What waits in the output, or in the queue behind a packet in the output, is written
\* if the loop is awake or polls for output.
StubSendsOn ==
  \A p \in Parcels :
    (Contains(sending \o queue, p) /\ sending # <<>> /\ loopAt # "asleep")
      ~> \E k \in Kinds : Contains(wrote[k], p)

StubForwards == []StubLosesNothing /\ StubSendsOn

\* It does not hold that what was taken is written.  The loop can be asleep; and it can
\* empty the output between the two halves of take (), which then leaves its packet in
\* the queue until another one is sent, and the other one overtakes it.
StubSendsAll ==
  \A p \in Parcels :
    (\E k \in Kinds : Contains(took[k], p)) ~> (\E k \in Kinds : Contains(wrote[k], p))
StubNeverStuck == queue # <<>> /\ ~Writing => sending # <<>>
=============================================================================
