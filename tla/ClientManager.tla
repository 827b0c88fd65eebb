---------------------------- MODULE ClientManager ----------------------------
(***************************************************************************)
(* ude::client_device_manager over ude::netPoint (crs/ude/client.cpp,      *)
(* netpoint.cpp), as src/test/client.cpp drives it: one thread calls       *)
(* clientSendRecv (), which receives and transmits what it can, lets its   *)
(* devices post packets and calls proceed_request () until the outbox is   *)
(* empty.  A packet is a header and its contents, which the connection may *)
(* bring separately; NetPeer.tla has the bytes.                            *)
(***************************************************************************)
EXTENDS Naturals, Sequences, SequencesExt

CONSTANTS Requests,    \* packets that devices post, each once
          Responses    \* packets the server sends, each once

VARIABLES
  requests,        \* _outbox
  outgoing,        \* _outBuf while _outFlag is up, else none
  outParts,        \* _outVirtualBytes: how many parts of it were written
  outWire,         \* history: the parts that were written
  inWire,          \* parts on their way from the server
  answers,         \* history: the packets the server has sent
  incoming,        \* _inPacket while _inBytesRest # 0, else none
  delivered,       \* history: the packets that were delivered to devices
  asked            \* history: the packets that were posted, in order

clientVars == <<requests, outgoing, outParts, outWire, inWire, answers, incoming,
                delivered, asked>>

Parts(p) == <<[packet |-> p, part |-> "header"], [packet |-> p, part |-> "contents"]>>

Init ==
  /\ requests = <<>> /\ outgoing = <<>> /\ outParts = 0 /\ outWire = <<>>
  /\ inWire = <<>> /\ answers = <<>> /\ incoming = <<>>
  /\ delivered = <<>> /\ asked = <<>>

inVars == <<inWire, answers, incoming, delivered>>
outVars == <<requests, outgoing, outParts, outWire, asked>>

-----------------------------------------------------------------------------
Post(p) ==
  /\ ~Contains(asked, p)
  /\ asked' = Append(asked, p) /\ requests' = Append(requests, p)
  /\ UNCHANGED <<outgoing, outParts, outWire, inVars>>

\* Fault: a packet takes the place of the one that is being sent.
SendPacketAnyway(p) == outgoing' = <<p>> /\ outParts' = 0

\* sendPacket () refuses a packet while another one is being sent.
SendPacket(p) ==
  IF outgoing = <<>> THEN outgoing' = <<p>> /\ outParts' = 0
  ELSE UNCHANGED <<outgoing, outParts>>

\* The result of _send () is not looked at: a refused packet is gone.
ProceedRequest ==
  /\ requests # <<>>
  /\ SendPacket(Head(requests)) /\ requests' = Tail(requests)
  /\ UNCHANGED <<outWire, asked, inVars>>

\* transmit (): the socket takes n parts, and then no more or the packet is done.
Transmit(n) ==
  /\ outgoing # <<>> /\ outParts + n <= 2
  /\ outWire' = outWire \o SubSeq(Parts(outgoing[1]), outParts + 1, outParts + n)
  /\ IF outParts + n = 2 THEN outgoing' = <<>> /\ outParts' = 0
     ELSE outParts' = outParts + n /\ UNCHANGED outgoing
  /\ UNCHANGED <<requests, asked, inVars>>

-----------------------------------------------------------------------------
Respond(p) ==
  /\ ~Contains(answers, p)
  /\ answers' = Append(answers, p) /\ inWire' = inWire \o Parts(p)
  /\ UNCHANGED <<incoming, delivered, outVars>>

\* Fault: contents that come alone are taken for a packet of their own.
ReceiveApart(n) ==
  LET bytes == incoming \o SubSeq(inWire, 1, n)
  IN  /\ n <= Len(inWire)
      /\ inWire' = SubSeq(inWire, n + 1, Len(inWire))
      /\ delivered' = delivered \o [i \in 1..(n + 1) \div 2 |-> bytes[2 * i - 1].packet]
      /\ UNCHANGED <<incoming, answers, outVars>>

\* receive () of both classes: n parts come, the packets they complete are queued, and
\* the queue is delivered and left empty.
Receive(n) ==
  LET bytes == incoming \o SubSeq(inWire, 1, n)
      whole == Len(bytes) \div 2
  IN  /\ n <= Len(inWire)
      /\ inWire' = SubSeq(inWire, n + 1, Len(inWire))
      /\ incoming' = SubSeq(bytes, 2 * whole + 1, Len(bytes))
      /\ delivered' = delivered \o [i \in 1..whole |-> bytes[2 * i - 1].packet]
      /\ UNCHANGED <<answers, outVars>>

Next ==
  \/ \E p \in Requests : Post(p)
  \/ ProceedRequest
  \/ \E n \in 1..2 : Transmit(n)
  \/ \E p \in Responses : Respond(p)
  \/ \E n \in 1..2 * Len(inWire) : Receive(n)

Spec == Init /\ [][Next]_clientVars

-----------------------------------------------------------------------------
\* Type invariant.
TypeOK ==
  /\ asked \in Seq(Requests) /\ requests \in Seq(Requests) /\ outgoing \in Seq(Requests)
  /\ Len(outgoing) <= 1 /\ outParts \in 0..1
  /\ answers \in Seq(Responses) /\ delivered \in Seq(Responses) 
  /\ Len(incoming) <= 1

\* On the wire are posted packets, whole and each in its turn, whatever is posted while
\* one is being sent; and what the server has sent is delivered whole and in its turn.
WireIsWhole ==
  /\ \E turn \in [1..(Len(outWire) + 1) \div 2 -> DOMAIN asked] :
       /\ \A i, j \in DOMAIN turn : i < j => turn[i] < turn[j]
       /\ \A i \in DOMAIN turn : LET parts == Parts(asked[turn[i]])
                                 IN  /\ outWire[2 * i - 1] = parts[1]
                                     /\ 2 * i <= Len(outWire) => outWire[2 * i] = parts[2]
  /\ IsPrefix(delivered, answers)

\* "if returns true, than packet's queue could be updated" (server.h:197): no request
\* leaves the queue without having been handed to the connection.
NothingDropped ==
  \A i \in DOMAIN asked :
    \/ Contains(requests \o outgoing, asked[i])
    \/ Contains(outWire, Parts(asked[i])[1])
=============================================================================
