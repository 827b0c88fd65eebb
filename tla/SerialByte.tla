----------------------------- MODULE SerialByte -----------------------------
(***************************************************************************)
(* sc::serialByte (crs/sc/serialbyte.h): packets of a fixed size on a      *)
(* serial line.  comSection () sends a request and waits for the packet    *)
(* that looks like its reply; synchronize () sends 'U' bytes until a       *)
(* packet of them comes back; every other packet is left in the inbox.     *)
(* The controller answers as test-3/twbyte/loop.cpp does.                  *)
(***************************************************************************)
EXTENDS Naturals, Sequences, SequencesExt, FiniteSetsExt

CONSTANTS
  Callers,      \* threads that call comSection () and synchronize ()
  Commands,     \* the commands they send
  Punctual,     \* TRUE: no time is out, and no request sent, while a reply may come
  MaxTries,     \* the 15 bytes of synchronize ()
  MaxRequests,  \* bound: requests
  MaxSyncs,     \* bound: calls of synchronize ()
  MaxEvents,    \* bound: packets the controller sends by itself
  MaxLost       \* bound: bytes the line loses

VARIABLES
  waitCom,      \* _waitComSection
  waitSync,     \* _waitSyncPacket
  outgoing,     \* _outgoingPacket
  incoming,     \* _incomingPacket
  inbox,        \* _inbox
  inBytes,      \* the bytes of an unfinished packet (basicRS232port::_inBuf)
  caller,       \* where each caller is: "out", "asking" or "syncing"
  tries,        \* i of synchronize ()
  asked,        \* the request each caller is asking
  answer,       \* what the last comSection () of each caller has returned
  toCtl,        \* what the controller has not read yet: requests, and 'U' bytes
  fromCtl,      \* bytes on their way to the host
  requests,     \* history: the commands that were sent, in order
  syncs, lost,  \* history: calls of synchronize (), lost bytes
  events,       \* history: the number of events that were sent
  popped        \* history: the packets that were taken out of the inbox

hostVars == <<waitCom, waitSync, outgoing, incoming, inbox, inBytes>>
callVars == <<caller, tries, asked, answer, requests, syncs>>
lineVars == <<toCtl, fromCtl, lost, events>>
byteVars == <<hostVars, callVars, lineVars, popped>>

\* A byte is its value, and where it comes from: the number of a request, that of an event
\* behind those of the requests, or Sync.  The address of a reply is that of the request,
\* its halves exchanged.
PacketSize == 2
Byte(v, from) == [value |-> v, from |-> from]
Swapped(b) == CASE b = "0x01" -> "0x10" [] b = "0x10" -> "0x01" [] OTHER -> b
Nothing == <<Byte("", 0), Byte("", 0)>>
Sync == 0
EventPacket(k) == <<Byte("0x10", MaxRequests + k), Byte("0x20", MaxRequests + k)>>
Us(n) == [i \in 1..n |-> Byte("U", Sync)]

Init ==
  /\ waitCom = FALSE /\ waitSync = FALSE /\ outgoing = Nothing /\ incoming = Nothing
  /\ inbox = <<>> /\ inBytes = <<>>
  /\ caller = [c \in Callers |-> "out"] /\ tries = 0
  /\ asked = [c \in Callers |-> 0] /\ answer = [c \in Callers |-> Nothing]
  /\ toCtl = <<>> /\ fromCtl = <<>> /\ requests = <<>> /\ syncs = 0 /\ lost = 0
  /\ events = 0 /\ popped = <<>>

-----------------------------------------------------------------------------
(* The controller and the line.                                            *)

\* A known command is returned, any other becomes an error code; 'U's are answered
\* when the controller thinks fit.
Controller ==
  /\ toCtl # <<>>
  /\ toCtl' = Tail(toCtl)
  /\ IF Head(toCtl) = Sync
     THEN fromCtl' \in {fromCtl, fromCtl \o Us(PacketSize)}
     ELSE \E v \in {requests[Head(toCtl)], "0xCD"} :
            fromCtl' = fromCtl \o <<Byte("0x10", Head(toCtl)), Byte(v, Head(toCtl))>>
  /\ UNCHANGED <<hostVars, callVars, lost, events, popped>>

Event ==
  /\ events < MaxEvents
  /\ events' = events + 1
  /\ fromCtl' = fromCtl \o EventPacket(events + 1)
  /\ UNCHANGED <<hostVars, callVars, toCtl, lost, popped>>

LoseByte ==
  /\ fromCtl # <<>> /\ lost < MaxLost
  /\ fromCtl' = Tail(fromCtl) /\ lost' = lost + 1
  /\ UNCHANGED <<hostVars, callVars, toCtl, events, popped>>

-----------------------------------------------------------------------------
(* The thread that reads.                                                  *)

\* Fault: any packet with the right address is the reply.
TraceAddress(p) == p[1].value = Swapped(outgoing[1].value)

\* A reply has the address, and the command or an error code (above 0xAC).
TracePacket(p) ==
  /\ Swapped(p[1].value) = outgoing[1].value
  /\ p[2].value \in {outgoing[2].value, "0xCD"}

IsSync(p) == \A i \in 1..PacketSize : p[i].value = "U"

\* The packets at the beginning of s.
Packets(s) == [i \in 1..Len(s) \div PacketSize |-> <<s[PacketSize * i - 1], s[PacketSize * i]>>]

\* compileResponse: the first synchronization packet, while one is waited for, and what
\* follows it are dropped; of those before it the first that may be the reply, while one
\* is waited for, is kept apart, and the others get into the inbox.
Compile(s) ==
  LET packets == Packets(s)
      marks == {i \in DOMAIN packets : waitSync /\ IsSync(packets[i])}
      n == IF marks = {} THEN Len(packets) ELSE Min(marks) - 1
      replies == {i \in 1..n : waitCom /\ TracePacket(packets[i])}
      read == SubSeq(packets, 1, n)
  IN  /\ waitSync' = (waitSync /\ marks = {})
      /\ waitCom' = (waitCom /\ replies = {})
      /\ incoming' = IF replies = {} THEN incoming ELSE packets[Min(replies)]
      /\ inbox' = inbox \o IF replies = {} THEN read ELSE RemoveAt(read, Min(replies))
      /\ inBytes' = IF marks = {} THEN SubSeq(s, PacketSize * n + 1, Len(s)) ELSE <<>>

HandleRead ==
  /\ \E n \in 1..Len(fromCtl) :
       /\ Compile(inBytes \o SubSeq(fromCtl, 1, n))
       /\ fromCtl' = SubSeq(fromCtl, n + 1, Len(fromCtl))
  /\ UNCHANGED <<outgoing, callVars, toCtl, lost, events, popped>>

-----------------------------------------------------------------------------
(* The callers.                                                            *)

\* What is written is traced from now on.
Ask(cmd) ==
  /\ Len(requests) < MaxRequests
  /\ LET r == Len(requests) + 1
     IN  outgoing' = <<Byte("0x01", r), Byte(cmd, r)>> /\ toCtl' = Append(toCtl, r)
  /\ requests' = Append(requests, cmd)
  /\ waitCom' = TRUE
  /\ UNCHANGED <<waitSync, incoming, inbox, inBytes, tries, syncs, fromCtl, lost, events, popped>>

\* A reply may still come.
Outstanding ==
  \/ \E i \in DOMAIN toCtl : toCtl[i] # Sync
  \/ \E i \in DOMAIN fromCtl : fromCtl[i].from \in 1..MaxRequests

\* send () does not wait; its reply is dropped.
Send(c) ==
  /\ caller[c] = "out"
  /\ \E cmd \in Commands : Ask(cmd)
  /\ UNCHANGED <<caller, asked, answer>>

\* comSection (), under _mutexComSection until it waits.
ComSection(c) ==
  /\ caller[c] = "out" /\ (Punctual => ~Outstanding)
  /\ \E cmd \in Commands : Ask(cmd)
  /\ caller' = [caller EXCEPT ![c] = "asking"]
  /\ asked' = [asked EXCEPT ![c] = Len(requests) + 1]
  /\ answer' = [answer EXCEPT ![c] = Nothing]

\* The predicate is true; a packet whose check sum is wrong is not returned.
Answered(c) ==
  /\ caller[c] = "asking" /\ ~waitCom
  /\ caller' = [caller EXCEPT ![c] = "out"]
  /\ answer' = [answer EXCEPT ![c] = IF incoming[1].from = incoming[2].from THEN incoming ELSE @]
  /\ UNCHANGED <<hostVars, tries, asked, requests, syncs, lineVars, popped>>

\* The flag stays up.
TimeOut(c) ==
  /\ caller[c] = "asking" /\ waitCom
  /\ Punctual => ~Outstanding
  /\ caller' = [caller EXCEPT ![c] = "out"]
  /\ UNCHANGED <<hostVars, tries, asked, answer, requests, syncs, lineVars, popped>>

\* synchronize (), under _mutexSyncPacket but for the waits.
Synchronize(c) ==
  /\ caller[c] = "out" /\ syncs < MaxSyncs /\ \A d \in Callers : caller[d] # "syncing"
  /\ caller' = [caller EXCEPT ![c] = "syncing"] /\ tries' = 1 /\ syncs' = syncs + 1
  /\ waitCom' = FALSE /\ waitSync' = TRUE
  /\ toCtl' = Append(toCtl, Sync)
  /\ UNCHANGED <<outgoing, incoming, inbox, inBytes, asked, answer, requests, fromCtl, lost,
                 events, popped>>

TryAgain(c) ==
  /\ caller[c] = "syncing" /\ waitSync /\ tries < MaxTries
  /\ tries' = tries + 1
  /\ toCtl' = Append(toCtl, Sync)
  /\ UNCHANGED <<hostVars, caller, asked, answer, requests, syncs, fromCtl, lost, events, popped>>

\* The packet has come, or the last time is out; then _waitSyncPacket stays true.
SynchronizeReturns(c) ==
  /\ caller[c] = "syncing" /\ (~waitSync \/ tries = MaxTries)
  /\ caller' = [caller EXCEPT ![c] = "out"]
  /\ UNCHANGED <<hostVars, tries, asked, answer, requests, syncs, lineVars, popped>>

\* peekPacket () and pop ().
Pop ==
  /\ inbox # <<>>
  /\ popped' = Append(popped, Head(inbox)) /\ inbox' = Tail(inbox)
  /\ UNCHANGED <<waitCom, waitSync, outgoing, incoming, inBytes, callVars, lineVars>>

Next ==
  \/ Controller \/ Event \/ LoseByte \/ HandleRead \/ Pop
  \/ \E c \in Callers :
       \/ Send(c) \/ ComSection(c) \/ Answered(c) \/ TimeOut(c)
       \/ Synchronize(c) \/ TryAgain(c) \/ SynchronizeReturns(c)

Spec == Init /\ [][Next]_byteVars

-----------------------------------------------------------------------------
\* "check if inPacket is a synchronous reply for the command being posted" (tracePacket):
\* what comSection returns answers the request it has sent.
OwnReply ==
  \A c \in Callers : answer[c] # Nothing => answer[c][1].from = asked[c]

\* Every event gets into the inbox whole, once and in order, or is on its way there, unless
\* the line has lost a byte or is synchronized (compileResponse).
OfEvent(p) == \E i \in 1..PacketSize : p[i].from > MaxRequests
EventsKept ==
  lost = 0 /\ syncs = 0 =>
    LET packets == popped \o inbox \o Packets(inBytes \o fromCtl)
    IN  /\ \A k \in 1..events : \E i \in DOMAIN packets : packets[i] = EventPacket(k)
        /\ \A i \in DOMAIN packets : OfEvent(packets[i]) =>
             \E k \in 1..events : packets[i] = EventPacket(k)
        /\ \A i, j \in DOMAIN packets :
             i < j /\ OfEvent(packets[i]) /\ OfEvent(packets[j]) =>
               packets[i][1].from < packets[j][1].from

SerialByteServes == OwnReply /\ EventsKept
=============================================================================
