------------------------------- MODULE NetPeer -------------------------------
(***************************************************************************)
(* One direction of the connection between two ude::net_peer objects       *)
(* (crs/ude/net_peer.cpp, packets.cpp; ude::netPoint has the same code):   *)
(* threads of one process hand packets to send_packet, its event loop      *)
(* writes them to the socket piece by piece, and the event loop of the     *)
(* other process puts them together again and, as client_stub does, takes  *)
(* them from the queue.  A byte is <<packet, offset>>, and a packet is     *)
(* named by the size of its contents, which is what its header tells.      *)
(***************************************************************************)
EXTENDS Naturals, Sequences, FiniteSets

CONSTANTS
  Contents,     \* sizes of contents: the packets, each of which is sent once
  HeaderSize,   \* sizeof (cPacketHeader)
  Align,        \* sizeof (double)
  BufSize,      \* _inBufSize
  Senders,      \* threads that call send_packet
  Ways,         \* how they call it: a subset of {"try", "timed", "forever"}
  AnyTime,      \* TRUE: bytes may arrive between two recv of one handle_read
  Stale         \* a byte left from earlier in a buffer

ASSUME NetPeerAssumption ==
  /\ Contents \subseteq Nat
  /\ HeaderSize \in Nat \ {0} /\ Align \in Nat \ {0} /\ BufSize \in Nat
  /\ HeaderSize <= BufSize
  /\ Ways \subseteq {"try", "timed", "forever"}
  /\ AnyTime \in BOOLEAN

VARIABLES
  \* the sending side
  outBuf,           \* _outBuf
  outVirtualBytes,  \* _outVirtualBytes
  outFlag,          \* _outFlag
  caller,           \* where each sender is, with which packet
  accepted,         \* history: the packets taken for sending, in order
  told,             \* history: the packets whose sender was told they were sent
  \* the connection
  stream,           \* history: the bytes written to the socket
  bytesRead,        \* how many of them were read
  \* the receiving side
  at,               \* where handle_read is
  inBuf, inVirtualBytes, inBufPtr,   \* inBufPtr as an offset into inBuf
  exhausted,        \* the local variable of this name
  newPackets,       \* nNewPackets # 0
  inPacket,         \* _inPacket: the bytes copied so far
  inBytesRest,      \* _inBytesRest
  inPacketQueue,    \* _inPacketQueue
  taken             \* history: the packets recv_packet has returned

outVars == <<outBuf, outVirtualBytes, outFlag>>
callVars == <<caller, told>>
bufVars == <<inBuf, inVirtualBytes, inBufPtr>>
inVars == <<at, bufVars, exhausted, newPackets, inPacket, inBytesRest, inPacketQueue, taken>>
vars == <<outVars, callVars, accepted, stream, bytesRead, inVars>>

\* construct (): contents are rounded up to whole doubles.
RawSize(p) ==
  HeaderSize + p + (IF p % Align = 0 THEN 0 ELSE Align - (p % Align))

Bytes == {b \in Contents \X Nat : b[2] < RawSize(b[1])}
Pieces == Seq(Bytes \cup {Stale})

Smaller(a, b) == IF a < b THEN a ELSE b

Out == [place |-> "out", packet |-> Stale, way |-> "try"]
Calls == [place  : {"out", "locking", "asleep", "awake", "expired"},
          packet : Contents \cup {Stale},
          way    : {"try", "timed", "forever"}]

Init ==
  /\ outBuf = Stale /\ outVirtualBytes = 0 /\ outFlag = FALSE
  /\ caller = [s \in Senders |-> Out]
  /\ accepted = <<>> /\ told = {}
  /\ stream = <<>> /\ bytesRead = 0
  /\ at = "polling"
  /\ inBuf = [i \in 0..BufSize - 1 |-> Stale] /\ inVirtualBytes = 0 /\ inBufPtr = 0
  /\ exhausted = TRUE /\ newPackets = FALSE
  /\ inPacket = <<>> /\ inBytesRest = 0
  /\ inPacketQueue = <<>> /\ taken = <<>>

-----------------------------------------------------------------------------
(* Sending.  Every step but send (2) itself holds _outMutex throughout.    *)

Move(s, place) == caller' = [caller EXCEPT ![s].place = place]

\* The non-blocking call; the other two go on from here and have left the mutex.
SendPacket(s, p, way) ==
  /\ caller[s] = Out
  /\ \A i \in 1..Len(accepted) : accepted[i] # p
  /\ ~outFlag
  /\ outBuf' = p /\ outVirtualBytes' = 0 /\ outFlag' = TRUE
  /\ accepted' = Append(accepted, p)
  /\ caller' = IF way = "try" THEN caller
               ELSE [caller EXCEPT ![s] = [place |-> "locking", packet |-> p, way |-> way]]
  /\ UNCHANGED <<told, stream, bytesRead, inVars>>

\* The call returns true, and the flag is lowered, whatever is being sent.
ReturnTrue(s) ==
  /\ outFlag' = FALSE
  /\ told' = told \cup {caller[s].packet}
  /\ caller' = [caller EXCEPT ![s] = Out]

\* A wait with a time-out tests the flag before and after it sleeps; the one
\* without a time-out sleeps first and tests nothing afterwards.
MayReturn(s) ==
  IF caller[s].way = "timed" THEN ~outFlag ELSE caller[s].place = "awake"

WaitForNotify(s) ==
  /\ caller[s].place \in {"locking", "awake"}
  /\ \/ MayReturn(s) /\ ReturnTrue(s)
     \/ ~MayReturn(s) /\ Move(s, "asleep") /\ UNCHANGED <<outFlag, told>>
  /\ UNCHANGED <<outBuf, outVirtualBytes, accepted, stream, bytesRead, inVars>>

Expire(s) ==
  /\ caller[s].place = "asleep" /\ caller[s].way = "timed"
  /\ Move(s, "expired")
  /\ UNCHANGED <<outVars, told, accepted, stream, bytesRead, inVars>>

\* Fault: a call that gives up takes its packet back.
LastCheckWithdrawing(s) ==
  /\ caller[s].place = "expired"
  /\ IF outFlag
     THEN outFlag' = FALSE /\ caller' = [caller EXCEPT ![s] = Out] /\ UNCHANGED told
     ELSE ReturnTrue(s)
  /\ UNCHANGED <<outBuf, outVirtualBytes, accepted, stream, bytesRead, inVars>>

\* A call that gives up leaves the packet where it is.
LastCheck(s) ==
  /\ caller[s].place = "expired"
  /\ \/ ~outFlag /\ ReturnTrue(s)
     \/ outFlag /\ caller' = [caller EXCEPT ![s] = Out] /\ UNCHANGED <<outFlag, told>>
  /\ UNCHANGED <<outBuf, outVirtualBytes, accepted, stream, bytesRead, inVars>>

SpuriousWakeup(s) ==
  /\ caller[s].place = "asleep"
  /\ Move(s, "awake")
  /\ UNCHANGED <<outVars, told, accepted, stream, bytesRead, inVars>>

Sleepers == {s \in Senders : caller[s].place = "asleep"}

NotifyOne ==
  \/ Sleepers = {} /\ UNCHANGED caller
  \/ \E s \in Sleepers : Move(s, "awake")

\* The socket takes k bytes and then no more, or the packet is done.
HandleWrite(k) ==
  /\ outFlag
  /\ k \in 1..RawSize(outBuf) - outVirtualBytes
  /\ stream' = stream \o [i \in 1..k |-> <<outBuf, outVirtualBytes + i - 1>>]
  /\ outVirtualBytes' = outVirtualBytes + k
  /\ IF outVirtualBytes' = RawSize(outBuf)
     THEN outFlag' = FALSE /\ NotifyOne
     ELSE UNCHANGED <<outFlag, caller>>
  /\ UNCHANGED <<outBuf, told, accepted, bytesRead, inVars>>

-----------------------------------------------------------------------------
(* Receiving.  handle_read runs in the event loop's thread.                *)

\* k bytes from inBufPtr on; what lies behind the buffer is not known.
InBytes(k) ==
  [i \in 1..k |-> IF inBufPtr + i <= BufSize THEN inBuf[inBufPtr + i - 1] ELSE Stale]

\* What the header at inBufPtr may say: one that was never sent says anything.
HeaderSays(p) ==
  LET Header(q) == [i \in 1..HeaderSize |-> <<q, i - 1>>]
  IN  Header(p) = InBytes(HeaderSize) \/ \A q \in Contents : Header(q) # InBytes(HeaderSize)

\* A readable socket yields n bytes; between two recv of one call nothing arrives
\* unless AnyTime, since the first recv had taken everything there was.
Receive(n) ==
  /\ at = "polling" \/ (at = "receiving" /\ AnyTime)
  /\ n \in 1..Smaller(BufSize - inVirtualBytes, Len(stream) - bytesRead)
  /\ inBuf' = [i \in 0..BufSize - 1 |->
                 IF i \in inVirtualBytes..inVirtualBytes + n - 1
                 THEN stream[bytesRead + i - inVirtualBytes + 1] ELSE inBuf[i]]
  /\ inVirtualBytes' = inVirtualBytes + n
  /\ bytesRead' = bytesRead + n
  /\ exhausted' = (n = BufSize - inVirtualBytes')
  /\ at' = "filling"
  /\ UNCHANGED <<outVars, callVars, accepted, stream, inBufPtr, newPackets, inPacket,
                 inBytesRest, inPacketQueue, taken>>

\* k bytes are copied behind the ones in copied; a packet of which nothing is left
\* is complete.
CopyBytes(copied, k, rest) ==
  /\ inPacket' = copied \o InBytes(k)
  /\ inVirtualBytes' = inVirtualBytes - k
  /\ inBufPtr' = inBufPtr + k
  /\ inBytesRest' = rest - k
  /\ IF rest = k
     THEN inPacketQueue' = Append(inPacketQueue, inPacket') /\ newPackets' = TRUE
     ELSE UNCHANGED <<inPacketQueue, newPackets>>

\* Fault: the packet's next byte is not remembered.
FillIncompleteFromStart ==
  /\ at = "filling"
  /\ IF inBytesRest = 0
     THEN UNCHANGED <<inPacket, inVirtualBytes, inBufPtr, inBytesRest, inPacketQueue, newPackets>>
     ELSE CopyBytes(<<>>, Smaller(inVirtualBytes, inBytesRest), inBytesRest)
  /\ at' = "taking"
  /\ UNCHANGED <<outVars, callVars, accepted, stream, bytesRead, inBuf, exhausted, taken>>

FillIncomplete ==
  /\ at = "filling"
  /\ IF inBytesRest = 0
     THEN UNCHANGED <<inPacket, inVirtualBytes, inBufPtr, inBytesRest, inPacketQueue, newPackets>>
     ELSE CopyBytes(inPacket, Smaller(inVirtualBytes, inBytesRest), inBytesRest)
  /\ at' = "taking"
  /\ UNCHANGED <<outVars, callVars, accepted, stream, bytesRead, inBuf, exhausted, taken>>

TakePacket ==
  /\ at = "taking" /\ inVirtualBytes >= HeaderSize
  /\ \E p \in Contents :
       HeaderSays(p) /\ CopyBytes(<<>>, Smaller(inVirtualBytes, RawSize(p)), RawSize(p))
  /\ UNCHANGED <<outVars, callVars, accepted, stream, bytesRead, at, inBuf, exhausted, taken>>

\* The bytes that are left move to the front; inBufPtr stays where it is.
MoveToFront ==
  /\ at = "taking" /\ inVirtualBytes < HeaderSize
  /\ inBuf' = [i \in 0..BufSize - 1 |->
                 IF i < inVirtualBytes THEN InBytes(inVirtualBytes)[i + 1] ELSE inBuf[i]]
  /\ at' = IF exhausted THEN "receiving" ELSE "returning"
  /\ UNCHANGED <<outVars, callVars, accepted, stream, bytesRead, inVirtualBytes, inBufPtr,
                 exhausted, newPackets, inPacket, inBytesRest, inPacketQueue, taken>>

\* Fault: only what the last round has completed is looked for.
ReturnLastRound ==
  /\ at \in {"receiving", "returning"}
  /\ IF newPackets /\ at = "returning"
     THEN taken' = taken \o inPacketQueue /\ inPacketQueue' = <<>>
     ELSE UNCHANGED <<taken, inPacketQueue>>
  /\ at' = "polling"
  /\ inBufPtr' = 0 /\ exhausted' = TRUE /\ newPackets' = FALSE
  /\ inBuf' = [i \in 0..BufSize - 1 |-> IF i < inVirtualBytes THEN inBuf[i] ELSE Stale]
  /\ UNCHANGED <<outVars, callVars, accepted, stream, bytesRead, inVirtualBytes, inPacket,
                 inBytesRest>>

\* There is nothing (more) to receive: the caller, client_stub::handle_read, empties
\* the queue if there were new packets.  Old bytes in inBuf are read no more.
Return ==
  /\ at \in {"receiving", "returning"}
  /\ IF newPackets
     THEN taken' = taken \o inPacketQueue /\ inPacketQueue' = <<>>
     ELSE UNCHANGED <<taken, inPacketQueue>>
  /\ at' = "polling"
  /\ inBufPtr' = 0 /\ exhausted' = TRUE /\ newPackets' = FALSE
  /\ inBuf' = [i \in 0..BufSize - 1 |-> IF i < inVirtualBytes THEN inBuf[i] ELSE Stale]
  /\ UNCHANGED <<outVars, callVars, accepted, stream, bytesRead, inVirtualBytes, inPacket,
                 inBytesRest>>

-----------------------------------------------------------------------------
Write == \E k \in 1..RawSize(outBuf) : HandleWrite(k)

Read ==
  \/ \E n \in 1..BufSize : Receive(n)
  \/ FillIncomplete \/ TakePacket \/ MoveToFront \/ Return

Call(s) ==
  \/ \E p \in Contents, way \in Ways : SendPacket(s, p, way)
  \/ WaitForNotify(s) \/ Expire(s) \/ LastCheck(s) \/ SpuriousWakeup(s)

Next ==
  \/ \E s \in Senders : Call(s)
  \/ outFlag /\ Write
  \/ Read

Spec == Init /\ [][Next]_vars

\* Both event loops are scheduled and the connection moves bytes.
FairSpec == Spec /\ WF_vars(outFlag /\ Write) /\ WF_vars(Read)

-----------------------------------------------------------------------------
\* Type invariant of the sending side.
SenderTypeOK ==
  /\ outFlag \in BOOLEAN
  /\ outFlag => outBuf \in Contents /\ outVirtualBytes \in 0..RawSize(outBuf) - 1
  /\ caller \in [Senders -> Calls]
  /\ \A s \in Senders : caller[s].place # "out" => caller[s].packet \in Contents
  /\ accepted \in Seq(Contents) /\ told \subseteq Contents
  /\ stream \in Seq(Bytes)

\* Type invariant of the receiving side: its cursors stay inside the buffer, unless
\* bytes may arrive between two recv.
ReaderTypeOK ==
  /\ bytesRead \in 0..Len(stream)
  /\ at \in {"polling", "receiving", "filling", "taking", "returning"}
  /\ inBuf \in [0..BufSize - 1 -> Bytes \cup {Stale}]
  /\ inVirtualBytes \in 0..BufSize /\ inBufPtr \in Nat /\ inBytesRest \in Nat
  /\ ~AnyTime => inBufPtr + inVirtualBytes <= BufSize
  /\ at = "polling" => inBufPtr = 0
  /\ exhausted \in BOOLEAN /\ newPackets \in BOOLEAN
  /\ inPacket \in Pieces /\ inPacketQueue \in Seq(Pieces) /\ taken \in Seq(Pieces)

TypeOK == SenderTypeOK /\ ReaderTypeOK

\* All the bytes of p are on their way.
OnTheWire(p) ==
  \A o \in 0..RawSize(p) - 1 : \E i \in 1..Len(stream) : stream[i] = <<p, o>>

\* "the packet was sent!" (net_peer.cpp:304, 309): a waiting send_packet returns true
\* only when all the bytes of its packet were written, whoever has sent meanwhile.
TrueMeansSent == \A p \in told : OnTheWire(p)

\* The packets that were put together, in order; one that is not what a peer has
\* sent counts as stale.
Assembled ==
  LET all == taken \o inPacketQueue
      Whole(p) == [i \in 1..RawSize(p) |-> <<p, i - 1>>]
      Name(q) == IF \E p \in Contents : q = Whole(p)
                 THEN CHOOSE p \in Contents : q = Whole(p) ELSE Stale
  IN  [i \in 1..Len(all) |-> Name(all[i])]

\* What is put together are the accepted packets, whole and in order, however the
\* bytes were cut on the way (handle_read, net_peer.cpp:165-220).
PacketsIntact ==
  /\ Len(Assembled) <= Len(accepted)
  /\ Assembled = SubSeq(accepted, 1, Len(Assembled))

\* Two peers implement a packet channel: nothing is lost, repeated, mixed up or cut.
Abstract == INSTANCE PacketChannel WITH
  Packets <- Contents, delivered <- Assembled
ImplementsPacketChannel == Abstract!Spec

\* Every accepted packet reaches the application, also one whose sender gave up.
EverythingArrives ==
  \A n \in 1..Cardinality(Contents) : Len(accepted) >= n ~> Len(taken) >= n
=============================================================================
