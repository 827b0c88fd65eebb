---------------------------- MODULE ExchangeProofs ---------------------------
(***************************************************************************)
(* Theorems about the data exchange, for all packets: the connection of    *)
(* two peers, which implements a packet channel, the ping tool, the        *)
(* manager and the stub of a client, and the manager of the devices.       *)
(***************************************************************************)
EXTENDS Exchange, SequenceTheorems, TLAPS

-----------------------------------------------------------------------------
(***************************************************************************)
(* Lemmas about the helpers.                                               *)
(***************************************************************************)

\* A packet is at least its header and its contents.
LEMMA RawSizeType ==
  ASSUME NEW p \in Contents
  PROVE  RawSize(p) \in Nat \ {0}
<1>1. p % Align \in 0..Align - 1
  BY NetPeerAssumption
<1>2. QED
  BY <1>1, NetPeerAssumption DEF RawSize

\* Sequences are closed under appending and concatenation.
LEMMA Sequences ==
  ASSUME NEW T, NEW q \in Seq(T), NEW r \in Seq(T), NEW x \in T
  PROVE  Append(q, x) \in Seq(T) /\ q \o r \in Seq(T)
OBVIOUS

\* The members of a sequence.
LEMMA MembersOf ==
  ASSUME NEW T, NEW q \in Seq(T), NEW i \in DOMAIN q
  PROVE  q[i] \in T
OBVIOUS

\* Of two sequences one behind the other.
LEMMA BothOf ==
  ASSUME NEW T, NEW q \in Seq(T), NEW r \in Seq(T)
  PROVE  /\ q \o r \in Seq(T) /\ Len(q \o r) = Len(q) + Len(r)
         /\ \A i \in 1..Len(q) : (q \o r)[i] = q[i]
         /\ \A i \in 1..Len(r) : (q \o r)[Len(q) + i] = r[i]
OBVIOUS

\* A part of a sequence.
LEMMA PartOf ==
  ASSUME NEW T, NEW q \in Seq(T), NEW a \in 1..Len(q) + 1, NEW b \in a - 1..Len(q)
  PROVE  /\ SubSeq(q, a, b) \in Seq(T) /\ Len(SubSeq(q, a, b)) = b - a + 1
         /\ \A i \in 1..b - a + 1 : SubSeq(q, a, b)[i] = q[a - 1 + i]
OBVIOUS

\* What is copied out of the buffer is a sequence of bytes.
LEMMA InBytesType ==
  ASSUME NEW k \in Nat, inBuf \in [0..BufSize - 1 -> Bytes \cup {Stale}], inBufPtr \in Nat
  PROVE  InBytes(k) \in Pieces
<1>1. \A i \in 1..k : (IF inBufPtr + i <= BufSize THEN inBuf[inBufPtr + i - 1] ELSE Stale)
                        \in Bytes \cup {Stale}
  <2> TAKE i \in 1..k
  <2>1. CASE inBufPtr + i <= BufSize
    <3>1. inBufPtr + i - 1 \in 0..BufSize - 1
      BY <2>1, NetPeerAssumption
    <3>2. QED
      BY <2>1, <3>1
  <2>2. CASE ~(inBufPtr + i <= BufSize)
    BY <2>2
  <2>3. QED
    BY <2>1, <2>2
<1>2. QED
  BY <1>1 DEF InBytes, Pieces

-----------------------------------------------------------------------------
(***************************************************************************)
(* Type correctness of the sending side.                                   *)
(***************************************************************************)

CallsOK ==
  /\ caller \in [Senders -> Calls]
  /\ \A s \in Senders : caller[s].place # "out" => caller[s].packet \in Contents

\* A caller that is in its call may be anywhere in it, and may leave it.
LEMMA CallerMoves ==
  ASSUME CallsOK, NEW s \in Senders, caller[s].place # "out",
         \/ \E place \in {"asleep", "awake", "expired"} : Move(s, place)
         \/ caller' = [caller EXCEPT ![s] = Out]
  PROVE  CallsOK'
BY DEF CallsOK, Calls, Move, Out

\* One step keeps the sending side's types.
LEMMA SenderTypeStep == SenderTypeOK /\ [Next]_vars => SenderTypeOK'
<1> SUFFICES ASSUME SenderTypeOK, [Next]_vars PROVE SenderTypeOK'
  OBVIOUS
<1> USE DEF SenderTypeOK
<1>1. ASSUME NEW s \in Senders, NEW p \in Contents, NEW w \in Ways, SendPacket(s, p, w)
      PROVE  SenderTypeOK'
  <2>1. 0 \in 0..RawSize(p) - 1
    BY RawSizeType
  <2>2. accepted' \in Seq(Contents)
    BY <1>1 DEF SendPacket
  <2>3. CallsOK'
    BY <1>1, NetPeerAssumption DEF CallsOK, Calls, SendPacket
  <2>4. QED
    BY <1>1, <2>1, <2>2, <2>3 DEF CallsOK, SendPacket
<1>2. ASSUME NEW s \in Senders, WaitForNotify(s) PROVE SenderTypeOK'
  <2>1. caller[s].packet \in Contents /\ caller[s].place # "out"
    BY <1>2 DEF WaitForNotify
  <2>2. CallsOK'
    BY <1>2, <2>1, CallerMoves DEF CallsOK, WaitForNotify, ReturnTrue
  <2>3. CASE ReturnTrue(s)
    BY <1>2, <2>1, <2>2, <2>3 DEF CallsOK, WaitForNotify, ReturnTrue
  <2>4. CASE UNCHANGED <<outFlag, told>>
    BY <1>2, <2>2, <2>4 DEF CallsOK, WaitForNotify
  <2>5. QED
    BY <1>2, <2>3, <2>4 DEF WaitForNotify
<1>3. ASSUME NEW s \in Senders, Expire(s) PROVE SenderTypeOK'
  BY <1>3, CallerMoves DEF CallsOK, Expire, outVars
<1>4. ASSUME NEW s \in Senders, LastCheck(s) PROVE SenderTypeOK'
  <2>1. caller[s].packet \in Contents /\ caller[s].place # "out"
    BY <1>4 DEF LastCheck
  <2>2. CallsOK'
    BY <1>4, <2>1, CallerMoves DEF CallsOK, LastCheck, ReturnTrue
  <2>3. CASE ReturnTrue(s)
    BY <1>4, <2>1, <2>2, <2>3 DEF CallsOK, LastCheck, ReturnTrue
  <2>4. CASE UNCHANGED <<outFlag, told>>
    BY <1>4, <2>2, <2>4 DEF CallsOK, LastCheck
  <2>5. QED
    BY <1>4, <2>3, <2>4 DEF LastCheck
<1>5. ASSUME NEW s \in Senders, SpuriousWakeup(s) PROVE SenderTypeOK'
  BY <1>5, CallerMoves DEF CallsOK, SpuriousWakeup, outVars
<1>6. ASSUME NEW k \in Nat, HandleWrite(k) PROVE SenderTypeOK'
  <2>1. outBuf \in Contents /\ RawSize(outBuf) \in Nat \ {0}
    BY <1>6, RawSizeType DEF HandleWrite
  <2>2. \A i \in 1..k : <<outBuf, outVirtualBytes + i - 1>> \in Bytes
    BY <1>6, <2>1, SMTT(40) DEF HandleWrite, Bytes
  <2>3. [i \in 1..k |-> <<outBuf, outVirtualBytes + i - 1>>] \in Seq(Bytes)
    BY <2>2
  <2>4. stream' \in Seq(Bytes)
    BY <1>6, <2>3 DEF HandleWrite
  <2>5. CallsOK'
    <3>1. CASE UNCHANGED caller
      BY <3>1 DEF CallsOK
    <3>2. CASE NotifyOne
      BY <3>1, <3>2, CallerMoves DEF CallsOK, NotifyOne, Sleepers
    <3>3. QED
      BY <1>6, <3>1, <3>2 DEF HandleWrite
  <2>6. CASE outVirtualBytes' = RawSize(outBuf)
    BY <1>6, <2>4, <2>5, <2>6 DEF HandleWrite, CallsOK
  <2>7. CASE outVirtualBytes' # RawSize(outBuf)
    <3>1. outVirtualBytes' \in 0..RawSize(outBuf) - 1
      BY <1>6, <2>1, <2>7 DEF HandleWrite
    <3>2. QED
      BY <1>6, <2>1, <2>4, <2>5, <2>7, <3>1 DEF HandleWrite, CallsOK
  <2>8. QED
    BY <2>6, <2>7
<1>7. CASE Read
  BY <1>7 DEF Read, Receive, FillIncomplete, TakePacket, MoveToFront, Return, outVars, callVars
<1>8. CASE UNCHANGED vars
  BY <1>8 DEF vars, outVars, callVars
<1>9. ASSUME outFlag, Write PROVE SenderTypeOK'
  <2>1. PICK k \in 1..RawSize(outBuf) : HandleWrite(k)
    BY <1>9 DEF Write
  <2>2. k \in Nat
    BY <1>9, RawSizeType
  <2>3. QED
    BY <1>6, <2>1, <2>2
<1>10. QED
  BY <1>1, <1>2, <1>3, <1>4, <1>5, <1>7, <1>8, <1>9 DEF Next, Call

-----------------------------------------------------------------------------
(***************************************************************************)
(* Type correctness of the receiving side.                                 *)
(***************************************************************************)

\* The reader's variables that CopyBytes changes.
CopyTypeOK ==
  /\ inVirtualBytes \in 0..BufSize /\ inBufPtr \in Nat /\ inBytesRest \in Nat
  /\ ~AnyTime => inBufPtr + inVirtualBytes <= BufSize
  /\ newPackets \in BOOLEAN
  /\ inPacket \in Pieces
  /\ inPacketQueue \in Seq(Pieces)

\* Copying no more than there is keeps them in their types.
LEMMA CopyBytesType ==
  ASSUME ReaderTypeOK, NEW copied \in Pieces, NEW rest \in Nat,
         CopyBytes(copied, Smaller(inVirtualBytes, rest), rest)
  PROVE  CopyTypeOK'
<1> DEFINE k == Smaller(inVirtualBytes, rest)
<1>1. k \in Nat /\ k <= inVirtualBytes /\ k <= rest
  BY NetPeerAssumption DEF ReaderTypeOK, Smaller
<1>2. InBytes(k) \in Pieces
  BY <1>1, InBytesType DEF ReaderTypeOK
<1>3. inPacket' \in Pieces
  BY <1>2 DEF CopyBytes, Pieces
<1> HIDE DEF k
<1>4. /\ inVirtualBytes' = inVirtualBytes - k
      /\ inBufPtr' = inBufPtr + k
      /\ inBytesRest' = rest - k
  BY DEF CopyBytes, k
<1>5. /\ inVirtualBytes' \in 0..BufSize /\ inBufPtr' \in Nat /\ inBytesRest' \in Nat
      /\ ~AnyTime => inBufPtr' + inVirtualBytes' <= BufSize
  BY <1>1, <1>4, NetPeerAssumption DEF ReaderTypeOK
<1>6. newPackets' \in BOOLEAN /\ inPacketQueue' \in Seq(Pieces)
  <2>1. Append(inPacketQueue, inPacket') \in Seq(Pieces)
    BY <1>3, Sequences DEF ReaderTypeOK
  <2>2. QED
    BY <2>1 DEF CopyBytes, ReaderTypeOK
<1>7. QED
  BY <1>3, <1>5, <1>6 DEF CopyTypeOK

\* The stream only grows, so that what was read of it stays read.
LEMMA StreamGrows ==
  ASSUME SenderTypeOK, [Next]_vars
  PROVE  Len(stream) <= Len(stream') /\ Len(stream) \in Nat /\ Len(stream') \in Nat
<1>1. stream' = stream \/ \E k \in Nat : HandleWrite(k)
  <2>1. ASSUME NEW s \in Senders, Call(s) PROVE stream' = stream
    BY <2>1 DEF Call, SendPacket, WaitForNotify, Expire, LastCheck, SpuriousWakeup
  <2>2. CASE Read
    BY <2>2 DEF Read, Receive, FillIncomplete, TakePacket, MoveToFront, Return
  <2>3. CASE outFlag /\ Write
    BY <2>3, RawSizeType DEF Write, SenderTypeOK
  <2>4. CASE UNCHANGED vars
    BY <2>4 DEF vars
  <2>5. QED
    BY <2>1, <2>2, <2>3, <2>4 DEF Next
<1>2. stream \in Seq(Bytes) /\ stream' \in Seq(Bytes)
  BY SenderTypeStep DEF SenderTypeOK
<1>3. ASSUME NEW k \in Nat, HandleWrite(k) PROVE Len(stream') = Len(stream) + k
  <2> DEFINE piece == [i \in 1..k |-> <<outBuf, outVirtualBytes + i - 1>>]
  <2>1. piece \in Seq(Contents \X Nat) /\ Len(piece) = k
    BY <1>3, RawSizeType, SMTT(40) DEF HandleWrite, SenderTypeOK
  <2>2. stream \in Seq(Contents \X Nat)
    BY <1>2 DEF Bytes
  <2>3. QED
    BY <1>3, <2>1, <2>2 DEF HandleWrite
<1>4. QED
  BY <1>1, <1>2, <1>3

\* One step keeps the receiving side's types.
LEMMA ReaderTypeStep == TypeOK /\ [Next]_vars => ReaderTypeOK'
<1> SUFFICES ASSUME SenderTypeOK, ReaderTypeOK, [Next]_vars PROVE ReaderTypeOK'
  BY DEF TypeOK
<1>1. bytesRead \in 0..Len(stream') /\ stream \in Seq(Bytes)
  BY StreamGrows DEF ReaderTypeOK, SenderTypeOK
<1>2. CASE UNCHANGED <<bytesRead, inVars>>
  BY <1>1, <1>2 DEF ReaderTypeOK, inVars, bufVars
<1>3. ASSUME NEW n \in 1..BufSize, Receive(n) PROVE ReaderTypeOK'
  <2>1. n <= BufSize - inVirtualBytes /\ n <= Len(stream) - bytesRead
    BY <1>1, <1>3, NetPeerAssumption DEF Receive, Smaller, ReaderTypeOK
  <2>2. ASSUME NEW i \in inVirtualBytes..inVirtualBytes + n - 1
        PROVE  stream[bytesRead + i - inVirtualBytes + 1] \in Bytes
    <3>1. bytesRead + i - inVirtualBytes + 1 \in 1..Len(stream)
      BY <1>1, <2>1 DEF ReaderTypeOK
    <3>2. QED
      BY <1>1, <3>1
  <2>3. inBuf' \in [0..BufSize - 1 -> Bytes \cup {Stale}]
    BY <1>3, <2>2 DEF Receive, ReaderTypeOK
  <2>4. /\ inVirtualBytes' \in 0..BufSize
        /\ bytesRead' \in 0..Len(stream')
        /\ ~AnyTime => inBufPtr' + inVirtualBytes' <= BufSize
        /\ inBufPtr' \in Nat /\ inBytesRest' \in Nat
    BY <1>1, <1>3, <2>1, NetPeerAssumption DEF Receive, ReaderTypeOK
  <2>5. QED
    BY <1>3, <2>3, <2>4 DEF Receive, ReaderTypeOK
<1>4. CASE FillIncomplete
  <2>1. CASE inBytesRest = 0
    BY <1>1, <1>4, <2>1 DEF FillIncomplete, ReaderTypeOK
  <2>2. CASE inBytesRest # 0
    <3>1. CopyTypeOK'
      BY <1>4, <2>2, CopyBytesType DEF FillIncomplete, ReaderTypeOK
    <3>2. QED
      BY <1>1, <1>4, <3>1 DEF FillIncomplete, ReaderTypeOK, CopyTypeOK
  <2>3. QED
    BY <2>1, <2>2
<1>5. CASE TakePacket
  <2>1. PICK p \in Contents :
          CopyBytes(<<>>, Smaller(inVirtualBytes, RawSize(p)), RawSize(p))
    BY <1>5 DEF TakePacket
  <2>2. <<>> \in Pieces
    BY DEF Pieces
  <2>3. CopyTypeOK'
    BY <2>1, <2>2, RawSizeType, CopyBytesType
  <2>4. QED
    BY <1>1, <1>5, <2>3 DEF TakePacket, ReaderTypeOK, CopyTypeOK
<1>6. CASE MoveToFront
  <2>1. inVirtualBytes \in Nat /\ InBytes(inVirtualBytes) \in Pieces
    BY NetPeerAssumption, InBytesType DEF ReaderTypeOK
  <2>2. ASSUME NEW i \in 0..BufSize - 1, i < inVirtualBytes
        PROVE  InBytes(inVirtualBytes)[i + 1] \in Bytes \cup {Stale}
    <3>1. i + 1 \in 1..inVirtualBytes
      BY <2>1, <2>2, NetPeerAssumption
    <3>2. Len(InBytes(inVirtualBytes)) = inVirtualBytes
      BY <2>1 DEF InBytes
    <3>3. QED
      BY <2>1, <3>1, <3>2 DEF Pieces
  <2>3. inBuf' \in [0..BufSize - 1 -> Bytes \cup {Stale}]
    BY <1>6, <2>2 DEF MoveToFront, ReaderTypeOK
  <2>4. QED
    BY <1>1, <1>6, <2>3 DEF MoveToFront, ReaderTypeOK
<1>7. CASE Return
  <2>1. taken' \in Seq(Pieces) /\ inPacketQueue' \in Seq(Pieces)
    <3>1. taken \o inPacketQueue \in Seq(Pieces) /\ <<>> \in Seq(Pieces)
      BY DEF ReaderTypeOK
    <3>2. QED
      BY <1>7, <3>1 DEF Return, ReaderTypeOK
  <2>2. inBuf' \in [0..BufSize - 1 -> Bytes \cup {Stale}]
    BY <1>7 DEF Return, ReaderTypeOK
  <2>3. /\ at' = "polling" /\ inBufPtr' = 0 /\ exhausted' \in BOOLEAN /\ newPackets' \in BOOLEAN
        /\ UNCHANGED <<stream, bytesRead, inVirtualBytes, inPacket, inBytesRest>>
    BY <1>7 DEF Return
  <2>4. inBufPtr' \in Nat /\ inBufPtr' + inVirtualBytes' <= BufSize
    BY <2>3, NetPeerAssumption DEF ReaderTypeOK
  <2>5. QED
    BY <1>1, <2>1, <2>2, <2>3, <2>4 DEF ReaderTypeOK
<1>8. ASSUME NEW s \in Senders, Call(s) PROVE UNCHANGED <<bytesRead, inVars>>
  BY <1>8 DEF Call, SendPacket, WaitForNotify, Expire, LastCheck, SpuriousWakeup
<1>9. CASE Write
  BY <1>2, <1>9 DEF Write, HandleWrite
<1>10. CASE UNCHANGED vars
  BY <1>2, <1>10 DEF vars
<1>11. QED
  BY <1>2, <1>3, <1>4, <1>5, <1>6, <1>7, <1>8, <1>9, <1>10 DEF Next, Read

\* The type invariant: among others, the reader's cursors stay inside its buffer if
\* nothing arrives between two recv (handle_read, net_peer.cpp:143-220).
THEOREM TypeCorrect == Spec => []TypeOK
<1>1. Init => TypeOK
  <2> SUFFICES ASSUME Init PROVE SenderTypeOK /\ ReaderTypeOK
    BY DEF TypeOK
  <2>1. <<>> \in Seq(Contents) /\ <<>> \in Seq(Bytes) /\ <<>> \in Pieces /\ <<>> \in Seq(Pieces)
    BY DEF Pieces
  <2>2. Len(stream) = 0
    BY DEF Init
  <2>3. CallsOK
    BY DEF Init, CallsOK, Calls, Out
  <2>4. SenderTypeOK
    BY <2>1, <2>3 DEF Init, SenderTypeOK, CallsOK
  <2>5. ReaderTypeOK
    <3>1. /\ bytesRead \in 0..Len(stream)
          /\ inVirtualBytes \in 0..BufSize /\ inBufPtr \in Nat /\ inBytesRest \in Nat
          /\ inBufPtr + inVirtualBytes <= BufSize
      BY <2>2, NetPeerAssumption DEF Init
    <3>2. inBuf \in [0..BufSize - 1 -> Bytes \cup {Stale}]
      BY DEF Init
    <3>3. QED
      BY <2>1, <3>1, <3>2 DEF Init, ReaderTypeOK
  <2>6. QED
    BY <2>4, <2>5
<1>2. TypeOK /\ [Next]_vars => TypeOK'
  BY SenderTypeStep, ReaderTypeStep DEF TypeOK
<1>3. QED
  BY <1>1, <1>2, PTL DEF Spec

-----------------------------------------------------------------------------
(***************************************************************************)
(* A send_packet with a time-out returns true only for a packet that was   *)
(* sent.  The flag belongs to no packet, so the invariant says whose it    *)
(* can be: a packet in a call is either written or the one in outBuf.      *)
(***************************************************************************)
Written(b) == \E i \in 1..Len(stream) : stream[i] = b

SentInv ==
  /\ TrueMeansSent
  /\ \A s \in Senders : caller[s].place # "out" =>
       /\ caller[s].way = "timed"
       /\ OnTheWire(caller[s].packet) \/ (outFlag /\ outBuf = caller[s].packet)
  /\ outFlag => \A o \in 0..outVirtualBytes - 1 : Written(<<outBuf, o>>)

\* A write appends the next bytes of the packet and keeps the ones before.
LEMMA WriteAppends ==
  ASSUME SenderTypeOK, NEW k \in Nat, HandleWrite(k)
  PROVE  /\ \A b : Written(b) => Written(b)'
         /\ \A o \in outVirtualBytes..outVirtualBytes + k - 1 : Written(<<outBuf, o>>)'
<1> DEFINE piece == [i \in 1..k |-> <<outBuf, outVirtualBytes + i - 1>>]
<1>1. outVirtualBytes \in Nat
  BY RawSizeType DEF HandleWrite, SenderTypeOK
<1>2. piece \in Seq(Contents \X Nat) /\ Len(piece) = k
  BY <1>1 DEF HandleWrite, SenderTypeOK
<1>3. stream \in Seq(Contents \X Nat) /\ stream' = stream \o piece
  BY DEF HandleWrite, SenderTypeOK, Bytes
<1>4. Len(stream') = Len(stream) + k
  BY <1>2, <1>3
<1>5. \A b : Written(b) => Written(b)'
  BY <1>2, <1>3, <1>4 DEF Written
<1>6. outBuf' = outBuf
  BY DEF HandleWrite
<1>7. ASSUME NEW o \in outVirtualBytes..outVirtualBytes + k - 1
      PROVE  Written(<<outBuf, o>>)'
  <2> DEFINE i == o - outVirtualBytes + 1
  <2>1. i \in 1..k /\ outVirtualBytes + i - 1 = o
    BY <1>1, <1>7
  <2>2. piece[i] = <<outBuf, o>>
    BY <2>1
  <2>3. stream'[Len(stream) + i] = piece[i] /\ Len(stream) + i \in 1..Len(stream')
    BY <1>2, <1>3, <1>4, <2>1
  <2>4. QED
    BY <1>6, <2>2, <2>3 DEF Written
<1>8. QED
  BY <1>5, <1>7

\* With time-outs only, nobody is told a packet was sent before it was.
LEMMA SentStep ==
  ASSUME "forever" \notin Ways, SenderTypeOK, SentInv, [Next]_vars
  PROVE  SentInv'
<1>1. ASSUME UNCHANGED <<outVars, told, stream>>,
             \A s \in Senders : \/ caller'[s] = caller[s]
                                \/ caller'[s].place = "out"
                                \/ /\ caller[s].place # "out"
                                   /\ caller'[s].packet = caller[s].packet
                                   /\ caller'[s].way = caller[s].way
      PROVE  SentInv'
  BY <1>1 DEF SentInv, TrueMeansSent, OnTheWire, Written, outVars
<1>2. ASSUME NEW s \in Senders, NEW place, caller[s].place # "out", Move(s, place),
             UNCHANGED <<outVars, told, stream>>
      PROVE  SentInv'
  BY <1>1, <1>2 DEF Move, SenderTypeOK, Calls
<1>3. ASSUME NEW s \in Senders, caller[s].place # "out", ~outFlag, ReturnTrue(s),
             UNCHANGED <<outBuf, outVirtualBytes, stream>>
      PROVE  SentInv'
  <2>1. OnTheWire(caller[s].packet)
    BY <1>3 DEF SentInv
  <2>2. TrueMeansSent'
    BY <1>3, <2>1 DEF SentInv, ReturnTrue, TrueMeansSent, OnTheWire
  <2>3. QED
    BY <1>3, <2>2 DEF SentInv, ReturnTrue, OnTheWire, SenderTypeOK, Out
<1>4. ASSUME NEW s \in Senders, NEW p \in Contents, NEW w \in Ways, SendPacket(s, p, w)
      PROVE  SentInv'
  <2>1. ~outFlag /\ outFlag' /\ outBuf' = p /\ outVirtualBytes' = 0 /\ UNCHANGED <<told, stream>>
    BY <1>4 DEF SendPacket
  <2>2. TrueMeansSent'
    BY <2>1 DEF SentInv, TrueMeansSent, OnTheWire
  <2>3. \A t \in Senders : \/ caller'[t] = caller[t]
                           \/ caller'[t].way = "timed" /\ caller'[t].packet = p
    BY <1>4, NetPeerAssumption DEF SendPacket, SenderTypeOK, Calls
  <2>4. \A t \in Senders : caller'[t].place # "out" =>
          /\ caller'[t].way = "timed"
          /\ OnTheWire(caller[t].packet)' \/ (outFlag' /\ outBuf' = caller'[t].packet)
    <3> TAKE t \in Senders
    <3>1. CASE caller'[t] = caller[t]
      BY <2>1, <3>1 DEF SentInv, OnTheWire
    <3>2. CASE caller'[t].way = "timed" /\ caller'[t].packet = p
      BY <2>1, <3>2
    <3>3. QED
      BY <2>3, <3>1, <3>2
  <2>5. \A o \in 0..outVirtualBytes' - 1 : FALSE
    BY <2>1
  <2>6. QED
    BY <2>2, <2>4, <2>5 DEF SentInv
<1>5. ASSUME NEW s \in Senders, WaitForNotify(s) PROVE SentInv'
  <2>1. caller[s].place # "out" /\ caller[s].way = "timed"
    BY <1>5 DEF WaitForNotify, SentInv
  <2>2. CASE MayReturn(s) /\ ReturnTrue(s)
    BY <1>3, <1>5, <2>1, <2>2 DEF WaitForNotify, MayReturn
  <2>3. CASE Move(s, "asleep") /\ UNCHANGED <<outFlag, told>>
    BY <1>2, <1>5, <2>1, <2>3 DEF WaitForNotify, outVars
  <2>4. QED
    BY <1>5, <2>2, <2>3 DEF WaitForNotify
<1>6. ASSUME NEW s \in Senders, LastCheck(s) PROVE SentInv'
  <2>1. caller[s].place # "out"
    BY <1>6 DEF LastCheck
  <2>2. CASE ~outFlag /\ ReturnTrue(s)
    <3>1. UNCHANGED <<outBuf, outVirtualBytes, stream>>
      BY <1>6 DEF LastCheck
    <3>2. QED
      BY <1>3, <2>1, <2>2, <3>1
  <2>3. CASE caller' = [caller EXCEPT ![s] = Out] /\ UNCHANGED <<outFlag, told>>
    <3>1. \A t \in Senders : caller'[t] = caller[t] \/ caller'[t].place = "out"
      BY <2>3 DEF SenderTypeOK, Out
    <3>2. UNCHANGED <<outVars, told, stream>>
      BY <1>6, <2>3 DEF LastCheck, outVars
    <3>3. QED
      BY <1>1, <3>1, <3>2
  <2>4. QED
    BY <1>6, <2>2, <2>3 DEF LastCheck
<1>7. ASSUME NEW s \in Senders, Expire(s) \/ SpuriousWakeup(s) PROVE SentInv'
  BY <1>2, <1>7 DEF Expire, SpuriousWakeup
<1>8. CASE outFlag /\ Write
  <2>1. PICK k \in 1..RawSize(outBuf) : HandleWrite(k)
    BY <1>8 DEF Write
  <2>2. k \in Nat /\ RawSize(outBuf) \in Nat /\ outVirtualBytes \in Nat
    BY <1>8, RawSizeType DEF SenderTypeOK
  <2>3. outBuf' = outBuf /\ outVirtualBytes' = outVirtualBytes + k
    BY <2>1 DEF HandleWrite
  <2>4. /\ \A b : Written(b) => Written(b)'
        /\ \A o \in outVirtualBytes..outVirtualBytes + k - 1 : Written(<<outBuf, o>>)'
    BY <2>1, <2>2, WriteAppends
  <2>5. \A o \in 0..outVirtualBytes' - 1 : Written(<<outBuf, o>>)'
    <3> TAKE o \in 0..outVirtualBytes' - 1
    <3>1. CASE o \in 0..outVirtualBytes - 1
      BY <1>8, <2>3, <2>4, <3>1 DEF SentInv
    <3>2. CASE o \in outVirtualBytes..outVirtualBytes + k - 1
      BY <2>4, <3>2
    <3>3. QED
      BY <2>2, <2>3, <3>1, <3>2
  <2>6. \A p : OnTheWire(p) => OnTheWire(p)'
    BY <2>4 DEF OnTheWire, Written
  <2>7. TrueMeansSent'
    BY <2>1, <2>6 DEF SentInv, TrueMeansSent, HandleWrite
  <2>8. \A s \in Senders : /\ caller'[s].packet = caller[s].packet
                           /\ caller'[s].way = caller[s].way
                           /\ caller'[s].place # "out" => caller[s].place # "out"
    <3>1. CASE UNCHANGED caller
      BY <3>1
    <3>2. ASSUME NEW s \in Sleepers, Move(s, "awake")
          PROVE  \A t \in Senders : /\ caller'[t].packet = caller[t].packet
                                    /\ caller'[t].way = caller[t].way
                                    /\ caller'[t].place # "out" => caller[t].place # "out"
      BY <3>2 DEF Sleepers, Move, SenderTypeOK, Calls
    <3>3. QED
      BY <2>1, <3>1, <3>2 DEF HandleWrite, NotifyOne
  <2>9. CASE outFlag'
    BY <1>8, <2>3, <2>5, <2>6, <2>7, <2>8, <2>9 DEF SentInv
  <2>10. CASE ~outFlag'
    <3>1. outVirtualBytes' = RawSize(outBuf)
      BY <1>8, <2>1, <2>10 DEF HandleWrite
    <3>2. OnTheWire(outBuf)'
      BY <2>3, <2>5, <3>1 DEF OnTheWire, Written
    <3>3. QED
      BY <2>3, <2>6, <2>7, <2>8, <2>10, <3>2 DEF SentInv
  <2>11. QED
    BY <2>9, <2>10
<1>9. CASE Read
  BY <1>1, <1>9 DEF Read, Receive, FillIncomplete, TakePacket, MoveToFront, Return, callVars
<1>10. CASE UNCHANGED vars
  BY <1>1, <1>10 DEF vars, callVars
<1>11. QED
  BY <1>4, <1>5, <1>6, <1>7, <1>8, <1>9, <1>10 DEF Next, Call

\* "the packet was sent!" (net_peer.cpp:309) is true of every call with a time-out,
\* whatever the other threads send, as long as nobody waits without one (line 302).
THEOREM SentWhenTold == ASSUME "forever" \notin Ways PROVE Spec => []TrueMeansSent
<1>1. Init => SentInv
  BY DEF Init, SentInv, TrueMeansSent, Out
<1>2. SenderTypeOK /\ SentInv /\ [Next]_vars => SentInv'
  BY SentStep
<1>3. SenderTypeOK /\ [Next]_vars => SenderTypeOK'
  BY SenderTypeStep
<1>4. Spec => []SenderTypeOK
  BY TypeCorrect, PTL DEF TypeOK
<1>5. SentInv => TrueMeansSent
  BY DEF SentInv
<1>6. QED
  BY <1>1, <1>2, <1>4, <1>5, PTL DEF Spec

-----------------------------------------------------------------------------
(***************************************************************************)
(* What holds of one part of the exchange holds of the exchange.           *)
(***************************************************************************)

\* The connection changes by its own steps only.
LEMMA PeerPart == FairSpecAll => Spec
<1>1. InitAll => Init
  BY DEF InitAll
<1>2. [NextAll]_allVars => [Next]_vars
  BY DEF NextAll, allVars
<1>3. QED
  BY <1>1, <1>2, PTL DEF FairSpecAll, Spec

\* So a send that returns true has had its bytes written, whatever else goes on.
THEOREM SentWhenToldInExchange ==
  ASSUME "forever" \notin Ways
  PROVE  FairSpecAll => []TrueMeansSent
BY PeerPart, SentWhenTold, PTL

-----------------------------------------------------------------------------
(***************************************************************************)
(* The connection implements the packet channel.  Bytes are counted from   *)
(* the first one that was ever written: off tells how many of them belong  *)
(* to the packets before each one that was accepted.                       *)
(***************************************************************************)
Offsets(off) ==
  /\ off \in [1..Len(accepted) + 1 -> Nat]
  /\ off[1] = 0
  /\ \A i \in 1..Len(accepted) : off[i + 1] = off[i] + RawSize(accepted[i])
  /\ \A i, j \in 1..Len(accepted) + 1 : i <= j => off[i] <= off[j]

\* The bytes in the stream are those of the accepted packets, one behind the other, and
\* what is missing are the last bytes of the one that is being sent.
InTurn(off) ==
  /\ \A i \in 1..Len(accepted) : \A o \in 0..RawSize(accepted[i]) - 1 :
       off[i] + o < Len(stream) => stream[off[i] + o + 1] = <<accepted[i], o>>
  /\ ~outFlag => Len(stream) = off[Len(accepted) + 1]
  /\ outFlag => /\ Len(accepted) # 0 /\ outBuf = accepted[Len(accepted)]
                /\ Len(stream) = off[Len(accepted)] + outVirtualBytes

\* What was put together, how many bytes of the next packet were copied, and where the
\* buffer's bytes begin.
All == taken \o inPacketQueue
WholePacket(p) == [i \in 1..RawSize(p) |-> <<p, i - 1>>]
Copied == IF inBytesRest = 0 THEN 0 ELSE Len(inPacket)
From == IF at \in {"receiving", "returning"} THEN 0 ELSE inBufPtr

\* The packets were put together from the first bytes of the stream, and the buffer holds
\* the next ones.
Together(off) ==
  /\ Len(All) <= Len(accepted)
  /\ \A i \in 1..Len(All) : All[i] = WholePacket(accepted[i])
  /\ inBytesRest # 0 =>
       /\ Len(All) < Len(accepted)
       /\ Len(inPacket) + inBytesRest = RawSize(accepted[Len(All) + 1])
       /\ \A i \in 1..Len(inPacket) : inPacket[i] = <<accepted[Len(All) + 1], i - 1>>
       /\ at # "filling" => inVirtualBytes = 0
  /\ bytesRead = off[Len(All) + 1] + Copied + inVirtualBytes
  /\ \A i \in 0..inVirtualBytes - 1 :
       inBuf[From + i] = stream[off[Len(All) + 1] + Copied + i + 1]

\* Calls with a time-out leave the flag of a packet that is being sent alone.
Patient == \A s \in Senders : caller[s].place # "out" => caller[s].way = "timed"

ChannelInv == Patient /\ \E off : Offsets(off) /\ InTurn(off) /\ Together(off)

\* Types of the history, and of what depends on it.
LEMMA ChannelTypes ==
  ASSUME TypeOK
  PROVE  /\ accepted \in Seq(Contents) /\ Len(accepted) \in Nat
         /\ stream \in Seq(Bytes) /\ Len(stream) \in Nat
         /\ taken \in Seq(Pieces) /\ inPacketQueue \in Seq(Pieces)
         /\ All \in Seq(Pieces) /\ Len(All) \in Nat
         /\ Len(inPacket) \in Nat /\ inBytesRest \in Nat /\ Copied \in Nat
         /\ inVirtualBytes \in Nat /\ inBufPtr \in Nat /\ BufSize \in Nat
         /\ bytesRead \in Nat /\ bytesRead <= Len(stream)
         /\ \A i \in 1..Len(accepted) : /\ accepted[i] \in Contents
                                        /\ RawSize(accepted[i]) \in Nat \ {0}
<1>1. /\ accepted \in Seq(Contents) /\ stream \in Seq(Bytes)
      /\ taken \in Seq(Pieces) /\ inPacketQueue \in Seq(Pieces)
      /\ bytesRead \in 0..Len(stream)
      /\ inVirtualBytes \in 0..BufSize /\ inBufPtr \in Nat /\ inBytesRest \in Nat
      /\ inPacket \in Pieces
  BY DEF TypeOK, SenderTypeOK, ReaderTypeOK
<1>2. Len(accepted) \in Nat /\ Len(stream) \in Nat
  BY <1>1
<1>3. Len(inPacket) \in Nat
  BY <1>1 DEF Pieces
<1>4. All \in Seq(Pieces) /\ Len(All) \in Nat
  BY <1>1 DEF All
<1>5. \A i \in 1..Len(accepted) : accepted[i] \in Contents
  BY <1>1
<1>6. BufSize \in Nat /\ inVirtualBytes \in Nat /\ bytesRead \in Nat /\ bytesRead <= Len(stream)
  BY <1>1, <1>2, NetPeerAssumption
<1>7. Copied \in Nat
  BY <1>3 DEF Copied
<1>8. QED
  BY <1>1, <1>2, <1>3, <1>4, <1>5, <1>6, <1>7, RawSizeType

\* A new packet begins where the last one ends.
LEMMA AcceptKeeps ==
  ASSUME TypeOK, NEW off, Offsets(off), InTurn(off), Together(off), ~outFlag,
         NEW p \in Contents, accepted' = Append(accepted, p), outFlag', outBuf' = p,
         outVirtualBytes' = 0, UNCHANGED <<stream, bytesRead, inVars>>
  PROVE  \E new : Offsets(new)' /\ InTurn(new)' /\ Together(new)'
<1> DEFINE l == Len(accepted)
<1>1. /\ accepted \in Seq(Contents) /\ l \in Nat /\ RawSize(p) \in Nat \ {0}
      /\ Len(All) \in Nat
  BY ChannelTypes, RawSizeType
<1>2. /\ Len(accepted') = l + 1 /\ accepted'[l + 1] = p
      /\ \A i \in 1..l : accepted'[i] = accepted[i]
  BY <1>1
<1> HIDE DEF l
<1>3. /\ off \in [1..l + 1 -> Nat] /\ off[1] = 0
      /\ \A i \in 1..l : off[i + 1] = off[i] + RawSize(accepted[i])
      /\ \A i, j \in 1..l + 1 : i <= j => off[i] <= off[j]
  BY DEF Offsets, l
<1>4. PICK new : /\ new \in [1..l + 2 -> Nat] /\ new[l + 2] = off[l + 1] + RawSize(p)
                 /\ \A i \in 1..l + 1 : new[i] = off[i]
  <2> DEFINE longer == [i \in 1..l + 2 |-> IF i = l + 2 THEN off[l + 1] + RawSize(p) ELSE off[i]]
  <2>1. /\ longer \in [1..l + 2 -> Nat] /\ longer[l + 2] = off[l + 1] + RawSize(p)
        /\ \A i \in 1..l + 1 : longer[i] = off[i]
    BY <1>1, <1>3
  <2> HIDE DEF longer
  <2>2. QED
    BY <2>1
<1>5. Offsets(new)'
  <2>1. \A i \in 1..l + 1 : new[i + 1] = new[i] + RawSize(accepted'[i])
    <3> TAKE i \in 1..l + 1
    <3>1. CASE i = l + 1
      BY <1>1, <1>2, <1>4, <3>1
    <3>2. CASE i \in 1..l
      BY <1>1, <1>2, <1>3, <1>4, <3>2, SMTT(40)
    <3>3. i = l + 1 \/ i \in 1..l
      BY <1>1
    <3>4. QED
      BY <3>1, <3>2, <3>3
  <2>2. ASSUME NEW i \in 1..l + 2, NEW j \in 1..l + 2, i <= j PROVE new[i] <= new[j]
    <3>1. off[l + 1] \in Nat /\ off[l + 1] <= new[l + 2]
      BY <1>1, <1>3, <1>4
    <3>2. CASE j \in 1..l + 1
      <4>1. i \in 1..l + 1
        BY <1>1, <2>2, <3>2
      <4>2. off[i] <= off[j]
        BY <1>3, <2>2, <3>2, <4>1
      <4>3. QED
        BY <1>4, <3>2, <4>1, <4>2
    <3>3. CASE j = l + 2 /\ i \in 1..l + 1
      <4>1. off[i] \in Nat /\ off[i] <= off[l + 1] /\ new[i] = off[i] /\ new[l + 2] \in Nat
        BY <1>1, <1>3, <1>4, <3>3
      <4>2. QED
        BY <3>1, <3>3, <4>1
    <3>4. CASE j = l + 2 /\ i = l + 2
      BY <1>1, <1>4, <3>4
    <3>5. QED
      BY <1>1, <3>2, <3>3, <3>4
  <2>3. Len(accepted') + 1 = l + 2 /\ 1 \in 1..l + 1
    BY <1>1, <1>2
  <2>4. new \in [1..Len(accepted') + 1 -> Nat] /\ new[1] = 0
    BY <1>3, <1>4, <2>3
  <2>5. \A i \in 1..Len(accepted') : new[i + 1] = new[i] + RawSize(accepted'[i])
    BY <1>2, <2>1
  <2>6. \A i, j \in 1..Len(accepted') + 1 : i <= j => new[i] <= new[j]
    BY <2>2, <2>3
  <2>7. QED
    BY <2>4, <2>5, <2>6 DEF Offsets
<1>6. InTurn(new)'
  <2>1. Len(stream) = off[l + 1] /\ Len(stream) \in Nat
    BY ChannelTypes DEF InTurn, l
  <2>2. ASSUME NEW i \in 1..l + 1, NEW o \in 0..RawSize(accepted'[i]) - 1,
               new[i] + o < Len(stream)
        PROVE  stream[new[i] + o + 1] = <<accepted'[i], o>>
    <3>1. i \in 1..l
      BY <1>1, <1>2, <1>4, <2>1, <2>2, SMTT(40)
    <3>2. QED
      BY <1>1, <1>2, <1>4, <2>2, <3>1 DEF InTurn, l
  <2>3. Len(stream) = new[l + 1] + 0
    BY <1>1, <1>4, <2>1
  <2>4. Len(accepted') # 0 /\ outBuf' = accepted'[Len(accepted')]
    BY <1>1, <1>2
  <2>5. /\ \A i \in 1..Len(accepted') : \A o \in 0..RawSize(accepted'[i]) - 1 :
             new[i] + o < Len(stream') => stream'[new[i] + o + 1] = <<accepted'[i], o>>
        /\ outFlag' => Len(stream') = new[Len(accepted')] + outVirtualBytes'
    BY <1>2, <2>2, <2>3
  <2>6. QED
    BY <2>4, <2>5 DEF InTurn
<1>7. Together(new)'
  <2>1. All' = All /\ Copied' = Copied /\ From' = From
    BY DEF All, Copied, From, inVars, bufVars
  <2>2. Len(All) <= l
    BY DEF Together, l
  <2>3. /\ new[Len(All) + 1] = off[Len(All) + 1]
        /\ \A i \in 1..Len(All) : accepted'[i] = accepted[i]
        /\ Len(All) < l => accepted'[Len(All) + 1] = accepted[Len(All) + 1]
    <3>1. Len(All) + 1 \in 1..l + 1 /\ 1..Len(All) \subseteq 1..l
      BY <1>1, <2>2
    <3>2. Len(All) < l => Len(All) + 1 \in 1..l
      BY <1>1
    <3>3. \A i \in 1..l : accepted'[i] = accepted[i]
      BY <1>1, <1>2
    <3>4. new[Len(All) + 1] = off[Len(All) + 1]
      BY <1>4, <3>1
    <3>5. QED
      BY <3>1, <3>2, <3>3, <3>4
  <2>4. Len(All) <= l + 1 /\ (Len(All) < l => Len(All) < l + 1)
    BY <1>1, <2>2
  <2>5. UNCHANGED <<bytesRead, stream, at, inBuf, inVirtualBytes, inPacket, inBytesRest>>
    BY DEF inVars, bufVars
  <2>6. /\ Len(All') <= Len(accepted')
        /\ \A i \in 1..Len(All') : All'[i] = WholePacket(accepted'[i])
    BY <1>2, <2>1, <2>3, <2>4 DEF Together, l
  <2>7. inBytesRest' # 0 =>
          /\ Len(All') < Len(accepted')
          /\ Len(inPacket') + inBytesRest' = RawSize(accepted'[Len(All') + 1])
          /\ \A i \in 1..Len(inPacket') : inPacket'[i] = <<accepted'[Len(All') + 1], i - 1>>
          /\ at' # "filling" => inVirtualBytes' = 0
    BY <1>2, <2>1, <2>3, <2>4, <2>5 DEF Together, l
  <2>8. /\ bytesRead' = new[Len(All') + 1] + Copied' + inVirtualBytes'
        /\ \A i \in 0..inVirtualBytes' - 1 :
             inBuf'[From' + i] = stream'[new[Len(All') + 1] + Copied' + i + 1]
    BY <2>1, <2>3, <2>5 DEF Together
  <2>9. QED
    BY <2>6, <2>7, <2>8 DEF Together
<1>8. QED
  BY <1>5, <1>6, <1>7

\* A write goes on with the packet that is being sent.
LEMMA WriteKeeps ==
  ASSUME TypeOK, NEW off, Offsets(off), InTurn(off), Together(off), outFlag,
         NEW k \in 1..RawSize(outBuf), HandleWrite(k)
  PROVE  Offsets(off)' /\ InTurn(off)' /\ Together(off)'
<1> DEFINE l == Len(accepted)
           piece == [i \in 1..k |-> <<outBuf, outVirtualBytes + i - 1>>]
<1>1. /\ accepted \in Seq(Contents) /\ l \in Nat /\ Len(stream) \in Nat /\ Len(All) \in Nat
      /\ bytesRead \in Nat /\ bytesRead <= Len(stream) /\ inVirtualBytes \in Nat
      /\ Copied \in Nat
  BY ChannelTypes
<1>2. /\ outBuf \in Contents /\ RawSize(outBuf) \in Nat \ {0}
      /\ outVirtualBytes \in Nat /\ outVirtualBytes + k <= RawSize(outBuf) /\ k \in Nat
  BY RawSizeType DEF HandleWrite, TypeOK, SenderTypeOK
<1>3. /\ UNCHANGED <<accepted, outBuf, bytesRead, inVars>>
      /\ stream' = stream \o piece /\ outVirtualBytes' = outVirtualBytes + k
      /\ IF outVirtualBytes' = RawSize(outBuf) THEN ~outFlag' ELSE outFlag'
  BY DEF HandleWrite
<1>4. /\ Len(stream') = Len(stream) + k
      /\ \A i \in 1..Len(stream) : stream'[i] = stream[i]
      /\ \A i \in 1..k : stream'[Len(stream) + i] = <<outBuf, outVirtualBytes + i - 1>>
  <2>1. piece \in Seq(Bytes) /\ Len(piece) = k
    BY <1>2 DEF Bytes
  <2>2. stream \in Seq(Bytes)
    BY ChannelTypes
  <2>3. \A i \in 1..k : piece[i] = <<outBuf, outVirtualBytes + i - 1>>
    OBVIOUS
  <2> HIDE DEF piece
  <2>4. /\ Len(stream \o piece) = Len(stream) + Len(piece)
        /\ \A i \in 1..Len(stream) : (stream \o piece)[i] = stream[i]
        /\ \A i \in 1..Len(piece) : (stream \o piece)[Len(stream) + i] = piece[i]
    BY <2>1, <2>2
  <2>5. QED
    BY <1>3, <2>1, <2>3, <2>4
<1>5. /\ off \in [1..l + 1 -> Nat]
      /\ \A i \in 1..l : off[i + 1] = off[i] + RawSize(accepted[i])
      /\ \A i, j \in 1..l + 1 : i <= j => off[i] <= off[j]
  BY DEF Offsets
<1>6. /\ l # 0 /\ outBuf = accepted[l] /\ Len(stream) = off[l] + outVirtualBytes
      /\ \A i \in 1..l : \A o \in 0..RawSize(accepted[i]) - 1 :
           off[i] + o < Len(stream) => stream[off[i] + o + 1] = <<accepted[i], o>>
  BY DEF InTurn
<1>7. Offsets(off)'
  BY <1>3 DEF Offsets
<1> HIDE DEF l, piece
<1>8. InTurn(off)'
  <2>1. ASSUME NEW i \in 1..l, NEW o \in 0..RawSize(accepted[i]) - 1,
               off[i] + o < Len(stream')
        PROVE  stream'[off[i] + o + 1] = <<accepted[i], o>>
    <3>1. off[i] \in Nat /\ o \in Nat /\ RawSize(accepted[i]) \in Nat
      <4>1. accepted[i] \in Contents
        BY <1>1 DEF l
      <4>2. i \in 1..l + 1 /\ RawSize(accepted[i]) \in Nat
        BY <1>1, <4>1, RawSizeType
      <4>3. QED
        BY <1>5, <4>2
    <3>2. CASE off[i] + o < Len(stream)
      <4>0. \A a, b, n \in Nat : a + b < n => a + b + 1 \in 1..n
        OBVIOUS
      <4>1. off[i] + o + 1 \in 1..Len(stream)
        BY <1>1, <3>1, <3>2, <4>0, SMTT(40)
      <4>2. QED
        BY <1>4, <1>6, <3>2, <4>1
    <3>3. CASE ~(off[i] + o < Len(stream))
      <4>1. i = l
        <5>1. CASE i # l
          <6>1. off[i] + RawSize(accepted[i]) <= off[l] /\ off[l] \in Nat
            <7>1. i + 1 \in 1..l + 1 /\ l \in 1..l + 1 /\ i + 1 <= l
              BY <1>1, <5>1
            <7>2. QED
              BY <1>5, <7>1
          <6>2. o <= RawSize(accepted[i]) - 1 /\ Len(stream) = off[l] + outVirtualBytes
            BY <1>6, <3>1
          <6>3. off[i] + o < off[l]
            BY <3>1, <6>1, <6>2
          <6>4. QED
            BY <1>2, <3>1, <3>3, <6>1, <6>2, <6>3, SMTT(40)
        <5>2. QED
          BY <5>1
      <4> DEFINE d == o - outVirtualBytes + 1
      <4>2. off[i] + o + 1 = Len(stream) + d /\ outVirtualBytes + d - 1 = o /\ d \in 1..k
        <5>1. /\ Len(stream) = off[i] + outVirtualBytes
              /\ off[i] + o < Len(stream) + k
          BY <1>4, <1>6, <2>1, <4>1
        <5>2. outVirtualBytes <= o /\ o < outVirtualBytes + k
          <6>1. off[i] \in Nat /\ o \in Nat /\ outVirtualBytes \in Nat /\ k \in Nat
            BY <1>2, <3>1
          <6>2. ~(off[i] + o < off[i] + outVirtualBytes)
            BY <3>3, <5>1
          <6>3. off[i] + o < off[i] + outVirtualBytes + k
            BY <5>1
          <6>4. QED
            BY <6>1, <6>2, <6>3
        <5>3. QED
          BY <1>1, <1>2, <3>1, <5>1, <5>2
      <4> HIDE DEF d
      <4>3. QED
        BY <1>4, <1>6, <4>1, <4>2
    <3>4. QED
      BY <3>2, <3>3
  <2>2. /\ off[l] \in Nat /\ off[l + 1] = off[l] + RawSize(outBuf)
        /\ Len(stream') = off[l] + outVirtualBytes'
    <3>1. l \in 1..l /\ l \in 1..l + 1
      BY <1>1, <1>6
    <3>2. off[l] \in Nat /\ off[l + 1] = off[l] + RawSize(outBuf)
      BY <1>5, <1>6, <3>1
    <3>3. Len(stream') = off[l] + outVirtualBytes + k
      BY <1>4, <1>6
    <3>4. QED
      BY <1>2, <1>3, <3>2, <3>3
  <2>3. ~outFlag' => Len(stream') = off[l + 1]
    BY <1>3, <2>2
  <2>4. QED
    BY <1>3, <1>6, <2>1, <2>2, <2>3 DEF InTurn, l
<1>9. Together(off)'
  <2>1. All' = All /\ Copied' = Copied /\ From' = From
    BY <1>3 DEF All, Copied, From, inVars, bufVars
  <2>2. /\ bytesRead = off[Len(All) + 1] + Copied + inVirtualBytes /\ Len(All) <= l
        /\ \A i \in 0..inVirtualBytes - 1 :
             inBuf[From + i] = stream[off[Len(All) + 1] + Copied + i + 1]
    BY DEF Together, l
  <2>3. off[Len(All) + 1] \in Nat
    BY <1>1, <1>5, <2>2
  <2>4. \A i \in 0..inVirtualBytes - 1 : off[Len(All) + 1] + Copied + i + 1 \in 1..Len(stream)
    <3>1. off[Len(All) + 1] + Copied + inVirtualBytes <= Len(stream)
      BY <1>1, <2>2
    <3>2. Copied \in Nat /\ inVirtualBytes \in Nat /\ Len(stream) \in Nat
      BY <1>1
    <3>3. QED
      BY <2>3, <3>1, <3>2, SMTT(40)
  <2>5. \A i \in 0..inVirtualBytes - 1 :
          inBuf[From + i] = stream'[off[Len(All) + 1] + Copied + i + 1]
    BY <1>4, <2>2, <2>4
  <2>6. UNCHANGED <<accepted, bytesRead, at, inBuf, inVirtualBytes, inPacket, inBytesRest>>
    BY <1>3 DEF inVars, bufVars
  <2>7. QED
    BY <2>1, <2>2, <2>5, <2>6 DEF Together
<1>10. QED
  BY <1>7, <1>8, <1>9

\* Appending to the second of two sequences appends to both.
LEMMA AppendBehind ==
  ASSUME NEW T, NEW q \in Seq(T), NEW r \in Seq(T), NEW x \in T
  PROVE  q \o Append(r, x) = Append(q \o r, x)
OBVIOUS

\* Of the next packet all but the last rest bytes are copied, and begin bytes came before
\* those in the buffer.
Ready(off, copied, rest, begin) ==
  /\ Len(All) < Len(accepted)
  /\ \A i \in 1..Len(All) : All[i] = WholePacket(accepted[i])
  /\ Len(copied) + rest = RawSize(accepted[Len(All) + 1])
  /\ \A i \in 1..Len(copied) : copied[i] = <<accepted[Len(All) + 1], i - 1>>
  /\ begin = off[Len(All) + 1] + Len(copied)
  /\ bytesRead = begin + inVirtualBytes
  /\ \A i \in 0..inVirtualBytes - 1 : inBuf[inBufPtr + i] = stream[begin + i + 1]

\* A packet of which the buffer holds the next bytes is continued, and completed when it
\* holds them all.
LEMMA CopyKeeps ==
  ASSUME TypeOK, ~AnyTime, NEW off, Offsets(off), InTurn(off),
         NEW copied \in Pieces, NEW rest \in Nat \ {0}, NEW begin,
         Ready(off, copied, rest, begin),
         CopyBytes(copied, Smaller(inVirtualBytes, rest), rest), at' = "taking",
         UNCHANGED <<accepted, stream, bytesRead, inBuf, taken>>
  PROVE  Together(off)' /\ Len(All)' \in {Len(All), Len(All) + 1}
<1> DEFINE d == Len(All)
           p == accepted[d + 1]
           c == Len(copied)
           k == Smaller(inVirtualBytes, rest)
           more == InBytes(k)
           both == copied \o more
<1>1. /\ accepted \in Seq(Contents) /\ Len(accepted) \in Nat /\ d \in Nat /\ Len(stream) \in Nat
      /\ inVirtualBytes \in Nat /\ inBufPtr \in Nat /\ BufSize \in Nat /\ bytesRead \in Nat
      /\ bytesRead <= Len(stream) /\ c \in Nat /\ taken \in Seq(Pieces)
      /\ inPacketQueue \in Seq(Pieces) /\ All \in Seq(Pieces)
  BY ChannelTypes DEF Pieces
<1>2. inBufPtr + inVirtualBytes <= BufSize
  BY DEF TypeOK, ReaderTypeOK
<1>3. /\ p \in Contents /\ RawSize(p) \in Nat \ {0} /\ c + rest = RawSize(p)
      /\ d < Len(accepted) /\ d + 1 \in 1..Len(accepted)
  <2>1. d < Len(accepted) /\ c + rest = RawSize(p)
    BY DEF Ready
  <2>2. d + 1 \in 1..Len(accepted)
    BY <1>1, <2>1
  <2>3. QED
    BY <2>1, <2>2, ChannelTypes
<1>4. k \in Nat /\ k <= inVirtualBytes /\ k <= rest /\ (k = inVirtualBytes \/ k = rest)
  BY <1>1 DEF Smaller
<1>5. /\ off[d + 1] \in Nat /\ off[d + 1 + 1] = off[d + 1] + RawSize(p)
      /\ begin = off[d + 1] + c /\ begin \in Nat /\ bytesRead = begin + inVirtualBytes
  <2>1. d + 1 \in 1..Len(accepted) /\ d + 1 \in 1..Len(accepted) + 1
    BY <1>1, <1>3
  <2>2. off[d + 1] \in Nat /\ off[d + 1 + 1] = off[d + 1] + RawSize(p)
    BY <2>1 DEF Offsets
  <2>3. begin = off[d + 1] + c /\ bytesRead = begin + inVirtualBytes /\ c \in Nat
    BY <1>1 DEF Ready
  <2> HIDE DEF d, c, p
  <2>4. QED
    BY <2>2, <2>3
<1>6. /\ inPacket' = both /\ inVirtualBytes' = inVirtualBytes - k
      /\ inBufPtr' = inBufPtr + k /\ inBytesRest' = rest - k
      /\ IF rest = k THEN inPacketQueue' = Append(inPacketQueue, inPacket')
         ELSE UNCHANGED inPacketQueue
  BY DEF CopyBytes
<1> HIDE DEF k
<1>7. ASSUME NEW i \in 1..k PROVE more[i] = <<p, c + i - 1>>
  <2>1. inBufPtr + i <= BufSize /\ i - 1 \in 0..inVirtualBytes - 1
        /\ inBufPtr + i - 1 = inBufPtr + (i - 1)
    BY <1>1, <1>2, <1>4
  <2>2. more[i] = inBuf[inBufPtr + i - 1]
    BY <2>1 DEF InBytes
  <2>3. inBuf[inBufPtr + (i - 1)] = stream[begin + (i - 1) + 1]
    BY <2>1 DEF Ready
  <2> DEFINE o == c + i - 1
  <2>4. /\ o \in 0..RawSize(p) - 1 /\ off[d + 1] + o < Len(stream)
        /\ begin + (i - 1) + 1 = off[d + 1] + o + 1 /\ d + 1 \in 1..Len(accepted)
    <3>1. d + 1 \in 1..Len(accepted)
      BY <1>3
    <3>2. /\ c \in Nat /\ RawSize(p) \in Nat /\ c + rest = RawSize(p) /\ k <= rest /\ k \in Nat
          /\ off[d + 1] \in Nat /\ begin = off[d + 1] + c /\ begin + inVirtualBytes <= Len(stream)
          /\ begin \in Nat
          /\ k <= inVirtualBytes /\ inVirtualBytes \in Nat /\ Len(stream) \in Nat
      BY <1>1, <1>3, <1>4, <1>5
    <3>3. i \in 1..k
      OBVIOUS
    <3> HIDE DEF d, c, p
    <3>4. o = c + i - 1 /\ o \in Nat /\ o + 1 = c + i /\ i \in Nat /\ i <= k /\ 1 <= i
      BY <3>2, <3>3
    <3> HIDE DEF o
    <3>5. o \in 0..RawSize(p) - 1
      BY <3>2, <3>4
    <3>6. begin + (i - 1) + 1 = off[d + 1] + o + 1
      BY <3>2, <3>4, SMTT(40)
    <3>7. off[d + 1] + o < Len(stream)
      BY <3>2, <3>4, SMTT(40)
    <3>8. QED
      BY <3>1, <3>5, <3>6, <3>7
  <2> HIDE DEF o
  <2>5. stream[off[d + 1] + o + 1] = <<p, o>>
    BY <2>4 DEF InTurn
  <2>6. QED
    BY <2>1, <2>2, <2>3, <2>4, <2>5 DEF o
<1>8. more \in Pieces /\ Len(more) = k
  <2>1. more \in Pieces
    BY <1>4, InBytesType DEF TypeOK, ReaderTypeOK
  <2>2. more = [i \in 1..k |-> IF inBufPtr + i <= BufSize THEN inBuf[inBufPtr + i - 1] ELSE Stale]
    BY DEF InBytes
  <2>3. QED
    BY <1>4, <2>1, <2>2
<1> HIDE DEF more, p
<1>9. /\ both \in Pieces /\ Len(both) = c + k
      /\ \A i \in 1..c : both[i] = copied[i]
      /\ \A i \in 1..k : both[c + i] = more[i]
  <2>1. copied \in Seq(Bytes \cup {Stale}) /\ more \in Seq(Bytes \cup {Stale})
    BY <1>8 DEF Pieces
  <2>2. /\ both \in Seq(Bytes \cup {Stale}) /\ Len(both) = Len(copied) + Len(more)
        /\ \A i \in 1..Len(copied) : both[i] = copied[i]
        /\ \A i \in 1..Len(more) : both[Len(copied) + i] = more[i]
    BY <2>1, BothOf
  <2>3. QED
    BY <1>8, <2>2 DEF Pieces
<1> HIDE DEF both
<1>10. ASSUME NEW i \in 1..c + k PROVE both[i] = <<p, i - 1>>
  <2>1. CASE i \in 1..c
    BY <1>9, <2>1 DEF Ready, p
  <2>2. CASE i \notin 1..c
    <3> DEFINE j == i - c
    <3>1. j \in 1..k /\ i = c + j /\ c + j - 1 = i - 1
      BY <1>1, <1>4, <2>2
    <3> HIDE DEF j
    <3>2. QED
      BY <1>7, <1>9, <3>1
  <2>3. QED
    BY <2>1, <2>2
<1> HIDE DEF c
<1>11. /\ From' = inBufPtr + k
       /\ \A i \in 0..inVirtualBytes' - 1 :
            inBuf'[From' + i] = stream'[begin + k + i + 1]
  <2>1. From' = inBufPtr + k
    BY <1>6 DEF From
  <2>2. ASSUME NEW i \in 0..inVirtualBytes' - 1 PROVE inBuf[From' + i] = stream[begin + k + i + 1]
    <3> DEFINE j == k + i
    <3>1. j \in 0..inVirtualBytes - 1 /\ inBufPtr + k + i = inBufPtr + j
          /\ begin + k + i + 1 = begin + j + 1
      <4>1. /\ inVirtualBytes' = inVirtualBytes - k /\ inVirtualBytes \in Nat /\ k \in Nat
            /\ k <= inVirtualBytes /\ begin \in Nat /\ inBufPtr \in Nat
        BY <1>1, <1>4, <1>5, <1>6
      <4>2. i \in Nat /\ i < inVirtualBytes - k
        BY <4>1
      <4>3. QED
        BY <4>1, <4>2
    <3> HIDE DEF j
    <3>2. QED
      BY <2>1, <3>1 DEF Ready
  <2>3. QED
    BY <2>1, <2>2
<1>12. bytesRead' = begin + k + inVirtualBytes'
  <2>1. /\ inVirtualBytes' = inVirtualBytes - k /\ inVirtualBytes \in Nat /\ k \in Nat
        /\ k <= inVirtualBytes /\ begin \in Nat
        /\ bytesRead' = bytesRead /\ bytesRead = begin + inVirtualBytes
    BY <1>1, <1>4, <1>5, <1>6
  <2>2. QED
    BY <2>1
<1>13. CASE rest = k
  <2>1. All' = Append(All, both) /\ Len(All') = d + 1 /\ All'[d + 1] = both
        /\ \A i \in 1..d : All'[i] = All[i]
    <3>1. both \in Pieces /\ inPacketQueue' = Append(inPacketQueue, both)
      BY <1>6, <1>9, <1>13
    <3>2. taken \o Append(inPacketQueue, both) = Append(taken \o inPacketQueue, both)
      <4>1. taken \in Seq(Pieces) /\ inPacketQueue \in Seq(Pieces) /\ both \in Pieces
        BY <1>1, <3>1
      <4>2. QED
        BY <4>1, AppendBehind
    <3>3. All' = Append(All, both)
      BY <3>1, <3>2 DEF All
    <3>4. QED
      BY <1>1, <1>9, <3>3
  <2>2. both = WholePacket(p)
    <3>1. c + k = RawSize(p)
      BY <1>3, <1>13
    <3>2. \A i \in 1..RawSize(p) : both[i] = <<p, i - 1>>
      BY <1>10, <3>1
    <3>3. both \in Seq(Bytes \cup {Stale}) /\ Len(both) = RawSize(p)
      BY <1>9, <3>1 DEF Pieces
    <3>4. both = [i \in 1..Len(both) |-> both[i]]
      BY <3>3
    <3>5. QED
      BY <3>2, <3>3, <3>4 DEF WholePacket
  <2>3. ASSUME NEW i \in 1..d + 1 PROVE All'[i] = WholePacket(accepted[i])
    <3>1. CASE i \in 1..d
      BY <2>1, <3>1 DEF Ready
    <3>2. CASE i = d + 1
      BY <2>1, <2>2, <3>2 DEF p
    <3>3. QED
      BY <1>1, <3>1, <3>2
  <2>4. inBytesRest' = 0 /\ Copied' = 0
    BY <1>4, <1>6, <1>13 DEF Copied
  <2>5. off[d + 1 + 1] + 0 = begin + k /\ c \in Nat
    <3>1. /\ off[d + 1 + 1] = off[d + 1] + RawSize(p) /\ off[d + 1] \in Nat
          /\ RawSize(p) = c + k /\ c \in Nat /\ k \in Nat /\ begin = off[d + 1] + c
      BY <1>1, <1>3, <1>4, <1>5, <1>13
    <3> HIDE DEF d
    <3>2. QED
      BY <3>1
  <2>6. d + 1 <= Len(accepted)
    BY <1>1, <1>3
  <2>7. /\ bytesRead' = off[Len(All') + 1] + Copied' + inVirtualBytes'
        /\ \A i \in 0..inVirtualBytes' - 1 :
             inBuf'[From' + i] = stream'[off[Len(All') + 1] + Copied' + i + 1]
    <3>1. off[Len(All') + 1] + Copied' = begin + k
      BY <2>1, <2>4, <2>5
    <3>2. QED
      BY <1>11, <1>12, <3>1
  <2>8. QED
    BY <2>1, <2>3, <2>4, <2>6, <2>7 DEF Together, d
<1>14. CASE rest # k
  <2>1. All' = All /\ inBytesRest' # 0 /\ inVirtualBytes' = 0
    <3>1. k = inVirtualBytes /\ k <= rest /\ k \in Nat
      BY <1>4, <1>14
    <3>2. inVirtualBytes' = 0
      BY <1>6, <3>1
    <3>3. inBytesRest' # 0
      BY <1>6, <1>14, <3>1
    <3>4. All' = All
      BY <1>6, <1>14 DEF All
    <3>5. QED
      BY <3>2, <3>3, <3>4
  <2>2. /\ Len(inPacket') = c + k /\ Copied' = c + k
        /\ Len(inPacket') + inBytesRest' = RawSize(p)
        /\ \A i \in 1..Len(inPacket') : inPacket'[i] = <<p, i - 1>>
    <3>1. Len(inPacket') = c + k
      BY <1>6, <1>9
    <3>2. c + k + inBytesRest' = RawSize(p)
      BY <1>1, <1>3, <1>4, <1>6 DEF c
    <3>3. QED
      BY <1>6, <1>10, <2>1, <3>1, <3>2 DEF Copied
  <2>3. off[d + 1] + (c + k) = begin + k
    <3>1. /\ off[d + 1] \in Nat /\ c \in Nat /\ k \in Nat /\ begin = off[d + 1] + c
      BY <1>1, <1>4, <1>5
    <3> HIDE DEF d
    <3>2. QED
      BY <3>1
  <2>4. bytesRead' = off[Len(All') + 1] + Copied' + inVirtualBytes'
    BY <1>12, <2>1, <2>2, <2>3
  <2>5. \A i \in 0..inVirtualBytes' - 1 : FALSE
    BY <2>1
  <2>6. QED
    BY <2>1, <2>2, <2>4, <2>5 DEF Together, Ready, d, p
<1>15. QED
  BY <1>13, <1>14

\* What is read goes behind the bytes that the buffer holds.
LEMMA ReceiveReads ==
  ASSUME TypeOK, ~AnyTime, NEW off, Offsets(off), Together(off), NEW n \in Nat, Receive(n)
  PROVE  Together(off)' /\ All' = All
<1> DEFINE begin == off[Len(All) + 1] + Copied
           iv == inVirtualBytes
<1>1. /\ Len(accepted) \in Nat /\ Len(All) \in Nat /\ Copied \in Nat /\ iv \in Nat
      /\ bytesRead \in Nat /\ BufSize \in Nat /\ Len(stream) \in Nat /\ bytesRead <= Len(stream)
      /\ inBuf \in [0..BufSize - 1 -> Bytes \cup {Stale}]
  BY ChannelTypes DEF TypeOK, ReaderTypeOK
<1>2. /\ at = "polling" /\ inBufPtr = 0 /\ inBufPtr' = 0 /\ at' = "filling"
      /\ inVirtualBytes' = iv + n /\ bytesRead' = bytesRead + n
      /\ inBuf' = [i \in 0..BufSize - 1 |->
                 IF i \in inVirtualBytes..inVirtualBytes + n - 1
                 THEN stream[bytesRead + i - inVirtualBytes + 1] ELSE inBuf[i]]
      /\ UNCHANGED <<accepted, stream, inPacket, inBytesRest, inPacketQueue, taken>>
  BY DEF Receive, TypeOK, ReaderTypeOK
<1>3. iv + n <= BufSize
  BY <1>1 DEF Receive, Smaller, TypeOK, ReaderTypeOK
<1>4. All' = All /\ Copied' = Copied /\ From = 0 /\ From' = 0
  BY <1>2 DEF All, Copied, From
<1>5. /\ bytesRead = begin + iv /\ Len(All) <= Len(accepted)
      /\ \A i \in 0..iv - 1 : inBuf[i] = stream[begin + i + 1]
  <2>1. \A i \in 0..iv - 1 : inBuf[0 + i] = stream[begin + i + 1]
    BY <1>4 DEF Together
  <2>2. QED
    BY <1>1, <2>1 DEF Together
<1>6. begin \in Nat
  <2>1. off[Len(All) + 1] \in Nat
    BY <1>1, <1>5 DEF Offsets
  <2>2. QED
    BY <1>1, <2>1
<1> HIDE DEF begin, iv
<1>7. ASSUME NEW i \in 0..iv + n - 1 PROVE inBuf'[0 + i] = stream[begin + i + 1]
  <2>1. i \in 0..BufSize - 1 /\ 0 + i = i
    BY <1>1, <1>3
  <2>2. CASE i \in iv..iv + n - 1
    <3>1. bytesRead + i - iv + 1 = begin + i + 1
      BY <1>1, <1>5, <1>6, <2>2
    <3>2. QED
      BY <1>2, <2>1, <2>2, <3>1 DEF iv
  <2>3. CASE i \in 0..iv - 1
    <3>1. i \notin iv..iv + n - 1
      BY <1>1, <2>3
    <3>2. QED
      BY <1>2, <1>5, <2>1, <2>3, <3>1 DEF iv
  <2>4. QED
    BY <1>1, <2>2, <2>3
<1>8. bytesRead' = begin + inVirtualBytes'
  BY <1>1, <1>2, <1>5, <1>6
<1>9. /\ bytesRead' = off[Len(All') + 1] + Copied' + inVirtualBytes'
      /\ \A i \in 0..inVirtualBytes' - 1 :
           inBuf'[From' + i] = stream'[off[Len(All') + 1] + Copied' + i + 1]
  <2>1. off[Len(All') + 1] + Copied' = begin
    BY <1>4 DEF begin
  <2>2. inVirtualBytes' = iv + n /\ stream' = stream /\ From' = 0
    BY <1>2, <1>4
  <2>3. \A i \in 0..inVirtualBytes' - 1 : inBuf'[From' + i] = stream'[begin + i + 1]
    <3>1. ASSUME NEW i \in 0..inVirtualBytes' - 1
          PROVE  inBuf'[From' + i] = stream'[begin + i + 1]
      <4>1. i \in 0..iv + n - 1
        BY <1>1, <2>2
      <4>2. inBuf'[0 + i] = stream[begin + i + 1]
        BY <1>7, <4>1
      <4>3. QED
        BY <2>2, <4>2
    <3>2. QED
      BY <3>1
  <2>4. QED
    BY <1>8, <2>1, <2>3
<1>10. at' = "filling" /\ UNCHANGED <<accepted, inPacket, inBytesRest>>
  BY <1>2
<1>11. QED
  BY <1>4, <1>9, <1>10 DEF Together

\* What was read continues the packet that is incomplete, or the buffer's bytes begin a
\* packet.
LEMMA FillReads ==
  ASSUME TypeOK, ~AnyTime, NEW off, Offsets(off), InTurn(off), Together(off), FillIncomplete
  PROVE  Together(off)' /\ Len(All)' \in {Len(All), Len(All) + 1}
<1>1. at = "filling" /\ at' = "taking" /\ UNCHANGED <<accepted, stream, bytesRead, inBuf, taken>>
  BY DEF FillIncomplete
<1>2. CASE inBytesRest = 0
  <2>1. UNCHANGED <<inPacket, inVirtualBytes, inBufPtr, inBytesRest, inPacketQueue>>
    BY <1>2 DEF FillIncomplete
  <2>2. All' = All /\ Copied' = Copied /\ From' = From
    BY <1>1, <2>1 DEF All, Copied, From
  <2>3. QED
    BY <1>1, <1>2, <2>1, <2>2 DEF Together
<1>3. CASE inBytesRest # 0
  <2> DEFINE begin == off[Len(All) + 1] + Len(inPacket)
  <2>1. CopyBytes(inPacket, Smaller(inVirtualBytes, inBytesRest), inBytesRest)
    BY <1>3 DEF FillIncomplete
  <2>2. Copied = Len(inPacket) /\ From = inBufPtr
    BY <1>1, <1>3 DEF Copied, From
  <2>3. Ready(off, inPacket, inBytesRest, begin)
    BY <1>3, <2>2 DEF Together, Ready
  <2>4. inPacket \in Pieces /\ inBytesRest \in Nat \ {0}
    BY <1>3 DEF TypeOK, ReaderTypeOK
  <2> HIDE DEF begin
  <2>5. QED
    BY <1>1, <2>1, <2>3, <2>4, CopyKeeps
<1>4. QED
  BY <1>2, <1>3

\* The header is a part of the packet.
LEMMA HeaderFits ==
  ASSUME NEW p \in Contents
  PROVE  RawSize(p) >= HeaderSize
<1>1. p % Align \in 0..Align - 1
  BY NetPeerAssumption
<1>2. QED
  BY <1>1, NetPeerAssumption DEF RawSize

\* The buffer holds the header of the next packet that was accepted.
LEMMA TakeReads ==
  ASSUME TypeOK, ~AnyTime, NEW off, Offsets(off), InTurn(off), Together(off), TakePacket
  PROVE  Together(off)' /\ Len(All)' \in {Len(All), Len(All) + 1}
<1> DEFINE d == Len(All)
           p == accepted[d + 1]
           begin == off[d + 1]
<1>1. PICK q \in Contents :
        /\ HeaderSays(q)
        /\ CopyBytes(<<>>, Smaller(inVirtualBytes, RawSize(q)), RawSize(q))
  BY DEF TakePacket
<1>2. /\ at = "taking" /\ at' = "taking" /\ inVirtualBytes >= HeaderSize
      /\ UNCHANGED <<accepted, stream, bytesRead, inBuf, taken>>
  BY DEF TakePacket
<1>3. /\ Len(accepted) \in Nat /\ d \in Nat /\ inVirtualBytes \in Nat /\ inBufPtr \in Nat
      /\ HeaderSize \in Nat \ {0} /\ BufSize \in Nat /\ bytesRead \in Nat /\ Len(stream) \in Nat
      /\ bytesRead <= Len(stream) /\ inBufPtr + inVirtualBytes <= BufSize /\ inBytesRest \in Nat
  BY ChannelTypes, NetPeerAssumption DEF TypeOK, ReaderTypeOK
<1>4. inBytesRest = 0 /\ Copied = 0 /\ From = inBufPtr
  BY <1>2, <1>3 DEF Together, Copied, From
<1>5. /\ d <= Len(accepted) /\ bytesRead = begin + 0 + inVirtualBytes /\ begin \in Nat
      /\ \A i \in 0..inVirtualBytes - 1 : inBuf[inBufPtr + i] = stream[begin + 0 + i + 1]
  <2>1. d <= Len(accepted)
    BY DEF Together
  <2>2. begin \in Nat
    BY <1>3, <2>1 DEF Offsets
  <2>3. QED
    BY <1>4, <2>1, <2>2 DEF Together
<1>6. d < Len(accepted) /\ d + 1 \in 1..Len(accepted)
  <2>1. Len(stream) <= off[Len(accepted) + 1]
    <3>1. CASE outFlag
      <4>1. /\ Len(accepted) # 0 /\ outBuf = accepted[Len(accepted)]
            /\ Len(stream) = off[Len(accepted)] + outVirtualBytes
        BY <3>1 DEF InTurn
      <4>2. /\ outVirtualBytes \in Nat /\ RawSize(outBuf) \in Nat
            /\ outVirtualBytes <= RawSize(outBuf)
        BY <3>1, RawSizeType DEF TypeOK, SenderTypeOK
      <4>3. /\ off[Len(accepted) + 1] = off[Len(accepted)] + RawSize(outBuf)
            /\ off[Len(accepted)] \in Nat
        BY <1>3, <4>1 DEF Offsets
      <4>4. QED
        BY <4>1, <4>2, <4>3
    <3>2. CASE ~outFlag
      BY <1>3, <3>2 DEF InTurn
    <3>3. QED
      BY <3>1, <3>2
  <2>2. begin < Len(stream)
    BY <1>2, <1>3, <1>5
  <2>3. d # Len(accepted)
    BY <1>3, <1>5, <2>1, <2>2
  <2> HIDE DEF d
  <2>4. QED
    BY <1>3, <1>5, <2>3
<1>7. p \in Contents /\ RawSize(p) \in Nat \ {0} /\ RawSize(p) >= HeaderSize
  <2>1. p \in Contents /\ RawSize(p) \in Nat \ {0}
    BY <1>6, ChannelTypes
  <2>2. QED
    BY <2>1, HeaderFits
<1> DEFINE Header(x) == [i \in 1..HeaderSize |-> <<x, i - 1>>]
<1>8. Header(p) = InBytes(HeaderSize)
  <2>1. ASSUME NEW i \in 1..HeaderSize PROVE InBytes(HeaderSize)[i] = <<p, i - 1>>
    <3>1. inBufPtr + i <= BufSize /\ i - 1 \in 0..inVirtualBytes - 1
          /\ inBufPtr + i - 1 = inBufPtr + (i - 1)
      BY <1>2, <1>3
    <3>2. InBytes(HeaderSize)[i] = inBuf[inBufPtr + (i - 1)]
      BY <3>1 DEF InBytes
    <3>3. inBuf[inBufPtr + (i - 1)] = stream[begin + 0 + (i - 1) + 1]
      BY <1>5, <3>1
    <3> DEFINE o == i - 1
    <3>4. o \in 0..RawSize(p) - 1
      BY <1>3, <1>7
    <3>5. begin + o < Len(stream) /\ begin + 0 + (i - 1) + 1 = begin + o + 1
      BY <1>2, <1>3, <1>5, <3>1
    <3> HIDE DEF o
    <3>6. stream[begin + o + 1] = <<p, o>>
      BY <1>6, <3>4, <3>5 DEF InTurn
    <3>7. QED
      BY <3>2, <3>3, <3>5, <3>6 DEF o
  <2>2. InBytes(HeaderSize) = [i \in 1..HeaderSize |-> InBytes(HeaderSize)[i]]
    BY DEF InBytes
  <2>3. QED
    BY <2>1, <2>2
<1>9. q = p
  <2>1. Header(q) = InBytes(HeaderSize)
    BY <1>1, <1>7, <1>8 DEF HeaderSays
  <2>2. 1 \in 1..HeaderSize
    BY <1>3
  <2>3. Header(q)[1] = <<q, 0>> /\ Header(p)[1] = <<p, 0>>
    BY <2>2
  <2>4. Header(q) = Header(p)
    BY <1>8, <2>1
  <2> HIDE DEF Header, p
  <2>5. <<q, 0>> = <<p, 0>>
    BY <2>3, <2>4
  <2>6. QED
    BY <2>5
<1>10. Ready(off, <<>>, RawSize(p), begin)
  <2>1. \A i \in 1..d : All[i] = WholePacket(accepted[i])
    BY DEF Together
  <2>2. Len(<<>>) = 0 /\ \A i \in 1..Len(<<>>) : FALSE
    OBVIOUS
  <2>3. begin = off[d + 1] + 0 /\ begin + 0 = begin /\ 0 + RawSize(p) = RawSize(p)
    BY <1>5, <1>7
  <2>4. QED
    BY <1>5, <1>6, <2>1, <2>2, <2>3 DEF Ready
<1>11. <<>> \in Pieces
  BY DEF Pieces
<1>12. CopyBytes(<<>>, Smaller(inVirtualBytes, RawSize(p)), RawSize(p))
  BY <1>1, <1>9
<1> HIDE DEF p, begin, d
<1>13. QED
  BY <1>2, <1>7, <1>10, <1>11, <1>12, CopyKeeps

\* The bytes that are left are the next ones, wherever they are moved to.
LEMMA MoveReads ==
  ASSUME TypeOK, ~AnyTime, NEW off, Together(off), MoveToFront
  PROVE  Together(off)' /\ All' = All
<1>1. /\ inVirtualBytes \in Nat /\ inBufPtr \in Nat /\ BufSize \in Nat
      /\ inBufPtr + inVirtualBytes <= BufSize
  BY ChannelTypes DEF TypeOK, ReaderTypeOK
<1>2. /\ at = "taking" /\ at' \in {"receiving", "returning"}
      /\ inBuf' = [i \in 0..BufSize - 1 |->
                     IF i < inVirtualBytes THEN InBytes(inVirtualBytes)[i + 1] ELSE inBuf[i]]
      /\ UNCHANGED <<accepted, stream, bytesRead, inVirtualBytes, inPacket, inBytesRest,
                     inPacketQueue, taken>>
  BY DEF MoveToFront
<1>3. All' = All /\ Copied' = Copied /\ From = inBufPtr /\ From' = 0
  BY <1>2 DEF All, Copied, From
<1>4. ASSUME NEW i \in 0..inVirtualBytes - 1 PROVE inBuf'[0 + i] = inBuf[inBufPtr + i]
  <2>1. /\ 0 + i = i /\ i \in 0..BufSize - 1 /\ i < inVirtualBytes
        /\ i + 1 \in 1..inVirtualBytes /\ inBufPtr + (i + 1) <= BufSize
        /\ inBufPtr + (i + 1) - 1 = inBufPtr + i
    BY <1>1
  <2>2. InBytes(inVirtualBytes)[i + 1] = inBuf[inBufPtr + i]
    BY <2>1 DEF InBytes
  <2>3. QED
    BY <1>2, <2>1, <2>2
<1>5. \A i \in 0..inVirtualBytes' - 1 :
        inBuf'[From' + i] = stream'[off[Len(All') + 1] + Copied' + i + 1]
  BY <1>2, <1>3, <1>4 DEF Together
<1>6. QED
  BY <1>2, <1>3, <1>5 DEF Together

\* Handing over what was put together changes nothing of it.
LEMMA ReturnReads ==
  ASSUME TypeOK, NEW off, Together(off), Return
  PROVE  Together(off)' /\ All' = All
<1>1. /\ at \in {"receiving", "returning"} /\ at' = "polling" /\ inBufPtr' = 0
      /\ inBuf' = [i \in 0..BufSize - 1 |-> IF i < inVirtualBytes THEN inBuf[i] ELSE Stale]
      /\ UNCHANGED <<accepted, stream, bytesRead, inVirtualBytes, inPacket, inBytesRest>>
      /\ \/ taken' = taken \o inPacketQueue /\ inPacketQueue' = <<>>
         \/ UNCHANGED <<taken, inPacketQueue>>
  BY DEF Return
<1>2. All' = All
  <2>1. (taken \o inPacketQueue) \o <<>> = taken \o inPacketQueue
    BY ChannelTypes
  <2>2. QED
    BY <1>1, <2>1 DEF All
<1>3. Copied' = Copied /\ From = 0 /\ From' = 0
  BY <1>1 DEF Copied, From
<1>4. inVirtualBytes \in Nat /\ BufSize \in Nat /\ inVirtualBytes <= BufSize
  BY ChannelTypes, NetPeerAssumption DEF TypeOK, ReaderTypeOK
<1>5. \A i \in 0..inVirtualBytes - 1 : inBuf'[0 + i] = inBuf[0 + i]
  BY <1>1, <1>4
<1>6. \A i \in 0..inVirtualBytes' - 1 :
        inBuf'[From' + i] = stream'[off[Len(All') + 1] + Copied' + i + 1]
  BY <1>1, <1>2, <1>3, <1>5 DEF Together
<1>7. QED
  BY <1>1, <1>2, <1>3, <1>6 DEF Together

\* One step of the two peers.
LEMMA ChannelStep ==
  ASSUME "forever" \notin Ways, ~AnyTime, TypeOK, TypeOK', ChannelInv, [Next]_vars
  PROVE  /\ ChannelInv'
         /\ \/ accepted' = accepted /\ Len(All)' \in {Len(All), Len(All) + 1}
            \/ \E p \in Contents : /\ \A i \in 1..Len(accepted) : accepted[i] # p
                                   /\ accepted' = Append(accepted, p)
                                   /\ Len(All)' = Len(All)
<1>1. PICK off : Offsets(off) /\ InTurn(off) /\ Together(off)
  BY DEF ChannelInv
<1>2. Patient
  BY DEF ChannelInv
<1>3. caller \in [Senders -> Calls] /\ outFlag \in BOOLEAN
  BY DEF TypeOK, SenderTypeOK
<1>4. ASSUME Patient', UNCHANGED <<outVars, accepted, stream, bytesRead, inVars>>
      PROVE  ChannelInv' /\ accepted' = accepted /\ Len(All)' = Len(All)
  <2>1. Offsets(off)' /\ InTurn(off)'
    BY <1>1, <1>4 DEF Offsets, InTurn, outVars
  <2>2. Together(off)' /\ All' = All
    BY <1>1, <1>4 DEF Together, All, Copied, From, inVars, bufVars
  <2>3. QED
    BY <1>4, <2>1, <2>2 DEF ChannelInv
<1>5. ASSUME NEW s \in Senders, caller[s].place # "out",
             (\E place : Move(s, place)) \/ caller' = [caller EXCEPT ![s] = Out]
      PROVE  Patient'
  BY <1>2, <1>3, <1>5 DEF Patient, Move, Out, Calls
<1>6. ASSUME NEW s \in Senders, NEW p \in Contents, NEW w \in Ways, SendPacket(s, p, w)
      PROVE  ChannelInv' /\ accepted' = Append(accepted, p) /\ Len(All)' = Len(All)
  <2>1. /\ ~outFlag /\ outFlag' /\ outBuf' = p /\ outVirtualBytes' = 0
        /\ accepted' = Append(accepted, p) /\ UNCHANGED <<stream, bytesRead, inVars>>
    BY <1>6 DEF SendPacket
  <2>2. Patient'
    BY <1>2, <1>3, <1>6, NetPeerAssumption DEF SendPacket, Patient, Calls
  <2>3. \E new : Offsets(new)' /\ InTurn(new)' /\ Together(new)'
    BY <1>1, <2>1, AcceptKeeps
  <2>4. All' = All
    BY <2>1 DEF All, inVars
  <2>5. QED
    BY <2>1, <2>2, <2>3, <2>4 DEF ChannelInv
<1>7. ASSUME NEW s \in Senders,
             WaitForNotify(s) \/ Expire(s) \/ LastCheck(s) \/ SpuriousWakeup(s)
      PROVE  ChannelInv' /\ accepted' = accepted /\ Len(All)' = Len(All)
  <2>1. caller[s].place # "out"
    BY <1>7 DEF WaitForNotify, Expire, LastCheck, SpuriousWakeup
  <2>2. caller[s].way = "timed"
    BY <1>2, <2>1 DEF Patient
  <2>3. (\E place : Move(s, place)) \/ caller' = [caller EXCEPT ![s] = Out]
    BY <1>7 DEF WaitForNotify, Expire, LastCheck, SpuriousWakeup, ReturnTrue
  <2>4. UNCHANGED <<outBuf, outVirtualBytes, accepted, stream, bytesRead, inVars>>
    BY <1>7 DEF WaitForNotify, Expire, LastCheck, SpuriousWakeup, outVars
  <2>5. outFlag' = outFlag
    <3>1. CASE ~outFlag /\ ReturnTrue(s)
      BY <1>3, <3>1 DEF ReturnTrue
    <3>2. CASE UNCHANGED outFlag
      BY <3>2
    <3>3. QED
      BY <1>7, <2>2, <3>1, <3>2
         DEF WaitForNotify, MayReturn, Expire, LastCheck, SpuriousWakeup, outVars
  <2>6. QED
    BY <1>4, <1>5, <2>1, <2>3, <2>4, <2>5 DEF outVars
<1>8. ASSUME outFlag, Write
      PROVE  ChannelInv' /\ accepted' = accepted /\ Len(All)' = Len(All)
  <2>1. PICK k \in 1..RawSize(outBuf) : HandleWrite(k)
    BY <1>8 DEF Write
  <2>2. Offsets(off)' /\ InTurn(off)' /\ Together(off)'
    BY <1>1, <1>8, <2>1, WriteKeeps
  <2>3. accepted' = accepted /\ All' = All
    BY <2>1 DEF HandleWrite, All, inVars
  <2>4. Patient'
    <3>1. CASE UNCHANGED caller
      BY <1>2, <3>1 DEF Patient
    <3>2. ASSUME NEW s \in Sleepers, Move(s, "awake") PROVE Patient'
      BY <1>5, <3>2 DEF Sleepers
    <3>3. QED
      BY <2>1, <3>1, <3>2 DEF HandleWrite, NotifyOne
  <2>5. QED
    BY <2>2, <2>3, <2>4 DEF ChannelInv
<1>9. ASSUME Read
      PROVE  ChannelInv' /\ accepted' = accepted /\ Len(All)' \in {Len(All), Len(All) + 1}
  <2>1. UNCHANGED <<outVars, callVars, accepted, stream>>
    BY <1>9 DEF Read, Receive, FillIncomplete, TakePacket, MoveToFront, Return
  <2>2. Patient' /\ Offsets(off)' /\ InTurn(off)'
    BY <1>1, <1>2, <2>1 DEF Patient, Offsets, InTurn, outVars, callVars
  <2>3. Together(off)' /\ Len(All)' \in {Len(All), Len(All) + 1}
    <3>1. ASSUME NEW n \in 1..BufSize, Receive(n)
          PROVE  Together(off)' /\ Len(All)' \in {Len(All), Len(All) + 1}
      BY <1>1, <3>1, ReceiveReads, NetPeerAssumption
    <3>2. CASE FillIncomplete
      BY <1>1, <3>2, FillReads
    <3>3. CASE TakePacket
      BY <1>1, <3>3, TakeReads
    <3>4. CASE MoveToFront
      BY <1>1, <3>4, MoveReads
    <3>5. CASE Return
      BY <1>1, <3>5, ReturnReads
    <3>6. QED
      BY <1>9, <3>1, <3>2, <3>3, <3>4, <3>5 DEF Read
  <2>4. QED
    BY <2>1, <2>2, <2>3 DEF ChannelInv
<1>10. CASE UNCHANGED vars
  <2>1. Patient' /\ UNCHANGED <<outVars, accepted, stream, bytesRead, inVars>>
    BY <1>2, <1>10 DEF vars, callVars, Patient
  <2>2. QED
    BY <1>4, <2>1
<1>11. ASSUME NEW s \in Senders, NEW p \in Contents, NEW w \in Ways, SendPacket(s, p, w)
       PROVE  \A i \in 1..Len(accepted) : accepted[i] # p
  BY <1>11 DEF SendPacket
<1>12. QED
  BY <1>6, <1>7, <1>8, <1>9, <1>10, <1>11 DEF Next, Call

\* The packets that were put together are the first that were accepted.
Foremost ==
  /\ Assembled = [i \in 1..Len(All) |-> accepted[i]]
  /\ Len(All) \in Nat /\ Len(accepted) \in Nat
  /\ Len(All) <= Len(accepted)

\* They are known by their bytes.
LEMMA AssembledAre == TypeOK /\ ChannelInv => Foremost
<1> SUFFICES ASSUME TypeOK, ChannelInv PROVE Foremost
  OBVIOUS
<1>1. /\ Len(All) <= Len(accepted)
      /\ \A i \in 1..Len(All) : All[i] = WholePacket(accepted[i])
  BY DEF ChannelInv, Together
<1>2. /\ Len(All) \in Nat /\ Len(accepted) \in Nat
      /\ \A i \in 1..Len(accepted) : accepted[i] \in Contents
  BY ChannelTypes
<1> DEFINE Name(q) == IF \E p \in Contents : q = WholePacket(p)
                      THEN CHOOSE p \in Contents : q = WholePacket(p) ELSE Stale
<1>3. ASSUME NEW p \in Contents, NEW q \in Contents, WholePacket(p) = WholePacket(q)
      PROVE  p = q
  <2>1. 1 \in 1..RawSize(p) /\ 1 \in 1..RawSize(q)
    BY RawSizeType
  <2>2. WholePacket(p)[1] = <<p, 0>> /\ WholePacket(q)[1] = <<q, 0>>
    BY <2>1 DEF WholePacket
  <2>3. <<p, 0>> = <<q, 0>>
    BY <1>3, <2>2
  <2>4. QED
    BY <2>3
<1>4. ASSUME NEW p \in Contents PROVE Name(WholePacket(p)) = p
  BY <1>3
<1>5. Assembled = [i \in 1..Len(All) |-> Name(All[i])]
  BY DEF Assembled, All, WholePacket
<1> HIDE DEF Name
<1>6. \A i \in 1..Len(All) : Name(All[i]) = accepted[i]
  BY <1>1, <1>2, <1>4
<1>7. QED
  BY <1>1, <1>2, <1>5, <1>6 DEF Foremost

\* The first state.
LEMMA ChannelStarts == Init => ChannelInv /\ Abstract!Init
<1> SUFFICES ASSUME Init PROVE ChannelInv /\ Abstract!Init
  OBVIOUS
<1>1. /\ Len(accepted) = 0 /\ Len(stream) = 0 /\ ~outFlag /\ inBytesRest = 0
      /\ inVirtualBytes = 0 /\ bytesRead = 0 /\ taken = <<>> /\ inPacketQueue = <<>>
      /\ accepted = <<>>
  BY DEF Init
<1>2. All = <<>> /\ Len(All) = 0 /\ Copied = 0
  BY <1>1 DEF All, Copied
<1> DEFINE off == [i \in 1..1 |-> 0]
<1>3. Offsets(off) /\ InTurn(off)
  BY <1>1 DEF Offsets, InTurn
<1>4. Together(off)
  BY <1>1, <1>2 DEF Together
<1>5. Patient
  BY DEF Init, Patient, Out
<1>6. Assembled = <<>>
  BY <1>1, <1>2 DEF Assembled, All
<1>7. QED
  BY <1>1, <1>3, <1>4, <1>5, <1>6 DEF ChannelInv, Abstract!Init

\* A step of the two peers is one of the channel, or none.
LEMMA ChannelSimulation ==
  ASSUME "forever" \notin Ways, ~AnyTime, TypeOK, TypeOK', ChannelInv,
         Foremost, Foremost', [Next]_vars
  PROVE  [Abstract!Next]_<<accepted, Assembled>>
<1> DEFINE d == Len(All)
<1>1. /\ Assembled = [i \in 1..d |-> accepted[i]]
      /\ d \in Nat /\ d <= Len(accepted) /\ Len(accepted) \in Nat
  BY DEF Foremost
<1>2. /\ Assembled' = [i \in 1..d' |-> accepted'[i]]
      /\ d' \in Nat /\ d' <= Len(accepted') /\ Len(accepted') \in Nat
  BY DEF Foremost
<1>3. accepted \in Seq(Contents)
  BY ChannelTypes
<1> HIDE DEF d
<1>4. CASE accepted' = accepted /\ d' = d
  BY <1>1, <1>2, <1>4
<1>5. CASE accepted' = accepted /\ d' = d + 1
  <2>1. Len(Assembled) = d /\ Assembled \in Seq(Contents) /\ accepted[d + 1] \in Contents
    BY <1>1, <1>2, <1>3, <1>5
  <2>2. Assembled' = Append(Assembled, accepted[d + 1])
    BY <1>1, <1>2, <1>5, <2>1
  <2>3. d < Len(accepted)
    BY <1>1, <1>2, <1>5
  <2>4. QED
    BY <1>5, <2>1, <2>2, <2>3 DEF Abstract!Next, Abstract!Deliver
<1>6. ASSUME NEW p \in Contents, \A i \in 1..Len(accepted) : accepted[i] # p,
             accepted' = Append(accepted, p), d' = d
      PROVE  Abstract!Accept(p)
  <2>1. \A i \in 1..d : accepted'[i] = accepted[i]
    BY <1>1, <1>3, <1>6
  <2>2. Assembled' = Assembled
    BY <1>1, <1>2, <1>6, <2>1
  <2>3. QED
    BY <1>6, <2>2 DEF Abstract!Accept
<1>7. QED
  BY <1>4, <1>5, <1>6, ChannelStep DEF Abstract!Next, d

\* Two peers implement a packet channel: nothing is lost, repeated, mixed up or cut
\* (handle_read, net_peer.cpp:143-220), for all packets and buffers, if nothing arrives
\* between two recv and nobody waits without a time-out.
THEOREM PeersImplementChannel ==
  ASSUME "forever" \notin Ways, ~AnyTime
  PROVE  FairSpecAll => ImplementsPacketChannel
<1>1. Init => ChannelInv /\ Abstract!Init
  BY ChannelStarts
<1>2. TypeOK /\ TypeOK' /\ ChannelInv /\ [Next]_vars => ChannelInv'
  BY ChannelStep
<1>3. TypeOK /\ TypeOK' /\ ChannelInv /\ Foremost /\ Foremost' /\ [Next]_vars
        => [Abstract!Next]_<<accepted, Assembled>>
  BY ChannelSimulation
<1>4. Spec => []TypeOK
  BY TypeCorrect
<1>5. Spec => []Foremost
  BY <1>1, <1>2, <1>4, AssembledAre, PTL DEF Spec
<1>6. Spec => ImplementsPacketChannel
  BY <1>1, <1>2, <1>3, <1>4, <1>5, PTL DEF Spec, ImplementsPacketChannel, Abstract!Spec
<1>7. QED
  BY <1>6, PeerPart, PTL

-----------------------------------------------------------------------------
(***************************************************************************)
(* The ping tool.  Several packets may be on their way, but one at most    *)
(* can end the expectation: those of earlier requests were answered, or    *)
(* bear an older mark.                                                     *)
(***************************************************************************)

Times == [kind : {"zero", "garbage", "stamp", "delta"}, of : Nat]

PingTyped ==
  /\ mark \in Nat \ {0} /\ pings \in Nat /\ time \in Times
  /\ expecting \in BOOLEAN /\ user \in {"out", "asleep", "awake"}
  /\ line \in Seq([mark : Nat, time : Times])

\* What may be taken for the answer that is expected.
Live(i) == line[i] = P!Handle \/ line[i].mark = mark

\* It is the latest request's.
OneLive ==
  /\ \A i \in DOMAIN line : line[i].mark <= mark
  /\ \A i \in DOMAIN line : Live(i) => expecting
  /\ \A i, j \in DOMAIN line : Live(i) /\ Live(j) => i = j
  /\ \A i \in DOMAIN line : Live(i) /\ line[i] # P!Handle => line[i].time = P!Stamp(pings)

\* What the user waits for.
Awaited ==
  /\ user # "out" => way = "timed"
  /\ IF expecting THEN time = P!Stamp(pings)
     ELSE \/ time = P!Delta(P!Stamp(pings))
          \/ user = "out" /\ time \in {P!Zero, P!Stamp(pings)}

PingInv == PingTyped /\ OneLive /\ Awaited /\ OwnRoundTrip

\* A packet that leaves the line leaves the others as they were.
LEMMA LineShortens ==
  ASSUME PingTyped, OneLive, line # <<>>, line' = Tail(line), UNCHANGED <<mark, pings>>
  PROVE  /\ line' \in Seq([mark : Nat, time : Times])
         /\ \A i \in DOMAIN line' : line'[i] = line[i + 1] /\ i + 1 \in DOMAIN line
         /\ Head(line) = line[1] /\ 1 \in DOMAIN line
         /\ \A i \in DOMAIN line' : Live(i)' => Live(i + 1) /\ ~Live(1)
<1>1. /\ line' \in Seq([mark : Nat, time : Times])
      /\ \A i \in DOMAIN line' : line'[i] = line[i + 1] /\ i + 1 \in DOMAIN line
      /\ Head(line) = line[1] /\ 1 \in DOMAIN line
  BY DEF PingTyped
<1>2. ASSUME NEW i \in DOMAIN line', Live(i)' PROVE Live(i + 1) /\ ~Live(1)
  <2>1. Live(i + 1)
    BY <1>1, <1>2 DEF Live, P!Handle, P!Zero
  <2>2. i + 1 # 1
    BY <1>1
  <2>3. QED
    BY <1>1, <2>1, <2>2 DEF OneLive
<1>3. QED
  BY <1>1, <1>2

\* A request puts a packet at the end of a line without live ones.
LEMMA RequestKeeps ==
  ASSUME PingInv, ~expecting, P!Request, UNCHANGED mark, user' \in {"out", "asleep"}
  PROVE  PingTyped' /\ OneLive' /\ time' = P!Stamp(pings') /\ expecting'
<1>1. /\ line' = Append(line, P!Handle) /\ pings' = pings + 1 /\ expecting' = TRUE
      /\ time' = P!Stamp(pings')
  BY DEF P!Request
<1>2. P!Handle \in [mark : Nat, time : Times] /\ P!Stamp(pings') \in Times
  BY <1>1 DEF P!Handle, P!Zero, P!Stamp, Times, PingInv, PingTyped
<1>3. \A i \in DOMAIN line : ~Live(i)
  BY DEF PingInv, OneLive
<1>4. /\ line' \in Seq([mark : Nat, time : Times])
      /\ DOMAIN line' = 1..Len(line) + 1 /\ DOMAIN line = 1..Len(line) /\ Len(line) \in Nat
      /\ line'[Len(line) + 1] = P!Handle
      /\ \A i \in 1..Len(line) : line'[i] = line[i]
  BY <1>1, <1>2 DEF PingInv, PingTyped
<1>5. \A i \in DOMAIN line' : Live(i)' => i = Len(line) + 1
  BY <1>3, <1>4 DEF Live, P!Handle, P!Zero
<1>6. OneLive'
  <2>1. ASSUME NEW i \in DOMAIN line' PROVE line'[i].mark <= mark'
    <3>1. mark \in Nat /\ mark' = mark /\ \A j \in 1..Len(line) : line[j].mark <= mark
      BY <1>4 DEF PingInv, PingTyped, OneLive
    <3>2. P!Handle.mark = 0
      BY DEF P!Handle
    <3>3. CASE i \in 1..Len(line)
      BY <1>4, <3>1, <3>3
    <3>4. CASE i = Len(line) + 1
      BY <1>4, <3>1, <3>2, <3>4
    <3>5. QED
      BY <1>4, <3>3, <3>4
  <2>2. \A i \in DOMAIN line' : Live(i)' /\ line'[i] # P!Handle => FALSE
    BY <1>4, <1>5
  <2>3. QED
    BY <1>1, <1>5, <2>1, <2>2 DEF OneLive, P!Handle, P!Zero
<1>7. QED
  BY <1>1, <1>2, <1>4, <1>6 DEF PingInv, PingTyped

\* One step of the ping tool.
LEMMA PingStep ==
  ASSUME "forever" \notin PingWays, Orderly, ExchangeAssumption, PingInv, P!Next
  PROVE  PingInv'
<1> USE DEF PingInv
<1>2. ASSUME UNCHANGED <<mark, line, pings, expecting>>
      PROVE  OneLive'
  BY <1>2 DEF OneLive, Live, P!Handle, P!Zero, P!Stamp
<1>3. ASSUME UNCHANGED <<mark, line, pings>>, ~expecting, ~expecting'
      PROVE  OneLive'
  BY <1>3 DEF OneLive, Live, P!Handle, P!Zero, P!Stamp
<1>4. P!Zero \in Times
  BY DEF P!Zero, Times
<1>5. CASE P!Poll
  <2>1. CASE UNCHANGED <<time, expecting, line, pings>>
    BY <1>2, <1>5, <2>1 DEF P!Poll, P!Return, P!Collect, PingTyped, Awaited, OwnRoundTrip,
                            P!OwnRoundTrip, P!Zero, P!Stamp, P!Delta, P!Failure
  <2>2. CASE ~expecting /\ P!Request
    <3>1. user' = "out" /\ returned' = P!Failure /\ UNCHANGED <<mark, way>>
      BY <1>5, <2>2 DEF P!Poll, P!Return, P!Collect, P!Request
    <3>2. QED
      BY <2>2, <3>1, RequestKeeps
         DEF Awaited, OwnRoundTrip, P!OwnRoundTrip, P!Failure
  <2>3. CASE ~expecting /\ time # P!Zero /\ P!Collect /\ UNCHANGED <<expecting, line, pings>>
    <3>1. time = P!Delta(P!Stamp(pings))
      BY <1>5, <2>3 DEF P!Poll, Awaited, P!Stamp
    <3>2. QED
     BY <1>2, <1>4, <1>5, <2>3, <3>1
       DEF P!Poll, P!Return, P!Collect, PingTyped, Awaited, OwnRoundTrip, P!OwnRoundTrip,
           P!Stamp, P!Delta
  <2>4. QED
    BY <1>5, <2>1, <2>2, <2>3 DEF P!Poll
<1>6. ASSUME NEW w \in PingWays, P!Ping(w) PROVE PingInv'
  <2>1. w = "timed"
    BY <1>6, ExchangeAssumption DEF P!Ping
  <2>2. CASE expecting
    BY <1>2, <1>6, <2>2 DEF P!Ping, P!Return, PingTyped, Awaited, OwnRoundTrip,
                            P!OwnRoundTrip, P!Zero, P!Stamp, P!Delta, P!Failure
  <2>3. CASE ~expecting
    BY <1>6, <2>1, <2>3, RequestKeeps
       DEF P!Ping, Awaited, OwnRoundTrip, P!OwnRoundTrip, PingTyped
  <2>4. QED
    BY <2>2, <2>3 DEF PingTyped
<1>7. CASE P!Awake
  BY <1>2, <1>3, <1>4, <1>7
     DEF P!Awake, P!Collect, P!Return, PingTyped, Awaited, OwnRoundTrip, P!OwnRoundTrip,
         P!Stamp, P!Delta
<1>8. CASE P!SpuriousWakeup
  BY <1>2, <1>8 DEF P!SpuriousWakeup, PingTyped, Awaited, OwnRoundTrip, P!OwnRoundTrip,
                    P!Zero, P!Stamp, P!Delta, P!Failure
<1>9. CASE P!Expire
  BY <1>2, <1>4, <1>9
     DEF P!Expire, P!Collect, P!Return, PingTyped, Awaited, OwnRoundTrip, P!OwnRoundTrip,
         P!Stamp, P!Delta, P!Failure
<1>10. CASE P!Reset
  <2>1. /\ mark' = mark + 1 /\ expecting' = FALSE /\ user = "out"
        /\ UNCHANGED <<time, user, way, line, pings, returned>>
        /\ \A i \in DOMAIN line : line[i] # P!Handle
    BY <1>10 DEF P!Reset
  <2>2. PingTyped'
    <3>1. mark' \in Nat \ {0}
      BY <2>1 DEF PingTyped
    <3>2. QED
      BY <2>1, <3>1 DEF PingTyped
  <2>3. \A i \in DOMAIN line : line[i].mark \in Nat /\ line[i].mark <= mark
    <3>1. \A i \in DOMAIN line : line[i] \in [mark : Nat, time : Times]
      <4>1. line \in Seq([mark : Nat, time : Times])
        BY DEF PingTyped
      <4>2. QED
        BY <4>1, MembersOf
    <3>2. \A i \in DOMAIN line : line[i].mark \in Nat
      BY <3>1
    <3>3. QED
      BY <3>2 DEF OneLive
  <2>4. \A i \in DOMAIN line' : ~Live(i)' /\ line'[i].mark <= mark'
    BY <2>1, <2>3 DEF Live, PingTyped, P!Handle, P!Zero
  <2>5. OneLive'
    BY <2>4 DEF OneLive
  <2>6. Awaited'
    BY <2>1 DEF Awaited, P!Zero, P!Stamp, P!Delta
  <2>7. QED
    BY <2>1, <2>2, <2>5, <2>6 DEF OwnRoundTrip, P!OwnRoundTrip, P!Stamp, P!Delta, P!Failure
<1>11. ASSUME NEW i \in DOMAIN line, P!Write(i) PROVE PingInv'
  <2>1. Live(i) /\ expecting /\ time = P!Stamp(pings)
    BY <1>11 DEF P!Write, OneLive, Live, Awaited
  <2>2. line'[i] = [mark |-> mark, time |-> time] /\ DOMAIN line' = DOMAIN line
        /\ line' \in Seq([mark : Nat, time : Times])
        /\ \A j \in DOMAIN line : j # i => line'[j] = line[j]
    BY <1>11 DEF P!Write, PingTyped
  <2>3. \A j \in DOMAIN line : Live(j)' => j = i
    BY <1>11, <2>1, <2>2 DEF P!Write, OneLive, Live, P!Handle, P!Zero
  <2>4. \A j \in DOMAIN line : line'[j].mark <= mark
    BY <2>2 DEF OneLive, PingTyped
  <2>5. OneLive'
    BY <1>11, <2>1, <2>2, <2>3, <2>4 DEF P!Write, OneLive, P!Handle, P!Zero, P!Stamp
  <2>6. QED
    BY <1>11, <2>2, <2>5 DEF P!Write, PingTyped, Awaited, OwnRoundTrip, P!OwnRoundTrip,
                       P!Zero, P!Stamp, P!Delta, P!Failure
<1>12. CASE P!Take
  <2> DEFINE packet == IF Head(line) = P!Handle THEN [mark |-> mark, time |-> time]
                       ELSE Head(line)
  <2>1. line # <<>> /\ line' = Tail(line) /\ UNCHANGED <<mark, way, pings, returned>>
    BY <1>12 DEF P!Take
  <2>2. CASE expecting /\ packet.mark = mark
    <3>1. Live(1)
      BY <2>1, <2>2, LineShortens DEF Live
    <3>2. packet.time = P!Stamp(pings)
      BY <2>1, <2>2, <3>1, LineShortens DEF OneLive, Awaited
    <3>3. expecting' = FALSE /\ time' = P!Delta(P!Stamp(pings))
          /\ user' = IF user = "asleep" THEN "awake" ELSE user
      BY <1>12, <2>2, <3>2 DEF P!Take
    <3>4. \A i \in DOMAIN line' : ~Live(i)' /\ line'[i].mark <= mark'
      BY <2>1, <3>1, LineShortens DEF OneLive
    <3>5. P!Delta(P!Stamp(pings)) \in Times
      BY DEF P!Delta, P!Stamp, Times, PingTyped
    <3>6. PingTyped'
      BY <2>1, <3>3, <3>5, LineShortens DEF PingTyped
    <3>7. OneLive'
      BY <3>4 DEF OneLive
    <3>8. QED
      BY <2>1, <3>3, <3>6, <3>7
         DEF Awaited, OwnRoundTrip, P!OwnRoundTrip, P!Stamp, P!Delta, P!Failure
  <2>3. CASE ~(expecting /\ packet.mark = mark)
    <3>1. UNCHANGED <<expecting, time, user>>
      BY <1>12, <2>3 DEF P!Take
    <3>2. PingTyped'
      BY <2>1, <3>1, LineShortens DEF PingTyped
    <3>3. \A i \in DOMAIN line' : line'[i] = line[i + 1] /\ i + 1 \in DOMAIN line /\ i \in Nat
                                  /\ (Live(i)' => Live(i + 1))
      BY <2>1, LineShortens DEF PingTyped
    <3>4. OneLive'
      BY <2>1, <3>1, <3>3 DEF OneLive, P!Handle, P!Zero, P!Stamp
    <3>5. QED
      BY <2>1, <3>1, <3>2, <3>4
         DEF Awaited, OwnRoundTrip, P!OwnRoundTrip, P!Stamp, P!Delta, P!Failure, P!Zero
  <2>4. QED
    BY <2>2, <2>3
<1>13. CASE P!Lose
  <2>1. line # <<>> /\ line' = Tail(line)
        /\ UNCHANGED <<mark, time, expecting, user, way, pings, returned>>
    BY <1>13 DEF P!Lose
  <2>2. PingTyped'
    BY <2>1, LineShortens DEF PingTyped
  <2>3. \A i \in DOMAIN line' : line'[i] = line[i + 1] /\ i + 1 \in DOMAIN line /\ i \in Nat
                                /\ (Live(i)' => Live(i + 1))
    BY <2>1, LineShortens DEF PingTyped
  <2>4. OneLive'
    BY <2>1, <2>3 DEF OneLive, P!Handle, P!Zero, P!Stamp
  <2>5. QED
    BY <2>1, <2>2, <2>4
       DEF Awaited, OwnRoundTrip, P!OwnRoundTrip, P!Stamp, P!Delta, P!Failure, P!Zero
<1>14. QED
  BY <1>5, <1>6, <1>7, <1>8, <1>9, <1>10, <1>11, <1>12, <1>13 DEF P!Next

\* What the tool returns is a round trip, and that of its latest request, however many
\* requests are made, lost, given up or given up for good by reset () while their answers
\* are on their way, if every wait has a time-out, the memory of the packet is zero, and
\* reset () is called as Orderly says (pingTool::ping, take and reset).
THEOREM PingsReturnTheirOwn ==
  ASSUME "forever" \notin PingWays, Orderly, Cleared
  PROVE  FairSpecAll => []OwnRoundTrip
<1>1. InitAll => PingInv
  <2> SUFFICES ASSUME InitAll PROVE PingInv
    OBVIOUS
  <2>1. mark = 1 /\ time = P!Zero /\ ~expecting /\ expecting \in BOOLEAN /\ user = "out"
        /\ line = <<>> /\ pings = 0 /\ returned = P!Failure
    BY DEF InitAll, P!Init
  <2>2. PingTyped
    BY <2>1 DEF PingTyped, Times, P!Zero
  <2>3. OneLive
    BY <2>1 DEF OneLive
  <2>4. QED
    BY <2>1, <2>2, <2>3 DEF PingInv, Awaited, OwnRoundTrip, P!OwnRoundTrip
<1>2. PingInv /\ [NextAll]_allVars => PingInv'
  <2> SUFFICES ASSUME PingInv, [NextAll]_allVars PROVE PingInv'
    OBVIOUS
  <2>1. CASE P!Next
    BY <2>1, PingStep, ExchangeAssumption
  <2>2. CASE UNCHANGED pingVars
    BY <2>2 DEF pingVars, PingInv, PingTyped, OneLive, Live, Awaited, OwnRoundTrip,
                P!OwnRoundTrip, P!Handle, P!Zero, P!Stamp, P!Delta, P!Failure
  <2>3. QED
    BY <2>1, <2>2 DEF NextAll, allVars
<1>3. QED
  BY <1>1, <1>2, PTL DEF FairSpecAll, PingInv

-----------------------------------------------------------------------------
(***************************************************************************)
(* The manager of a client.  The packets that it sends are some of those   *)
(* posted, in their order; the turn of a packet is its place among them.   *)
(***************************************************************************)

\* The outbox is the end of what was posted.
Outbox ==
  /\ asked \in Seq(Requests) /\ requests \in Seq(Requests)
  /\ Len(requests) <= Len(asked)
  /\ \A i \in 1..Len(requests) : requests[i] = asked[Len(asked) - Len(requests) + i]

\* The first m packets on the wire are whole, and one more is when its header is there.
\* Their turns have left the outbox, and so has that of the packet that is being sent.
Wire(m, turn) ==
  /\ outParts \in {0, 1} /\ Len(outWire) = 2 * m + outParts
  /\ outWire \in Seq([packet : Requests, part : {"header", "contents"}])
  /\ turn \in [1..m + outParts -> 1..Len(asked) - Len(requests)]
  /\ \A i, j \in 1..m + outParts : i < j => turn[i] < turn[j]
  /\ \A i \in 1..m + outParts :
       /\ outWire[2 * i - 1] = [packet |-> asked[turn[i]], part |-> "header"]
       /\ i <= m => outWire[2 * i] = [packet |-> asked[turn[i]], part |-> "contents"]
  /\ outgoing = <<>> => outParts = 0
  /\ outgoing # <<>> =>
       \E g \in 1..Len(asked) - Len(requests) :
         /\ outgoing = <<asked[g]>>
         /\ \A i \in 1..m : turn[i] < g
         /\ outParts = 1 => turn[m + 1] = g

SendingInv == Outbox /\ \E m \in Nat : \E turn : Wire(m, turn)

\* The parts that have come, or are on their way, are those of the packets that were not
\* delivered yet.
Coming == incoming \o inWire

ReceivingInv ==
  /\ answers \in Seq(Responses) /\ delivered \in Seq(Responses)
  /\ incoming \in Seq([packet : Responses, part : {"header", "contents"}])
  /\ inWire \in Seq([packet : Responses, part : {"header", "contents"}])
  /\ Len(delivered) <= Len(answers)
  /\ \A i \in 1..Len(delivered) : delivered[i] = answers[i]
  /\ Len(incoming) + Len(inWire) = 2 * (Len(answers) - Len(delivered))
  /\ \A i \in 1..Len(answers) - Len(delivered) :
       Coming[2 * i - 1].packet = answers[Len(delivered) + i]

\* The parts of a packet.
LEMMA PartsAre ==
  ASSUME NEW T, NEW p \in T
  PROVE  /\ C!Parts(p) \in Seq([packet : T, part : {"header", "contents"}])
         /\ Len(C!Parts(p)) = 2
         /\ C!Parts(p)[1] = [packet |-> p, part |-> "header"]
         /\ C!Parts(p)[2] = [packet |-> p, part |-> "contents"]
         /\ C!Parts(p)[1].packet = p
BY DEF C!Parts

\* Posting puts a packet at the end.
LEMMA PostKeeps ==
  ASSUME SendingInv, NEW p \in Requests, C!Post(p)
  PROVE  SendingInv'
<1>1. /\ asked' = Append(asked, p) /\ requests' = Append(requests, p)
      /\ UNCHANGED <<outgoing, outParts, outWire>>
  BY DEF C!Post
<1>2. /\ asked' \in Seq(Requests) /\ requests' \in Seq(Requests)
      /\ Len(asked') = Len(asked) + 1 /\ Len(requests') = Len(requests) + 1
      /\ Len(asked) \in Nat /\ Len(requests) \in Nat
      /\ asked'[Len(asked) + 1] = p /\ requests'[Len(requests) + 1] = p
      /\ \A i \in 1..Len(asked) : asked'[i] = asked[i]
      /\ \A i \in 1..Len(requests) : requests'[i] = requests[i]
  BY <1>1 DEF SendingInv, Outbox
<1>3. Outbox'
  <2>1. ASSUME NEW i \in 1..Len(requests')
        PROVE  requests'[i] = asked'[Len(asked') - Len(requests') + i]
    <3>1. CASE i = Len(requests) + 1
      BY <1>2, <3>1 DEF SendingInv, Outbox
    <3>2. CASE i \in 1..Len(requests)
      BY <1>2, <3>2 DEF SendingInv, Outbox
    <3>3. QED
      BY <1>2, <3>1, <3>2
  <2>2. QED
    BY <1>2, <2>1 DEF SendingInv, Outbox
<1>4. ASSUME NEW m \in Nat, NEW turn, Wire(m, turn)
      PROVE  Wire(m, turn)'
  <2>1. Len(asked') - Len(requests') = Len(asked) - Len(requests)
    BY <1>2
  <2>2. \A i \in 1..Len(asked) - Len(requests) : asked'[i] = asked[i]
    BY <1>2
  <2>3. QED
    BY <1>1, <1>4, <2>1, <2>2 DEF Wire
<1>5. QED
  BY <1>3, <1>4 DEF SendingInv

\* proceed_request () takes the first one from the outbox.
LEMMA ProceedKeeps ==
  ASSUME SendingInv, C!ProceedRequest
  PROVE  SendingInv'
<1>1. /\ requests # <<>> /\ requests' = Tail(requests) /\ UNCHANGED <<outWire, asked>>
      /\ IF outgoing = <<>> THEN outgoing' = <<Head(requests)>> /\ outParts' = 0
         ELSE UNCHANGED <<outgoing, outParts>>
  BY DEF C!ProceedRequest, C!SendPacket
<1>2. /\ requests' \in Seq(Requests) /\ Len(requests') = Len(requests) - 1
      /\ Len(asked) \in Nat /\ Len(requests) \in Nat \ {0}
      /\ Head(requests) = requests[1]
      /\ \A i \in 1..Len(requests') : requests'[i] = requests[i + 1]
  BY <1>1 DEF SendingInv, Outbox
<1> DEFINE last == Len(asked) - Len(requests)
<1>3. last \in Nat /\ Len(asked') - Len(requests') = last + 1 /\ Head(requests) = asked[last + 1]
  BY <1>1, <1>2 DEF SendingInv, Outbox
<1>4. Outbox'
  <2>1. \A i \in 1..Len(requests') : requests'[i] = asked'[Len(asked') - Len(requests') + i]
    BY <1>1, <1>2 DEF SendingInv, Outbox
  <2>2. QED
    BY <1>1, <1>2, <2>1 DEF SendingInv, Outbox
<1>5. ASSUME NEW m \in Nat, NEW turn, Wire(m, turn)
      PROVE  Wire(m, turn)'
  <2> HIDE DEF last
  <2>1. outParts' = outParts /\ outParts \in {0, 1}
    BY <1>1, <1>5 DEF Wire
  <2>2. turn \in [1..m + outParts -> 1..last]
    BY <1>5 DEF Wire, last
  <2>3. turn \in [1..m + outParts -> 1..last + 1]
    BY <1>3, <2>2
  <2>4. outgoing' = <<>> => outParts' = 0
    BY <1>1, <1>5 DEF Wire
  <2>5. outgoing' # <<>> =>
          \E g \in 1..last + 1 :
            /\ outgoing' = <<asked[g]>>
            /\ \A i \in 1..m : turn[i] < g
            /\ outParts' = 1 => turn[m + 1] = g
    <3>1. CASE outgoing = <<>>
      <4>1. last + 1 \in 1..last + 1 /\ outParts = 0
        BY <1>3, <1>5, <3>1 DEF Wire
      <4>2. \A i \in 1..m : turn[i] < last + 1
        BY <1>3, <2>2, <4>1
      <4>3. QED
        BY <1>1, <1>3, <2>1, <3>1, <4>1, <4>2
    <3>2. CASE outgoing # <<>>
      <4>1. PICK g \in 1..last : /\ outgoing = <<asked[g]>>
                                 /\ \A i \in 1..m : turn[i] < g
                                 /\ outParts = 1 => turn[m + 1] = g
        BY <1>5, <3>2 DEF Wire, last
      <4>2. g \in 1..last + 1
        BY <1>3
      <4>3. QED
        BY <1>1, <2>1, <3>2, <4>1, <4>2
    <3>3. QED
      BY <3>1, <3>2
  <2>6. QED
    BY <1>1, <1>3, <1>5, <2>1, <2>3, <2>4, <2>5 DEF Wire
<1>6. QED
  BY <1>4, <1>5 DEF SendingInv

\* transmit () goes on with the packet that is being sent.
LEMMA TransmitKeeps ==
  ASSUME SendingInv, NEW n \in 1..2, C!Transmit(n)
  PROVE  SendingInv'
<1>0. PICK m \in Nat : \E turn : Wire(m, turn)
  BY DEF SendingInv
<1>1. PICK turn : Wire(m, turn)
  BY <1>0
<1> DEFINE last == Len(asked) - Len(requests)
           Halves == [packet : Requests, part : {"header", "contents"}]
<1>2. /\ outgoing # <<>> /\ outParts + n <= 2 /\ UNCHANGED <<requests, asked>>
      /\ outWire' = outWire \o SubSeq(C!Parts(outgoing[1]), outParts + 1, outParts + n)
      /\ IF outParts + n = 2 THEN outgoing' = <<>> /\ outParts' = 0
         ELSE outParts' = outParts + n /\ UNCHANGED outgoing
  BY DEF C!Transmit
<1>3. last \in Nat /\ Outbox' /\ asked \in Seq(Requests) /\ last <= Len(asked)
  BY <1>2 DEF SendingInv, Outbox
<1>4. PICK g \in 1..last : /\ outgoing = <<asked[g]>>
                           /\ \A i \in 1..m : turn[i] < g
                           /\ outParts = 1 => turn[m + 1] = g
  BY <1>1, <1>2 DEF Wire
<1> DEFINE p == asked[g]
           w == SubSeq(C!Parts(p), outParts + 1, outParts + n)
<1>5. p \in Requests /\ outgoing[1] = p
  BY <1>3, <1>4
<1>6. /\ outParts \in {0, 1} /\ Len(outWire) = 2 * m + outParts /\ outWire \in Seq(Halves)
      /\ turn \in [1..m + outParts -> 1..last]
      /\ \A i, j \in 1..m + outParts : i < j => turn[i] < turn[j]
      /\ \A i \in 1..m + outParts :
           /\ outWire[2 * i - 1] = [packet |-> asked[turn[i]], part |-> "header"]
           /\ i <= m => outWire[2 * i] = [packet |-> asked[turn[i]], part |-> "contents"]
  BY <1>1 DEF Wire
<1>7. /\ w \in Seq(Halves) /\ Len(w) = n
      /\ \A i \in 1..n : w[i] = C!Parts(p)[outParts + i]
  <2> DEFINE q == C!Parts(p)
             a == outParts + 1
             b == outParts + n
  <2>1. q \in Seq(Halves) /\ Len(q) = 2
    BY <1>5, PartsAre
  <2>2. a \in 1..Len(q) + 1 /\ b \in a - 1..Len(q)
    BY <1>2, <1>6, <2>1
  <2>3. b - a + 1 = n /\ \A i \in 1..n : a - 1 + i = outParts + i
    BY <1>6
  <2>4. w = SubSeq(q, a, b)
    OBVIOUS
  <2> HIDE DEF q, a, b, Halves, p, w
  <2>5. /\ SubSeq(q, a, b) \in Seq(Halves) /\ Len(SubSeq(q, a, b)) = b - a + 1
        /\ \A i \in 1..b - a + 1 : SubSeq(q, a, b)[i] = q[a - 1 + i]
    BY <2>1, <2>2, PartOf
  <2>6. /\ w \in Seq(Halves) /\ Len(w) = n
        /\ \A i \in 1..n : w[i] = q[outParts + i]
    BY <2>3, <2>4, <2>5
  <2>7. QED
    BY <2>6 DEF q
<1> HIDE DEF w
<1>8. /\ outWire' \in Seq(Halves) /\ Len(outWire') = 2 * m + outParts + n
      /\ \A i \in 1..2 * m + outParts : outWire'[i] = outWire[i]
      /\ \A i \in 1..n : outWire'[2 * m + outParts + i] = C!Parts(p)[outParts + i]
  <2>1. outWire' = outWire \o w
    BY <1>2, <1>5 DEF w
  <2> HIDE DEF Halves, p
  <2>2. /\ outWire \o w \in Seq(Halves) /\ Len(outWire \o w) = Len(outWire) + Len(w)
        /\ \A i \in 1..Len(outWire) : (outWire \o w)[i] = outWire[i]
        /\ \A i \in 1..Len(w) : (outWire \o w)[Len(outWire) + i] = w[i]
    <3>1. outWire \in Seq(Halves) /\ w \in Seq(Halves)
      BY <1>6, <1>7
    <3>2. QED
      BY <3>1, BothOf
  <2>3. QED
    BY <1>6, <1>7, <2>1, <2>2
<1>9. /\ C!Parts(p)[1] = [packet |-> asked[g], part |-> "header"]
      /\ C!Parts(p)[2] = [packet |-> asked[g], part |-> "contents"]
  BY <1>5, PartsAre
<1> HIDE DEF p, Halves
<1>10. Len(asked') - Len(requests') = last /\ asked' = asked
  BY <1>2
<1> HIDE DEF last
<1>11. CASE outParts = 0
  <2> DEFINE new == [i \in 1..m + 1 |-> IF i = m + 1 THEN g ELSE turn[i]]
  <2>1. /\ new \in [1..m + 1 -> 1..last] /\ new[m + 1] = g
        /\ \A i \in 1..m : new[i] = turn[i] /\ new[i] < g
        /\ \A i, j \in 1..m + 1 : i < j => new[i] < new[j]
    <3>1. \A i \in 1..m : turn[i] \in 1..last /\ turn[i] < g
      BY <1>4, <1>6, <1>11
    <3>2. new \in [1..m + 1 -> 1..last] /\ new[m + 1] = g /\ \A i \in 1..m : new[i] = turn[i]
      BY <1>3, <3>1
    <3>3. \A i, j \in 1..m + 1 : i < j => i \in 1..m /\ (j \in 1..m \/ j = m + 1)
      OBVIOUS
    <3> HIDE DEF new
    <3>4. QED
      BY <1>6, <1>11, <3>1, <3>2, <3>3
  <2> HIDE DEF new
  <2>2. /\ outWire'[2 * (m + 1) - 1] = [packet |-> asked[new[m + 1]], part |-> "header"]
        /\ n = 2 => outWire'[2 * (m + 1)] = [packet |-> asked[new[m + 1]], part |-> "contents"]
    BY <1>8, <1>9, <1>11, <2>1
  <2>3. \A i \in 1..m :
          /\ outWire'[2 * i - 1] = [packet |-> asked[new[i]], part |-> "header"]
          /\ outWire'[2 * i] = [packet |-> asked[new[i]], part |-> "contents"]
    BY <1>6, <1>8, <1>11, <2>1
  <2>4. \A i \in 1..m + 1 : i \in 1..m \/ i = m + 1
    OBVIOUS
  <2>5. CASE n = 1
    <3>1. outParts' = 1 /\ outgoing' = <<asked[g]>> /\ Len(outWire') = 2 * m + 1
      BY <1>2, <1>4, <1>8, <1>11, <2>5
    <3>2. m + outParts' = m + 1 /\ outgoing' # <<>>
          /\ \A i \in 1..m + 1 :
               /\ outWire'[2 * i - 1] = [packet |-> asked[new[i]], part |-> "header"]
               /\ i <= m => outWire'[2 * i] = [packet |-> asked[new[i]], part |-> "contents"]
      <4>1. m + outParts' = m + 1 /\ outgoing' # <<>>
        BY <3>1
      <4>2. ASSUME NEW i \in 1..m + 1
            PROVE  /\ outWire'[2 * i - 1] = [packet |-> asked[new[i]], part |-> "header"]
                   /\ i <= m => outWire'[2 * i] = [packet |-> asked[new[i]], part |-> "contents"]
        <5>1. CASE i \in 1..m
          BY <2>3, <5>1
        <5>2. CASE i = m + 1
          <6>1. ~(i <= m)
            BY <5>2
          <6>2. QED
            BY <2>2, <5>2, <6>1
        <5>3. QED
          BY <2>4, <5>1, <5>2
      <4>3. QED
        BY <4>1, <4>2
    <3>3. Wire(m, new)'
      BY <1>4, <1>8, <1>10, <2>1, <3>1, <3>2 DEF Wire, Halves
    <3>4. QED
      BY <1>3, <3>3 DEF SendingInv
  <2>6. CASE n = 2
    <3>1. outParts' = 0 /\ outgoing' = <<>> /\ Len(outWire') = 2 * (m + 1)
      BY <1>2, <1>8, <1>11, <2>6
    <3>2. m + 1 \in Nat /\ (m + 1) + outParts' = m + 1
      BY <3>1
    <3>3. \A i \in 1..m + 1 :
            /\ outWire'[2 * i - 1] = [packet |-> asked[new[i]], part |-> "header"]
            /\ outWire'[2 * i] = [packet |-> asked[new[i]], part |-> "contents"]
      BY <2>2, <2>3, <2>4, <2>6
    <3>4. Wire(m + 1, new)'
      BY <1>8, <1>10, <2>1, <3>1, <3>2, <3>3, SMTT(40) DEF Wire, Halves
    <3>5. QED
      BY <1>3, <3>2, <3>4 DEF SendingInv
  <2>7. QED
    BY <2>5, <2>6
<1>12. CASE outParts = 1
  <2>1. n = 1 /\ outParts' = 0 /\ outgoing' = <<>> /\ Len(outWire') = 2 * (m + 1)
    BY <1>2, <1>8, <1>12
  <2>2. m + 1 \in Nat /\ (m + 1) + outParts' = m + 1
    BY <2>1
  <2>3. turn[m + 1] = g /\ outWire'[2 * (m + 1)] = [packet |-> asked[g], part |-> "contents"]
    BY <1>4, <1>8, <1>9, <1>12, <2>1
  <2>4. \A i \in 1..m + 1 :
          /\ outWire'[2 * i - 1] = [packet |-> asked[turn[i]], part |-> "header"]
          /\ outWire'[2 * i] = [packet |-> asked[turn[i]], part |-> "contents"]
    <3> TAKE i \in 1..m + 1
    <3>1. outWire'[2 * i - 1] = [packet |-> asked[turn[i]], part |-> "header"]
      <4>1. i \in 1..m + outParts /\ 2 * i - 1 \in 1..2 * m + outParts
        BY <1>12
      <4>2. QED
        BY <1>6, <1>8, <4>1
    <3>2. CASE i \in 1..m
      BY <1>6, <1>8, <1>12, <3>1, <3>2
    <3>3. CASE i = m + 1
      BY <2>3, <3>1, <3>3
    <3>4. QED
      BY <3>2, <3>3
  <2>5. Wire(m + 1, turn)'
    BY <1>6, <1>8, <1>10, <1>12, <2>1, <2>2, <2>4 DEF Wire, Halves
  <2>6. QED
    BY <1>3, <2>2, <2>5 DEF SendingInv
<1>13. QED
  BY <1>6, <1>11, <1>12

\* A response comes in two parts.
LEMMA RespondKeeps ==
  ASSUME ReceivingInv, NEW p \in Responses, C!Respond(p)
  PROVE  ReceivingInv'
<1> DEFINE Halves == [packet : Responses, part : {"header", "contents"}]
           parts == C!Parts(p)
           r == Len(answers) - Len(delivered)
<1>1. /\ answers' = Append(answers, p) /\ inWire' = inWire \o parts
      /\ UNCHANGED <<incoming, delivered>>
  BY DEF C!Respond
<1>2. parts \in Seq(Halves) /\ Len(parts) = 2 /\ parts[1].packet = p
  <2>1. p \in Responses
    OBVIOUS
  <2>2. QED
    BY <2>1, PartsAre
<1>3. /\ answers \in Seq(Responses) /\ delivered \in Seq(Responses)
      /\ incoming \in Seq(Halves) /\ inWire \in Seq(Halves)
      /\ Len(delivered) <= Len(answers) /\ r \in Nat
      /\ Len(incoming) + Len(inWire) = 2 * r
      /\ \A i \in 1..r : Coming[2 * i - 1].packet = answers[Len(delivered) + i]
      /\ Len(incoming) \in Nat /\ Len(inWire) \in Nat
      /\ Len(answers) \in Nat /\ Len(delivered) \in Nat
  <2>1. /\ answers \in Seq(Responses) /\ delivered \in Seq(Responses)
        /\ incoming \in Seq(Halves) /\ inWire \in Seq(Halves)
        /\ Len(delivered) <= Len(answers)
        /\ Len(incoming) + Len(inWire) = 2 * r
        /\ \A i \in 1..r : Coming[2 * i - 1].packet = answers[Len(delivered) + i]
    BY DEF ReceivingInv
  <2> HIDE DEF Halves
  <2>2. /\ Len(incoming) \in Nat /\ Len(inWire) \in Nat
        /\ Len(answers) \in Nat /\ Len(delivered) \in Nat
    BY <2>1
  <2>3. r \in Nat
    BY <2>1, <2>2
  <2>4. QED
    BY <2>1, <2>2, <2>3
<1> HIDE DEF parts, Halves
<1>4. /\ answers' \in Seq(Responses) /\ Len(answers') = Len(answers) + 1
      /\ answers'[Len(answers) + 1] = p
      /\ \A i \in 1..Len(answers) : answers'[i] = answers[i]
  BY <1>1, <1>3
<1>5. /\ inWire' \in Seq(Halves) /\ Len(inWire') = Len(inWire) + 2
      /\ \A i \in 1..Len(inWire) : inWire'[i] = inWire[i]
      /\ inWire'[Len(inWire) + 1] = parts[1] /\ Len(inWire') \in Nat
  <2>1. inWire \in Seq(Halves) /\ parts \in Seq(Halves)
    BY <1>2, <1>3
  <2>2. /\ inWire \o parts \in Seq(Halves) /\ Len(inWire \o parts) = Len(inWire) + Len(parts)
        /\ \A i \in 1..Len(inWire) : (inWire \o parts)[i] = inWire[i]
        /\ \A i \in 1..Len(parts) : (inWire \o parts)[Len(inWire) + i] = parts[i]
    BY <2>1, BothOf
  <2>3. QED
    BY <1>1, <1>2, <1>3, <2>2
<1>6. /\ \A i \in 1..2 * r : Coming'[i] = Coming[i]
      /\ Coming'[2 * r + 1] = parts[1]
  <2>1. /\ Coming = incoming \o inWire /\ Coming' = incoming \o inWire'
    BY <1>1 DEF Coming
  <2>2. \A i \in 1..2 * r : i \in 1..Len(incoming) \/ i - Len(incoming) \in 1..Len(inWire)
    BY <1>3
  <2>3. /\ \A i \in 1..Len(incoming) : Coming[i] = incoming[i] /\ Coming'[i] = incoming[i]
        /\ \A i \in 1..Len(inWire) : Coming[Len(incoming) + i] = inWire[i]
        /\ \A i \in 1..Len(inWire') : Coming'[Len(incoming) + i] = inWire'[i]
    <3>1. incoming \in Seq(Halves) /\ inWire \in Seq(Halves) /\ inWire' \in Seq(Halves)
      BY <1>3, <1>5
    <3>2. /\ \A i \in 1..Len(incoming) : (incoming \o inWire)[i] = incoming[i]
          /\ \A i \in 1..Len(inWire) : (incoming \o inWire)[Len(incoming) + i] = inWire[i]
      BY <3>1, BothOf
    <3>3. /\ \A i \in 1..Len(incoming) : (incoming \o inWire')[i] = incoming[i]
          /\ \A i \in 1..Len(inWire') : (incoming \o inWire')[Len(incoming) + i] = inWire'[i]
      BY <3>1, BothOf
    <3>4. QED
      BY <2>1, <3>2, <3>3
  <2>4. Coming'[2 * r + 1] = parts[1]
    <3>1. 2 * r + 1 = Len(incoming) + (Len(inWire) + 1) /\ Len(inWire) + 1 \in 1..Len(inWire')
      BY <1>3, <1>5
    <3>2. QED
      BY <1>5, <2>3, <3>1
  <2>5. ASSUME NEW i \in 1..2 * r PROVE Coming'[i] = Coming[i]
    <3>1. CASE i \in 1..Len(incoming)
      BY <2>3, <3>1
    <3>2. CASE i - Len(incoming) \in 1..Len(inWire)
      <4> DEFINE j == i - Len(incoming)
      <4>1. j \in 1..Len(inWire) /\ j \in 1..Len(inWire') /\ i = Len(incoming) + j
        BY <1>3, <1>5, <3>2
      <4> HIDE DEF j
      <4>2. QED
        BY <1>5, <2>3, <4>1
    <3>3. QED
      BY <2>2, <3>1, <3>2
  <2>6. QED
    BY <2>4, <2>5
<1>7. Len(answers') - Len(delivered') = r + 1
  BY <1>1, <1>3, <1>4
<1>8. ASSUME NEW i \in 1..r + 1
      PROVE  Coming'[2 * i - 1].packet = answers'[Len(delivered') + i]
  <2>1. CASE i \in 1..r
    <3>1. 2 * i - 1 \in 1..2 * r /\ Len(delivered) + i \in 1..Len(answers)
      BY <1>3, <2>1 DEF r
    <3>2. QED
      BY <1>1, <1>3, <1>4, <1>6, <2>1, <3>1
  <2>2. CASE i = r + 1
    <3>1. 2 * i - 1 = 2 * r + 1 /\ Len(delivered) + i = Len(answers) + 1
      BY <1>3, <2>2 DEF r
    <3>2. QED
      BY <1>1, <1>2, <1>4, <1>6, <3>1
  <2>3. QED
    BY <1>3, <2>1, <2>2
<1>9. Len(incoming') + Len(inWire') = 2 * (r + 1) /\ Len(delivered') <= Len(answers')
  <2>1. /\ Len(incoming') = Len(incoming) /\ Len(inWire') = Len(inWire) + 2
        /\ Len(delivered') = Len(delivered) /\ Len(answers') = Len(answers) + 1
    BY <1>1, <1>4, <1>5
  <2>2. /\ Len(incoming) \in Nat /\ Len(inWire) \in Nat
        /\ Len(answers) \in Nat /\ Len(delivered) \in Nat
        /\ Len(delivered) <= Len(answers) /\ r \in Nat
        /\ Len(incoming) + Len(inWire) = 2 * r
    BY <1>3
  <2>3. Len(delivered') <= Len(answers')
    BY <2>1, <2>2
  <2> HIDE DEF r
  <2>4. Len(incoming') + Len(inWire') = 2 * (r + 1)
    BY <2>1, <2>2
  <2>5. QED
    BY <2>3, <2>4
<1>10. \A i \in 1..Len(delivered') : delivered'[i] = answers'[i]
  BY <1>1, <1>3, <1>4 DEF ReceivingInv
<1>11. QED
  BY <1>1, <1>3, <1>4, <1>5, <1>7, <1>8, <1>9, <1>10 DEF ReceivingInv, Halves

\* receive () takes n parts and delivers what they complete.
LEMMA ReceiveKeeps ==
  ASSUME ReceivingInv, NEW n \in Nat, C!Receive(n)
  PROVE  ReceivingInv'
<1> DEFINE Halves == [packet : Responses, part : {"header", "contents"}]
           first == SubSeq(inWire, 1, n)
           rest == SubSeq(inWire, n + 1, Len(inWire))
           bytes == incoming \o first
           whole == Len(bytes) \div 2
           left == SubSeq(bytes, 2 * whole + 1, Len(bytes))
           complete == [i \in 1..whole |-> bytes[2 * i - 1].packet]
           r == Len(answers) - Len(delivered)
<1>1. /\ n <= Len(inWire) /\ inWire' = rest /\ incoming' = left
      /\ delivered' = delivered \o complete /\ answers' = answers
  BY DEF C!Receive
<1>2. /\ answers \in Seq(Responses) /\ delivered \in Seq(Responses)
      /\ incoming \in Seq(Halves) /\ inWire \in Seq(Halves)
      /\ Len(delivered) <= Len(answers) /\ r \in Nat
      /\ Len(incoming) + Len(inWire) = 2 * r
      /\ \A i \in 1..r : Coming[2 * i - 1].packet = answers[Len(delivered) + i]
      /\ Len(incoming) \in Nat /\ Len(inWire) \in Nat
      /\ Len(answers) \in Nat /\ Len(delivered) \in Nat
  <2>1. /\ answers \in Seq(Responses) /\ delivered \in Seq(Responses)
        /\ incoming \in Seq(Halves) /\ inWire \in Seq(Halves)
        /\ Len(delivered) <= Len(answers)
        /\ Len(incoming) + Len(inWire) = 2 * r
        /\ \A i \in 1..r : Coming[2 * i - 1].packet = answers[Len(delivered) + i]
    BY DEF ReceivingInv
  <2> HIDE DEF Halves
  <2>2. /\ Len(incoming) \in Nat /\ Len(inWire) \in Nat
        /\ Len(answers) \in Nat /\ Len(delivered) \in Nat
    BY <2>1
  <2>3. r \in Nat
    BY <2>1, <2>2
  <2>4. QED
    BY <2>1, <2>2, <2>3
<1> DEFINE a == Len(incoming)
           l == a + n
<1> HIDE DEF Halves
<1>3. /\ first \in Seq(Halves) /\ Len(first) = n
      /\ \A i \in 1..n : first[i] = inWire[i]
      /\ rest \in Seq(Halves) /\ Len(rest) = Len(inWire) - n
      /\ \A i \in 1..Len(inWire) - n : rest[i] = inWire[n + i]
  BY <1>1, <1>2
<1> HIDE DEF first, rest
<1>4. /\ bytes \in Seq(Halves) /\ Len(bytes) = l
      /\ \A i \in 1..a : bytes[i] = incoming[i]
      /\ \A i \in 1..n : bytes[a + i] = inWire[i]
  <2>1. incoming \in Seq(Halves) /\ first \in Seq(Halves)
    BY <1>2, <1>3
  <2>2. /\ incoming \o first \in Seq(Halves)
        /\ Len(incoming \o first) = Len(incoming) + Len(first)
        /\ \A i \in 1..Len(incoming) : (incoming \o first)[i] = incoming[i]
        /\ \A i \in 1..Len(first) : (incoming \o first)[Len(incoming) + i] = first[i]
    BY <2>1, BothOf
  <2>3. QED
    BY <1>2, <1>3, <2>2
<1> HIDE DEF bytes
<1>5. /\ \A i \in 1..a : Coming[i] = incoming[i]
      /\ \A i \in 1..Len(inWire) : Coming[a + i] = inWire[i]
  <2>1. incoming \in Seq(Halves) /\ inWire \in Seq(Halves)
    BY <1>2
  <2>2. QED
    BY <2>1, BothOf DEF Coming
<1>6. ASSUME NEW i \in 1..l PROVE bytes[i] = Coming[i]
  <2>1. CASE i \in 1..a
    BY <1>4, <1>5, <2>1
  <2>2. CASE i \notin 1..a
    <3> DEFINE j == i - a
    <3>1. j \in 1..n /\ j \in 1..Len(inWire) /\ i = a + j
      BY <1>1, <1>2, <2>2
    <3> HIDE DEF j, a
    <3>2. QED
      BY <1>4, <1>5, <3>1
  <2>3. QED
    BY <2>1, <2>2
<1>7. /\ l \in Nat /\ whole \in Nat /\ 2 * whole <= l /\ l <= 2 * whole + 1 /\ l <= 2 * r
      /\ whole <= r
  BY <1>1, <1>2, <1>4
<1> HIDE DEF whole, l
<1>8. /\ left \in Seq(Halves) /\ Len(left) = l - 2 * whole
      /\ \A i \in 1..l - 2 * whole : left[i] = bytes[2 * whole + i]
  <2> DEFINE b == 2 * whole + 1
  <2>1. b \in 1..Len(bytes) + 1 /\ l \in b - 1..Len(bytes) /\ l - b + 1 = l - 2 * whole
        /\ \A i \in 1..l - 2 * whole : b - 1 + i = 2 * whole + i
    BY <1>4, <1>7
  <2>2. left = SubSeq(bytes, b, l)
    BY <1>4
  <2> HIDE DEF b, left
  <2>3. /\ SubSeq(bytes, b, l) \in Seq(Halves) /\ Len(SubSeq(bytes, b, l)) = l - b + 1
        /\ \A i \in 1..l - b + 1 : SubSeq(bytes, b, l)[i] = bytes[b - 1 + i]
    BY <1>4, <2>1, PartOf
  <2>4. QED
    BY <2>1, <2>2, <2>3
<1> HIDE DEF left
<1>9. \A i \in 1..whole : /\ bytes[2 * i - 1].packet = answers[Len(delivered) + i]
                          /\ answers[Len(delivered) + i] \in Responses
  <2> TAKE i \in 1..whole
  <2>1. 2 * i - 1 \in 1..l /\ i \in 1..r /\ Len(delivered) + i \in 1..Len(answers)
    BY <1>2, <1>7
  <2>2. bytes[2 * i - 1] = Coming[2 * i - 1]
    BY <1>6, <2>1
  <2>3. Coming[2 * i - 1].packet = answers[Len(delivered) + i]
    BY <1>2, <2>1
  <2>4. answers[Len(delivered) + i] \in Responses
    BY <1>2, <2>1
  <2> HIDE DEF r, l
  <2>5. QED
    BY <2>2, <2>3, <2>4
<1>10. complete \in Seq(Responses) /\ Len(complete) = whole
       /\ \A i \in 1..whole : complete[i] = answers[Len(delivered) + i]
  BY <1>7, <1>9
<1> HIDE DEF complete
<1>11. /\ delivered' \in Seq(Responses) /\ Len(delivered') = Len(delivered) + whole
       /\ \A i \in 1..Len(delivered) : delivered'[i] = delivered[i]
       /\ \A i \in 1..whole : delivered'[Len(delivered) + i] = complete[i]
       /\ Len(delivered') \in Nat
  <2>1. delivered \in Seq(Responses) /\ complete \in Seq(Responses)
    BY <1>2, <1>10
  <2>2. /\ delivered \o complete \in Seq(Responses)
        /\ Len(delivered \o complete) = Len(delivered) + Len(complete)
        /\ \A i \in 1..Len(delivered) : (delivered \o complete)[i] = delivered[i]
        /\ \A i \in 1..Len(complete) : (delivered \o complete)[Len(delivered) + i] = complete[i]
    BY <2>1, BothOf
  <2>3. QED
    BY <1>1, <1>2, <1>7, <1>10, <2>2, SMTT(40)
<1>12. ASSUME NEW i \in 1..Len(delivered') PROVE delivered'[i] = answers'[i]
  <2>1. CASE i \in 1..Len(delivered)
    BY <1>1, <1>11, <2>1 DEF ReceivingInv
  <2>2. CASE i \notin 1..Len(delivered)
    <3> DEFINE j == i - Len(delivered)
    <3>1. j \in 1..whole /\ i = Len(delivered) + j
      BY <1>2, <1>7, <1>11, <2>2
    <3> HIDE DEF j
    <3>2. QED
      BY <1>1, <1>10, <1>11, <3>1
  <2>3. QED
    BY <2>1, <2>2
<1>13. Len(answers') - Len(delivered') = r - whole /\ r - whole \in Nat
  BY <1>1, <1>2, <1>7, <1>11
<1>14. Len(incoming') + Len(inWire') = 2 * (r - whole)
  <2>1. Len(incoming') = l - 2 * whole /\ Len(inWire') = Len(inWire) - n
    BY <1>1, <1>3, <1>8
  <2>2. /\ l = a + n /\ a + Len(inWire) = 2 * r /\ a \in Nat /\ Len(inWire) \in Nat
        /\ n <= Len(inWire) /\ whole \in Nat /\ r \in Nat
    BY <1>1, <1>2, <1>7 DEF l
  <2> HIDE DEF r, a
  <2>3. QED
    BY <2>1, <2>2
<1>15. ASSUME NEW k \in 1..2 * (r - whole) PROVE Coming'[k] = Coming[2 * whole + k]
  <2>1. /\ Coming' = left \o rest
        /\ \A i \in 1..Len(left) : Coming'[i] = left[i]
        /\ \A i \in 1..Len(rest) : Coming'[Len(left) + i] = rest[i]
    <3>1. left \in Seq(Halves) /\ rest \in Seq(Halves)
      BY <1>3, <1>8
    <3>2. /\ \A i \in 1..Len(left) : (left \o rest)[i] = left[i]
          /\ \A i \in 1..Len(rest) : (left \o rest)[Len(left) + i] = rest[i]
      BY <3>1, BothOf
    <3>3. Coming' = left \o rest
      BY <1>1 DEF Coming
    <3>4. QED
      BY <3>2, <3>3
  <2>2. CASE k \in 1..Len(left)
    <3>1. 2 * whole + k \in 1..l /\ k \in 1..l - 2 * whole
      BY <1>7, <1>8, <2>2
    <3>2. QED
      BY <1>6, <1>8, <2>1, <2>2, <3>1
  <2>3. CASE k \notin 1..Len(left)
    <3> DEFINE j == k - Len(left)
    <3>1. j \in 1..Len(rest) /\ k = Len(left) + j /\ n + j \in 1..Len(inWire)
          /\ 2 * whole + k = a + (n + j) /\ j \in 1..Len(inWire) - n
      <4>1. /\ Len(left) = l - 2 * whole /\ l = a + n
            /\ Len(rest) = Len(inWire) - n
        <5>1. l = a + n
          BY DEF l
        <5>2. QED
          BY <1>3, <1>8, <5>1
      <4>2. Len(left) \in Nat /\ k \in Nat /\ k > Len(left) /\ k <= 2 * (r - whole)
        BY <1>7, <1>8, <1>13, <2>3
      <4>3. a + Len(inWire) = 2 * r /\ a \in Nat /\ Len(inWire) \in Nat /\ n <= Len(inWire)
        BY <1>1, <1>2
      <4> HIDE DEF r, a
      <4>4. QED
        BY <1>2, <1>7, <4>1, <4>2, <4>3
    <3> HIDE DEF j, a
    <3>2. Coming'[Len(left) + j] = rest[j]
      BY <2>1, <3>1
    <3>3. rest[j] = inWire[n + j]
      BY <1>3, <3>1
    <3>4. Coming[a + (n + j)] = inWire[n + j]
      BY <1>5, <3>1
    <3>5. QED
      BY <3>1, <3>2, <3>3, <3>4
  <2>4. QED
    BY <2>2, <2>3
<1>16. ASSUME NEW i \in 1..r - whole
       PROVE  Coming'[2 * i - 1].packet = answers'[Len(delivered') + i]
  <2>1. 2 * i - 1 \in 1..2 * (r - whole) /\ whole + i \in 1..r
        /\ 2 * whole + (2 * i - 1) = 2 * (whole + i) - 1
        /\ Len(delivered') + i = Len(delivered) + (whole + i)
    BY <1>2, <1>7, <1>11, <1>13
  <2>2. QED
    BY <1>1, <1>2, <1>15, <2>1
<1>17. /\ answers' \in Seq(Responses) /\ incoming' \in Seq(Halves) /\ inWire' \in Seq(Halves)
       /\ Len(delivered') <= Len(answers')
  BY <1>1, <1>2, <1>3, <1>7, <1>8, <1>11
<1>18. /\ Len(incoming') + Len(inWire') = 2 * (Len(answers') - Len(delivered'))
       /\ \A i \in 1..Len(answers') - Len(delivered') :
            Coming'[2 * i - 1].packet = answers'[Len(delivered') + i]
  BY <1>13, <1>14, <1>16
<1>19. QED
  BY <1>11, <1>12, <1>17, <1>18 DEF ReceivingInv, Halves

\* What the invariants say of the wire.
LEMMA WireFollows ==
  ASSUME SendingInv, ReceivingInv
  PROVE  WireIsWhole
<1>0. PICK m \in Nat : \E turn : Wire(m, turn)
  BY DEF SendingInv
<1>1. PICK turn : Wire(m, turn)
  BY <1>0
<1>2. /\ outParts \in {0, 1} /\ Len(outWire) = 2 * m + outParts
      /\ turn \in [1..m + outParts -> 1..Len(asked) - Len(requests)]
      /\ \A i, j \in 1..m + outParts : i < j => turn[i] < turn[j]
      /\ \A i \in 1..m + outParts :
           /\ outWire[2 * i - 1] = [packet |-> asked[turn[i]], part |-> "header"]
           /\ i <= m => outWire[2 * i] = [packet |-> asked[turn[i]], part |-> "contents"]
  BY <1>1 DEF Wire
<1>3. (Len(outWire) + 1) \div 2 = m + outParts
  BY <1>2
<1>4. DOMAIN asked = 1..Len(asked) /\ Len(asked) \in Nat /\ Len(requests) \in Nat
  BY DEF SendingInv, Outbox
<1>5. turn \in [1..(Len(outWire) + 1) \div 2 -> DOMAIN asked] /\ DOMAIN turn = 1..m + outParts
  BY <1>2, <1>3, <1>4
<1>6. \A i \in 1..m + outParts : 2 * i <= Len(outWire) => i <= m
  BY <1>2
<1>7. \A i \in DOMAIN turn : /\ outWire[2 * i - 1] = C!Parts(asked[turn[i]])[1]
                             /\ 2 * i <= Len(outWire) => outWire[2 * i] = C!Parts(asked[turn[i]])[2]
  BY <1>2, <1>5, <1>6 DEF C!Parts
<1>8. C!IsPrefix(delivered, answers)
  BY DEF ReceivingInv, C!IsPrefix
<1>9. QED
  BY <1>2, <1>5, <1>7, <1>8 DEF WireIsWhole, C!WireIsWhole

\* A packet is on the wire whole and in its turn, whatever is posted while it is being
\* sent; what the server has sent is delivered whole and in its turn: for any packets.
THEOREM WireAlwaysWhole == FairSpecAll => []WireIsWhole
<1> DEFINE Inv == SendingInv /\ ReceivingInv
<1>1. InitAll => Inv
  <2> SUFFICES ASSUME InitAll PROVE Inv
    OBVIOUS
  <2>1. /\ requests = <<>> /\ outgoing = <<>> /\ outParts = 0 /\ outWire = <<>>
        /\ inWire = <<>> /\ answers = <<>> /\ incoming = <<>>
        /\ delivered = <<>> /\ asked = <<>>
    BY DEF InitAll, C!Init
  <2>2. Outbox /\ ReceivingInv
    BY <2>1 DEF Outbox, ReceivingInv
  <2>3. Wire(0, <<>>)
    BY <2>1 DEF Wire
  <2>4. QED
    BY <2>2, <2>3 DEF SendingInv
<1>2. Inv /\ [NextAll]_allVars => Inv'
  <2> SUFFICES ASSUME SendingInv, ReceivingInv, [NextAll]_allVars PROVE Inv'
    OBVIOUS
  <2>1. ASSUME UNCHANGED <<requests, outgoing, outParts, outWire, asked>> PROVE SendingInv'
    <3>0. PICK m \in Nat : \E turn : Wire(m, turn)
      BY DEF SendingInv
    <3>1. PICK turn : Wire(m, turn)
      BY <3>0
    <3>2. Outbox'
      BY <2>1 DEF SendingInv, Outbox
    <3>3. Wire(m, turn)'
      BY <2>1, <3>1 DEF Wire
    <3>4. QED
      BY <3>2, <3>3 DEF SendingInv
  <2>2. ASSUME UNCHANGED <<inWire, answers, incoming, delivered>> PROVE ReceivingInv'
    BY <2>2 DEF ReceivingInv, Coming
  <2>3. CASE UNCHANGED clientVars
    BY <2>1, <2>2, <2>3 DEF clientVars
  <2>4. ASSUME NEW p \in Requests, C!Post(p) PROVE Inv'
    BY <2>2, <2>4, PostKeeps DEF C!Post, C!inVars
  <2>5. CASE C!ProceedRequest
    BY <2>2, <2>5, ProceedKeeps DEF C!ProceedRequest, C!inVars
  <2>6. ASSUME NEW n \in 1..2, C!Transmit(n) PROVE Inv'
    BY <2>2, <2>6, TransmitKeeps DEF C!Transmit, C!inVars
  <2>7. ASSUME NEW p \in Responses, C!Respond(p) PROVE Inv'
    BY <2>1, <2>7, RespondKeeps DEF C!Respond, C!outVars
  <2>8. ASSUME NEW n \in 1..2 * Len(inWire), C!Receive(n) PROVE Inv'
    <3>1. n \in Nat
      OBVIOUS
    <3>2. QED
      BY <2>1, <2>8, <3>1, ReceiveKeeps DEF C!Receive, C!outVars
  <2>9. CASE C!Next
    BY <2>4, <2>5, <2>6, <2>7, <2>8, <2>9 DEF C!Next
  <2>10. QED
    BY <2>3, <2>9 DEF NextAll, allVars
<1>3. Inv => WireIsWhole
  BY WireFollows
<1>4. QED
  BY <1>1, <1>2, <1>3, PTL DEF FairSpecAll

-----------------------------------------------------------------------------
(***************************************************************************)
(* The stub of a client.  A packet is on the socket, in _outBuf, in the    *)
(* queue or in the hands of take (); those that had to be queued go        *)
(* through the places in this order, the others through the first two.     *)
(***************************************************************************)

\* Concatenation, under a name of its own: its definition is not needed below.
Then(s, t) == s \o t

LEMMA ThenIs ==
  ASSUME NEW T, NEW a \in Seq(T), NEW b \in Seq(T), NEW c \in Seq(T)
  PROVE  Then(a, Then(b, c)) = Then(Then(a, b), c) /\ Then(a, b) \in Seq(T)
<1>1. a \o (b \o c) = (a \o b) \o c
  BY ConcatAssociative, SMTT(40)
<1>2. a \o b \in Seq(T)
  BY ConcatProperties
<1>3. QED
  BY <1>1, <1>2 DEF Then

LEMMA ThenNothing ==
  ASSUME NEW T, NEW a \in Seq(T)
  PROVE  Then(a, <<>>) = a /\ Then(<<>>, a) = a /\ <<>> \in Seq(T)
BY ConcatEmptySeq, EmptySeq DEF Then

LEMMA ThenFour ==
  ASSUME NEW T, NEW a \in Seq(T), NEW b \in Seq(T), NEW c \in Seq(T), NEW d \in Seq(T)
  PROVE  /\ Then(a, Then(b, Then(c, d))) = Then(Then(Then(a, b), c), d)
         /\ Then(a, Then(b, Then(c, d))) = Then(Then(a, Then(b, c)), d)
<1>1. PICK ab \in Seq(T) : ab = Then(a, b)
  BY ThenIs
<1>2. PICK bc \in Seq(T) : bc = Then(b, c)
  BY ThenIs
<1>3. PICK cd \in Seq(T) : cd = Then(c, d)
  BY ThenIs
<1>4. Then(a, Then(b, cd)) = Then(ab, cd)
  BY <1>1, ThenIs
<1>5. Then(ab, Then(c, d)) = Then(Then(ab, c), d)
  BY ThenIs
<1>6. Then(b, Then(c, d)) = Then(bc, d)
  BY <1>2, ThenIs
<1>7. Then(a, Then(bc, d)) = Then(Then(a, bc), d)
  BY ThenIs
<1>8. QED
  BY <1>1, <1>2, <1>3, <1>4, <1>5, <1>6, <1>7

\* What take () was called with is what was written and what waits.  Who finds the output
\* idle may fill it, whatever waits, since the two kinds are counted apart.
StubInv ==
  /\ S!TypeOK
  /\ took["direct"] = Then(wrote["direct"], S!InOutput("direct"))
  /\ took["queued"] = Then(wrote["queued"], Then(S!InOutput("queued"), Then(queue, refused)))

LEMMA StubTypes ==
  ASSUME StubInv
  PROVE  /\ queue \in Seq(Parcels) /\ sending \in Seq(Parcels) /\ refused \in Seq(Parcels)
         /\ Len(sending) <= 1 /\ Len(refused) <= 1 /\ via \in S!Kinds
         /\ took \in [S!Kinds -> Seq(Parcels)] /\ wrote \in [S!Kinds -> Seq(Parcels)]
         /\ took["direct"] \in Seq(Parcels) /\ took["queued"] \in Seq(Parcels)
         /\ wrote["direct"] \in Seq(Parcels) /\ wrote["queued"] \in Seq(Parcels)
         /\ \A k \in S!Kinds : S!InOutput(k) \in Seq(Parcels)
<1>1. "direct" \in S!Kinds /\ "queued" \in S!Kinds
  BY DEF S!Kinds
<1>2. /\ queue \in Seq(Parcels) /\ sending \in Seq(Parcels) /\ refused \in Seq(Parcels)
      /\ Len(sending) <= 1 /\ Len(refused) <= 1 /\ via \in S!Kinds
      /\ took \in [S!Kinds -> Seq(Parcels)] /\ wrote \in [S!Kinds -> Seq(Parcels)]
  BY DEF StubInv, S!TypeOK
<1>3. <<>> \in Seq(Parcels)
  BY EmptySeq
<1>4. \A k \in S!Kinds : S!InOutput(k) \in Seq(Parcels)
  BY <1>2, <1>3 DEF S!InOutput
<1>5. QED
  BY <1>1, <1>2, <1>4

\* A packet is sent or queued (client_stub::take).
LEMMA TakeKeeps ==
  ASSUME StubInv, NEW p \in Parcels, S!Take(p)
  PROVE  StubInv'
<1>1. refused = <<>> /\ UNCHANGED <<queue, loopAt, wrote>>
  BY DEF S!Take
<1>2. PICK last \in Seq(Parcels) : last = <<p>>
  <2>1. <<p>> \in Seq(Parcels)
    OBVIOUS
  <2>2. QED
    BY <2>1
<1>8. Len(last) = 1
  BY <1>2
<1>3. "direct" \in S!Kinds /\ "queued" \in S!Kinds /\ "direct" # "queued"
  BY DEF S!Kinds
<1>4. loopAt \in {"prepare", "asleep", "armed", "writing", "written"}
  BY DEF StubInv, S!TypeOK
<1>5. CASE S!SendPacket(p, "direct") /\ UNCHANGED refused
           /\ took' = [took EXCEPT !["direct"] = Append(@, p)]
  <2>1. sending = <<>> /\ sending' = last /\ via' = "direct" /\ refused' = refused
    BY <1>2, <1>5 DEF S!SendPacket
  <2>2. S!InOutput("direct") = <<>> /\ S!InOutput("queued") = <<>>
    BY <2>1 DEF S!InOutput
  <2>3. S!InOutput("direct")' = last /\ S!InOutput("queued")' = <<>>
    BY <1>3, <2>1 DEF S!InOutput
  <2>4. took["direct"] = wrote["direct"]
    BY <2>2, StubTypes, ThenNothing DEF StubInv
  <2>5. took'["direct"] = Then(took["direct"], last) /\ took'["queued"] = took["queued"]
    <3>1. took'["direct"] = Append(took["direct"], p) /\ took'["queued"] = took["queued"]
      BY <1>3, <1>5, StubTypes
    <3>2. Append(took["direct"], p) = took["direct"] \o <<p>>
      BY StubTypes, AppendIsConcat
    <3>3. QED
      BY <1>2, <3>1, <3>2 DEF Then
  <2>6. took'["direct"] \in Seq(Parcels)
    <3>1. took["direct"] \in Seq(Parcels) /\ <<>> \in Seq(Parcels)
      BY StubTypes, EmptySeq
    <3>2. Then(took["direct"], last) \in Seq(Parcels)
      BY <3>1, ThenIs
    <3>3. QED
      BY <2>5, <3>2
  <2>7. took' \in [S!Kinds -> Seq(Parcels)]
    BY <1>3, <1>5, <2>5, <2>6, StubTypes
  <2>8. S!TypeOK'
    <3>1. via' \in S!Kinds
      BY <1>3, <2>1
    <3>4. sending' \in Seq(Parcels) /\ Len(sending') <= 1
      <4>1. last \in Seq(Parcels) /\ Len(last) <= 1
        BY <1>8
      <4>2. QED
        BY <2>1, <4>1
    <3>2. /\ queue' \in Seq(Parcels) /\ refused' \in Seq(Parcels) /\ Len(refused') <= 1
          /\ wrote' \in [S!Kinds -> Seq(Parcels)]
      BY <1>1, <2>1, StubTypes
    <3>3. QED
      BY <1>1, <1>4, <2>7, <3>1, <3>2, <3>4 DEF S!TypeOK
  <2>9. took'["queued"] = Then(wrote["queued"], Then(S!InOutput("queued")', Then(queue, refused)))
    BY <2>2, <2>3, <2>5 DEF StubInv
  <2>10. QED
    BY <1>1, <2>1, <2>3, <2>4, <2>5, <2>8, <2>9 DEF StubInv
<1>6. CASE sending # <<>> /\ refused' = <<p>> /\ UNCHANGED <<sending, via>>
           /\ took' = [took EXCEPT !["queued"] = Append(@, p)]
  <2> DEFINE out == S!InOutput("queued")
  <2>1. S!InOutput("direct")' = S!InOutput("direct") /\ S!InOutput("queued")' = out
    BY <1>6 DEF S!InOutput
  <2>2. out \in Seq(Parcels)
    BY <1>3, StubTypes
  <2> HIDE DEF out
  <2>3. took'["queued"] = Then(took["queued"], last) /\ took'["direct"] = took["direct"]
    <3>1. took'["queued"] = Append(took["queued"], p) /\ took'["direct"] = took["direct"]
      BY <1>3, <1>6, StubTypes
    <3>2. Append(took["queued"], p) = took["queued"] \o <<p>>
      BY StubTypes, AppendIsConcat
    <3>3. QED
      BY <1>2, <3>1, <3>2 DEF Then
  <2>4. took["queued"] = Then(wrote["queued"], Then(out, queue))
    <3>1. Then(queue, refused) = queue
      BY <1>1, StubTypes, ThenNothing
    <3>2. QED
      BY <3>1 DEF StubInv, out
  <2>5. Then(Then(wrote["queued"], Then(out, queue)), last)
          = Then(wrote["queued"], Then(out, Then(queue, last)))
    <3>1. queue \in Seq(Parcels) /\ wrote["queued"] \in Seq(Parcels)
      BY StubTypes
    <3>2. QED
      BY <2>2, <3>1, ThenFour
  <2>6. took'["queued"] \in Seq(Parcels)
    <3>1. took["queued"] \in Seq(Parcels) /\ <<>> \in Seq(Parcels)
      BY StubTypes, EmptySeq
    <3>2. Then(took["queued"], last) \in Seq(Parcels)
      BY <3>1, ThenIs
    <3>3. QED
      BY <2>3, <3>2
  <2>7. took' \in [S!Kinds -> Seq(Parcels)]
    BY <1>3, <1>6, <2>3, <2>6, StubTypes
  <2>8. S!TypeOK'
    BY <1>1, <1>2, <1>8, <1>4, <1>6, <2>7, StubTypes DEF S!TypeOK
  <2>9. took'["queued"] = Then(wrote["queued"], Then(out, Then(queue, refused')))
    BY <1>2, <1>6, <2>3, <2>4, <2>5
  <2>10. took'["direct"] = Then(wrote["direct"], S!InOutput("direct"))
    BY <2>3 DEF StubInv
  <2>11. QED
    BY <1>1, <2>1, <2>8, <2>9, <2>10 DEF StubInv
<1>7. QED
  BY <1>5, <1>6 DEF S!Take

\* take () goes on (client_stub::take).
LEMMA PushBackKeeps ==
  ASSUME StubInv, S!PushBack
  PROVE  StubInv'
<1>1. /\ queue' = Then(queue, refused) /\ refused' = <<>>
      /\ UNCHANGED <<sending, loopAt, via, took, wrote>>
  BY DEF S!PushBack, Then
<1>2. queue' \in Seq(Parcels) /\ refused' \in Seq(Parcels) /\ Len(refused') = 0
  BY <1>1, StubTypes, ThenIs, ThenNothing
<1>3. Then(queue', refused') = Then(queue, refused)
  BY <1>1, <1>2, ThenNothing
<1>4. S!TypeOK'
  BY <1>1, <1>2, StubTypes DEF S!TypeOK, StubInv
<1>5. S!InOutput("direct")' = S!InOutput("direct") /\ S!InOutput("queued")' = S!InOutput("queued")
  BY <1>1 DEF S!InOutput
<1>6. QED
  BY <1>1, <1>3, <1>4, <1>5 DEF StubInv

\* The socket takes what is in the output (net_peer::handle_write).
LEMMA WriteOutKeeps ==
  ASSUME StubInv, S!WriteOut
  PROVE  StubInv'
<1>1. UNCHANGED <<queue, refused, via, took>>
  BY DEF S!WriteOut
<1>2. "direct" \in S!Kinds /\ "queued" \in S!Kinds /\ "direct" # "queued"
  BY DEF S!Kinds
<1>3. CASE loopAt' = "prepare" /\ UNCHANGED <<sending, wrote>>
  <2>1. S!TypeOK'
    BY <1>1, <1>3 DEF S!TypeOK, StubInv
  <2>2. S!InOutput("direct")' = S!InOutput("direct") /\ S!InOutput("queued")' = S!InOutput("queued")
    BY <1>1, <1>3 DEF S!InOutput
  <2>3. QED
    BY <1>1, <1>3, <2>1, <2>2 DEF StubInv
<1>4. CASE wrote' = [wrote EXCEPT ![via] = @ \o sending] /\ sending' = <<>> /\ loopAt' = "written"
  <2>1. \A k \in S!Kinds : wrote'[k] = Then(wrote[k], S!InOutput(k))
    <3> SUFFICES ASSUME NEW k \in S!Kinds PROVE wrote'[k] = Then(wrote[k], S!InOutput(k))
      OBVIOUS
    <3>1. CASE k = via
      BY <1>4, <3>1, StubTypes DEF S!InOutput, Then
    <3>2. CASE k # via
      <4>1. wrote'[k] = wrote[k] /\ S!InOutput(k) = <<>> /\ wrote[k] \in Seq(Parcels)
        BY <1>4, <3>2, StubTypes DEF S!InOutput
      <4>2. QED
        BY <4>1, ThenNothing
    <3>3. QED
      BY <3>1, <3>2
  <2>2. \A k \in S!Kinds : wrote'[k] \in Seq(Parcels)
    BY <2>1, StubTypes, ThenIs
  <2>3. wrote' \in [S!Kinds -> Seq(Parcels)]
    BY <1>4, <2>2, StubTypes
  <2>4. sending' \in Seq(Parcels) /\ Len(sending') = 0
    BY <1>4, EmptySeq
  <2>5. S!TypeOK'
    BY <1>1, <1>4, <2>3, <2>4, StubTypes DEF S!TypeOK
  <2>6. S!InOutput("direct")' = <<>> /\ S!InOutput("queued")' = <<>>
    BY <1>1, <1>4 DEF S!InOutput
  <2>7. took'["direct"] = Then(wrote'["direct"], S!InOutput("direct")')
    <3>1. Then(wrote'["direct"], <<>>) = wrote'["direct"]
      BY <1>2, <2>2, ThenNothing
    <3>2. QED
      BY <1>1, <1>2, <2>1, <2>6, <3>1 DEF StubInv
  <2>8. took'["queued"] = Then(wrote'["queued"], Then(S!InOutput("queued")', Then(queue', refused')))
    <3>1. Then(queue, refused) \in Seq(Parcels)
      BY StubTypes, ThenIs, ThenNothing
    <3>2. Then(<<>>, Then(queue, refused)) = Then(queue, refused)
      BY <3>1, ThenNothing
    <3>3. Then(wrote["queued"], Then(S!InOutput("queued"), Then(queue, refused)))
            = Then(Then(wrote["queued"], S!InOutput("queued")), Then(queue, refused))
      BY <1>2, <3>1, StubTypes, ThenIs
    <3>4. QED
      BY <1>1, <1>2, <2>1, <2>6, <3>2, <3>3 DEF StubInv
  <2>9. QED
    BY <2>5, <2>7, <2>8 DEF StubInv
<1>5. QED
  BY <1>3, <1>4 DEF S!WriteOut

\* The next packet of the queue (client_stub::handle_write).
LEMMA SendNextKeeps ==
  ASSUME StubInv, S!SendNext
  PROVE  StubInv'
<1>1. UNCHANGED <<refused, took, wrote>>
  BY DEF S!SendNext
<1>2. CASE loopAt' = "prepare" /\ UNCHANGED <<queue, sending, via>>
  <2>1. S!TypeOK'
    BY <1>1, <1>2 DEF S!TypeOK, StubInv
  <2>2. S!InOutput("direct")' = S!InOutput("direct") /\ S!InOutput("queued")' = S!InOutput("queued")
    BY <1>2 DEF S!InOutput
  <2>3. QED
    BY <1>1, <1>2, <2>1, <2>2 DEF StubInv
<1>3. CASE queue # <<>> /\ sending = <<>> /\ sending' = <<Head(queue)>> /\ via' = "queued"
           /\ queue' = Tail(queue) /\ loopAt' = "writing"
  <2>1. /\ Head(queue) \in Parcels /\ queue' \in Seq(Parcels)
        /\ queue = Then(<<Head(queue)>>, Tail(queue))
    BY <1>3, StubTypes, HeadTailProperties DEF Then
  <2>2. sending' \in Seq(Parcels) /\ Len(sending') = 1
    BY <1>3, <2>1
  <2>3. S!TypeOK'
    BY <1>1, <1>3, <2>1, <2>2, StubTypes DEF S!TypeOK, S!Kinds
  <2>4. S!InOutput("direct") = <<>> /\ S!InOutput("queued") = <<>>
    BY <1>3 DEF S!InOutput
  <2>5. S!InOutput("direct")' = <<>> /\ S!InOutput("queued")' = sending'
    BY <1>3 DEF S!InOutput
  <2>6. Then(queue, refused) = Then(sending', Then(queue', refused))
    <3>1. Then(sending', queue') = queue
      BY <1>3, <2>1
    <3>2. QED
      BY <2>1, <2>2, <3>1, StubTypes, ThenIs
  <2>7. Then(<<>>, Then(queue, refused)) = Then(queue, refused)
    BY StubTypes, ThenIs, ThenNothing
  <2>8. QED
    BY <1>1, <2>3, <2>4, <2>5, <2>6, <2>7 DEF StubInv
<1>4. QED
  BY <1>2, <1>3 DEF S!SendNext, S!SendPacket

LEMMA StubStep == StubInv /\ S!Next => StubInv'
<1> SUFFICES ASSUME StubInv, S!Next PROVE StubInv'
  OBVIOUS
<1>1. CASE S!Prepare \/ S!WakeUp \/ S!HandleWrite
  <2>1. /\ loopAt' \in {"prepare", "asleep", "armed", "writing"}
        /\ UNCHANGED <<queue, sending, refused, via, took, wrote>>
    BY <1>1 DEF S!Prepare, S!WakeUp, S!HandleWrite
  <2>2. QED
    BY <2>1 DEF StubInv, S!TypeOK, S!InOutput
<1>2. QED
  BY <1>1, TakeKeeps, PushBackKeeps, WriteOutKeeps, SendNextKeeps DEF S!Next

\* No packet is lost or written twice, and those that were sent at once and those that had
\* to be queued keep their order, for any packets and whichever thread delivers them while
\* the event loop writes (client_stub::take, client_stub::handle_write).
THEOREM StubNeverLoses == FairSpecAll => []S!StubLosesNothing
<1>1. InitAll => StubInv
  <2> SUFFICES ASSUME InitAll PROVE StubInv
    OBVIOUS
  <2>1. /\ queue = <<>> /\ sending = <<>> /\ refused = <<>>
        /\ loopAt = "prepare" /\ via = "direct"
        /\ took = [k \in S!Kinds |-> <<>>] /\ wrote = [k \in S!Kinds |-> <<>>]
    BY DEF InitAll, S!Init
  <2>2. <<>> \in Seq(Parcels) /\ Len(<<>>) = 0
    BY EmptySeq
  <2>3. /\ took["direct"] = <<>> /\ took["queued"] = <<>>
        /\ wrote["direct"] = <<>> /\ wrote["queued"] = <<>>
    BY <2>1 DEF S!Kinds
  <2>4. S!InOutput("direct") = <<>> /\ S!InOutput("queued") = <<>>
    BY <2>1 DEF S!InOutput
  <2>5. Then(<<>>, <<>>) = <<>>
    BY <2>2, ThenNothing
  <2>6. S!TypeOK
    BY <2>1, <2>2 DEF S!TypeOK, S!Kinds
  <2>7. QED
    BY <2>1, <2>3, <2>4, <2>5, <2>6 DEF StubInv
<1>2. StubInv /\ [NextAll]_allVars => StubInv'
  <2>1. StubInv /\ UNCHANGED stubVars => StubInv'
    BY DEF stubVars, StubInv, S!TypeOK, S!InOutput
  <2>2. QED
    BY <2>1, StubStep DEF NextAll, allVars
<1>3. StubInv => S!StubLosesNothing
  <2> SUFFICES ASSUME StubInv PROVE S!StubLosesNothing
    OBVIOUS
  <2> DEFINE out == S!InOutput("queued")
  <2>1. out \in Seq(Parcels) /\ wrote["queued"] \in Seq(Parcels)
    BY StubTypes DEF S!Kinds
  <2>2. took["queued"] = Then(wrote["queued"], Then(out, Then(queue, refused)))
    BY DEF StubInv
  <2> HIDE DEF out
  <2>3. took["queued"] = Then(Then(Then(wrote["queued"], out), queue), refused)
    <3>1. queue \in Seq(Parcels) /\ refused \in Seq(Parcels)
      BY StubTypes
    <3>2. Then(wrote["queued"], Then(out, Then(queue, refused)))
            = Then(Then(Then(wrote["queued"], out), queue), refused)
      BY <2>1, <3>1, ThenFour
    <3>3. QED
      BY <2>2, <3>2
  <2>5. QED
    BY <2>3 DEF S!StubLosesNothing, StubInv, Then, out
<1>4. QED
  BY <1>1, <1>2, <1>3, PTL DEF FairSpecAll

-----------------------------------------------------------------------------
(***************************************************************************)
(* The manager of a server's devices: its destructor and its thread.       *)
(***************************************************************************)

\* The flag is up before the thread has marked its start and after its end, and the
\* destructor begins between the two.
ThreadInv ==
  /\ flag => thread \in {"new", "gone"}
  /\ thread = "new" => owner = "using"
  /\ M!GoneAfterThread

LEMMA ThreadStep == ~Early /\ ThreadInv /\ M!Next => ThreadInv'
<1> SUFFICES ASSUME ~Early, ThreadInv, M!Next PROVE ThreadInv'
  OBVIOUS
<1> USE DEF ThreadInv, M!GoneAfterThread, M!Go, M!NotifyOutbox
<1>1. ASSUME NEW d \in Domains, NEW e \in Elements, M!RegisterDevice(d, e) \/ M!UnregisterDevice(d, e)
      PROVE  ThreadInv'
  BY <1>1 DEF M!RegisterDevice, M!UnregisterDevice, M!managerVars
<1>2. ASSUME NEW p \in Packets, M!RegisterRequest(p) PROVE ThreadInv'
  BY <1>2 DEF M!RegisterRequest, M!Post
<1>3. CASE M!MarkRequestThreadStart \/ M!ProceedRequest
  BY <1>3 DEF M!MarkRequestThreadStart, M!ProceedRequest
<1>4. CASE M!Send
  BY <1>4 DEF M!Send
<1>5. CASE M!LookAgain \/ M!WaitActivation \/ M!SpuriousWakeup
  BY <1>5 DEF M!LookAgain, M!WaitActivation, M!SpuriousWakeup
<1>6. CASE M!NotifyTermination
  BY <1>6 DEF M!NotifyTermination
<1>7. CASE M!PostTerminate \/ M!AwaitTermination
  BY <1>7 DEF M!PostTerminate, M!AwaitTermination
<1>8. QED
  BY <1>1, <1>2, <1>3, <1>4, <1>5, <1>6, <1>7 DEF M!Next, M!RequestThread

\* The manager's members are destroyed only when the request thread has left them, for
\* any devices and packets, if the destructor does not begin before the thread has
\* (~device_manager and mark_request_thread_start, server.cpp).
THEOREM ManagerGoneAfterThread == ASSUME ~Early PROVE FairSpecAll => []M!GoneAfterThread
<1>1. InitAll => ThreadInv
  BY DEF InitAll, M!Init, ThreadInv, M!GoneAfterThread
<1>2. ThreadInv /\ [NextAll]_allVars => ThreadInv'
  <2>1. ThreadInv /\ UNCHANGED serverVars => ThreadInv'
    BY DEF serverVars, ThreadInv, M!GoneAfterThread
  <2>2. QED
    BY <2>1, ThreadStep DEF NextAll, allVars
<1>3. ThreadInv => M!GoneAfterThread
  BY DEF ThreadInv
<1>4. QED
  BY <1>1, <1>2, <1>3, PTL DEF FairSpecAll
=============================================================================
