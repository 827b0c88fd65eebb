----------------------------- MODULE LinesProofs ----------------------------
(***************************************************************************)
(* Proofs about the byte protocol, the net point and the connections of a  *)
(* server (SerialByte.tla, NetPoint.tla and TcpPeer.tla, among what        *)
(* carries bytes in Lines.tla), for every value of the constants: a caller *)
(* gets its own reply, every event is kept, what is reported is handled    *)
(* for whom it was reported, and a connection is registered where its      *)
(* descriptor says.                                                        *)
(***************************************************************************)
EXTENDS StreamProofs

-----------------------------------------------------------------------------
(***************************************************************************)
(* The packets of a line.                                                  *)
(***************************************************************************)
LEMMA Halves ==
  ASSUME NEW n \in Nat
  PROVE  n \div 2 \in Nat /\ 2 * (n \div 2) <= n /\ n < 2 * (n \div 2) + 2
OBVIOUS

LEMMA HalfOfOne ==
  ASSUME NEW n \in Nat, n <= 1
  PROVE  n \div 2 = 0
OBVIOUS

LEMMA HalfOfSum ==
  ASSUME NEW n \in Nat, NEW k \in Nat
  PROVE  (2 * k + n) \div 2 = k + (n \div 2)
OBVIOUS

LEMMA PairBounds ==
  ASSUME NEW i \in Nat, NEW k \in Nat, NEW n \in Nat, 1 <= i, i <= k, 2 * k <= n
  PROVE  2 * i - 1 \in 1..n /\ 2 * i \in 1..n
OBVIOUS

LEMMA SumBound ==
  ASSUME NEW k \in Nat, NEW m \in Nat, NEW n \in Nat, 2 * m <= n
  PROVE  k + m \in Nat /\ 2 * (k + m) <= 2 * k + n /\ 2 * k + n \in Nat
OBVIOUS

LEMMA PacketsAre ==
  ASSUME NEW A, NEW s \in Seq(A)
  PROVE  /\ B!Packets(s) \in Seq(A \X A) /\ Len(B!Packets(s)) = Len(s) \div 2
         /\ Len(s) \div 2 \in Nat
         /\ \A i \in 1..Len(s) \div 2 :
              /\ 2 * i - 1 \in 1..Len(s) /\ 2 * i \in 1..Len(s)
              /\ B!Packets(s)[i] = <<s[2 * i - 1], s[2 * i]>>
<1>1. PICK k : k = Len(s) \div 2
  OBVIOUS
<1>2. k \in Nat /\ 2 * k <= Len(s) /\ Len(s) \in Nat /\ \A i \in 1..Len(s) : s[i] \in A
  BY <1>1, Halves
<1>3. \A i \in 1..k : 2 * i - 1 \in 1..Len(s) /\ 2 * i \in 1..Len(s)
  BY <1>2
<1>4. B!Packets(s) = [i \in 1..k |-> <<s[2 * i - 1], s[2 * i]>>]
  BY <1>1 DEF B!Packets, B!PacketSize
<1>5. \A i \in 1..k : <<s[2 * i - 1], s[2 * i]>> \in A \X A
  BY <1>2, <1>3
<1>6. B!Packets(s) \in Seq(A \X A) /\ Len(B!Packets(s)) = k
  BY <1>2, <1>4, <1>5
<1>7. QED
  BY <1>1, <1>2, <1>3, <1>4, <1>6

\* What is cut off in pairs does not change the others.
LEMMA PacketsOfEven ==
  ASSUME NEW A, NEW p \in Seq(A), NEW u \in Seq(A), NEW k \in Nat, Len(p) = 2 * k
  PROVE  B!Packets(p \o u) = B!Packets(p) \o B!Packets(u)
<1>1. PICK z : z = p \o u
  OBVIOUS
<1>2. /\ z \in Seq(A) /\ Len(z) = 2 * k + Len(u) /\ Len(u) \in Nat
      /\ \A i \in 1..Len(z) : z[i] = IF i <= 2 * k THEN p[i] ELSE u[i - 2 * k]
  <2>1. /\ p \o u \in Seq(A) /\ Len(p \o u) = Len(p) + Len(u)
        /\ \A i \in 1..Len(p) + Len(u) : (p \o u)[i] = IF i <= Len(p) THEN p[i] ELSE u[i - Len(p)]
    BY ConcatProperties
  <2>2. Len(u) \in Nat /\ 2 * k \in Nat /\ Len(p) = 2 * k
    OBVIOUS
  <2>3. QED
    BY <1>1, <2>1, <2>2
<1>3. PICK m : m = Len(u) \div 2
  OBVIOUS
<1>4. m \in Nat /\ 2 * m <= Len(u) /\ Len(p) \div 2 = k /\ Len(z) \div 2 = k + m
  <2>1. m \in Nat /\ 2 * m <= Len(u)
    BY <1>2, <1>3, Halves
  <2>2. Len(z) \div 2 = k + m
    BY <1>2, <1>3, HalfOfSum
  <2>3. 0 \div 2 = 0 /\ 0 \in Nat /\ Len(p) = 2 * k + 0
    OBVIOUS
  <2>4. (2 * k + 0) \div 2 = k + (0 \div 2)
    BY <2>3, HalfOfSum
  <2>5. Len(p) \div 2 = k
    BY <2>3, <2>4
  <2>6. QED
    BY <2>1, <2>2, <2>5
<1>5. PICK x, y, w : x = B!Packets(p) /\ y = B!Packets(u) /\ w = B!Packets(z)
  OBVIOUS
<1>6. /\ x \in Seq(A \X A) /\ Len(x) = k
      /\ \A i \in 1..k : x[i] = <<p[2 * i - 1], p[2 * i]>>
  BY <1>4, <1>5, PacketsAre
<1>7. /\ y \in Seq(A \X A) /\ Len(y) = m
      /\ \A i \in 1..m : y[i] = <<u[2 * i - 1], u[2 * i]>>
  BY <1>3, <1>5, PacketsAre
<1>8. /\ w \in Seq(A \X A) /\ Len(w) = k + m
      /\ \A i \in 1..k + m : w[i] = <<z[2 * i - 1], z[2 * i]>>
  BY <1>2, <1>4, <1>5, PacketsAre
<1>9. /\ x \o y \in Seq(A \X A) /\ Len(x \o y) = k + m
      /\ \A i \in 1..k + m : (x \o y)[i] = IF i <= k THEN x[i] ELSE y[i - k]
  BY <1>6, <1>7, ConcatProperties
<1>10. ASSUME NEW i \in 1..k + m PROVE w[i] = (x \o y)[i]
  <2>1. i \in Nat /\ 1 <= i /\ i <= k + m
    BY <1>4
  <2>2. 2 * i - 1 \in 1..Len(z) /\ 2 * i \in 1..Len(z)
    <3>1. k + m \in Nat /\ 2 * (k + m) <= 2 * k + Len(u) /\ 2 * k + Len(u) \in Nat
      BY <1>2, <1>4, SumBound
    <3>2. 2 * (k + m) <= Len(z) /\ Len(z) \in Nat
      BY <1>2, <3>1
    <3>3. QED
      BY <2>1, <3>1, <3>2, PairBounds
  <2>3. CASE i <= k
    <3>1. 2 * i - 1 <= 2 * k /\ 2 * i <= 2 * k /\ i \in 1..k
      BY <2>1, <2>3
    <3>2. z[2 * i - 1] = p[2 * i - 1] /\ z[2 * i] = p[2 * i]
      BY <1>2, <2>2, <3>1
    <3>3. QED
      BY <1>6, <1>8, <1>9, <2>3, <3>1, <3>2
  <2>4. CASE ~(i <= k)
    <3>1. /\ ~(2 * i - 1 <= 2 * k) /\ ~(2 * i <= 2 * k) /\ i - k \in 1..m
          /\ 2 * i - 1 - 2 * k = 2 * (i - k) - 1 /\ 2 * i - 2 * k = 2 * (i - k)
      BY <1>4, <2>1, <2>4
    <3>2. z[2 * i - 1] = u[2 * i - 1 - 2 * k] /\ z[2 * i] = u[2 * i - 2 * k]
      BY <1>2, <2>2, <3>1
    <3>3. QED
      BY <1>7, <1>8, <1>9, <2>4, <3>1, <3>2
  <2>5. QED
    BY <2>3, <2>4
<1>11. w = x \o y
  BY <1>8, <1>9, <1>10, SeqEqual
<1>12. QED
  BY <1>1, <1>5, <1>11

LEMMA PacketsJoined ==
  ASSUME NEW A, NEW p \in Seq(A), NEW odd \in Seq(A), NEW t \in Seq(A),
         NEW k \in Nat, Len(p) = 2 * k, Len(odd) <= 1
  PROVE  B!Packets((p \o odd) \o t) = B!Packets(p \o odd) \o B!Packets(odd \o t)
<1>1. odd \o t \in Seq(A) /\ p \o odd \in Seq(A)
  BY ConcatProperties
<1>2. (p \o odd) \o t = p \o (odd \o t)
  BY ConcatAssociative, SMTT(40)
<1>3. B!Packets(p \o (odd \o t)) = B!Packets(p) \o B!Packets(odd \o t)
  BY <1>1, PacketsOfEven
<1>4. B!Packets(p \o odd) = B!Packets(p) \o B!Packets(odd)
  BY PacketsOfEven
<1>5. B!Packets(odd) = <<>>
  <2>0. Len(odd) \in Nat
    OBVIOUS
  <2>2. Len(odd) \div 2 = 0
    BY <2>0, HalfOfOne
  <2>3. B!Packets(odd) \in Seq(A \X A) /\ Len(B!Packets(odd)) = 0
    BY <2>2, PacketsAre
  <2>4. QED
    BY <2>3, EmptySeq
<1>6. B!Packets(p) \in Seq(A \X A)
  BY PacketsAre
<1>7. B!Packets(p) \o <<>> = B!Packets(p)
  BY <1>6, ConcatEmptySeq
<1>8. QED
  BY <1>2, <1>3, <1>4, <1>5, <1>7

LEMMA EvenCut ==
  ASSUME NEW A, NEW s \in Seq(A), NEW k \in Nat, 2 * k <= Len(s), Len(s) < 2 * k + 2
  PROVE  /\ SubSeq(s, 1, 2 * k) \in Seq(A) /\ SubSeq(s, 2 * k + 1, Len(s)) \in Seq(A)
         /\ s = SubSeq(s, 1, 2 * k) \o SubSeq(s, 2 * k + 1, Len(s))
         /\ Len(SubSeq(s, 1, 2 * k)) = 2 * k /\ Len(SubSeq(s, 2 * k + 1, Len(s))) <= 1
<1>1. PICK m, n : m = 2 * k /\ n = Len(s)
  OBVIOUS
<1>2. m \in Nat /\ n \in Nat /\ m <= n /\ n < m + 2 /\ \A i \in 1..n : s[i] \in A
  BY <1>1
<1>3. PICK p, q : p = SubSeq(s, 1, m) /\ q = SubSeq(s, m + 1, n)
  OBVIOUS
<1>4. p \in Seq(A) /\ q \in Seq(A) /\ s = p \o q
  BY <1>1, <1>2, <1>3, Cut
<1>5. Len(p) = IF 1 <= m THEN m - 1 + 1 ELSE 0
  <2>1. \A i \in 1..m : s[i] \in A
    BY <1>2
  <2>2. QED
    BY <1>2, <1>3, <2>1, SubSeqProperties
<1>6. Len(p) = m
  BY <1>2, <1>5
<1>7. n = Len(p) + Len(q) /\ Len(q) \in Nat
  BY <1>1, <1>4, ConcatProperties
<1>8. Len(q) <= 1
  BY <1>2, <1>6, <1>7
<1>9. QED
  BY <1>1, <1>3, <1>4, <1>6, <1>8

\* The complete packets, and the one that is not complete yet: it is the beginning of what
\* follows.
Whole(s) == SubSeq(s, 1, 2 * Len(B!Packets(s)))
Odd(s) == SubSeq(s, 2 * Len(B!Packets(s)) + 1, Len(s))

LEMMA OddIs ==
  ASSUME NEW A, NEW s \in Seq(A)
  PROVE  /\ Whole(s) \in Seq(A) /\ Odd(s) \in Seq(A) /\ Len(Odd(s)) <= 1 /\ s = Whole(s) \o Odd(s)
         /\ Len(B!Packets(s)) \in Nat /\ Len(Whole(s)) = 2 * Len(B!Packets(s))
         /\ Len(s) = 2 * Len(B!Packets(s)) + Len(Odd(s))
<1>1. PICK k : k = Len(s) \div 2
  OBVIOUS
<1>2. k \in Nat /\ 2 * k <= Len(s) /\ Len(s) < 2 * k + 2 /\ Len(B!Packets(s)) = k
  <2>1. Len(s) \in Nat
    OBVIOUS
  <2>2. k \in Nat /\ 2 * k <= Len(s) /\ Len(s) < 2 * k + 2
    BY <1>1, <2>1, Halves
  <2>3. Len(B!Packets(s)) = k
    BY <1>1, PacketsAre
  <2>4. QED
    BY <2>2, <2>3
<1>3. PICK p, odd : p = SubSeq(s, 1, 2 * k) /\ odd = SubSeq(s, 2 * k + 1, Len(s))
  OBVIOUS
<1>4. p \in Seq(A) /\ odd \in Seq(A) /\ s = p \o odd /\ Len(p) = 2 * k /\ Len(odd) <= 1
  BY <1>2, <1>3, EvenCut
<1>5. p = Whole(s) /\ odd = Odd(s)
  BY <1>2, <1>3 DEF Whole, Odd
<1>6. Len(s) = 2 * k + Len(odd)
  <2>1. Len(p \o odd) = Len(p) + Len(odd)
    BY <1>4, ConcatProperties
  <2>2. QED
    BY <1>4, <2>1
<1>7. QED
  BY <1>2, <1>4, <1>5, <1>6

LEMMA PacketsJoin ==
  ASSUME NEW A, NEW s \in Seq(A), NEW t \in Seq(A)
  PROVE  B!Packets(s \o t) = B!Packets(s) \o B!Packets(Odd(s) \o t)
<1>1. PICK p, odd, k : p = Whole(s) /\ odd = Odd(s) /\ k = Len(B!Packets(s))
  OBVIOUS
<1>2. p \in Seq(A) /\ odd \in Seq(A) /\ Len(p) = 2 * k /\ Len(odd) <= 1 /\ k \in Nat
  BY <1>1, OddIs
<1>3. B!Packets((p \o odd) \o t) = B!Packets(p \o odd) \o B!Packets(odd \o t)
  BY <1>2, PacketsJoined
<1>4. s = p \o odd
  BY <1>1, OddIs
<1>5. QED
  BY <1>1, <1>3, <1>4

LEMMA OneTakenOut ==
  ASSUME NEW A, NEW q \in Seq(A), NEW i \in 1..Len(q)
  PROVE  /\ SubSeq(q, 1, i - 1) \in Seq(A) /\ SubSeq(q, i + 1, Len(q)) \in Seq(A)
         /\ q = (SubSeq(q, 1, i - 1) \o <<q[i]>>) \o SubSeq(q, i + 1, Len(q))
<1>1. Len(q) \in Nat /\ i \in Nat /\ 1 <= i /\ i <= Len(q) /\ q[i] \in A
  OBVIOUS
<1>2. PICK a, b, x : a = SubSeq(q, 1, i - 1) /\ b = SubSeq(q, i + 1, Len(q)) /\ x = q[i]
  OBVIOUS
<1>3. PICK m : m = i - 1
  OBVIOUS
<1>4. m \in Nat /\ m <= Len(q) /\ i <= Len(q) /\ m + 1 = i
  BY <1>1, <1>3
<1>5. a \in Seq(A) /\ b \in Seq(A) /\ x \in A
  <2>1. a \in Seq(A)
    BY <1>2, <1>3, <1>4, Cut
  <2>2. b \in Seq(A)
    BY <1>1, <1>2, Cut
  <2>3. QED
    BY <1>1, <1>2, <2>1, <2>2
<1>6. SubSeq(q, 1, i) = a \o <<x>>
  <2>1. 1 \in 1..Len(q) /\ i \in 1..Len(q)
    BY <1>1
  <2>2. SubSeq(q, 1, i) = SubSeq(q, 1, i - 1) \o <<q[i]>>
    BY <2>1, SubSeqRecursiveSecond
  <2>3. QED
    BY <1>2, <2>2
<1>7. q = SubSeq(q, 1, i) \o b
  BY <1>1, <1>2, Cut
<1>8. QED
  BY <1>2, <1>5, <1>6, <1>7

LEMMA LeastByteIs ==
  ASSUME NEW A \in SUBSET Nat, A # {}
  PROVE  B!Min(A) \in A
<1>1. PICK x \in A : \A y \in A : x <= y
  BY LeastIs
<1>2. QED
  BY <1>1 DEF B!Min

-----------------------------------------------------------------------------
(***************************************************************************)
(* The byte protocol.                                                      *)
(***************************************************************************)
LineBytes == [value : Commands \cup {"0x01", "0x10", "0x20", "0xCD", "U", ""}, from : Nat]
LinePackets == LineBytes \X LineBytes

\* What the receiver does with the packets it has got.
LEMMA CompileIs ==
  ASSUME NEW s \in Seq(LineBytes), B!Compile(s), waitCom \in BOOLEAN, waitSync \in BOOLEAN,
         inbox \in Seq(LinePackets)
  PROVE  /\ waitCom' \in BOOLEAN /\ waitSync' \in BOOLEAN
         /\ (waitCom' => waitCom) /\ (waitSync' => waitSync)
         /\ inbox' \in Seq(LinePackets)
         /\ \/ incoming' = incoming /\ waitCom' = waitCom
            \/ waitCom /\ \E i \in 1..Len(s) \div 2 :
                 B!TracePacket(B!Packets(s)[i]) /\ incoming' = B!Packets(s)[i]
         /\ inBytes' \in {<<>>, Odd(s)}
         /\ ~waitSync =>
              /\ inBytes' = Odd(s)
              /\ \/ inbox' = inbox \o B!Packets(s)
                 \/ waitCom /\ \E a, b \in Seq(LinePackets), x \in LinePackets :
                      /\ B!TracePacket(x)
                      /\ B!Packets(s) = (a \o <<x>>) \o b
                      /\ inbox' = inbox \o (a \o b)
<1>1. PICK packets : packets = B!Packets(s)
  OBVIOUS
<1>2. packets \in Seq(LinePackets) /\ Len(packets) = Len(s) \div 2 /\ Len(packets) \in Nat
      /\ DOMAIN packets = 1..Len(packets)
  <2>1. packets \in Seq(LinePackets) /\ Len(packets) = Len(s) \div 2
    BY <1>1, PacketsAre DEF LinePackets
  <2>2. QED
    BY <2>1
<1>3. PICK marks :
        marks = {i \in DOMAIN B!Packets(s) : waitSync /\ B!IsSync(B!Packets(s)[i])}
  OBVIOUS
<1>4. PICK n : n = IF marks = {} THEN Len(B!Packets(s)) ELSE B!Min(marks) - 1
  OBVIOUS
<1>5. PICK replies :
        replies = {i \in 1..n : waitCom /\ B!TracePacket(B!Packets(s)[i])}
  OBVIOUS
<1>6. PICK read : read = SubSeq(packets, 1, n)
  OBVIOUS
<1>7. /\ waitSync' = (waitSync /\ marks = {})
      /\ waitCom' = (waitCom /\ replies = {})
      /\ incoming' = IF replies = {} THEN incoming ELSE packets[B!Min(replies)]
      /\ inbox' = inbox \o IF replies = {} THEN read ELSE B!RemoveAt(read, B!Min(replies))
      /\ inBytes' = IF marks = {} THEN SubSeq(s, 2 * n + 1, Len(s)) ELSE <<>>
  BY <1>1, <1>3, <1>4, <1>5, <1>6 DEF B!Compile, B!PacketSize
<1>8. n \in Nat /\ n <= Len(packets)
  <2>1. CASE marks = {}
    BY <1>1, <1>2, <1>4, <2>1
  <2>2. CASE marks # {}
    <3>1. marks \in SUBSET Nat /\ marks \subseteq 1..Len(packets)
      BY <1>1, <1>2, <1>3
    <3>2. B!Min(marks) \in 1..Len(packets)
      BY <2>2, <3>1, LeastByteIs
    <3>3. QED
      BY <1>2, <1>4, <2>2, <3>2
  <2>3. QED
    BY <2>1, <2>2
<1>9. read \in Seq(LinePackets) /\ Len(read) = n /\ \A i \in 1..n : read[i] = packets[i]
  <2>1. \A i \in 1..n : packets[i] \in LinePackets
    BY <1>2, <1>8
  <2>2. /\ SubSeq(packets, 1, n) \in Seq(LinePackets)
        /\ Len(SubSeq(packets, 1, n)) = IF 1 <= n THEN n - 1 + 1 ELSE 0
        /\ \A i \in 1..n - 1 + 1 : SubSeq(packets, 1, n)[i] = packets[1 + i - 1]
    BY <1>8, <2>1, SubSeqProperties
  <2>3. QED
    BY <1>6, <1>8, <2>2
<1>10. CASE replies = {}
  <2>1. inbox' = inbox \o read /\ incoming' = incoming /\ waitCom' = waitCom
    BY <1>7, <1>10
  <2>2. inbox' \in Seq(LinePackets)
    BY <1>9, <2>1, ConcatProperties
  <2>3. marks = {} => read = packets
    BY <1>1, <1>2, <1>4, <1>6, SubSeqFull
  <2>4. ~waitSync => marks = {}
    BY <1>3
  <2>5. inBytes' \in {<<>>, Odd(s)}
        /\ (marks = {} => inBytes' = Odd(s))
    BY <1>1, <1>4, <1>7 DEF Odd
  <2>6. QED
    BY <1>1, <1>7, <2>1, <2>2, <2>3, <2>4, <2>5
<1>11. CASE replies # {}
  <2>1. PICK i : i = B!Min(replies)
    OBVIOUS
  <2>2. i \in 1..n /\ waitCom /\ B!TracePacket(packets[i])
    <3>1. replies \in SUBSET Nat
      BY <1>5, <1>8
    <3>2. i \in replies
      BY <1>11, <2>1, <3>1, LeastByteIs
    <3>3. QED
      BY <1>1, <1>5, <3>2
  <2>3. incoming' = packets[i] /\ inbox' = inbox \o B!RemoveAt(read, i) /\ ~waitCom'
    BY <1>7, <1>11, <2>1
  <2>4. PICK a, b \in Seq(LinePackets) :
          read = (a \o <<read[i]>>) \o b /\ B!RemoveAt(read, i) = a \o b
    <3>1. i \in 1..Len(read) /\ read \in Seq(LinePackets)
      BY <1>9, <2>2
    <3>2. PICK a, b : a = SubSeq(read, 1, i - 1) /\ b = SubSeq(read, i + 1, Len(read))
      OBVIOUS
    <3>3. a \in Seq(LinePackets) /\ b \in Seq(LinePackets) /\ read = (a \o <<read[i]>>) \o b
      BY <3>1, <3>2, OneTakenOut
    <3>4. B!RemoveAt(read, i) = a \o b
      BY <3>2 DEF B!RemoveAt
    <3>5. QED
      BY <3>3, <3>4
  <2>5. inbox' \in Seq(LinePackets) /\ inbox' = inbox \o (a \o b)
    <3>1. a \o b \in Seq(LinePackets)
      BY <2>4, ConcatProperties
    <3>2. QED
      BY <2>3, <2>4, <3>1, ConcatProperties
  <2>6. marks = {} => read = packets
    BY <1>1, <1>2, <1>4, <1>6, SubSeqFull
  <2>7. ~waitSync => marks = {}
    BY <1>3
  <2>8. inBytes' \in {<<>>, Odd(s)}
        /\ (marks = {} => inBytes' = Odd(s))
    BY <1>1, <1>4, <1>7 DEF Odd
  <2>9. i \in 1..Len(s) \div 2 /\ read[i] = packets[i] /\ packets[i] \in LinePackets
    BY <1>2, <1>8, <1>9, <2>2
  <2>10. waitCom' \in BOOLEAN /\ waitSync' \in BOOLEAN /\ (waitSync' => waitSync)
    BY <1>7
  <2>11. marks = {} => packets = (a \o <<packets[i]>>) \o b
    BY <2>4, <2>6, <2>9
  <2>12. QED
    BY <1>1, <2>2, <2>3, <2>4, <2>5, <2>7, <2>8, <2>9, <2>10, <2>11
<1>12. QED
  BY <1>10, <1>11

ByteTypes ==
  /\ waitCom \in BOOLEAN /\ waitSync \in BOOLEAN
  /\ waitCom => outgoing[1].value = "0x01" /\ outgoing[2].value \in Commands
  /\ inBytes \in Seq(LineBytes) /\ Len(inBytes) <= 1 /\ fromCtl \in Seq(LineBytes)
  /\ inbox \in Seq(LinePackets) /\ popped \in Seq(LinePackets) /\ incoming \in LinePackets
  /\ caller \in [Callers -> {"out", "asking", "syncing"}]
  /\ asked \in [Callers -> Nat] /\ answer \in [Callers -> LinePackets]
  /\ requests \in Seq(Commands) /\ Len(requests) <= MaxRequests
  /\ toCtl \in Seq(Nat) /\ \A r \in Elements(toCtl) : r <= Len(requests)
  /\ events \in Nat /\ lost \in Nat /\ syncs \in Nat

\* What the receiver reads, and what it leaves on the line.
LEMMA ByteReads ==
  ASSUME ByteTypes, B!HandleRead
  PROVE  /\ UNCHANGED <<outgoing, B!callVars, toCtl, lost, events, popped>>
         /\ \E some, later \in Seq(LineBytes) :
              /\ fromCtl = some \o later /\ fromCtl' = later
              /\ inBytes \o some \in Seq(LineBytes)
              /\ B!Compile(inBytes \o some)
<1>1. PICK n \in 1..Len(fromCtl) :
        /\ B!Compile(inBytes \o SubSeq(fromCtl, 1, n))
        /\ fromCtl' = SubSeq(fromCtl, n + 1, Len(fromCtl))
  BY DEF B!HandleRead
<1>2. fromCtl \in Seq(LineBytes) /\ inBytes \in Seq(LineBytes) /\ n \in Nat /\ n <= Len(fromCtl)
  BY DEF ByteTypes
<1>3. PICK some, later : some = SubSeq(fromCtl, 1, n) /\ later = SubSeq(fromCtl, n + 1, Len(fromCtl))
  OBVIOUS
<1>4. some \in Seq(LineBytes) /\ later \in Seq(LineBytes) /\ fromCtl = some \o later
  BY <1>2, <1>3, Cut
<1>5. inBytes \o some \in Seq(LineBytes)
  BY <1>2, <1>4, ConcatProperties
<1>6. UNCHANGED <<outgoing, B!callVars, toCtl, lost, events, popped>>
  BY DEF B!HandleRead
<1>7. QED
  BY <1>1, <1>3, <1>4, <1>5, <1>6

LEMMA ReadTypes ==
  ASSUME ByteTypes, B!HandleRead
  PROVE  ByteTypes'
<1>1. PICK some, later \in Seq(LineBytes) :
              /\ fromCtl = some \o later /\ fromCtl' = later
              /\ inBytes \o some \in Seq(LineBytes)
              /\ B!Compile(inBytes \o some)
  BY ByteReads
<1>2. PICK s : s = inBytes \o some
  OBVIOUS
<1>3. s \in Seq(LineBytes) /\ B!Compile(s)
  BY <1>1, <1>2
<1>4. waitCom \in BOOLEAN /\ waitSync \in BOOLEAN /\ inbox \in Seq(LinePackets)
  BY DEF ByteTypes
<1>5. /\ waitCom' \in BOOLEAN /\ waitSync' \in BOOLEAN
      /\ (waitCom' => waitCom) /\ (waitSync' => waitSync)
      /\ inbox' \in Seq(LinePackets)
      /\ \/ incoming' = incoming /\ waitCom' = waitCom
         \/ waitCom /\ \E i \in 1..Len(s) \div 2 :
              B!TracePacket(B!Packets(s)[i]) /\ incoming' = B!Packets(s)[i]
      /\ inBytes' \in {<<>>, Odd(s)}
  BY <1>3, <1>4, CompileIs
<1>6. inBytes' \in Seq(LineBytes) /\ Len(inBytes') <= 1
  <2>1. Odd(s) \in Seq(LineBytes) /\ Len(Odd(s)) <= 1
    BY <1>3, OddIs
  <2>2. <<>> \in Seq(LineBytes) /\ Len(<<>>) <= 1
    BY EmptySeq
  <2>3. QED
    BY <1>5, <2>1, <2>2
<1>7. incoming' \in LinePackets
  <2>1. B!Packets(s) \in Seq(LinePackets) /\ Len(B!Packets(s)) = Len(s) \div 2
    BY <1>3, PacketsAre DEF LinePackets
  <2>2. \A i \in 1..Len(s) \div 2 : B!Packets(s)[i] \in LinePackets
    BY <2>1
  <2>3. incoming \in LinePackets
    BY DEF ByteTypes
  <2>4. QED
    BY <1>5, <2>2, <2>3
<1>8. UNCHANGED <<outgoing, toCtl, lost, events, popped, caller, asked, answer, requests, syncs>>
  BY ByteReads DEF B!callVars
<1>9. QED
  BY <1>1, <1>5, <1>6, <1>7, <1>8 DEF ByteTypes

\* What is written on the line, by number and by value.
StreamRight(s, most) ==
  /\ \A b \in Elements(s) : (b.from = 0 => b.value = "U") /\ b.from <= most
  /\ \A b, c : Before(s, b, c) /\ b.from = c.from /\ b.from > MaxRequests => c.value = "0x20"

LEMMA StreamPart ==
  ASSUME NEW s, NEW u, NEW most, StreamRight(s, most),
         Elements(u) \subseteq Elements(s), \A b, c : Before(u, b, c) => Before(s, b, c)
  PROVE  StreamRight(u, most)
BY DEF StreamRight

LEMMA StreamGrows ==
  ASSUME NEW s \in Seq(LineBytes), NEW x \in LineBytes, NEW y \in LineBytes,
         NEW most \in Nat, NEW more \in Nat, StreamRight(s, most),
         x.from = y.from, most <= more, x.from <= more,
         x.from = 0 => x.value = "U" /\ y.value = "U",
         x.from > MaxRequests => x.from > most /\ y.value = "0x20"
  PROVE  s \o <<x, y>> \in Seq(LineBytes) /\ StreamRight(s \o <<x, y>>, more)
<1>1. PICK w, z : w = <<x, y>> /\ z = s \o w
  OBVIOUS
<1>2. w \in Seq(LineBytes) /\ Elements(w) = {x, y} /\ \A b, c : Before(w, b, c) <=> b = x /\ c = y
  BY <1>1, PairIs
<1>3. /\ z \in Seq(LineBytes) /\ Elements(z) = Elements(s) \cup Elements(w)
      /\ \A b, c : Before(z, b, c) <=>
           Before(s, b, c) \/ Before(w, b, c) \/ (b \in Elements(s) /\ c \in Elements(w))
  BY <1>1, <1>2, Joined
<1>4. \A b \in Elements(s) : b \in LineBytes /\ b.from \in Nat /\ b.from <= most
      /\ (b.from = 0 => b.value = "U")
  <2>1. Elements(s) \subseteq LineBytes
    BY ElementsIn
  <2>2. \A b \in LineBytes : b.from \in Nat
    BY DEF LineBytes
  <2>3. QED
    BY <2>1, <2>2 DEF StreamRight
<1>5. ASSUME NEW b \in Elements(z) PROVE (b.from = 0 => b.value = "U") /\ b.from <= more
  BY <1>2, <1>3, <1>4, <1>5
<1>6. ASSUME NEW b, NEW c, Before(z, b, c), b.from = c.from, b.from > MaxRequests
      PROVE  c.value = "0x20"
  <2>1. CASE Before(s, b, c)
    BY <1>6, <2>1 DEF StreamRight
  <2>2. CASE Before(w, b, c)
    BY <1>2, <1>6, <2>2
  <2>3. CASE b \in Elements(s) /\ c \in Elements(w)
    <3>1. c.from = x.from /\ x.from \in Nat
      BY <1>2, <2>3 DEF LineBytes
    <3>2. b.from \in Nat /\ b.from <= most
      BY <1>4, <2>3
    <3>3. QED
      BY <1>6, <3>1, <3>2
  <2>4. QED
    BY <1>3, <1>6, <2>1, <2>2, <2>3
<1>7. StreamRight(z, more)
  BY <1>5, <1>6 DEF StreamRight
<1>8. QED
  BY <1>1, <1>3, <1>7

\* What the controller answers.
LEMMA ControllerSays ==
  ASSUME ByteTypes, B!Controller
  PROVE  /\ UNCHANGED <<B!hostVars, B!callVars, lost, events, popped>>
         /\ toCtl' \in Seq(Nat) /\ Elements(toCtl) = {Head(toCtl)} \cup Elements(toCtl')
         /\ Head(toCtl) \in 0..Len(requests)
         /\ \E x, y \in LineBytes :
              \/ Head(toCtl) = 0 /\ fromCtl' = fromCtl
              \/ /\ fromCtl' = fromCtl \o <<x, y>>
                 /\ x.from = Head(toCtl) /\ y.from = Head(toCtl)
                 /\ Head(toCtl) = 0 => x.value = "U" /\ y.value = "U"
<1>1. toCtl # <<>> /\ toCtl \in Seq(Nat) /\ toCtl' = Tail(toCtl) /\ requests \in Seq(Commands)
  BY DEF B!Controller, ByteTypes
<1>2. PICK r : r = Head(toCtl)
  OBVIOUS
<1>3. r \in Nat /\ toCtl' \in Seq(Nat) /\ toCtl = <<r>> \o toCtl'
  BY <1>1, <1>2, QueueIs
<1>4. Elements(toCtl) = {r} \cup Elements(toCtl')
  <2>1. <<r>> \in Seq(Nat) /\ Elements(<<r>>) = {r}
    BY <1>3, SingleIs
  <2>2. PICK t : t = toCtl'
    OBVIOUS
  <2>3. t \in Seq(Nat)
    BY <1>3, <2>2
  <2>4. Elements(<<r>> \o t) = Elements(<<r>>) \cup Elements(t)
    BY <2>1, <2>3, Joined
  <2>5. QED
    BY <1>3, <2>1, <2>2, <2>4
<1>5. r \in 0..Len(requests)
  <2>1. r \in Elements(toCtl)
    BY <1>4
  <2>2. r <= Len(requests) /\ Len(requests) \in Nat
    BY <1>1, <2>1 DEF ByteTypes
  <2>3. QED
    BY <1>3, <2>2
<1>6. \E x, y \in LineBytes :
         \/ r = 0 /\ fromCtl' = fromCtl
         \/ /\ fromCtl' = fromCtl \o <<x, y>> /\ x.from = r /\ y.from = r
            /\ r = 0 => x.value = "U" /\ y.value = "U"
  <2>1. CASE r = 0
    <3>1. PICK x : x = B!Byte("U", 0)
      OBVIOUS
    <3>2. x \in LineBytes /\ x.from = 0 /\ x.value = "U"
      BY <3>1 DEF B!Byte, LineBytes
    <3>3. B!Us(B!PacketSize) = <<x, x>>
      <4>1. B!Us(B!PacketSize) = [i \in 1..2 |-> x]
        BY <3>1 DEF B!Us, B!PacketSize, B!Sync
      <4>2. QED
        BY <4>1
    <3>4. fromCtl' \in {fromCtl, fromCtl \o B!Us(B!PacketSize)}
      BY <1>2, <2>1 DEF B!Controller, B!Sync
    <3>5. QED
      BY <2>1, <3>2, <3>3, <3>4
  <2>2. CASE r # 0
    <3>1. PICK v \in {requests[r], "0xCD"} : fromCtl' = fromCtl \o <<B!Byte("0x10", r), B!Byte(v, r)>>
      BY <1>2, <2>2 DEF B!Controller, B!Sync
    <3>2. r \in 1..Len(requests)
      BY <1>1, <1>5, <2>2
    <3>3. requests[r] \in Commands
      BY <1>1, <3>2
    <3>4. /\ B!Byte("0x10", r) \in LineBytes /\ B!Byte("0x10", r).from = r
          /\ B!Byte(v, r) \in LineBytes /\ B!Byte(v, r).from = r
      BY <1>3, <3>1, <3>3 DEF B!Byte, LineBytes
    <3>5. QED
      BY <2>2, <3>1, <3>4
  <2>3. QED
    BY <2>1, <2>2
<1>7. UNCHANGED <<B!hostVars, B!callVars, lost, events, popped>>
  BY DEF B!Controller
<1>8. QED
  BY <1>2, <1>3, <1>4, <1>5, <1>6, <1>7

\* What an event puts on the line.
LEMMA EventSays ==
  ASSUME ByteTypes, B!Event
  PROVE  /\ UNCHANGED <<B!hostVars, B!callVars, toCtl, lost, popped>>
         /\ events' = events + 1
         /\ \E x, y \in LineBytes :
              /\ fromCtl' = fromCtl \o <<x, y>> /\ <<x, y>> = B!EventPacket(events + 1)
              /\ x.from = MaxRequests + (events + 1) /\ y.from = x.from
              /\ x.value = "0x10" /\ y.value = "0x20"
<1>1. PICK n : n = MaxRequests + (events + 1)
  OBVIOUS
<1>2. n \in Nat
  BY <1>1, LinesAssumption, SMTT(40) DEF ByteTypes
<1>3. PICK x, y : x = B!Byte("0x10", n) /\ y = B!Byte("0x20", n)
  OBVIOUS
<1>4. x \in LineBytes /\ y \in LineBytes /\ x.from = n /\ y.from = n /\ x.value = "0x10" /\ y.value = "0x20"
  BY <1>2, <1>3 DEF B!Byte, LineBytes
<1>5. B!EventPacket(events + 1) = <<x, y>>
  BY <1>1, <1>3 DEF B!EventPacket
<1>6. UNCHANGED <<B!hostVars, B!callVars, toCtl, lost, popped>> /\ events' = events + 1
      /\ fromCtl' = fromCtl \o B!EventPacket(events + 1)
  BY DEF B!Event
<1>7. QED
  BY <1>1, <1>4, <1>5, <1>6

LEMMA ByteIsLost ==
  ASSUME ByteTypes, B!LoseByte
  PROVE  /\ UNCHANGED <<B!hostVars, B!callVars, toCtl, events, popped>> /\ lost' = lost + 1
         /\ \E x \in LineBytes, later \in Seq(LineBytes) :
              fromCtl = <<x>> \o later /\ fromCtl' = later
<1>1. fromCtl # <<>> /\ fromCtl \in Seq(LineBytes) /\ fromCtl' = Tail(fromCtl)
  BY DEF B!LoseByte, ByteTypes
<1>2. PICK x, later : x = Head(fromCtl) /\ later = Tail(fromCtl)
  OBVIOUS
<1>3. x \in LineBytes /\ later \in Seq(LineBytes) /\ fromCtl = <<x>> \o later
  BY <1>1, <1>2, QueueIs
<1>4. QED
  BY <1>1, <1>2, <1>3 DEF B!LoseByte

\* The steps of a caller.
Calls(c) ==
  \/ B!Send(c) \/ B!ComSection(c) \/ B!Answered(c) \/ B!TimeOut(c)
  \/ B!Synchronize(c) \/ B!TryAgain(c) \/ B!SynchronizeReturns(c)

LEMMA QueueGrows ==
  ASSUME ByteTypes, NEW r \in Nat, toCtl' = Append(toCtl, r)
  PROVE  toCtl' \in Seq(Nat) /\ Elements(toCtl') = Elements(toCtl) \cup {r}
<1>1. PICK q, w : q = toCtl /\ w = toCtl'
  OBVIOUS
<1>2. q \in Seq(Nat)
  BY <1>1 DEF ByteTypes
<1>3. w = q \o <<r>>
  BY <1>1, <1>2, AppendIsConcat
<1>4. <<r>> \in Seq(Nat) /\ Elements(<<r>>) = {r}
  BY SingleIs
<1>5. w \in Seq(Nat) /\ Elements(w) = Elements(q) \cup Elements(<<r>>)
  BY <1>2, <1>3, <1>4, Joined
<1>6. QED
  BY <1>1, <1>4, <1>5

\* What a request changes.
LEMMA AskSays ==
  ASSUME ByteTypes, NEW cmd \in Commands, B!Ask(cmd)
  PROVE  /\ requests' \in Seq(Commands) /\ Len(requests') = Len(requests) + 1
         /\ Len(requests) + 1 \in 1..MaxRequests
         /\ toCtl' \in Seq(Nat) /\ Elements(toCtl') = Elements(toCtl) \cup {Len(requests) + 1}
         /\ waitCom' = TRUE /\ outgoing'[1].value = "0x01" /\ outgoing'[2].value \in Commands
         /\ UNCHANGED <<waitSync, incoming, inbox, inBytes, tries, syncs, fromCtl, lost, events,
                        popped>>
<1>1. PICK r : r = Len(requests) + 1
  OBVIOUS
<1>2. requests \in Seq(Commands) /\ Len(requests) \in Nat /\ Len(requests) < MaxRequests /\ r \in Nat
  BY <1>1 DEF ByteTypes, B!Ask
<1>3. r \in 1..MaxRequests
  BY <1>1, <1>2, LinesAssumption
<1>4. requests' = Append(requests, cmd)
  BY DEF B!Ask
<1>5. requests' \in Seq(Commands) /\ Len(requests') = Len(requests) + 1
  BY <1>2, <1>4, AppendProperties
<1>6. toCtl' = Append(toCtl, r) /\ outgoing' = <<B!Byte("0x01", r), B!Byte(cmd, r)>>
  BY <1>1 DEF B!Ask
<1>7. toCtl' \in Seq(Nat) /\ Elements(toCtl') = Elements(toCtl) \cup {r}
  BY <1>2, <1>6, QueueGrows
<1>8. outgoing'[1].value = "0x01" /\ outgoing'[2].value \in Commands
  BY <1>6 DEF B!Byte
<1>9. QED
  BY <1>1, <1>3, <1>5, <1>7, <1>8 DEF B!Ask

LEMMA CallTypes ==
  ASSUME ByteTypes, NEW c \in Callers, Calls(c)
  PROVE  ByteTypes'
<1>1. ASSUME NEW cmd \in Commands, B!Ask(cmd),
             caller' \in [Callers -> {"out", "asking", "syncing"}],
             asked' \in [Callers -> Nat], answer' \in [Callers -> LinePackets]
      PROVE  ByteTypes'
  <2>1. \A r \in Elements(toCtl') : r <= Len(requests')
    <3>1. Len(requests) \in Nat /\ \A r \in Elements(toCtl) : r \in Nat /\ r <= Len(requests)
      BY ElementsIn DEF ByteTypes
    <3>2. /\ Len(requests') = Len(requests) + 1
          /\ Elements(toCtl') = Elements(toCtl) \cup {Len(requests) + 1}
      BY <1>1, AskSays
    <3>3. ASSUME NEW r \in Elements(toCtl') PROVE r <= Len(requests')
      <4>1. r = Len(requests) + 1 \/ (r \in Nat /\ r <= Len(requests))
        BY <3>1, <3>2, <3>3
      <4>2. QED
        BY <3>1, <3>2, <4>1
    <3>4. QED
      BY <3>3
  <2>2. Len(requests') <= MaxRequests
    <3>1. Len(requests') = Len(requests) + 1 /\ Len(requests) + 1 \in 1..MaxRequests
      BY <1>1, AskSays
    <3>2. QED
      BY <3>1, LinesAssumption
  <2>3. QED
    BY <1>1, <2>1, <2>2, AskSays DEF ByteTypes
<1>2. B!Nothing \in LinePackets
  BY DEF B!Nothing, B!Byte, LinePackets, LineBytes
<1>3. CASE B!Send(c)
  <2>1. PICK cmd \in Commands : B!Ask(cmd)
    BY <1>3 DEF B!Send
  <2>2. UNCHANGED <<caller, asked, answer>>
    BY <1>3 DEF B!Send
  <2>3. QED
    BY <1>1, <2>1, <2>2 DEF ByteTypes
<1>4. CASE B!ComSection(c)
  <2>1. PICK cmd \in Commands : B!Ask(cmd)
    BY <1>4 DEF B!ComSection
  <2>2. /\ caller' = [caller EXCEPT ![c] = "asking"]
        /\ asked' = [asked EXCEPT ![c] = Len(requests) + 1]
        /\ answer' = [answer EXCEPT ![c] = B!Nothing]
    BY <1>4 DEF B!ComSection
  <2>3. Len(requests) + 1 \in Nat
    BY DEF ByteTypes
  <2>4. QED
    BY <1>1, <1>2, <2>1, <2>2, <2>3 DEF ByteTypes
<1>5. CASE B!Answered(c)
  <2>1. /\ caller' = [caller EXCEPT ![c] = "out"]
        /\ \/ answer' = [answer EXCEPT ![c] = incoming]
           \/ answer' = [answer EXCEPT ![c] = answer[c]]
        /\ UNCHANGED <<B!hostVars, asked, requests, syncs, B!lineVars, popped>>
    BY <1>5 DEF B!Answered
  <2>2. QED
    BY <2>1 DEF ByteTypes, B!hostVars, B!lineVars
<1>6. CASE B!TimeOut(c) \/ B!SynchronizeReturns(c)
  <2>1. /\ caller' = [caller EXCEPT ![c] = "out"]
        /\ UNCHANGED <<B!hostVars, asked, answer, requests, syncs, B!lineVars, popped>>
    BY <1>6 DEF B!TimeOut, B!SynchronizeReturns
  <2>2. QED
    BY <2>1 DEF ByteTypes, B!hostVars, B!lineVars
<1>7. CASE B!Synchronize(c)
  <2>1. /\ caller' = [caller EXCEPT ![c] = "syncing"] /\ syncs' = syncs + 1
        /\ waitCom' = FALSE /\ waitSync' = TRUE
        /\ toCtl' = Append(toCtl, 0)
        /\ UNCHANGED <<outgoing, incoming, inbox, inBytes, asked, answer, requests, fromCtl, lost,
                       events, popped>>
    BY <1>7 DEF B!Synchronize, B!Sync
  <2>2. toCtl' \in Seq(Nat) /\ Elements(toCtl') = Elements(toCtl) \cup {0}
    BY <2>1, QueueGrows
  <2>3. \A r \in Elements(toCtl') : r <= Len(requests')
    <3>1. Len(requests) \in Nat /\ requests' = requests
      BY <2>1 DEF ByteTypes
    <3>2. QED
      BY <2>2, <3>1 DEF ByteTypes
  <2>4. caller' \in [Callers -> {"out", "asking", "syncing"}] /\ syncs' \in Nat
    BY <2>1 DEF ByteTypes
  <2>5. QED
    BY <2>1, <2>2, <2>3, <2>4 DEF ByteTypes
<1>8. CASE B!TryAgain(c)
  <2>1. /\ toCtl' = Append(toCtl, 0)
        /\ UNCHANGED <<B!hostVars, caller, asked, answer, requests, syncs, fromCtl, lost, events, popped>>
    BY <1>8 DEF B!TryAgain, B!Sync
  <2>2. toCtl' \in Seq(Nat) /\ Elements(toCtl') = Elements(toCtl) \cup {0}
    BY <2>1, QueueGrows
  <2>3. Len(requests) \in Nat
    BY DEF ByteTypes
  <2>4. QED
    BY <2>1, <2>2, <2>3 DEF ByteTypes, B!hostVars
<1>9. QED
  BY <1>3, <1>4, <1>5, <1>6, <1>7, <1>8 DEF Calls

LEMMA PopSays ==
  ASSUME ByteTypes, B!Pop
  PROVE  /\ UNCHANGED <<waitCom, waitSync, outgoing, incoming, inBytes, B!callVars, B!lineVars>>
         /\ \E x \in LinePackets, more \in Seq(LinePackets) :
              inbox = <<x>> \o more /\ inbox' = more /\ popped' = popped \o <<x>>
<1>1. inbox # <<>> /\ inbox \in Seq(LinePackets) /\ popped \in Seq(LinePackets)
      /\ popped' = Append(popped, Head(inbox)) /\ inbox' = Tail(inbox)
  BY DEF B!Pop, ByteTypes
<1>2. PICK x, more : x = Head(inbox) /\ more = Tail(inbox)
  OBVIOUS
<1>3. x \in LinePackets /\ more \in Seq(LinePackets) /\ inbox = <<x>> \o more
  BY <1>1, <1>2, QueueIs
<1>4. popped' = popped \o <<x>>
  BY <1>1, <1>2, <1>3, AppendIsConcat
<1>5. QED
  BY <1>1, <1>2, <1>3, <1>4 DEF B!Pop

LEMMA ByteTypesNext ==
  ASSUME ByteTypes, B!Next
  PROVE  ByteTypes'
<1>1. CASE B!Controller
  <2>1. PICK x, y \in LineBytes :
          fromCtl' = fromCtl \/ fromCtl' = fromCtl \o <<x, y>>
    BY <1>1, ControllerSays
  <2>2. <<x, y>> \in Seq(LineBytes) /\ fromCtl \in Seq(LineBytes)
    BY PairIs DEF ByteTypes
  <2>3. fromCtl' \in Seq(LineBytes)
    BY <2>1, <2>2, ConcatProperties
  <2>4. toCtl' \in Seq(Nat) /\ UNCHANGED <<B!hostVars, B!callVars, lost, events, popped>>
        /\ Elements(toCtl') \subseteq Elements(toCtl)
    BY <1>1, ControllerSays
  <2>5. QED
    BY <2>3, <2>4 DEF ByteTypes, B!hostVars, B!callVars
<1>2. CASE B!Event
  <2>1. PICK x, y \in LineBytes : fromCtl' = fromCtl \o <<x, y>>
    BY <1>2, EventSays
  <2>2. <<x, y>> \in Seq(LineBytes) /\ fromCtl \in Seq(LineBytes)
    BY PairIs DEF ByteTypes
  <2>3. fromCtl' \in Seq(LineBytes)
    BY <2>1, <2>2, ConcatProperties
  <2>4. QED
    BY <1>2, <2>3, EventSays DEF ByteTypes, B!hostVars, B!callVars
<1>3. CASE B!LoseByte
  <2>1. PICK later \in Seq(LineBytes) : fromCtl' = later
    BY <1>3, ByteIsLost
  <2>2. UNCHANGED <<B!hostVars, B!callVars, toCtl, events, popped>> /\ lost' = lost + 1
    BY <1>3, ByteIsLost
  <2>3. QED
    BY <2>1, <2>2 DEF ByteTypes, B!hostVars, B!callVars
<1>4. CASE B!HandleRead
  BY <1>4, ReadTypes
<1>5. CASE B!Pop
  <2>1. PICK x \in LinePackets, more \in Seq(LinePackets) :
           inbox' = more /\ popped' = popped \o <<x>>
    BY <1>5, PopSays
  <2>2. <<x>> \in Seq(LinePackets) /\ popped \in Seq(LinePackets)
    BY SingleIs DEF ByteTypes
  <2>3. popped' \in Seq(LinePackets) /\ inbox' \in Seq(LinePackets)
    BY <2>1, <2>2, ConcatProperties
  <2>4. QED
    BY <1>5, <2>3, PopSays, SMTT(40) DEF ByteTypes, B!callVars, B!lineVars
<1>6. CASE \E c \in Callers : Calls(c)
  BY <1>6, CallTypes
<1>7. QED
  BY <1>1, <1>2, <1>3, <1>4, <1>5, <1>6 DEF B!Next, Calls

\* The replies on the line are those of who waits for one.
ReplyInv ==
  /\ StreamRight(inBytes \o fromCtl, MaxRequests + events)
  /\ \A c \in Callers : caller[c] = "asking" =>
       /\ Elements(toCtl) \subseteq {0, asked[c]}
       /\ \A b \in Elements(fromCtl) : b.from \in {0, asked[c]} \/ b.from > MaxRequests
       /\ ~waitCom /\ incoming[1].from = incoming[2].from => incoming[1].from = asked[c]
  /\ B!OwnReply

LEMMA RegroupedLine == \A s, t, u \in Seq(LineBytes) : (s \o t) \o u = s \o (t \o u)
BY Regrouped

LEMMA LineJoinedAt ==
  ASSUME NEW x \in Seq(LineBytes), NEW y \in Seq(LineBytes), NEW i \in DOMAIN (x \o y),
         i \notin DOMAIN x
  PROVE  i - Len(x) \in DOMAIN y /\ (x \o y)[i] = y[i - Len(x)]
BY JoinedAt

LEMMA StreamIs ==
  ASSUME ByteTypes
  PROVE  /\ inBytes \in Seq(LineBytes) /\ fromCtl \in Seq(LineBytes)
         /\ inBytes \o fromCtl \in Seq(LineBytes)
         /\ MaxRequests \in Nat /\ events \in Nat /\ MaxRequests + events \in Nat
<1>1. inBytes \in Seq(LineBytes) /\ fromCtl \in Seq(LineBytes)
  BY DEF ByteTypes
<1>2. MaxRequests \in Nat /\ events \in Nat
  BY LinesAssumption DEF ByteTypes
<1>3. QED
  BY <1>1, <1>2, ConcatProperties

\* A packet of two bytes behind everything.
LEMMA LineGrows ==
  ASSUME ByteTypes, ReplyInv, NEW x \in LineBytes, NEW y \in LineBytes,
         NEW more \in Nat, x.from = y.from, MaxRequests + events <= more, x.from <= more,
         x.from = 0 => x.value = "U" /\ y.value = "U",
         x.from > MaxRequests => x.from > MaxRequests + events /\ y.value = "0x20"
  PROVE  StreamRight(inBytes \o (fromCtl \o <<x, y>>), more)
         /\ Elements(fromCtl \o <<x, y>>) = Elements(fromCtl) \cup {x, y}
<1>1. PICK a, b, w, most : a = inBytes /\ b = fromCtl /\ w = <<x, y>> /\ most = MaxRequests + events
  OBVIOUS
<1>2. a \in Seq(LineBytes) /\ b \in Seq(LineBytes) /\ a \o b \in Seq(LineBytes) /\ most \in Nat
  BY <1>1, StreamIs
<1>3. StreamRight(a \o b, most) /\ most <= more /\ (x.from > MaxRequests => x.from > most)
  BY <1>1 DEF ReplyInv
<1>4. StreamRight((a \o b) \o <<x, y>>, more)
  BY <1>2, <1>3, StreamGrows
<1>5. w \in Seq(LineBytes) /\ Elements(w) = {x, y}
  BY <1>1, PairIs
<1>6. (a \o b) \o w = a \o (b \o w)
  BY <1>2, <1>5, ConcatAssociative
<1>7. Elements(b \o w) = Elements(b) \cup Elements(w)
  BY <1>2, <1>5, Joined
<1>8. QED
  BY <1>1, <1>4, <1>5, <1>6, <1>7

LEMMA ControllerKeepsReplies ==
  ASSUME ByteTypes, ReplyInv, B!Controller
  PROVE  ReplyInv'
<1>1. /\ UNCHANGED <<B!hostVars, B!callVars, lost, events, popped>>
      /\ Elements(toCtl) = {Head(toCtl)} \cup Elements(toCtl')
      /\ Head(toCtl) \in 0..Len(requests)
  BY ControllerSays
<1>2. PICK x, y \in LineBytes :
              \/ Head(toCtl) = 0 /\ fromCtl' = fromCtl
              \/ /\ fromCtl' = fromCtl \o <<x, y>>
                 /\ x.from = Head(toCtl) /\ y.from = Head(toCtl)
                 /\ Head(toCtl) = 0 => x.value = "U" /\ y.value = "U"
  BY ControllerSays
<1>3. PICK r, most : r = Head(toCtl) /\ most = MaxRequests + events
  OBVIOUS
<1>4. r \in Nat /\ r <= MaxRequests /\ most \in Nat /\ MaxRequests \in Nat /\ MaxRequests <= most
  <2>1. Len(requests) \in Nat /\ Len(requests) <= MaxRequests
    BY DEF ByteTypes
  <2>2. r \in 0..Len(requests)
    BY <1>1, <1>3
  <2>3. MaxRequests \in Nat /\ most \in Nat /\ MaxRequests <= most
    BY <1>3, StreamIs
  <2>4. QED
    BY <2>1, <2>2, <2>3
<1>5. /\ StreamRight(inBytes \o fromCtl', most)
      /\ \A b \in Elements(fromCtl') : b \in Elements(fromCtl) \/ b.from = r
  <2>1. CASE fromCtl' = fromCtl
    BY <1>3, <2>1 DEF ReplyInv
  <2>2. CASE fromCtl' # fromCtl
    <3>1. fromCtl' = fromCtl \o <<x, y>> /\ x.from = r /\ y.from = r
          /\ (r = 0 => x.value = "U" /\ y.value = "U")
      BY <1>2, <1>3, <2>2
    <3>2. /\ StreamRight(inBytes \o (fromCtl \o <<x, y>>), most)
          /\ Elements(fromCtl \o <<x, y>>) = Elements(fromCtl) \cup {x, y}
      BY <1>3, <1>4, <3>1, LineGrows
    <3>3. QED
      BY <3>1, <3>2
  <2>3. QED
    BY <2>1, <2>2
<1>6. ASSUME NEW c \in Callers, caller'[c] = "asking"
      PROVE  /\ Elements(toCtl') \subseteq {0, asked[c]}
             /\ \A b \in Elements(fromCtl') : b.from \in {0, asked[c]} \/ b.from > MaxRequests
  <2>1. /\ Elements(toCtl) \subseteq {0, asked[c]}
        /\ \A b \in Elements(fromCtl) : b.from \in {0, asked[c]} \/ b.from > MaxRequests
    BY <1>1, <1>6 DEF ReplyInv, B!callVars
  <2>2. r \in {0, asked[c]}
    BY <1>1, <1>3, <2>1
  <2>3. QED
    BY <1>1, <1>5, <2>1, <2>2
<1>7. QED
  BY <1>1, <1>3, <1>5, <1>6 DEF ReplyInv, B!hostVars, B!callVars, B!OwnReply

LEMMA EventKeepsReplies ==
  ASSUME ByteTypes, ReplyInv, B!Event
  PROVE  ReplyInv'
<1>1. UNCHANGED <<B!hostVars, B!callVars, toCtl, lost, popped>> /\ events' = events + 1
  BY EventSays
<1>2. PICK x, y \in LineBytes :
              /\ fromCtl' = fromCtl \o <<x, y>>
              /\ x.from = MaxRequests + (events + 1) /\ y.from = x.from
              /\ x.value = "0x10" /\ y.value = "0x20"
  BY EventSays
<1>3. PICK more : more = MaxRequests + (events + 1)
  OBVIOUS
<1>4. more \in Nat /\ MaxRequests + events <= more /\ more > MaxRequests + events /\ more # 0
      /\ MaxRequests \in Nat /\ more > MaxRequests
  BY <1>3, StreamIs
<1>5. /\ StreamRight(inBytes \o (fromCtl \o <<x, y>>), more)
      /\ Elements(fromCtl \o <<x, y>>) = Elements(fromCtl) \cup {x, y}
  BY <1>2, <1>3, <1>4, LineGrows
<1>6. StreamRight(inBytes \o fromCtl, MaxRequests + events)'
  BY <1>1, <1>2, <1>3, <1>5 DEF B!hostVars
<1>7. \A b \in Elements(fromCtl') : b \in Elements(fromCtl) \/ b.from > MaxRequests
  BY <1>2, <1>3, <1>4, <1>5
<1>8. QED
  BY <1>1, <1>6, <1>7 DEF ReplyInv, B!hostVars, B!callVars, B!OwnReply

LEMMA LossKeepsReplies ==
  ASSUME ByteTypes, ReplyInv, B!LoseByte
  PROVE  ReplyInv'
<1>1. UNCHANGED <<B!hostVars, B!callVars, toCtl, events, popped>>
  BY ByteIsLost
<1>2. PICK x \in LineBytes, later \in Seq(LineBytes) : fromCtl = <<x>> \o later /\ fromCtl' = later
  BY ByteIsLost
<1>3. PICK a, w, most : a = inBytes /\ w = <<x>> /\ most = MaxRequests + events
  OBVIOUS
<1>4. a \in Seq(LineBytes) /\ w \in Seq(LineBytes) /\ StreamRight(a \o (w \o later), most)
  BY <1>2, <1>3, StreamIs, SingleIs DEF ReplyInv
<1>5. /\ w \o later \in Seq(LineBytes) /\ Elements(w \o later) = Elements(w) \cup Elements(later)
      /\ \A b, c : Before(later, b, c) => Before(w \o later, b, c)
  BY <1>4, Joined
<1>6. /\ Elements(a \o later) = Elements(a) \cup Elements(later)
      /\ \A b, c : Before(a \o later, b, c) <=>
           Before(a, b, c) \/ Before(later, b, c) \/ (b \in Elements(a) /\ c \in Elements(later))
  BY <1>4, Joined
<1>7. PICK u : u = w \o later
  OBVIOUS
<1>8. /\ Elements(a \o u) = Elements(a) \cup Elements(u)
      /\ \A b, c : Before(a \o u, b, c) <=>
           Before(a, b, c) \/ Before(u, b, c) \/ (b \in Elements(a) /\ c \in Elements(u))
  <2>1. u \in Seq(LineBytes)
    BY <1>5, <1>7
  <2>2. a \in Seq(LineBytes)
    BY <1>4
  <2>3. QED
    BY <2>1, <2>2, Joined
<1>9. StreamRight(a \o later, most)
  <2>1. StreamRight(a \o u, most)
    BY <1>4, <1>7
  <2>2. Elements(a \o later) \subseteq Elements(a \o u)
    BY <1>5, <1>6, <1>7, <1>8
  <2>3. \A b, c : Before(a \o later, b, c) => Before(a \o u, b, c)
    BY <1>5, <1>6, <1>7, <1>8
  <2>4. QED
    BY <2>1, <2>2, <2>3, StreamPart
<1>10. Elements(fromCtl') \subseteq Elements(fromCtl)
  BY <1>2, <1>3, <1>5
<1>11. StreamRight(inBytes \o fromCtl, MaxRequests + events)'
  BY <1>1, <1>2, <1>3, <1>9 DEF B!hostVars
<1>12. QED
  BY <1>1, <1>10, <1>11 DEF ReplyInv, B!hostVars, B!callVars, B!OwnReply

\* What looks like a reply is neither an event nor the echo of a synchronization.
LEMMA TraceSays ==
  ASSUME ByteTypes, waitCom, NEW x, NEW y, B!TracePacket(<<x, y>>)
  PROVE  x.value # "U" /\ y.value # "0x20"
<1>1. outgoing[1].value = "0x01" /\ outgoing[2].value \in Commands
  BY DEF ByteTypes
<1>2. B!Swapped(x.value) = outgoing[1].value /\ y.value \in {outgoing[2].value, "0xCD"}
  BY DEF B!TracePacket
<1>3. x.value # "U"
  BY <1>1, <1>2 DEF B!Swapped
<1>4. y.value # "0x20"
  BY <1>1, <1>2, LinesAssumption
<1>5. QED
  BY <1>3, <1>4

LEMMA ReadKeepsReplies ==
  ASSUME ByteTypes, ReplyInv, B!HandleRead
  PROVE  ReplyInv'
<1>1. PICK some, later \in Seq(LineBytes) :
              /\ fromCtl = some \o later /\ fromCtl' = later
              /\ inBytes \o some \in Seq(LineBytes)
              /\ B!Compile(inBytes \o some)
  BY ByteReads
<1>2. UNCHANGED <<outgoing, toCtl, lost, events, popped, caller, asked, answer, requests, syncs>>
  BY ByteReads DEF B!callVars
<1>3. PICK a, s, most : a = inBytes /\ s = a \o some /\ most = MaxRequests + events
  OBVIOUS
<1>4. s \in Seq(LineBytes) /\ B!Compile(s) /\ a \in Seq(LineBytes) /\ Len(a) <= 1
  BY <1>1, <1>3 DEF ByteTypes
<1>5. waitCom \in BOOLEAN /\ waitSync \in BOOLEAN /\ inbox \in Seq(LinePackets)
  BY DEF ByteTypes
<1>6. /\ \/ incoming' = incoming /\ waitCom' = waitCom
         \/ waitCom /\ \E i \in 1..Len(s) \div 2 :
              B!TracePacket(B!Packets(s)[i]) /\ incoming' = B!Packets(s)[i]
      /\ inBytes' \in {<<>>, Odd(s)}
  BY <1>4, <1>5, CompileIs
<1>70. PICK p, odd : p = Whole(s) /\ odd = Odd(s)
  OBVIOUS
<1>7. p \in Seq(LineBytes) /\ odd \in Seq(LineBytes) /\ s = p \o odd
  BY <1>4, <1>70, OddIs
<1>8. StreamRight(s \o later, most)
  <2>1. a \in Seq(LineBytes) /\ some \in Seq(LineBytes) /\ later \in Seq(LineBytes)
    BY <1>4
  <2>2. (a \o some) \o later = a \o (some \o later)
    BY <2>1, RegroupedLine
  <2>3. StreamRight(inBytes \o fromCtl, most)
    BY <1>3 DEF ReplyInv
  <2>4. QED
    BY <1>1, <1>3, <2>2, <2>3
<1>9. /\ Elements(s) = Elements(a) \cup Elements(some)
      /\ Elements(some \o later) = Elements(some) \cup Elements(later)
  <2>1. a \in Seq(LineBytes) /\ some \in Seq(LineBytes) /\ later \in Seq(LineBytes)
    BY <1>4
  <2>2. Elements(a \o some) = Elements(a) \cup Elements(some)
    BY <2>1, Joined
  <2>3. Elements(some \o later) = Elements(some) \cup Elements(later)
    BY <2>1, Joined
  <2>4. QED
    BY <1>3, <2>2, <2>3
<1>10. /\ Elements(s) = Elements(p) \cup Elements(odd)
       /\ \A b, c : Before(odd, b, c) => Before(s, b, c)
  <2>1. /\ Elements(p \o odd) = Elements(p) \cup Elements(odd)
        /\ \A b, c : Before(odd, b, c) => Before(p \o odd, b, c)
    BY <1>7, Joined
  <2>2. QED
    BY <1>7, <2>1
<1>11. /\ Elements(s \o later) = Elements(s) \cup Elements(later)
       /\ \A b, c : Before(s \o later, b, c) <=>
            Before(s, b, c) \/ Before(later, b, c) \/ (b \in Elements(s) /\ c \in Elements(later))
  BY <1>4, Joined
<1>12. StreamRight(inBytes' \o later, most)
  <2>1. CASE inBytes' = <<>>
    <3>1. inBytes' \o later = later
      BY <2>1, ConcatEmptySeq
    <3>2. StreamRight(later, most)
      BY <1>8, <1>11, StreamPart
    <3>3. QED
      BY <3>1, <3>2
  <2>2. CASE inBytes' = odd
    <3>1. /\ Elements(odd \o later) = Elements(odd) \cup Elements(later)
          /\ \A b, c : Before(odd \o later, b, c) <=>
               Before(odd, b, c) \/ Before(later, b, c) \/ (b \in Elements(odd) /\ c \in Elements(later))
      BY <1>7, Joined
    <3>2. StreamRight(odd \o later, most)
      <4>1. Elements(odd \o later) \subseteq Elements(s \o later)
        BY <1>10, <1>11, <3>1
      <4>2. \A b, c : Before(odd \o later, b, c) => Before(s \o later, b, c)
        BY <1>10, <1>11, <3>1
      <4>3. QED
        BY <1>8, <4>1, <4>2, StreamPart
    <3>3. QED
      BY <2>2, <3>2
  <2>3. QED
    BY <1>6, <1>70, <2>1, <2>2
<1>13. ASSUME NEW c \in Callers, caller[c] = "asking", waitCom,
              NEW i \in 1..Len(s) \div 2, B!TracePacket(B!Packets(s)[i]),
              B!Packets(s)[i][1].from = B!Packets(s)[i][2].from
       PROVE  B!Packets(s)[i][1].from = asked[c]
  <2>1. PICK x, y : x = s[2 * i - 1] /\ y = s[2 * i]
    OBVIOUS
  <2>2. B!Packets(s)[i] = <<x, y>> /\ 2 * i - 1 \in 1..Len(s) /\ 2 * i \in 1..Len(s)
    BY <1>4, <2>1, PacketsAre
  <2>3. x.from = y.from /\ B!TracePacket(<<x, y>>)
    BY <1>13, <2>2
  <2>4. x.value # "U" /\ y.value # "0x20"
    BY <1>13, <2>3, TraceSays
  <2>5. PICK j, k : j = 2 * i - 1 /\ k = 2 * i
    OBVIOUS
  <2>6. i \in Nat /\ 1 <= i /\ j \in 1..Len(s) /\ k \in 1..Len(s) /\ j < k /\ 2 <= k
    <3>1. Len(s) \in Nat
      BY <1>4
    <3>2. i \in Nat /\ 1 <= i
      BY <3>1, Halves
    <3>3. QED
      BY <2>2, <2>5, <3>1, <3>2
  <2>7. DOMAIN s = 1..Len(s) /\ x = s[j] /\ y = s[k]
    BY <1>4, <2>1, <2>5
  <2>8. Before(s, x, y) /\ x \in Elements(s) /\ y \in Elements(s)
    BY <2>6, <2>7 DEF Before, Elements
  <2>9. y \in Elements(some)
    <3>1. DOMAIN a = 1..Len(a) /\ Len(a) \in Nat /\ k \notin DOMAIN a
      BY <1>4, <2>6
    <3>2. k \in DOMAIN (a \o some)
      BY <1>3, <2>6, <2>7
    <3>3. a \in Seq(LineBytes) /\ some \in Seq(LineBytes)
      BY <1>4
    <3>4. k - Len(a) \in DOMAIN some /\ (a \o some)[k] = some[k - Len(a)]
      BY <3>1, <3>2, <3>3, LineJoinedAt
    <3>5. QED
      BY <1>3, <2>7, <3>4 DEF Elements
  <2>10. (x.from = 0 => x.value = "U") /\ (x.from > MaxRequests => y.value = "0x20")
    BY <1>8, <1>11, <2>3, <2>8 DEF StreamRight
  <2>11. y.from \in {0, asked[c]} \/ y.from > MaxRequests
    <3>1. y \in Elements(fromCtl)
      BY <1>1, <1>9, <2>9
    <3>2. QED
      BY <1>13, <3>1 DEF ReplyInv
  <2>12. x.from = asked[c]
    BY <2>3, <2>4, <2>10, <2>11
  <2>13. QED
    BY <2>2, <2>12
<1>14. ASSUME NEW c \in Callers, caller'[c] = "asking"
       PROVE  /\ Elements(toCtl') \subseteq {0, asked'[c]}
              /\ \A b \in Elements(fromCtl') : b.from \in {0, asked'[c]} \/ b.from > MaxRequests
              /\ ~waitCom' /\ incoming'[1].from = incoming'[2].from => incoming'[1].from = asked'[c]
  <2>1. /\ caller[c] = "asking" /\ Elements(toCtl') = Elements(toCtl) /\ asked' = asked
        /\ Elements(fromCtl') \subseteq Elements(fromCtl)
    BY <1>1, <1>2, <1>9, <1>14
  <2>2. /\ Elements(toCtl) \subseteq {0, asked[c]}
        /\ \A b \in Elements(fromCtl) : b.from \in {0, asked[c]} \/ b.from > MaxRequests
        /\ ~waitCom /\ incoming[1].from = incoming[2].from => incoming[1].from = asked[c]
    BY <2>1 DEF ReplyInv
  <2>3. ASSUME ~waitCom', incoming'[1].from = incoming'[2].from PROVE incoming'[1].from = asked[c]
    <3>1. CASE incoming' = incoming /\ waitCom' = waitCom
      BY <2>2, <2>3, <3>1
    <3>2. CASE waitCom /\ \E i \in 1..Len(s) \div 2 :
                 B!TracePacket(B!Packets(s)[i]) /\ incoming' = B!Packets(s)[i]
      <4>1. PICK i \in 1..Len(s) \div 2 : B!TracePacket(B!Packets(s)[i]) /\ incoming' = B!Packets(s)[i]
        BY <3>2
      <4>2. B!Packets(s)[i][1].from = B!Packets(s)[i][2].from
        BY <2>3, <4>1
      <4>3. QED
        BY <1>13, <2>1, <3>2, <4>1, <4>2
    <3>3. QED
      BY <1>6, <3>1, <3>2
  <2>4. QED
    BY <2>1, <2>2, <2>3
<1>15. StreamRight(inBytes \o fromCtl, MaxRequests + events)'
  BY <1>1, <1>2, <1>3, <1>12
<1>16. QED
  BY <1>2, <1>14, <1>15 DEF ReplyInv, B!OwnReply

\* One caller asks at a time, and only when no reply can come.
LEMMA CallKeepsReplies ==
  ASSUME ByteTypes, ReplyInv, Punctual, \A c, d \in Callers : c = d,
         NEW c \in Callers, Calls(c)
  PROVE  ReplyInv'
<1>1. caller \in [Callers -> {"out", "asking", "syncing"}] /\ asked \in [Callers -> Nat]
      /\ answer \in [Callers -> LinePackets]
  BY DEF ByteTypes
<1>2. UNCHANGED <<inBytes, fromCtl, events>>
  BY DEF Calls, B!Send, B!ComSection, B!Answered, B!TimeOut, B!Synchronize, B!TryAgain,
         B!SynchronizeReturns, B!Ask, B!hostVars, B!lineVars
<1>3. StreamRight(inBytes \o fromCtl, MaxRequests + events)'
  BY <1>2 DEF ReplyInv
<1>4. CASE caller'[c] # "asking" /\ UNCHANGED <<asked, answer>>
  BY <1>3, <1>4 DEF ReplyInv, B!OwnReply
<1>5. CASE B!Send(c)
  BY <1>4, <1>5 DEF B!Send
<1>6. CASE B!TimeOut(c) \/ B!SynchronizeReturns(c) \/ B!Synchronize(c)
  BY <1>1, <1>4, <1>6 DEF B!TimeOut, B!SynchronizeReturns, B!Synchronize
<1>7. CASE B!TryAgain(c)
  BY <1>4, <1>7 DEF B!TryAgain
<1>8. CASE B!Answered(c)
  <2>1. /\ caller[c] = "asking" /\ ~waitCom
        /\ caller' = [caller EXCEPT ![c] = "out"] /\ asked' = asked
        /\ answer' = [answer EXCEPT ![c] = IF incoming[1].from = incoming[2].from THEN incoming ELSE @]
    BY <1>8 DEF B!Answered
  <2>2. incoming[1].from = incoming[2].from => incoming[1].from = asked[c]
    BY <2>1 DEF ReplyInv
  <2>3. B!OwnReply'
    BY <1>1, <2>1, <2>2 DEF ReplyInv, B!OwnReply
  <2>4. caller'[c] # "asking"
    BY <1>1, <2>1
  <2>5. QED
    BY <1>3, <2>3, <2>4 DEF ReplyInv
<1>9. CASE B!ComSection(c)
  <2>1. PICK cmd \in Commands : B!Ask(cmd)
    BY <1>9 DEF B!ComSection
  <2>2. PICK r : r = Len(requests) + 1
    OBVIOUS
  <2>3. /\ asked' = [asked EXCEPT ![c] = r] /\ answer' = [answer EXCEPT ![c] = B!Nothing]
        /\ ~B!Outstanding
    BY <1>9, <2>2 DEF B!ComSection
  <2>4. Elements(toCtl') = Elements(toCtl) \cup {r} /\ waitCom' = TRUE
    BY <2>1, <2>2, AskSays
  <2>5. Elements(toCtl) \subseteq {0}
    BY <2>3 DEF B!Outstanding, B!Sync, Elements
  <2>6. ASSUME NEW b \in Elements(fromCtl) PROVE b.from = 0 \/ b.from > MaxRequests
    <3>1. b.from \notin 1..MaxRequests
      BY <2>3, <2>6 DEF B!Outstanding, Elements
    <3>2. b.from \in Nat /\ MaxRequests \in Nat
      <4>1. b \in LineBytes
        BY <2>6, StreamIs, ElementsIn
      <4>2. QED
        BY <4>1, StreamIs DEF LineBytes
    <3>3. QED
      BY <3>1, <3>2
  <2>7. B!OwnReply'
    BY <1>1, <2>3 DEF B!OwnReply
  <2>8. asked'[c] = r
    BY <1>1, <2>3
  <2>9. \A d \in Callers :
       /\ Elements(toCtl') \subseteq {0, asked'[d]}
       /\ \A b \in Elements(fromCtl') : b.from \in {0, asked'[d]} \/ b.from > MaxRequests
       /\ waitCom'
    BY <1>2, <2>4, <2>5, <2>6, <2>8
  <2>10. QED
    BY <1>3, <2>7, <2>9 DEF ReplyInv
<1>10. QED
  BY <1>5, <1>6, <1>7, <1>8, <1>9 DEF Calls

LEMMA ReplyInvNext ==
  ASSUME ByteTypes, ReplyInv, Punctual, \A c, d \in Callers : c = d, B!Next
  PROVE  ReplyInv'
<1>1. CASE B!Pop
  BY <1>1, PopSays DEF ReplyInv, B!callVars, B!lineVars, B!OwnReply
<1>2. CASE \E c \in Callers : Calls(c)
  BY <1>2, CallKeepsReplies
<1>3. QED
  BY <1>1, <1>2, ControllerKeepsReplies, EventKeepsReplies, LossKeepsReplies, ReadKeepsReplies
     DEF B!Next, Calls

\* The events among the packets, each once and in order.
EventsRight(q, most) ==
  /\ \A k \in 1..most : B!EventPacket(k) \in Elements(q)
  /\ \A x \in Elements(q) : B!OfEvent(x) => \E k \in 1..most : x = B!EventPacket(k)
  /\ \A x, y : Before(q, x, y) /\ B!OfEvent(x) /\ B!OfEvent(y) => x[1].from < y[1].from

AllPackets == (popped \o inbox) \o B!Packets(inBytes \o fromCtl)

EventInv ==
  lost = 0 /\ syncs = 0 =>
    /\ waitSync = FALSE /\ 0 \notin Elements(toCtl)
    /\ \A c \in Callers : caller[c] # "syncing"
    /\ \E k \in Nat : Len(inBytes \o fromCtl) = 2 * k
    /\ EventsRight(AllPackets, events)

LEMMA EventPacketIs ==
  ASSUME NEW k \in Nat, 1 <= k
  PROVE  /\ B!EventPacket(k) \in LinePackets /\ B!OfEvent(B!EventPacket(k))
         /\ B!EventPacket(k)[1].from = MaxRequests + k /\ B!EventPacket(k)[2].value = "0x20"
<1>1. PICK n : n = MaxRequests + k
  OBVIOUS
<1>2. n \in Nat /\ n > MaxRequests
  BY <1>1, LinesAssumption
<1>3. PICK x, y : x = B!Byte("0x10", n) /\ y = B!Byte("0x20", n)
  OBVIOUS
<1>4. B!EventPacket(k) = <<x, y>>
  BY <1>1, <1>3 DEF B!EventPacket
<1>5. x \in LineBytes /\ y \in LineBytes /\ x.from = n /\ y.value = "0x20"
  BY <1>2, <1>3 DEF B!Byte, LineBytes
<1>6. B!OfEvent(<<x, y>>)
  <2>1. 1 \in 1..B!PacketSize /\ <<x, y>>[1].from > MaxRequests
    BY <1>2, <1>5 DEF B!PacketSize
  <2>2. QED
    BY <2>1 DEF B!OfEvent
<1>7. QED
  BY <1>1, <1>4, <1>5, <1>6 DEF LinePackets

\* What is no event can be added and taken away, and the next event added.
LEMMA EventsPart ==
  ASSUME NEW q, NEW u, NEW x, NEW most \in Nat, ~B!OfEvent(x), EventsRight(q, most),
         Elements(q) = Elements(u) \cup {x}, \A b, c : Before(u, b, c) => Before(q, b, c)
  PROVE  EventsRight(u, most)
<1>1. \A k \in 1..most : B!EventPacket(k) # x
  BY EventPacketIs
<1>2. QED
  BY <1>1 DEF EventsRight

LEMMA EventsGrow ==
  ASSUME NEW q \in Seq(LinePackets), NEW x \in LinePackets, NEW most \in Nat, NEW more \in Nat,
         EventsRight(q, most),
         \/ ~B!OfEvent(x) /\ more = most
         \/ x = B!EventPacket(more) /\ more = most + 1
  PROVE  q \o <<x>> \in Seq(LinePackets) /\ EventsRight(q \o <<x>>, more)
<1>1. PICK w, z : w = <<x>> /\ z = q \o w
  OBVIOUS
<1>2. w \in Seq(LinePackets) /\ Elements(w) = {x} /\ \A b, c : ~Before(w, b, c)
  BY <1>1, SingleIs
<1>3. /\ z \in Seq(LinePackets) /\ Elements(z) = Elements(q) \cup Elements(w)
      /\ \A b, c : Before(z, b, c) <=>
           Before(q, b, c) \/ Before(w, b, c) \/ (b \in Elements(q) /\ c \in Elements(w))
  BY <1>1, <1>2, Joined
<1>4. CASE ~B!OfEvent(x) /\ more = most
  <2>1. \A k \in 1..more : B!EventPacket(k) \in Elements(z)
    BY <1>3, <1>4 DEF EventsRight
  <2>2. \A y \in Elements(z) : B!OfEvent(y) => \E k \in 1..more : y = B!EventPacket(k)
    BY <1>2, <1>3, <1>4 DEF EventsRight
  <2>3. ASSUME NEW b, NEW c, Before(z, b, c), B!OfEvent(b), B!OfEvent(c) PROVE b[1].from < c[1].from
    <3>1. Before(q, b, c)
      BY <1>2, <1>3, <1>4, <2>3
    <3>2. QED
      BY <2>3, <3>1 DEF EventsRight
  <2>4. EventsRight(z, more)
    BY <2>1, <2>2, <2>3 DEF EventsRight
  <2>5. QED
    BY <1>1, <1>3, <2>4
<1>5. CASE x = B!EventPacket(more) /\ more = most + 1
  <2>1. x[1].from = MaxRequests + more /\ MaxRequests \in Nat
    <3>1. more \in Nat /\ 1 <= more
      BY <1>5
    <3>2. B!EventPacket(more)[1].from = MaxRequests + more
      BY <3>1, EventPacketIs
    <3>3. QED
      BY <1>5, <3>2, LinesAssumption
  <2>2. \A k \in 1..more : k = more \/ k \in 1..most
    BY <1>5
  <2>3. \A k \in 1..more : B!EventPacket(k) \in Elements(z)
    BY <1>2, <1>3, <1>5, <2>2 DEF EventsRight
  <2>4. more \in 1..more /\ \A k \in 1..most : k \in 1..more
    BY <1>5
  <2>5. \A y \in Elements(z) : B!OfEvent(y) => \E k \in 1..more : y = B!EventPacket(k)
    BY <1>2, <1>3, <1>5, <2>4 DEF EventsRight
  <2>6. ASSUME NEW b, NEW c, Before(z, b, c), B!OfEvent(b), B!OfEvent(c) PROVE b[1].from < c[1].from
    <3>1. CASE Before(q, b, c)
      BY <2>6, <3>1 DEF EventsRight
    <3>2. CASE b \in Elements(q) /\ c = x
      <4>1. PICK k \in 1..most : b = B!EventPacket(k)
        BY <2>6, <3>2 DEF EventsRight
      <4>2. b[1].from = MaxRequests + k
        BY <4>1, EventPacketIs
      <4>3. QED
        BY <1>5, <2>1, <3>2, <4>1, <4>2
    <3>3. QED
      BY <1>2, <1>3, <2>6, <3>1, <3>2
  <2>7. EventsRight(z, more)
    BY <2>3, <2>5, <2>6 DEF EventsRight
  <2>8. QED
    BY <1>1, <1>3, <2>7
<1>6. QED
  BY <1>1, <1>3, <1>4, <1>5

LEMMA PacketOfTwo ==
  ASSUME NEW x \in LineBytes, NEW y \in LineBytes
  PROVE  B!Packets(<<x, y>>) = <<<<x, y>>>>
<1>1. Len(<<x, y>>) \div B!PacketSize = 1
  BY DEF B!PacketSize
<1>2. PICK w : w = <<x, y>>
  OBVIOUS
<1>3. B!Packets(w) = [i \in 1..1 |-> <<w[2 * i - 1], w[2 * i]>>]
  BY <1>1, <1>2 DEF B!Packets, B!PacketSize
<1>4. w[2 * 1 - 1] = x /\ w[2 * 1] = y
  BY <1>2
<1>5. [i \in 1..1 |-> <<w[2 * i - 1], w[2 * i]>>] = <<<<x, y>>>>
  BY <1>4
<1>6. QED
  BY <1>2, <1>3, <1>5

LEMMA RegroupedPackets == \A s, t, u \in Seq(LinePackets) : (s \o t) \o u = s \o (t \o u)
BY Regrouped

LEMMA PacketsIn == \A s \in Seq(LineBytes) : B!Packets(s) \in Seq(LinePackets)
BY PacketsAre DEF LinePackets

LEMMA PacketsOfEvenLine ==
  ASSUME NEW p \in Seq(LineBytes), NEW u \in Seq(LineBytes), NEW k \in Nat, Len(p) = 2 * k
  PROVE  B!Packets(p \o u) = B!Packets(p) \o B!Packets(u)
BY PacketsOfEven

\* Two bytes more on the line are a packet more.
LEMMA PacketsGrow ==
  ASSUME ByteTypes, NEW x \in LineBytes, NEW y \in LineBytes, NEW k \in Nat,
         Len(inBytes \o fromCtl) = 2 * k
  PROVE  /\ (popped \o inbox) \o B!Packets(inBytes \o (fromCtl \o <<x, y>>))
              = AllPackets \o <<<<x, y>>>>
         /\ AllPackets \in Seq(LinePackets) /\ <<x, y>> \in LinePackets
         /\ Len(inBytes \o (fromCtl \o <<x, y>>)) = 2 * (k + 1)
<1>1. PICK a, b, w, h : a = inBytes /\ b = fromCtl /\ w = <<x, y>> /\ h = popped \o inbox
  OBVIOUS
<1>2. a \in Seq(LineBytes) /\ b \in Seq(LineBytes) /\ a \o b \in Seq(LineBytes)
  BY <1>1, StreamIs
<1>3. w \in Seq(LineBytes) /\ Len(w) = 2 /\ w \in LinePackets
  BY <1>1, PairIs DEF LinePackets
<1>4. h \in Seq(LinePackets)
  BY <1>1, ConcatProperties DEF ByteTypes
<1>5. (a \o b) \o w = a \o (b \o w)
  BY <1>2, <1>3, RegroupedLine
<1>6. PICK s : s = a \o b
  OBVIOUS
<1>7. s \in Seq(LineBytes) /\ Len(s) = 2 * k
  BY <1>1, <1>2, <1>6
<1>8. B!Packets(s \o w) = B!Packets(s) \o B!Packets(w)
  BY <1>3, <1>7, PacketsOfEvenLine
<1>9. B!Packets(w) = <<w>> /\ <<w>> \in Seq(LinePackets)
  BY <1>1, <1>3, PacketOfTwo, SingleIs
<1>10. B!Packets(s) \in Seq(LinePackets)
  BY <1>7, PacketsIn
<1>11. (h \o B!Packets(s)) \o <<w>> = h \o (B!Packets(s) \o <<w>>)
  BY <1>4, <1>9, <1>10, RegroupedPackets
<1>12. h \o B!Packets(s) \in Seq(LinePackets)
  BY <1>4, <1>10, ConcatProperties
<1>13. Len(s \o w) = 2 * (k + 1)
  <2>1. Len(s \o w) = Len(s) + Len(w)
    BY <1>3, <1>7, ConcatProperties
  <2>2. QED
    BY <1>3, <1>7, <2>1
<1>14. h \o B!Packets(s) = AllPackets
  BY <1>1, <1>6 DEF AllPackets
<1>15. s \o w = inBytes \o (fromCtl \o <<x, y>>)
  BY <1>1, <1>5, <1>6
<1>16. h \o B!Packets(s \o w) = AllPackets \o <<w>>
  BY <1>8, <1>9, <1>11, <1>14
<1>17. QED
  BY <1>1, <1>3, <1>12, <1>13, <1>14, <1>15, <1>16

LEMMA ControllerKeepsEvents ==
  ASSUME ByteTypes, EventInv, B!Controller
  PROVE  EventInv'
<1>1. SUFFICES ASSUME lost' = 0, syncs' = 0
               PROVE  /\ waitSync' = FALSE /\ 0 \notin Elements(toCtl')
                      /\ \A c \in Callers : caller'[c] # "syncing"
                      /\ \E k \in Nat : Len(inBytes' \o fromCtl') = 2 * k
                      /\ EventsRight(AllPackets', events')
  BY DEF EventInv
<1>2. /\ UNCHANGED <<B!hostVars, B!callVars, lost, events, popped>>
      /\ Elements(toCtl) = {Head(toCtl)} \cup Elements(toCtl')
      /\ Head(toCtl) \in 0..Len(requests)
  BY ControllerSays
<1>3. /\ waitSync = FALSE /\ 0 \notin Elements(toCtl)
      /\ \A c \in Callers : caller[c] # "syncing"
      /\ EventsRight(AllPackets, events)
  BY <1>1, <1>2 DEF EventInv, B!callVars
<1>4. PICK k \in Nat : Len(inBytes \o fromCtl) = 2 * k
  BY <1>1, <1>2 DEF EventInv, B!callVars
<1>5. Head(toCtl) # 0
  BY <1>2, <1>3
<1>6. PICK x, y \in LineBytes : fromCtl' = fromCtl \o <<x, y>> /\ x.from = Head(toCtl) /\ y.from = Head(toCtl)
  BY <1>5, ControllerSays
<1>7. /\ (popped \o inbox) \o B!Packets(inBytes \o (fromCtl \o <<x, y>>)) = AllPackets \o <<<<x, y>>>>
      /\ AllPackets \in Seq(LinePackets) /\ <<x, y>> \in LinePackets
      /\ Len(inBytes \o (fromCtl \o <<x, y>>)) = 2 * (k + 1)
  BY <1>4, PacketsGrow
<1>8. ~B!OfEvent(<<x, y>>)
  <2>1. Head(toCtl) \in Nat /\ Head(toCtl) <= MaxRequests /\ MaxRequests \in Nat
    BY <1>2, LinesAssumption, SMTT(40) DEF ByteTypes
  <2>2. \A i \in 1..2 : ~(<<x, y>>[i].from > MaxRequests)
    BY <1>6, <2>1
  <2>3. QED
    BY <2>2 DEF B!OfEvent, B!PacketSize
<1>9. EventsRight(AllPackets \o <<<<x, y>>>>, events)
  <2>1. events \in Nat
    BY DEF ByteTypes
  <2>2. QED
    BY <1>3, <1>7, <1>8, <2>1, EventsGrow
<1>10. AllPackets' = AllPackets \o <<<<x, y>>>>
  BY <1>2, <1>6, <1>7 DEF AllPackets, B!hostVars
<1>11. Len(inBytes' \o fromCtl') = 2 * (k + 1) /\ k + 1 \in Nat
  BY <1>2, <1>6, <1>7 DEF B!hostVars
<1>12. QED
  BY <1>2, <1>3, <1>9, <1>10, <1>11 DEF B!hostVars, B!callVars

LEMMA EventKeepsEvents ==
  ASSUME ByteTypes, EventInv, B!Event
  PROVE  EventInv'
<1>1. SUFFICES ASSUME lost' = 0, syncs' = 0
               PROVE  /\ waitSync' = FALSE /\ 0 \notin Elements(toCtl')
                      /\ \A c \in Callers : caller'[c] # "syncing"
                      /\ \E k \in Nat : Len(inBytes' \o fromCtl') = 2 * k
                      /\ EventsRight(AllPackets', events')
  BY DEF EventInv
<1>2. UNCHANGED <<B!hostVars, B!callVars, toCtl, lost, popped>> /\ events' = events + 1
  BY EventSays
<1>3. /\ waitSync = FALSE /\ 0 \notin Elements(toCtl)
      /\ \A c \in Callers : caller[c] # "syncing"
      /\ EventsRight(AllPackets, events)
  BY <1>1, <1>2 DEF EventInv, B!callVars
<1>4. PICK k \in Nat : Len(inBytes \o fromCtl) = 2 * k
  BY <1>1, <1>2 DEF EventInv, B!callVars
<1>5. PICK x, y \in LineBytes : fromCtl' = fromCtl \o <<x, y>> /\ <<x, y>> = B!EventPacket(events + 1)
  BY EventSays
<1>6. /\ (popped \o inbox) \o B!Packets(inBytes \o (fromCtl \o <<x, y>>)) = AllPackets \o <<<<x, y>>>>
      /\ AllPackets \in Seq(LinePackets) /\ <<x, y>> \in LinePackets
      /\ Len(inBytes \o (fromCtl \o <<x, y>>)) = 2 * (k + 1)
  BY <1>4, PacketsGrow
<1>7. EventsRight(AllPackets \o <<<<x, y>>>>, events + 1)
  <2>1. events \in Nat /\ events + 1 \in Nat
    BY DEF ByteTypes
  <2>2. QED
    BY <1>3, <1>5, <1>6, <2>1, EventsGrow
<1>8. AllPackets' = AllPackets \o <<<<x, y>>>>
  BY <1>2, <1>5, <1>6 DEF AllPackets, B!hostVars
<1>9. Len(inBytes' \o fromCtl') = 2 * (k + 1) /\ k + 1 \in Nat
  BY <1>2, <1>5, <1>6 DEF B!hostVars
<1>10. QED
  BY <1>2, <1>3, <1>7, <1>8, <1>9 DEF B!hostVars, B!callVars

LEMMA PopKeepsEvents ==
  ASSUME ByteTypes, EventInv, B!Pop
  PROVE  EventInv'
<1>1. UNCHANGED <<waitCom, waitSync, outgoing, incoming, inBytes, B!callVars, B!lineVars>>
  BY PopSays
<1>2. PICK x \in LinePackets, more \in Seq(LinePackets) :
              inbox = <<x>> \o more /\ inbox' = more /\ popped' = popped \o <<x>>
  BY PopSays
<1>3. PICK h, w : h = popped /\ w = <<x>>
  OBVIOUS
<1>4. h \in Seq(LinePackets) /\ w \in Seq(LinePackets)
  BY <1>3, SingleIs DEF ByteTypes
<1>5. (h \o w) \o more = h \o (w \o more)
  BY <1>4, RegroupedPackets
<1>6. AllPackets' = AllPackets
  BY <1>1, <1>2, <1>3, <1>5 DEF AllPackets, B!lineVars
<1>7. QED
  BY <1>1, <1>6 DEF EventInv, B!callVars, B!lineVars

LEMMA CallKeepsEvents ==
  ASSUME ByteTypes, EventInv, NEW c \in Callers, Calls(c)
  PROVE  EventInv'
<1>1. UNCHANGED <<inBytes, fromCtl, events, inbox, popped, lost>>
  BY DEF Calls, B!Send, B!ComSection, B!Answered, B!TimeOut, B!Synchronize, B!TryAgain,
         B!SynchronizeReturns, B!Ask, B!hostVars, B!lineVars
<1>2. AllPackets' = AllPackets
  BY <1>1 DEF AllPackets
<1>3. caller \in [Callers -> {"out", "asking", "syncing"}] /\ Len(requests) \in Nat /\ syncs \in Nat
  BY DEF ByteTypes
<1>4. CASE UNCHANGED <<waitSync, syncs>> /\ (\E cmd \in Commands : B!Ask(cmd))
           /\ (UNCHANGED caller \/ caller' = [caller EXCEPT ![c] = "asking"])
  <2>1. Elements(toCtl') = Elements(toCtl) \cup {Len(requests) + 1} /\ Len(requests) + 1 # 0
    <3>1. PICK cmd \in Commands : B!Ask(cmd)
      BY <1>4
    <3>2. Elements(toCtl') = Elements(toCtl) \cup {Len(requests) + 1}
      BY <3>1, AskSays
    <3>3. QED
      BY <1>3, <3>2
  <2>2. QED
    BY <1>1, <1>2, <1>3, <1>4, <2>1 DEF EventInv
<1>5. CASE UNCHANGED <<waitSync, syncs, toCtl>> /\ caller' = [caller EXCEPT ![c] = "out"]
  BY <1>1, <1>2, <1>3, <1>5 DEF EventInv
<1>6. CASE B!Send(c)
  <2>1. PICK cmd \in Commands : B!Ask(cmd)
    BY <1>6 DEF B!Send
  <2>2. UNCHANGED <<caller, waitSync, syncs>>
    BY <1>6, <2>1, AskSays DEF B!Send
  <2>3. QED
    BY <1>4, <2>1, <2>2
<1>7. CASE B!ComSection(c)
  <2>1. PICK cmd \in Commands : B!Ask(cmd)
    BY <1>7 DEF B!ComSection
  <2>2. UNCHANGED <<waitSync, syncs>> /\ caller' = [caller EXCEPT ![c] = "asking"]
    BY <1>7, <2>1, AskSays DEF B!ComSection
  <2>3. QED
    BY <1>4, <2>1, <2>2
<1>8. CASE B!Answered(c) \/ B!TimeOut(c) \/ B!SynchronizeReturns(c)
  BY <1>5, <1>8 DEF B!Answered, B!TimeOut, B!SynchronizeReturns, B!hostVars, B!lineVars
<1>9. CASE B!Synchronize(c)
  <2>1. syncs' = syncs + 1
    BY <1>9 DEF B!Synchronize
  <2>2. syncs' # 0
    BY <1>3, <2>1
  <2>3. QED
    BY <2>2 DEF EventInv
<1>10. CASE B!TryAgain(c)
  <2>1. caller[c] = "syncing" /\ UNCHANGED <<syncs, lost>>
    BY <1>1, <1>10 DEF B!TryAgain
  <2>2. QED
    BY <2>1 DEF EventInv
<1>11. QED
  BY <1>6, <1>7, <1>8, <1>9, <1>10 DEF Calls

LEMMA Framed ==
  ASSUME NEW h \in Seq(LinePackets), NEW m \in Seq(LinePackets), NEW n \in Seq(LinePackets),
         NEW t \in Seq(LinePackets), NEW x, Elements(m) = Elements(n) \cup {x},
         \A b, c : Before(n, b, c) => Before(m, b, c)
  PROVE  /\ Elements((h \o m) \o t) = Elements((h \o n) \o t) \cup {x}
         /\ \A b, c : Before((h \o n) \o t, b, c) => Before((h \o m) \o t, b, c)
<1>1. PICK p, q : p = h \o m /\ q = h \o n
  OBVIOUS
<1>2. /\ p \in Seq(LinePackets) /\ Elements(p) = Elements(h) \cup Elements(m)
      /\ \A b, c : Before(p, b, c) <=>
           Before(h, b, c) \/ Before(m, b, c) \/ (b \in Elements(h) /\ c \in Elements(m))
  BY <1>1, Joined
<1>3. /\ q \in Seq(LinePackets) /\ Elements(q) = Elements(h) \cup Elements(n)
      /\ \A b, c : Before(q, b, c) <=>
           Before(h, b, c) \/ Before(n, b, c) \/ (b \in Elements(h) /\ c \in Elements(n))
  BY <1>1, Joined
<1>4. /\ Elements(p \o t) = Elements(p) \cup Elements(t)
      /\ \A b, c : Before(p \o t, b, c) <=>
           Before(p, b, c) \/ Before(t, b, c) \/ (b \in Elements(p) /\ c \in Elements(t))
  BY <1>2, Joined
<1>5. /\ Elements(q \o t) = Elements(q) \cup Elements(t)
      /\ \A b, c : Before(q \o t, b, c) <=>
           Before(q, b, c) \/ Before(t, b, c) \/ (b \in Elements(q) /\ c \in Elements(t))
  BY <1>3, Joined
<1>6. Elements(p) = Elements(q) \cup {x} /\ \A b, c : Before(q, b, c) => Before(p, b, c)
  BY <1>2, <1>3
<1>7. QED
  BY <1>1, <1>4, <1>5, <1>6

LEMMA OneLess ==
  ASSUME NEW f \in Seq(LinePackets), NEW g \in Seq(LinePackets), NEW x \in LinePackets
  PROVE  /\ f \o g \in Seq(LinePackets) /\ (f \o <<x>>) \o g \in Seq(LinePackets)
         /\ Elements((f \o <<x>>) \o g) = Elements(f \o g) \cup {x}
         /\ \A b, c : Before(f \o g, b, c) => Before((f \o <<x>>) \o g, b, c)
<1>1. PICK w, m : w = <<x>> /\ m = f \o w
  OBVIOUS
<1>2. w \in Seq(LinePackets) /\ Elements(w) = {x}
  BY <1>1, SingleIs
<1>3. /\ m \in Seq(LinePackets) /\ Elements(m) = Elements(f) \cup Elements(w)
      /\ \A b, c : Before(f, b, c) => Before(m, b, c)
  BY <1>1, <1>2, Joined
<1>4. /\ m \o g \in Seq(LinePackets) /\ Elements(m \o g) = Elements(m) \cup Elements(g)
      /\ \A b, c : Before(m \o g, b, c) <=>
           Before(m, b, c) \/ Before(g, b, c) \/ (b \in Elements(m) /\ c \in Elements(g))
  BY <1>3, Joined
<1>5. /\ f \o g \in Seq(LinePackets) /\ Elements(f \o g) = Elements(f) \cup Elements(g)
      /\ \A b, c : Before(f \o g, b, c) <=>
           Before(f, b, c) \/ Before(g, b, c) \/ (b \in Elements(f) /\ c \in Elements(g))
  BY Joined
<1>6. QED
  BY <1>1, <1>2, <1>3, <1>4, <1>5

LEMMA EvenLess ==
  ASSUME NEW k \in Nat, NEW n \in Nat, NEW m \in Nat, 2 * k = 2 * n + m
  PROVE  k - n \in Nat /\ m = 2 * (k - n)
OBVIOUS

LEMMA ReadKeepsEvents ==
  ASSUME ByteTypes, EventInv, B!HandleRead
  PROVE  EventInv'
<1>1. SUFFICES ASSUME lost' = 0, syncs' = 0
               PROVE  /\ waitSync' = FALSE /\ 0 \notin Elements(toCtl')
                      /\ \A c \in Callers : caller'[c] # "syncing"
                      /\ \E k \in Nat : Len(inBytes' \o fromCtl') = 2 * k
                      /\ EventsRight(AllPackets', events')
  BY DEF EventInv
<1>2. UNCHANGED <<outgoing, toCtl, lost, events, popped, caller, asked, answer, requests, syncs>>
  BY ByteReads DEF B!callVars
<1>3. /\ waitSync = FALSE /\ 0 \notin Elements(toCtl)
      /\ \A c \in Callers : caller[c] # "syncing"
      /\ EventsRight(AllPackets, events)
  BY <1>1, <1>2 DEF EventInv
<1>4. PICK k \in Nat : Len(inBytes \o fromCtl) = 2 * k
  BY <1>1, <1>2 DEF EventInv
<1>5. PICK some, later \in Seq(LineBytes) :
              /\ fromCtl = some \o later /\ fromCtl' = later
              /\ inBytes \o some \in Seq(LineBytes)
              /\ B!Compile(inBytes \o some)
  BY ByteReads
<1>6. PICK a, s, front, old : a = inBytes /\ s = a \o some /\ front = popped /\ old = inbox
  OBVIOUS
<1>7. s \in Seq(LineBytes) /\ B!Compile(s) /\ a \in Seq(LineBytes)
      /\ front \in Seq(LinePackets) /\ old \in Seq(LinePackets)
  BY <1>5, <1>6 DEF ByteTypes
<1>8. waitCom \in BOOLEAN /\ waitSync \in BOOLEAN /\ inbox \in Seq(LinePackets)
  BY DEF ByteTypes
<1>9. waitSync' = FALSE /\ inBytes' = Odd(s)
  <2>1. waitSync' \in BOOLEAN /\ (waitSync' => waitSync) /\ (~waitSync => inBytes' = Odd(s))
    BY <1>7, <1>8, CompileIs
  <2>2. QED
    BY <1>3, <2>1
<1>10. PICK odd, ps, pl : odd = Odd(s) /\ ps = B!Packets(s) /\ pl = B!Packets(odd \o later)
  OBVIOUS
<1>11. /\ odd \in Seq(LineBytes) /\ Len(ps) \in Nat /\ Len(s) = 2 * Len(ps) + Len(odd)
  BY <1>7, <1>10, OddIs
<1>12. ps \in Seq(LinePackets) /\ pl \in Seq(LinePackets)
  <2>1. odd \o later \in Seq(LineBytes)
    BY <1>11, ConcatProperties
  <2>2. QED
    BY <1>7, <1>10, <2>1, PacketsIn
<1>13. s \o later = inBytes \o fromCtl
  <2>1. (a \o some) \o later = a \o (some \o later)
    BY <1>7, RegroupedLine
  <2>2. QED
    BY <1>5, <1>6, <2>1
<1>14. B!Packets(inBytes \o fromCtl) = ps \o pl
  <2>1. B!Packets(s \o later) = B!Packets(s) \o B!Packets(Odd(s) \o later)
    BY <1>7, PacketsJoin
  <2>2. QED
    BY <1>10, <1>13, <2>1
<1>15. \E j \in Nat : Len(inBytes' \o fromCtl') = 2 * j
  <2>1. Len(s \o later) = Len(s) + Len(later) /\ Len(later) \in Nat
    BY <1>7, ConcatProperties
  <2>2. Len(odd \o later) = Len(odd) + Len(later) /\ Len(odd) \in Nat
    BY <1>11, ConcatProperties
  <2>3. PICK m, n : m = Len(odd \o later) /\ n = Len(ps)
    OBVIOUS
  <2>4. m \in Nat /\ n \in Nat /\ 2 * k = 2 * n + m
    BY <1>4, <1>11, <1>13, <2>1, <2>2, <2>3
  <2>5. k - n \in Nat /\ m = 2 * (k - n)
    BY <2>4, EvenLess
  <2>6. QED
    BY <1>5, <1>9, <1>10, <2>3, <2>5
<1>16. PICK h : h = front \o old
  OBVIOUS
<1>17. h \in Seq(LinePackets)
  BY <1>7, <1>16, ConcatProperties
<1>18. AllPackets = (h \o ps) \o pl
  <2>1. (h \o ps) \o pl = h \o (ps \o pl)
    BY <1>12, <1>17, RegroupedPackets
  <2>2. QED
    BY <1>6, <1>14, <1>16, <2>1 DEF AllPackets
<1>19. AllPackets' = (front \o inbox') \o pl
  BY <1>2, <1>5, <1>6, <1>9, <1>10 DEF AllPackets
<1>20. EventsRight(AllPackets', events)
  <2>1. \/ inbox' = inbox \o B!Packets(s)
        \/ waitCom /\ \E f, g \in Seq(LinePackets), x \in LinePackets :
             /\ B!TracePacket(x)
             /\ B!Packets(s) = (f \o <<x>>) \o g
             /\ inbox' = inbox \o (f \o g)
    BY <1>3, <1>7, <1>8, CompileIs
  <2>2. CASE inbox' = inbox \o B!Packets(s)
    <3>1. (front \o old) \o ps = front \o (old \o ps)
      BY <1>7, <1>12, RegroupedPackets
    <3>2. AllPackets' = AllPackets
      BY <1>6, <1>10, <1>16, <1>18, <1>19, <2>2, <3>1
    <3>3. QED
      BY <1>3, <3>2
  <2>3. CASE waitCom /\ \E f, g \in Seq(LinePackets), x \in LinePackets :
             /\ B!TracePacket(x)
             /\ B!Packets(s) = (f \o <<x>>) \o g
             /\ inbox' = inbox \o (f \o g)
    <3>1. PICK f, g \in Seq(LinePackets), x \in LinePackets :
             /\ B!TracePacket(x)
             /\ B!Packets(s) = (f \o <<x>>) \o g
             /\ inbox' = inbox \o (f \o g)
      BY <2>3
    <3>2. PICK n, m : n = f \o g /\ m = (f \o <<x>>) \o g
      OBVIOUS
    <3>3. /\ n \in Seq(LinePackets) /\ m \in Seq(LinePackets)
          /\ Elements(m) = Elements(n) \cup {x} /\ \A b, c : Before(n, b, c) => Before(m, b, c)
      BY <3>2, OneLess
    <3>4. (front \o old) \o n = front \o (old \o n)
      BY <1>7, <3>3, RegroupedPackets, SMTT(40)
    <3>5. AllPackets' = (h \o n) \o pl
      BY <1>6, <1>16, <1>19, <3>1, <3>2, <3>4
    <3>6. AllPackets = (h \o m) \o pl
      BY <1>10, <1>18, <3>1, <3>2
    <3>7. PICK q, u : q = (h \o m) \o pl /\ u = (h \o n) \o pl
      OBVIOUS
    <3>8. Elements(q) = Elements(u) \cup {x} /\ \A b, c : Before(u, b, c) => Before(q, b, c)
      <4>1. /\ h \in Seq(LinePackets) /\ m \in Seq(LinePackets) /\ n \in Seq(LinePackets)
            /\ pl \in Seq(LinePackets) /\ Elements(m) = Elements(n) \cup {x}
            /\ \A b, c : Before(n, b, c) => Before(m, b, c)
        BY <1>12, <1>17, <3>3
      <4>2. /\ Elements((h \o m) \o pl) = Elements((h \o n) \o pl) \cup {x}
            /\ \A b, c : Before((h \o n) \o pl, b, c) => Before((h \o m) \o pl, b, c)
        BY <4>1, Framed
      <4>3. QED
        BY <3>7, <4>2
    <3>9. EventsRight(q, events) /\ events \in Nat
      BY <1>3, <3>6, <3>7 DEF ByteTypes
    <3>10. ~B!OfEvent(x)
      <4>1. PICK y, z \in LineBytes : x = <<y, z>>
        BY <3>1 DEF LinePackets
      <4>2. z.value # "0x20"
        BY <2>3, <3>1, <4>1, TraceSays
      <4>3. x \in Elements(q)
        BY <3>8
      <4>4. SUFFICES ASSUME B!OfEvent(x) PROVE FALSE
        OBVIOUS
      <4>5. PICK j \in 1..events : x = B!EventPacket(j)
        BY <3>9, <4>3, <4>4 DEF EventsRight
      <4>6. j \in Nat /\ 1 <= j
        BY <3>9
      <4>7. x[2].value = "0x20"
        BY <4>5, <4>6, EventPacketIs
      <4>8. QED
        BY <4>1, <4>2, <4>7
    <3>11. EventsRight(u, events)
      BY <3>8, <3>9, <3>10, EventsPart
    <3>12. QED
      BY <3>5, <3>7, <3>11
  <2>4. QED
    BY <2>1, <2>2, <2>3
<1>21. QED
  BY <1>2, <1>3, <1>9, <1>15, <1>20

LEMMA EventInvNext ==
  ASSUME ByteTypes, EventInv, B!Next
  PROVE  EventInv'
<1>1. CASE B!LoseByte
  <2>1. lost \in Nat /\ lost' = lost + 1
    BY <1>1 DEF ByteTypes, B!LoseByte
  <2>2. lost' # 0
    BY <2>1
  <2>3. QED
    BY <2>2 DEF EventInv
<1>2. CASE \E c \in Callers : Calls(c)
  BY <1>2, CallKeepsEvents
<1>3. QED
  BY <1>1, <1>2, ControllerKeepsEvents, EventKeepsEvents, PopKeepsEvents, ReadKeepsEvents
     DEF B!Next, Calls

LEMMA ByteAtFirst ==
  ASSUME B!Init
  PROVE  ByteTypes /\ ReplyInv /\ EventInv
<1>1. /\ waitCom = FALSE /\ waitSync = FALSE /\ incoming = B!Nothing
      /\ inbox = <<>> /\ inBytes = <<>> /\ caller = [c \in Callers |-> "out"]
      /\ asked = [c \in Callers |-> 0] /\ answer = [c \in Callers |-> B!Nothing]
      /\ toCtl = <<>> /\ fromCtl = <<>> /\ requests = <<>> /\ syncs = 0 /\ lost = 0
      /\ events = 0 /\ popped = <<>>
  BY DEF B!Init
<1>2. (\A A : <<>> \in Seq(A)) /\ <<>> \o <<>> = <<>> /\ Len(<<>>) = 0
  BY EmptyHasNone, ConcatEmptySeq
<1>3. B!Nothing \in LinePackets
  BY DEF B!Nothing, B!Byte, LinePackets, LineBytes
<1>4. ByteTypes
  <2>1. caller \in [Callers -> {"out", "asking", "syncing"}] /\ asked \in [Callers -> Nat]
        /\ answer \in [Callers -> LinePackets] /\ incoming \in LinePackets
    BY <1>1, <1>3
  <2>2. /\ inBytes \in Seq(LineBytes) /\ Len(inBytes) <= 1 /\ fromCtl \in Seq(LineBytes)
        /\ inbox \in Seq(LinePackets) /\ popped \in Seq(LinePackets)
    BY <1>1, <1>2
  <2>3. requests \in Seq(Commands) /\ Len(requests) <= MaxRequests
    BY <1>1, <1>2, LinesAssumption
  <2>4. toCtl \in Seq(Nat) /\ \A r \in Elements(toCtl) : r <= Len(requests)
    BY <1>1, <1>2, EmptyHasNone
  <2>5. QED
    BY <1>1, <2>1, <2>2, <2>3, <2>4 DEF ByteTypes
<1>5. ReplyInv
  <2>1. StreamRight(inBytes \o fromCtl, MaxRequests + events)
    BY <1>1, <1>2, EmptyHasNone DEF StreamRight
  <2>2. \A c \in Callers : caller[c] # "asking" /\ answer[c] = B!Nothing
    BY <1>1
  <2>3. QED
    BY <2>1, <2>2 DEF ReplyInv, B!OwnReply
<1>6. EventInv
  <2>1. B!Packets(<<>>) = <<>>
    <3>1. <<>> \in Seq(LineBytes) /\ Len(<<>>) \div 2 = 0
      BY <1>2
    <3>2. B!Packets(<<>>) \in Seq(LineBytes \X LineBytes) /\ Len(B!Packets(<<>>)) = 0
      BY <3>1, PacketsAre
    <3>3. QED
      BY <3>2, EmptySeq
  <2>2. AllPackets = <<>>
    BY <1>1, <1>2, <2>1 DEF AllPackets
  <2>3. EventsRight(AllPackets, events)
    BY <1>1, <2>2, EmptyHasNone DEF EventsRight
  <2>4. Len(inBytes \o fromCtl) = 2 * 0
    BY <1>1, <1>2
  <2>5. QED
    BY <1>1, <2>3, <2>4, EmptyHasNone DEF EventInv
<1>7. QED
  BY <1>4, <1>5, <1>6

LEMMA EventInvSays == ASSUME EventInv PROVE B!EventsKept
<1>1. SUFFICES ASSUME lost = 0, syncs = 0
               PROVE  LET packets == AllPackets
                      IN  /\ \A k \in 1..events : \E i \in DOMAIN packets : packets[i] = B!EventPacket(k)
                          /\ \A i \in DOMAIN packets : B!OfEvent(packets[i]) =>
                               \E k \in 1..events : packets[i] = B!EventPacket(k)
                          /\ \A i, j \in DOMAIN packets :
                               i < j /\ B!OfEvent(packets[i]) /\ B!OfEvent(packets[j]) =>
                                 packets[i][1].from < packets[j][1].from
  BY DEF B!EventsKept, AllPackets
<1>2. PICK q : q = AllPackets
  OBVIOUS
<1>3. EventsRight(q, events)
  BY <1>1, <1>2 DEF EventInv
<1>4. \A i \in DOMAIN q : q[i] \in Elements(q)
  BY DEF Elements
<1>5. \A k \in 1..events : \E i \in DOMAIN q : q[i] = B!EventPacket(k)
  BY <1>3 DEF EventsRight, Elements
<1>6. \A i \in DOMAIN q : B!OfEvent(q[i]) => \E k \in 1..events : q[i] = B!EventPacket(k)
  BY <1>3, <1>4 DEF EventsRight
<1>7. \A i, j \in DOMAIN q :
        i < j /\ B!OfEvent(q[i]) /\ B!OfEvent(q[j]) => q[i][1].from < q[j][1].from
  BY <1>3 DEF EventsRight, Before
<1>8. QED
  BY <1>2, <1>5, <1>6, <1>7

-----------------------------------------------------------------------------
(***************************************************************************)
(* The net point.                                                          *)
(***************************************************************************)
LEMMA SameCount == \A A : N!Cardinality(A) = Cardinality(A)
BY DEF N!Cardinality, Cardinality

\* From behind, each number of a finite set is the first, the second and so on.
LEMMA EachHasItsTurn ==
  ASSUME NEW A \in SUBSET Nat, IsFiniteSet(A), NEW g \in 1..Cardinality(A)
  PROVE  \E q \in A : Cardinality({j \in A : j >= q}) = g
<1> DEFINE Above(q) == {j \in A : j >= q}
           turn == [q \in A |-> Cardinality(Above(q))]
           Turns == {turn[q] : q \in A}
<1>1. PICK n : n = Cardinality(A) /\ n \in Nat
  BY FS_CardinalityType
<1>2. ASSUME NEW q \in A
      PROVE  IsFiniteSet(Above(q)) /\ Cardinality(Above(q)) \in 1..n
  <2>1. Above(q) \subseteq A /\ q \in Above(q)
    OBVIOUS
  <2>2. IsFiniteSet(Above(q)) /\ Cardinality(Above(q)) <= n
    BY <1>1, <2>1, FS_Subset
  <2>3. Cardinality(Above(q)) \in Nat /\ Cardinality(Above(q)) # 0
    BY <2>1, <2>2, FS_CardinalityType, FS_EmptySet
  <2>4. QED
    BY <1>1, <2>2, <2>3
<1>3. ASSUME NEW q \in A, NEW r \in A, q < r
      PROVE  turn[q] # turn[r]
  <2>0. A \subseteq Nat /\ q \in Nat /\ r \in Nat /\ q < r
    BY <1>3
  <2>1. Above(r) \subseteq Above(q) /\ q \in Above(q) /\ q \notin Above(r)
    <3>1. \A j \in A : j >= r => j >= q
      BY <2>0
    <3>2. q >= q /\ ~(q >= r)
      BY <2>0
    <3>3. QED
      BY <3>1, <3>2
  <2>2. Above(r) # Above(q)
    BY <2>1
  <2>3. IsFiniteSet(Above(q))
    BY <1>2
  <2>4. Cardinality(Above(r)) # Cardinality(Above(q))
    BY <2>1, <2>2, <2>3, FS_Subset
  <2>5. QED
    BY <2>4
<1>4. ExistsBijection(A, Turns)
  <2>1. \A q, r \in A : turn[q] = turn[r] => q = r
    <3>1. ASSUME NEW q \in A, NEW r \in A, turn[q] = turn[r] PROVE q = r
      <4>1. q \in Nat /\ r \in Nat
        OBVIOUS
      <4>2. ~(q < r) /\ ~(r < q)
        BY <1>3, <3>1
      <4>3. QED
        BY <4>1, <4>2
    <3>2. QED
      BY <3>1
  <2>2. turn \in [A -> Turns]
    OBVIOUS
  <2>3. \A m \in Turns : \E q \in A : turn[q] = m
    OBVIOUS
  <2>4. PICK f, ranks : f = turn /\ ranks = Turns
    OBVIOUS
  <2>5. QED
    BY <2>1, <2>2, <2>3, <2>4, Fun_IsBij DEF ExistsBijection
<1>5. Cardinality(Turns) = n
  <2>1. PICK ranks : ranks = Turns
    OBVIOUS
  <2>2. ExistsBijection(A, ranks)
    BY <1>4, <2>1
  <2>3. Cardinality(ranks) = Cardinality(A)
    BY <2>2, FS_Bijection
  <2>4. QED
    BY <1>1, <2>1, <2>3
<1>6. Turns \subseteq 1..n
  BY <1>2
<1>7. IsFiniteSet(1..n) /\ Cardinality(1..n) = n
  BY <1>1, FS_Interval
<1>8. Turns = 1..n
  BY <1>5, <1>6, <1>7, FS_Subset
<1>9. QED
  BY <1>1, <1>8

\* No gap is left.
LEMMA CompactIs ==
  ASSUME NEW A, NEW s \in Seq(A)
  PROVE  N!Compact(s) \in Seq(A \ {Null})
<1> DEFINE live == {i \in DOMAIN s : s[i] # Null}
           Gaps(i) == N!Cardinality(1..i \ live)
           Filler(i) == CHOOSE q \in live : N!Cardinality({j \in live : j >= q}) = Gaps(i)
           n == N!Cardinality(live)
<1>1. N!Compact(s) = [i \in 1..n |-> s[IF i \in live THEN i ELSE Filler(i)]]
  BY DEF N!Compact
<1>2. live \in SUBSET Nat /\ live \subseteq 1..Len(s) /\ IsFiniteSet(live)
      /\ n = Cardinality(live) /\ n \in Nat
  <2>1. Len(s) \in Nat /\ DOMAIN s = 1..Len(s)
    OBVIOUS
  <2>2. IsFiniteSet(1..Len(s))
    BY <2>1, FS_Interval
  <2>3. live \subseteq 1..Len(s)
    BY <2>1
  <2>4. IsFiniteSet(live)
    BY <2>2, <2>3, FS_Subset
  <2>5. n = Cardinality(live)
    BY SameCount
  <2>6. QED
    BY <2>1, <2>3, <2>4, <2>5, FS_CardinalityType
<1>3. \A i \in live : s[i] \in A \ {Null}
  OBVIOUS
<1> HIDE DEF live, n
<1>4. ASSUME NEW i \in 1..n, i \notin live
      PROVE  Filler(i) \in live
  <2>1. IsFiniteSet(1..i) /\ Cardinality(1..i) = i /\ i \in Nat
    BY <1>2, FS_Interval
  <2>2. IsFiniteSet(1..i \ live) /\ Cardinality(1..i \ live) <= i
    BY <2>1, FS_Subset
  <2>3. Cardinality(1..i \ live) \in Nat /\ Cardinality(1..i \ live) # 0
    <3>1. i \in 1..i \ live
      BY <1>4, <2>1
    <3>2. QED
      BY <2>2, <3>1, FS_CardinalityType, FS_EmptySet
  <2>4. Cardinality(1..i \ live) \in 1..Cardinality(live)
    BY <1>2, <2>1, <2>2, <2>3
  <2>5. \E q \in live : N!Cardinality({j \in live : j >= q}) = Gaps(i)
    <3>1. \E q \in live : Cardinality({j \in live : j >= q}) = Cardinality(1..i \ live)
      BY <1>2, <2>4, EachHasItsTurn
    <3>2. PICK q \in live : Cardinality({j \in live : j >= q}) = Cardinality(1..i \ live)
      BY <3>1
    <3>3. N!Cardinality({j \in live : j >= q}) = Cardinality({j \in live : j >= q})
          /\ N!Cardinality(1..i \ live) = Cardinality(1..i \ live)
      BY SameCount
    <3>4. QED
      BY <3>2, <3>3
  <2>6. QED
    BY <2>5
<1>5. ASSUME NEW i \in 1..n
      PROVE  s[IF i \in live THEN i ELSE Filler(i)] \in A \ {Null}
  <2>1. PICK j : j = (IF i \in live THEN i ELSE Filler(i))
    OBVIOUS
  <2>2. j \in live
    BY <1>4, <2>1
  <2>3. s[j] \in A \ {Null}
    BY <1>3, <2>2
  <2>4. QED
    BY <2>1, <2>3
<1>6. QED
  <2>1. PICK f : f = [i \in 1..n |-> s[IF i \in live THEN i ELSE Filler(i)]]
    OBVIOUS
  <2>2. f \in [1..n -> A \ {Null}]
    BY <1>5, <2>1
  <2>3. N!Compact(s) = f /\ n \in Nat
    BY <1>1, <1>2, <2>1
  <2>4. QED
    BY <2>2, <2>3

\* While the loop does not build its list, the list of connections begins with those that
\* are polled; but for those that are deleted while they are handled, they are still there.
NetInv ==
  /\ clients \in Seq(Peers \cup {Null})
  /\ coming \subseteq Peers
  /\ mode = "server" /\ at \notin {"building", "stopped", "destroyed"} =>
       /\ fds \in Seq(Peers) /\ DOMAIN fds \subseteq DOMAIN clients
       /\ at # "handling" => \A i \in DOMAIN fds : clients[i] = fds[i]
       /\ \A i \in DOMAIN fds :
            /\ clients[i] \in {fds[i], Null}
            /\ clients[i] = Null => \A e \in revents : e[1] # i

LEMMA NetInvInit == ASSUME N!Init PROVE NetInv
BY DEF N!Init, NetInv

LEMMA NetInvSays == ASSUME NetInv PROVE N!HandlesPolledClient
BY LinesAssumption DEF NetInv, N!HandlesPolledClient

\* The list is built of what is left.
LEMMA BuildKeeps == ASSUME NetInv, N!BuildSelectList PROVE NetInv'
<1>1. /\ at = "building" /\ at' = "polling" /\ clients' = N!Compact(clients)
      /\ fds' = IF mode = "client" THEN <<Self>> ELSE clients'
      /\ UNCHANGED <<mode, revents, coming>>
  BY DEF N!BuildSelectList
<1>2. clients' \in Seq((Peers \cup {Null}) \ {Null})
  BY <1>1, CompactIs DEF NetInv
<1>3. clients' \in Seq(Peers)
  <2>1. (Peers \cup {Null}) \ {Null} = Peers
    BY LinesAssumption
  <2>2. QED
    BY <1>2, <2>1
<1>4. \A i \in DOMAIN clients' : clients'[i] \in Peers /\ clients'[i] # Null
  BY <1>3, LinesAssumption
<1>5. clients' \in Seq(Peers \cup {Null})
  BY <1>3, SeqMonotonic
<1>6. QED
  BY <1>1, <1>3, <1>4, <1>5 DEF NetInv

\* A new connection goes behind those that are polled.
LEMMA AddClientKeeps == ASSUME NetInv, N!AddClient PROVE NetInv'
<1>1. at = "accepting" /\ at' = "handling" /\ UNCHANGED <<mode, fds, revents>>
  BY DEF N!AddClient
<1>2. CASE UNCHANGED <<clients, coming>>
  BY <1>1, <1>2 DEF NetInv
<1>3. ASSUME NEW c \in coming, clients' = Append(clients, c), coming' = coming \ {c}
      PROVE  NetInv'
  <2>1. PICK more : more = Append(clients, c)
    OBVIOUS
  <2>2. clients \in Seq(Peers \cup {Null}) /\ c \in Peers \cup {Null}
    BY <1>3 DEF NetInv
  <2>3. /\ more \in Seq(Peers \cup {Null}) /\ DOMAIN clients \subseteq DOMAIN more
        /\ \A i \in DOMAIN clients : more[i] = clients[i]
    <3>1. Len(clients) \in Nat /\ Len(more) = Len(clients) + 1
      BY <2>1, <2>2, AppendProperties
    <3>2. QED
      BY <2>1, <2>2, <3>1, AppendProperties
  <2>4. QED
    BY <1>1, <1>3, <2>1, <2>2, <2>3 DEF NetInv
<1>4. QED
  BY <1>2, <1>3 DEF N!AddClient

\* A connection is deleted where it is handled, and nothing more is reported of it then.
LEMMA HandleKeeps == ASSUME NetInv, NEW i \in DOMAIN fds, N!Handle(i) PROVE NetInv'
<1>1. /\ at = "handling" /\ revents' = {e \in revents : e[1] # i}
      /\ UNCHANGED <<mode, fds, coming>>
      /\ clients' = clients \/ (mode = "server" /\ clients' = [clients EXCEPT ![i] = Null])
      /\ at' = at \/ mode = "client"
  BY DEF N!Handle, N!RemoveClient
<1>2. CASE clients' = clients
  BY <1>1, <1>2 DEF NetInv
<1>3. CASE mode = "server" /\ clients' = [clients EXCEPT ![i] = Null]
  <2>1. clients \in Seq(Peers \cup {Null}) /\ i \in DOMAIN clients
    BY <1>1, <1>3 DEF NetInv
  <2>2. PICK less : less = [clients EXCEPT ![i] = Null]
    OBVIOUS
  <2>3. /\ less \in Seq(Peers \cup {Null}) /\ DOMAIN less = DOMAIN clients /\ less[i] = Null
        /\ \A j \in DOMAIN clients : j # i => less[j] = clients[j]
    BY <2>1, <2>2
  <2>4. QED
    BY <1>1, <1>3, <2>1, <2>2, <2>3 DEF NetInv
<1>4. QED
  BY <1>1, <1>2, <1>3

LEMMA NetInvNext == ASSUME NetInv, [N!Next]_netVars PROVE NetInv'
<1>1. CASE UNCHANGED netVars
  BY <1>1 DEF NetInv, netVars
<1>2. CASE N!BuildSelectList
  BY <1>2, BuildKeeps
<1>3. CASE N!Poll
  BY <1>3, LinesAssumption DEF NetInv, N!Poll
<1>4. CASE N!CheckTerminate
  <2>1. /\ at = "reading" /\ UNCHANGED <<mode, fds, revents, clients, coming>>
        /\ at' \in {"accepting", "stopped", "restarting"}
    BY <1>4 DEF N!CheckTerminate, N!listVars
  <2>2. QED
    BY <2>1 DEF NetInv
<1>5. CASE N!LowerRestartFlag
  BY <1>5 DEF NetInv, N!LowerRestartFlag, N!listVars
<1>6. CASE N!AddClient
  BY <1>6, AddClientKeeps
<1>7. CASE N!SkipAccept
  BY <1>7 DEF NetInv, N!SkipAccept, N!listVars
<1>8. ASSUME NEW i \in DOMAIN fds, N!Handle(i) PROVE NetInv'
  BY <1>8, HandleKeeps
<1>9. CASE N!Return
  BY <1>9 DEF NetInv, N!Return, N!listVars
<1>10. CASE N!Destroy
  <2>1. PICK none : none = [i \in DOMAIN clients |-> Null]
    OBVIOUS
  <2>2. clients \in Seq(Peers \cup {Null})
    BY DEF NetInv
  <2>3. none \in Seq(Peers \cup {Null})
    <3>1. Len(clients) \in Nat /\ DOMAIN clients = 1..Len(clients)
      BY <2>2
    <3>2. none \in [1..Len(clients) -> Peers \cup {Null}]
      BY <2>1, <3>1
    <3>3. QED
      BY <3>1, <3>2
  <2>4. QED
    BY <1>10, <2>1, <2>3 DEF NetInv, N!Destroy
<1>11. ASSUME NEW u \in Feeders, N!User(u) PROVE NetInv'
  <2>1. UNCHANGED <<mode, clients, fds, revents, coming, at>>
    BY <1>11 DEF N!User, N!Feed, N!PostRestart, N!WriteRestart, N!listVars
  <2>2. QED
    BY <2>1 DEF NetInv
<1>12. CASE N!PostTerminate
  BY <1>12 DEF NetInv, N!PostTerminate, N!listVars
<1>13. ASSUME NEW c \in Peers \cup {Self}, N!HangUp(c) PROVE NetInv'
  BY <1>13 DEF NetInv, N!HangUp
<1>14. QED
  BY <1>1, <1>2, <1>3, <1>4, <1>5, <1>6, <1>7, <1>8, <1>9, <1>10, <1>11, <1>12, <1>13
  DEF N!Next, N!Loop

LEMMA NetPart == FairSpecAll => N!Init /\ [][N!Next]_netVars
<1>1. InitAll => N!Init
  BY DEF InitAll
<1>2. [NextAll]_allVars => [N!Next]_netVars
  BY DEF NextAll, Others, allVars, netVars
<1>3. QED
  BY <1>1, <1>2, PTL DEF FairSpecAll

\* What poll () reports for a descriptor is handled by the connection it was reported for,
\* which still exists, however many connections come, hang up and are removed in the
\* meantime, and in whatever order (posix.netpoint.cpp, serverSendRecv).
THEOREM PolledClientsAreHandled == FairSpecAll => []N!HandlesPolledClient
<1>1. N!Init => NetInv
  BY NetInvInit
<1>2. NetInv /\ [N!Next]_netVars => NetInv'
  BY NetInvNext
<1>3. NetInv => N!HandlesPolledClient
  BY NetInvSays
<1>4. QED
  BY <1>1, <1>2, <1>3, NetPart, PTL

-----------------------------------------------------------------------------
(***************************************************************************)
(* The connections of a server.                                            *)
(***************************************************************************)
Steps == {"out", "polling", "accepted", "added", "stopped"}

\* The sockets of the server are none of a connection, and no descriptor is 0, which
\* stands for none.
Distinct ==
  /\ {NoPeer, Listener, Local} \cap Connections = {} /\ Listener # Local
  /\ Steps \cap Connections = {}
  /\ Descriptors \subseteq Nat \ {0}

\* The system finds a number if there is one.
LEMMA LowestIsFree ==
  ASSUME Distinct, T!Free # {}
  PROVE  T!Min(T!Free) \in T!Free
<1>1. T!Free \subseteq Nat
  BY DEF Distinct, T!Free
<1>2. PICK x \in T!Free : \A y \in T!Free : ~ (<<y, x>> \in OpToRel(<, Nat))
  BY <1>1, NatLessThanWellFounded, WFMin
<1>3. \A a, b \in Nat : <<a, b>> \in OpToRel(<, Nat) <=> a < b
  BY DEF OpToRel
<1>4. ASSUME NEW y \in T!Free PROVE x <= y
  <2>1. x \in Nat /\ y \in Nat
    BY <1>1
  <2>2. ~ (y < x)
    BY <1>2, <1>3, <2>1
  <2>3. QED
    BY <2>1, <2>2
<1>5. QED
  BY <1>4 DEF T!Min

-----------------------------------------------------------------------------
(***************************************************************************)
(* The inductive invariant.                                                *)
(***************************************************************************)
Alive == born \ gone

PeerTypes ==
  /\ number \in [T!Sockets -> Descriptors \cup {0}] /\ owns \in [T!Sockets -> BOOLEAN]
  /\ opened \subseteq Descriptors /\ places \in [Descriptors -> Connections \cup {NoPeer}]
  /\ born \subseteq Connections
  /\ accepting \in Steps \cup Connections /\ serving \in Descriptors \cup {0}

\* Who owns a number: the peers that live, the listening socket while there is one, and
\* new_peer from accept until it is copied.
Owners ==
  /\ owns[Listener] => accepting \notin {"out", "stopped"}
  /\ accepting = "out" => number[Listener] = 0
  /\ owns[Local] <=> accepting = "accepted"
  /\ accepting \in {"out", "polling"} => number[Local] = 0
  /\ \A p \in Connections : owns[p] <=> p \in Alive

\* Nobody owns what is closed, or what another owns, and what is open is owned.
Numbers ==
  /\ \A s \in T!Sockets : owns[s] => number[s] \in opened
  /\ \A s, u \in T!Sockets : owns[s] /\ owns[u] /\ number[s] = number[u] => s = u
  /\ \A d \in opened : \E s \in T!Sockets : owns[s] /\ number[s] = d

\* The place of a number is that of the peer that lives by it: except for the one that
\* is about to be added, and the place that is about to be cleared.
Places ==
  /\ gone \subseteq born
  /\ \A d \in Descriptors : places[d] # NoPeer => places[d] \in born
  /\ \A d \in Descriptors :
       places[d] # NoPeer /\ serving # d =>
         places[d] \notin gone /\ number[places[d]] = d /\ accepting # places[d]
  /\ serving # 0 => places[serving] \in gone
  /\ \A p \in Alive : accepting # p => places[number[p]] = p
  /\ accepting \in Connections => accepting \in Alive

Kept == PeerTypes /\ Owners /\ Numbers /\ Places

\* The first state.
LEMMA KeptAtFirst == ASSUME Distinct, T!Init PROVE Kept
BY DEF Distinct, T!Init, Kept, PeerTypes, Owners, Numbers, Places, Alive, Steps, T!Sockets

\* A number that was free is taken by a socket that had none.
LEMMA TakeKeeps ==
  ASSUME Distinct, PeerTypes, Numbers, NEW s \in {Listener, Local}, ~owns[s], number[s] = 0,
         T!Free # {}, T!TakeNumber(s, T!Min(T!Free)), opened' = opened \cup {T!Min(T!Free)}
  PROVE  /\ Numbers'
         /\ number' \in [T!Sockets -> Descriptors \cup {0}] /\ owns' \in [T!Sockets -> BOOLEAN]
         /\ opened' \subseteq Descriptors
         /\ owns'[s]
         /\ \A u \in T!Sockets \ {s} : owns'[u] = owns[u] /\ number'[u] = number[u]
<1> DEFINE d == T!Min(T!Free)
<1>1. d \in Descriptors /\ d \notin opened /\ d # 0
  BY LowestIsFree DEF Distinct, T!Free
<1>2. s \in T!Sockets
  BY DEF T!Sockets
<1> HIDE DEF d
<1>3. /\ number' = [number EXCEPT ![s] = d] /\ owns' = [owns EXCEPT ![s] = TRUE]
      /\ opened' = opened \cup {d}
  <2>1. (owns[s] \/ number[s] # d) = TRUE
    BY <1>1
  <2>2. owns' = [owns EXCEPT ![s] = owns[s] \/ number[s] # d]
    BY DEF T!TakeNumber, d
  <2>3. QED
    BY <2>1, <2>2 DEF T!TakeNumber, d
<1>4. /\ number'[s] = d /\ owns'[s]
      /\ \A u \in T!Sockets \ {s} : owns'[u] = owns[u] /\ number'[u] = number[u]
  BY <1>2, <1>3 DEF PeerTypes
<1>5. Numbers'
  BY <1>1, <1>2, <1>3, <1>4 DEF Numbers
<1>6. QED
  BY <1>1, <1>3, <1>4, <1>5 DEF PeerTypes

\* What a socket that is destroyed owned is closed, and nothing else.
LEMMA DestroyKeeps ==
  ASSUME PeerTypes, Numbers, NEW s \in T!Sockets, T!Destroy(s)
  PROVE  /\ Numbers' /\ ~T!Wild(s)
         /\ number' \in [T!Sockets -> Descriptors \cup {0}] /\ owns' \in [T!Sockets -> BOOLEAN]
         /\ opened' \subseteq Descriptors
         /\ ~owns'[s] /\ number'[s] = 0
         /\ \A u \in T!Sockets \ {s} : owns'[u] = owns[u] /\ number'[u] = number[u]
<1>1. /\ ~owns'[s] /\ number'[s] = 0
      /\ \A u \in T!Sockets \ {s} : owns'[u] = owns[u] /\ number'[u] = number[u]
  BY DEF T!Destroy, PeerTypes
<1>2. Numbers'
  <2>1. \A d : d \in opened' <=> d \in opened /\ ~(owns[s] /\ number[s] = d)
    BY DEF T!Destroy
  <2>2. QED
    BY <1>1, <2>1 DEF Numbers
<1>3. QED
  BY <1>1, <1>2 DEF T!Destroy, PeerTypes, Numbers, T!Wild

-----------------------------------------------------------------------------
(***************************************************************************)
(* Every step keeps it, but the clearing of a place elsewhere.             *)
(***************************************************************************)

\* start_server and accept.
LEMMA StartServerKeeps == ASSUME Distinct, Kept, T!StartServer PROVE Kept'
<1>1. /\ accepting = "out" /\ accepting' = "polling" /\ number[Listener] = 0 /\ ~owns[Listener]
      /\ T!TakeNumber(Listener, T!Min(T!Free)) /\ T!Free # {} /\ opened' = opened \cup {T!Min(T!Free)}
      /\ UNCHANGED <<places, born, gone, serving>>
  BY DEF T!StartServer, Kept, Owners
<1>2. /\ Numbers'
      /\ number' \in [T!Sockets -> Descriptors \cup {0}] /\ owns' \in [T!Sockets -> BOOLEAN]
      /\ opened' \subseteq Descriptors
      /\ \A u \in T!Sockets \ {Listener} : owns'[u] = owns[u] /\ number'[u] = number[u]
  BY <1>1, TakeKeeps DEF Kept
<1>3. Connections \subseteq T!Sockets \ {Listener} /\ Local \in T!Sockets \ {Listener}
  BY DEF T!Sockets, Distinct
<1>4. PeerTypes'
  BY <1>1, <1>2 DEF Kept, PeerTypes, Steps
<1>5. Owners'
  BY <1>1, <1>2, <1>3 DEF Kept, Owners, Alive
<1>6. Places'
  <2>1. \A p \in Connections : number'[p] = number[p] /\ accepting # p /\ accepting' # p
    BY <1>1, <1>2, <1>3 DEF Distinct, Steps
  <2>2. /\ \A d \in Descriptors : places[d] # NoPeer => places[d] \in Connections
        /\ Alive' = Alive /\ Alive \subseteq Connections
    BY <1>1 DEF Kept, PeerTypes, Alive
  <2>3. QED
    BY <1>1, <2>1, <2>2 DEF Kept, Places, Distinct, Steps
<1>7. QED
  BY <1>2, <1>4, <1>5, <1>6 DEF Kept

LEMMA AcceptKeeps == ASSUME Distinct, Kept, T!Accept PROVE Kept'
<1>1. /\ accepting = "polling" /\ accepting' = "accepted" /\ number[Local] = 0 /\ ~owns[Local]
      /\ T!TakeNumber(Local, T!Min(T!Free)) /\ T!Free # {} /\ opened' = opened \cup {T!Min(T!Free)}
      /\ UNCHANGED <<places, born, gone, serving>>
  BY DEF T!Accept, Kept, Owners
<1>2. /\ Numbers'
      /\ number' \in [T!Sockets -> Descriptors \cup {0}] /\ owns' \in [T!Sockets -> BOOLEAN]
      /\ opened' \subseteq Descriptors /\ owns'[Local]
      /\ \A u \in T!Sockets \ {Local} : owns'[u] = owns[u] /\ number'[u] = number[u]
  BY <1>1, TakeKeeps DEF Kept
<1>3. Connections \subseteq T!Sockets \ {Local} /\ Listener \in T!Sockets \ {Local}
  BY DEF T!Sockets, Distinct
<1>4. PeerTypes'
  BY <1>1, <1>2 DEF Kept, PeerTypes, Steps
<1>5. Owners'
  BY <1>1, <1>2, <1>3 DEF Kept, Owners, Alive
<1>6. Places'
  <2>1. \A p \in Connections : number'[p] = number[p] /\ accepting # p /\ accepting' # p
    BY <1>1, <1>2, <1>3 DEF Distinct, Steps
  <2>2. /\ \A d \in Descriptors : places[d] # NoPeer => places[d] \in Connections
        /\ Alive' = Alive /\ Alive \subseteq Connections
    BY <1>1 DEF Kept, PeerTypes, Alive
  <2>3. QED
    BY <1>1, <2>1, <2>2 DEF Kept, Places, Distinct, Steps
<1>7. QED
  BY <1>2, <1>4, <1>5, <1>6 DEF Kept

\* The new peer takes over the number that new_peer owned.
LEMMA HandleNewConnectionKeeps ==
  ASSUME Distinct, Kept, NEW p \in Connections, T!HandleNewConnection(p)
  PROVE  Kept'
<1>1. /\ accepting = "accepted" /\ p \notin born /\ accepting' = p /\ born' = born \cup {p}
      /\ UNCHANGED <<opened, places, gone, serving>>
  BY DEF T!HandleNewConnection
<1>2. /\ p \in T!Sockets /\ Local \in T!Sockets /\ Listener \in T!Sockets /\ p # Local /\ p # Listener
      /\ Connections \subseteq T!Sockets \ {Local}
  BY DEF T!Sockets, Distinct
<1>3. owns[Local] /\ ~owns[p] /\ p \notin gone /\ gone \subseteq born
  BY <1>1 DEF Kept, Owners, Places, Alive
<1>4. /\ number'[p] = number[Local] /\ owns'[p] /\ ~owns'[Local]
      /\ \A u \in T!Sockets \ {p} : number'[u] = number[u]
      /\ \A u \in T!Sockets \ {p, Local} : owns'[u] = owns[u]
      /\ number' \in [T!Sockets -> Descriptors \cup {0}] /\ owns' \in [T!Sockets -> BOOLEAN]
  BY <1>2, <1>3 DEF T!HandleNewConnection, T!CopyFrom, Kept, PeerTypes
<1>5. PeerTypes'
  BY <1>1, <1>4 DEF Kept, PeerTypes
<1>6. Alive' = Alive \cup {p} /\ p \notin Alive /\ Alive \subseteq Connections
  BY <1>1, <1>3 DEF Alive, Kept, PeerTypes
<1>7. Owners'
  <2>1. accepting' \notin Steps
    BY <1>1 DEF Distinct
  <2>2. owns'[Listener] => accepting' \notin {"out", "stopped"}
    BY <2>1 DEF Steps
  <2>3. \A q \in Connections : owns'[q] <=> q \in Alive'
    BY <1>2, <1>4, <1>6 DEF Kept, Owners
  <2>4. QED
    BY <1>4, <2>1, <2>2, <2>3 DEF Owners, Steps
<1>8. Numbers'
  <2>1. \A s \in T!Sockets : owns'[s] => number'[s] \in opened
    BY <1>2, <1>3, <1>4 DEF Kept, Numbers
  <2>2. \A s, u \in T!Sockets : owns'[s] /\ owns'[u] /\ number'[s] = number'[u] => s = u
    BY <1>2, <1>3, <1>4 DEF Kept, Numbers
  <2>3. ASSUME NEW d \in opened PROVE \E s \in T!Sockets : owns'[s] /\ number'[s] = d
    <3>1. PICK s \in T!Sockets : owns[s] /\ number[s] = d
      BY <2>3 DEF Kept, Numbers
    <3>2. CASE s = Local
      BY <1>2, <1>4, <3>1, <3>2
    <3>3. CASE s # Local
      BY <1>3, <1>4, <3>1, <3>3
    <3>4. QED
      BY <3>2, <3>3
  <2>4. QED
    BY <1>1, <2>1, <2>2, <2>3 DEF Numbers
<1>9. Places'
  <2>1. \A d \in Descriptors : places[d] # NoPeer =>
          places[d] \in born /\ places[d] \in Connections /\ places[d] # p
    BY <1>1 DEF Kept, Places, PeerTypes
  <2>2. \A q \in Connections : q # p => number'[q] = number[q]
    BY <1>2, <1>4
  <2>3. \A q \in Connections : accepting # q
    BY <1>1 DEF Distinct, Steps
  <2>4. /\ gone' \subseteq born'
        /\ \A d \in Descriptors : places'[d] # NoPeer => places'[d] \in born'
    BY <1>1, <1>3, <2>1
  <2>5. \A d \in Descriptors :
          places'[d] # NoPeer /\ serving' # d =>
            places'[d] \notin gone' /\ number'[places'[d]] = d /\ accepting' # places'[d]
    BY <1>1, <2>1, <2>2 DEF Kept, Places
  <2>6. \A q \in Alive' : accepting' # q => places'[number'[q]] = q
    BY <1>1, <1>6, <2>2, <2>3 DEF Kept, Places
  <2>7. serving' # 0 => places'[serving'] \in gone'
    BY <1>1 DEF Kept, Places
  <2>8. QED
    BY <1>1, <1>6, <2>4, <2>5, <2>6, <2>7 DEF Places
<1>10. QED
  BY <1>5, <1>7, <1>8, <1>9 DEF Kept

\* The place the new peer is added at is empty: who was there had the same number.
LEMMA AddKeeps ==
  ASSUME Distinct, Kept, NEW p \in Connections, T!Add(p)
  PROVE  Kept'
<1>1. /\ accepting = p /\ accepting' = "added" /\ serving = 0
      /\ places' = [places EXCEPT ![number[p]] = p]
      /\ UNCHANGED <<number, owns, opened, born, gone, serving>>
  BY DEF T!Add, T!Locked
<1>2. p \in Alive /\ p \in T!Sockets /\ p # NoPeer
  BY <1>1 DEF Kept, Places, Distinct, T!Sockets
<1>3. owns[p] /\ number[p] \in Descriptors
  BY <1>2 DEF Kept, Owners, Numbers, PeerTypes
<1>4. \A s \in Connections : owns[s] /\ number[s] = number[p] => s = p
  BY <1>2, <1>3 DEF Kept, Numbers, T!Sockets
<1>5. /\ places'[number[p]] = p
      /\ \A d \in Descriptors : d # number[p] => places'[d] = places[d]
  BY <1>1, <1>3 DEF Kept, PeerTypes
<1>6. PeerTypes'
  BY <1>1, <1>3 DEF Kept, PeerTypes, Steps
<1>7. Owners'
  BY <1>1 DEF Kept, Owners, Distinct, Steps, Alive
<1>8. Numbers'
  BY <1>1 DEF Kept, Numbers
<1>9. Places'
  <2>1. Alive' = Alive /\ Alive \subseteq Connections /\ Alive \subseteq born
    BY <1>1 DEF Alive, Kept, PeerTypes
  <2>2. accepting' \notin Connections
    BY <1>1 DEF Distinct, Steps
  <2>3. \A d \in Descriptors : places'[d] # NoPeer => places'[d] \in born /\ places'[d] \in Connections
    BY <1>2, <1>5, <2>1 DEF Kept, Places, PeerTypes
  <2>4. \A d \in Descriptors :
          places'[d] # NoPeer => places'[d] \notin gone /\ number[places'[d]] = d
    BY <1>1, <1>2, <1>5 DEF Kept, Places, Distinct, Alive
  <2>5. ASSUME NEW q \in Alive PROVE places'[number[q]] = q
    <3>1. CASE q = p
      BY <1>5, <3>1
    <3>2. CASE q # p
      <4>1. places[number[q]] = q /\ owns[q] /\ number[q] \in Descriptors
        BY <1>1, <2>1, <3>2 DEF Kept, Places, Owners, Numbers, PeerTypes, T!Sockets
      <4>2. number[q] # number[p]
        BY <1>4, <2>1, <3>2, <4>1
      <4>3. QED
        BY <1>5, <4>1, <4>2
    <3>3. QED
      BY <3>1, <3>2
  <2>6. gone \subseteq born
    BY DEF Kept, Places
  <2>7. QED
    BY <1>1, <2>1, <2>2, <2>3, <2>4, <2>5, <2>6 DEF Places
<1>10. QED
  BY <1>6, <1>7, <1>8, <1>9 DEF Kept


\* new_peer and the listening socket are destroyed.
LEMMA EndKeeps ==
  ASSUME Distinct, Kept, T!Return \/ T!Stop
  PROVE  Kept' /\ (stray' => stray)
<1> DEFINE s == IF accepting = "added" THEN Local ELSE Listener
<1>1. /\ s \in T!Sockets \ Connections /\ Connections \subseteq T!Sockets \ {s}
      /\ Listener \in T!Sockets /\ Local \in T!Sockets /\ Listener # Local
  BY DEF T!Sockets, Distinct
<1>2. /\ T!Destroy(s) /\ stray' = (stray \/ T!Wild(s)) /\ accepting \in {"added", "polling"}
      /\ IF accepting = "added" THEN accepting' = "polling" ELSE accepting' = "stopped"
      /\ UNCHANGED <<places, born, gone, serving>>
  BY DEF T!Return, T!Stop
<1>3. \/ s = Local /\ accepting' = "polling" /\ accepting = "added"
      \/ s = Listener /\ accepting' = "stopped" /\ accepting = "polling"
  <2>1. CASE accepting = "added"
    BY <1>2, <2>1
  <2>2. CASE accepting = "polling"
    BY <1>2, <2>2
  <2>3. QED
    BY <1>2, <2>1, <2>2
<1> HIDE DEF s
<1>4. /\ Numbers' /\ ~T!Wild(s)
      /\ number' \in [T!Sockets -> Descriptors \cup {0}] /\ owns' \in [T!Sockets -> BOOLEAN]
      /\ opened' \subseteq Descriptors
      /\ ~owns'[s] /\ number'[s] = 0
      /\ \A u \in T!Sockets \ {s} : owns'[u] = owns[u] /\ number'[u] = number[u]
  BY <1>1, <1>2, DestroyKeeps DEF Kept
<1>5. PeerTypes'
  BY <1>2, <1>3, <1>4 DEF Kept, PeerTypes, Steps
<1>6. Owners'
  <2>1. \A p \in Connections : owns'[p] <=> p \in Alive'
    BY <1>1, <1>2, <1>4 DEF Kept, Owners, Alive
  <2>2. ~owns[Local]
    BY <1>2 DEF Kept, Owners
  <2>3. QED
    BY <1>1, <1>2, <1>3, <1>4, <2>1, <2>2 DEF Kept, Owners
<1>7. Places'
  <2>1. \A p \in Connections : number'[p] = number[p] /\ accepting # p /\ accepting' # p
    BY <1>1, <1>2, <1>3, <1>4 DEF Distinct, Steps
  <2>2. /\ \A d \in Descriptors : places[d] # NoPeer => places[d] \in Connections
        /\ Alive' = Alive /\ Alive \subseteq Connections
    BY <1>2 DEF Kept, PeerTypes, Alive
  <2>3. QED
    BY <1>2, <1>3, <2>1, <2>2 DEF Kept, Places, Distinct, Steps
<1>8. QED
  BY <1>2, <1>4, <1>5, <1>6, <1>7 DEF Kept

\* A peer is deleted, and its number is free while its place is not.
LEMMA DeletePeerKeeps ==
  ASSUME Distinct, Kept, NEW d \in Descriptors, T!DeletePeer(d)
  PROVE  Kept' /\ (stray' => stray)
<1> DEFINE p == places[d]
<1>1. /\ serving = 0 /\ p # NoPeer /\ T!Destroy(p) /\ stray' = (stray \/ T!Wild(p))
      /\ gone' = gone \cup {p} /\ serving' = d
      /\ UNCHANGED <<places, born, accepting>>
  BY DEF T!DeletePeer
<1>2. d # 0 /\ p \in born /\ p \notin gone /\ number[p] = d /\ accepting # p
  BY <1>1 DEF Kept, Places, Distinct
<1>3. /\ p \in Connections /\ p \in T!Sockets /\ Connections \subseteq T!Sockets
      /\ Listener \in T!Sockets \ {p} /\ Local \in T!Sockets \ {p}
  BY <1>2 DEF Kept, PeerTypes, T!Sockets, Distinct
<1> HIDE DEF p
<1>4. /\ Numbers' /\ ~T!Wild(p)
      /\ number' \in [T!Sockets -> Descriptors \cup {0}] /\ owns' \in [T!Sockets -> BOOLEAN]
      /\ opened' \subseteq Descriptors
      /\ ~owns'[p] /\ number'[p] = 0
      /\ \A u \in T!Sockets \ {p} : owns'[u] = owns[u] /\ number'[u] = number[u]
  BY <1>1, <1>3, DestroyKeeps DEF Kept
<1>5. Alive' = Alive \ {p} /\ p \in Alive /\ Alive \subseteq Connections
  BY <1>1, <1>2 DEF Alive, Kept, PeerTypes
<1>6. PeerTypes'
  BY <1>1, <1>4 DEF Kept, PeerTypes
<1>7. Owners'
  <2>1. \A q \in Connections : owns'[q] <=> q \in Alive'
    BY <1>3, <1>4, <1>5 DEF Kept, Owners
  <2>2. QED
    BY <1>1, <1>3, <1>4, <2>1 DEF Kept, Owners
<1>8. Places'
  <2>1. \A e \in Descriptors : places[e] # NoPeer => places[e] \in born /\ places[e] \in Connections
    BY DEF Kept, Places, PeerTypes
  <2>2. ASSUME NEW e \in Descriptors, places'[e] # NoPeer, serving' # e
        PROVE  places'[e] \notin gone' /\ number'[places'[e]] = e /\ accepting' # places'[e]
    <3>1. places[e] \notin gone /\ number[places[e]] = e /\ accepting # places[e] /\ e # d
      BY <1>1, <2>2 DEF Kept, Places, Distinct
    <3>2. places[e] # p /\ places[e] \in Connections
      BY <1>1, <1>2, <2>1, <2>2, <3>1
    <3>3. QED
      BY <1>1, <1>3, <1>4, <3>1, <3>2
  <2>3. \A q \in Alive' : accepting' # q => places'[number'[q]] = q
    BY <1>1, <1>3, <1>4, <1>5 DEF Kept, Places
  <2>4. accepting' \in Connections => accepting' \in Alive'
    BY <1>1, <1>2, <1>5 DEF Kept, Places
  <2>5. gone' \subseteq born' /\ places'[serving'] \in gone'
    BY <1>1, <1>2 DEF Kept, Places, p
  <2>6. QED
    BY <1>1, <2>1, <2>2, <2>3, <2>4, <2>5 DEF Places
<1>9. QED
  BY <1>1, <1>4, <1>6, <1>7, <1>8 DEF Kept

\* A step, whatever it is.
LEMMA KeptStep ==
  ASSUME Distinct, Kept, [T!Next]_peerVars
  PROVE  stray' \/ Kept'
<1>1. CASE T!StartServer
  BY <1>1, StartServerKeeps DEF T!StartServer
<1>2. CASE T!Serve
  BY <1>2, AcceptKeeps, HandleNewConnectionKeeps, AddKeeps, EndKeeps
     DEF T!Serve, T!Accept, T!HandleNewConnection, T!Add
<1>3. CASE T!Stop
  BY <1>3, EndKeeps
<1>4. ASSUME NEW d \in Descriptors, T!HangUp(d) PROVE Kept' /\ (stray' => stray)
  BY <1>4 DEF T!HangUp, Kept, PeerTypes, Owners, Numbers, Places, Alive
<1>5. ASSUME NEW d \in Descriptors, T!DeletePeer(d) PROVE Kept' /\ (stray' => stray)
  BY <1>5, DeletePeerKeeps
<1>6. CASE T!ClearPlace
  BY <1>6 DEF T!ClearPlace
<1>7. CASE UNCHANGED peerVars
  BY <1>7 DEF peerVars, Kept, PeerTypes, Owners, Numbers, Places, Alive
<1>8. QED
  BY <1>1, <1>2, <1>3, <1>4, <1>5, <1>6, <1>7 DEF T!Next

-----------------------------------------------------------------------------
(***************************************************************************)
(* What follows.                                                           *)
(***************************************************************************)

\* The module of the connections has an instance of Cardinality of its own.
LEMMA SameCardinality == \A A : T!Cardinality(A) = Cardinality(A)
BY DEF T!Cardinality, Cardinality

LEMMA KeptSays == ASSUME Distinct, Kept PROVE T!OneOwner /\ T!Registered
<1>1. ASSUME NEW d \in opened
      PROVE  Cardinality({s \in T!Sockets : owns[s] /\ number[s] = d}) = 1
  <2>1. PICK s \in T!Sockets : owns[s] /\ number[s] = d
    BY DEF Kept, Numbers
  <2>2. {u \in T!Sockets : owns[u] /\ number[u] = d} = {s}
    BY <2>1 DEF Kept, Numbers
  <2>3. QED
    BY <2>2, FS_Singleton
<1>2. \A s \in T!Sockets : owns[s] => number[s] \in opened
  BY DEF Kept, Numbers
<1>3. ASSUME NEW d \in Descriptors, places[d] # NoPeer, serving # d
      PROVE  places[d] \notin gone /\ owns[places[d]] /\ number[places[d]] = d
  <2>1. /\ places[d] \in born /\ places[d] \notin gone /\ number[places[d]] = d
        /\ places[d] \in Connections
    BY <1>3 DEF Kept, Places, PeerTypes
  <2>2. QED
    BY <2>1 DEF Kept, Owners, Alive
<1>4. QED
  BY <1>1, <1>2, <1>3, SameCardinality DEF Kept, Places, Alive, T!OneOwner, T!Registered

\* Once a place was cleared elsewhere nothing is said.
PeerInv == stray \/ Kept

-----------------------------------------------------------------------------
(***************************************************************************)
(* Together: a step of one of them leaves the other ones alone.            *)
(***************************************************************************)
LEMMA BytePart == FairSpecAll => B!Spec
<1>1. InitAll => B!Init
  BY DEF InitAll
<1>2. [NextAll]_allVars => [B!Next]_(B!byteVars)
  BY DEF NextAll, Others, allVars, byteVars, B!byteVars, B!hostVars, B!callVars, B!lineVars
<1>3. QED
  BY <1>1, <1>2, PTL DEF FairSpecAll, B!Spec

LEMMA PeersPart == FairSpecAll => T!Init /\ [][T!Next]_peerVars
<1>1. InitAll => T!Init
  BY DEF InitAll
<1>2. [NextAll]_allVars => [T!Next]_peerVars
  BY DEF NextAll, Others, allVars, peerVars
<1>3. QED
  BY <1>1, <1>2, PTL DEF FairSpecAll

\* A byte of the protocol is what it was when nothing happens.
LEMMA ByteStutters ==
  ASSUME UNCHANGED B!byteVars
  PROVE  /\ ByteTypes => ByteTypes'
         /\ ReplyInv => ReplyInv'
         /\ EventInv => EventInv'
<1>1. UNCHANGED byteVars
  BY DEF byteVars, B!byteVars, B!hostVars, B!callVars, B!lineVars
<1>2. ByteTypes => ByteTypes'
  BY <1>1 DEF byteVars, ByteTypes
<1>3. ReplyInv => ReplyInv'
  BY <1>1 DEF byteVars, ReplyInv, B!OwnReply
<1>4. EventInv => EventInv'
  BY <1>1 DEF byteVars, EventInv, AllPackets
<1>5. QED
  BY <1>2, <1>3, <1>4

\* Every packet the controller sends by itself gets into the inbox whole, once and in order
\* (serialbyte.h, compileResponse), whoever asks for what in the meantime, unless the line
\* loses a byte or is synchronized.
THEOREM EventsAlwaysKept == FairSpecAll => []B!EventsKept
<1>1. B!Init => ByteTypes /\ EventInv
  BY ByteAtFirst
<1>2. ByteTypes /\ EventInv /\ [B!Next]_(B!byteVars) => (ByteTypes /\ EventInv)'
  BY ByteStutters, ByteTypesNext, EventInvNext
<1>3. EventInv => B!EventsKept
  BY EventInvSays
<1>4. QED
  BY <1>1, <1>2, <1>3, BytePart, PTL DEF B!Spec

\* A thread that asks alone, and asks again when no reply can come any more, never gets the
\* reply to another request, whatever bytes are lost and whatever is sent besides; and the
\* events are kept.
THEOREM BytesAlwaysServed ==
  ASSUME Punctual, \A c, d \in Callers : c = d
  PROVE  FairSpecAll => []SerialByteServes
<1>1. B!Init => ByteTypes /\ ReplyInv /\ EventInv
  BY ByteAtFirst
<1>2. ByteTypes /\ ReplyInv /\ EventInv /\ [B!Next]_(B!byteVars) =>
        (ByteTypes /\ ReplyInv /\ EventInv)'
  BY ByteStutters, ByteTypesNext, ReplyInvNext, EventInvNext
<1>3. ReplyInv /\ EventInv => SerialByteServes
  BY EventInvSays DEF ReplyInv, SerialByteServes, B!SerialByteServes
<1>4. QED
  BY <1>1, <1>2, <1>3, BytePart, PTL DEF B!Spec

LEMMA TheyAreDistinct == Distinct
BY LinesAssumption DEF Distinct, Steps

\* A connection is registered where its descriptor is, and every open descriptor has one
\* owner (tcp_peer.cpp, hostsocket.hpp), through everything that is accepted, copied,
\* added and closed, and when the number of a closed connection is given to the next one:
\* until remove_descriptor has asked a deleted peer for its place.
THEOREM PeersAlwaysKept == FairSpecAll => []T!PeersKept
<1>1. T!Init => PeerInv
  BY TheyAreDistinct, KeptAtFirst DEF PeerInv
<1>2. PeerInv /\ [T!Next]_peerVars => PeerInv'
  <2>1. ASSUME stray, [T!Next]_peerVars PROVE stray'
    BY <2>1 DEF T!Next, T!StartServer, T!Serve, T!Stop, T!Accept, T!HandleNewConnection, T!Add, T!Return,
                T!HangUp, T!DeletePeer, T!ClearPlace, peerVars
  <2>2. QED
    BY <2>1, TheyAreDistinct, KeptStep DEF PeerInv
<1>3. PeerInv => T!PeersKept
  BY TheyAreDistinct, KeptSays DEF PeerInv, T!PeersKept
<1>4. QED
  BY <1>1, <1>2, <1>3, PeersPart, PTL
=============================================================================
