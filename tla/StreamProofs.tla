---------------------------- MODULE StreamProofs ----------------------------
(***************************************************************************)
(* Proofs about streams of bytes: the serial ports, the channel between    *)
(* threads and messages (SerialPort.tla, WinPort.tla, IpChannel.tla and    *)
(* SimpleMessages.tla, in Lines.tla), for every value of the constants.    *)
(* The settings come back; what is posted is written whole, once and in    *)
(* order; what is read is handed out in order; who terminates a port is    *)
(* told when its reader has stopped; what is pushed is passed on; and      *)
(* messages implement a packet channel.                                    *)
(***************************************************************************)
EXTENDS Lines, FiniteSetTheorems, SequenceTheorems, FunctionTheorems, WellFoundedInduction,
        TLAPS

-----------------------------------------------------------------------------
(***************************************************************************)
(* Sequences: what is in them, how often, and in which order.              *)
(***************************************************************************)
Elements(s) == {s[i] : i \in DOMAIN s}
Once(s) == \A i, j \in DOMAIN s : s[i] = s[j] => i = j
Before(s, b, c) == \E i, j \in DOMAIN s : i < j /\ s[i] = b /\ s[j] = c

\* The community modules say the same of them.
LEMMA Same ==
  ASSUME NEW s
  PROVE  R!ToSet(s) = Elements(s) /\ (R!IsInjective(s) <=> Once(s))
BY DEF Elements, Once, R!ToSet, R!IsInjective

LEMMA ElementsIn ==
  ASSUME NEW A, NEW s \in Seq(A)
  PROVE  Elements(s) \subseteq A
<1>1. DOMAIN s = 1..Len(s) /\ \A i \in 1..Len(s) : s[i] \in A
  OBVIOUS
<1>2. QED
  BY <1>1 DEF Elements

LEMMA EmptyHasNone ==
  /\ Elements(<<>>) = {} /\ Once(<<>>) /\ \A b, c : ~Before(<<>>, b, c)
  /\ \A A : <<>> \in Seq(A)
BY DEF Elements, Once, Before

LEMMA JoinedAt ==
  ASSUME NEW A, NEW x \in Seq(A), NEW y \in Seq(A)
  PROVE  /\ x \o y \in Seq(A) /\ Len(x) \in Nat /\ Len(y) \in Nat
         /\ DOMAIN x = 1..Len(x) /\ DOMAIN y = 1..Len(y)
         /\ DOMAIN (x \o y) = 1..Len(x) + Len(y)
         /\ \A i \in DOMAIN x : i \in DOMAIN (x \o y) /\ (x \o y)[i] = x[i]
         /\ \A i \in DOMAIN y : Len(x) + i \in DOMAIN (x \o y) /\ (x \o y)[Len(x) + i] = y[i]
         /\ \A i \in DOMAIN (x \o y) : \/ i \in DOMAIN x
                                       \/ i > Len(x) /\ i - Len(x) \in DOMAIN y
                                            /\ (x \o y)[i] = y[i - Len(x)]
<1>1. /\ x \o y \in Seq(A) /\ Len(x \o y) = Len(x) + Len(y)
      /\ \A i \in 1..Len(x) + Len(y) : (x \o y)[i] = IF i <= Len(x) THEN x[i] ELSE y[i - Len(x)]
  BY ConcatProperties
<1>2. PICK z : z = x \o y
  OBVIOUS
<1>3. /\ z \in Seq(A) /\ Len(z) = Len(x) + Len(y) /\ Len(x) \in Nat /\ Len(y) \in Nat
      /\ \A i \in 1..Len(x) + Len(y) : z[i] = IF i <= Len(x) THEN x[i] ELSE y[i - Len(x)]
      /\ DOMAIN x = 1..Len(x) /\ DOMAIN y = 1..Len(y) /\ DOMAIN z = 1..Len(x) + Len(y)
  BY <1>1, <1>2
<1>4. \A i \in DOMAIN x : i \in DOMAIN z /\ z[i] = x[i]
  BY <1>3
<1>5. ASSUME NEW i \in DOMAIN y PROVE Len(x) + i \in DOMAIN z /\ z[Len(x) + i] = y[i]
  <2>1. i \in 1..Len(y) /\ Len(x) + i \in 1..Len(x) + Len(y) /\ ~(Len(x) + i <= Len(x))
        /\ (Len(x) + i) - Len(x) = i
    BY <1>3
  <2>2. QED
    BY <1>3, <2>1
<1>6. \A i \in DOMAIN z : \/ i \in DOMAIN x
                          \/ i > Len(x) /\ i - Len(x) \in DOMAIN y /\ z[i] = y[i - Len(x)]
  BY <1>3
<1>7. QED
  BY <1>2, <1>3, <1>4, <1>5, <1>6

LEMMA Joined ==
  ASSUME NEW A, NEW x \in Seq(A), NEW y \in Seq(A)
  PROVE  /\ x \o y \in Seq(A)
         /\ Elements(x \o y) = Elements(x) \cup Elements(y)
         /\ Once(x \o y) <=> Once(x) /\ Once(y) /\ Elements(x) \cap Elements(y) = {}
         /\ \A b, c : Before(x \o y, b, c) <=>
              Before(x, b, c) \/ Before(y, b, c) \/ (b \in Elements(x) /\ c \in Elements(y))
<1>1. PICK z : z = x \o y
  OBVIOUS
<1>2. /\ z \in Seq(A) /\ Len(x) \in Nat /\ Len(y) \in Nat
      /\ DOMAIN x = 1..Len(x) /\ DOMAIN y = 1..Len(y)
      /\ DOMAIN z = 1..Len(x) + Len(y)
      /\ \A i \in DOMAIN x : i \in DOMAIN z /\ z[i] = x[i]
      /\ \A i \in DOMAIN y : Len(x) + i \in DOMAIN z /\ z[Len(x) + i] = y[i]
      /\ \A i \in DOMAIN z : \/ i \in DOMAIN x
                             \/ i > Len(x) /\ i - Len(x) \in DOMAIN y /\ z[i] = y[i - Len(x)]
  BY <1>1, JoinedAt
<1>3. Elements(z) = Elements(x) \cup Elements(y)
  BY <1>2 DEF Elements
<1>4. ASSUME Once(z) PROVE Once(x) /\ Once(y) /\ Elements(x) \cap Elements(y) = {}
  <2>1. Once(x)
    BY <1>2, <1>4 DEF Once
  <2>2. ASSUME NEW i \in DOMAIN y, NEW j \in DOMAIN y, y[i] = y[j] PROVE i = j
    <3>1. Len(x) + i = Len(x) + j
      BY <1>2, <1>4, <2>2 DEF Once
    <3>2. QED
      BY <1>2, <3>1
  <2>3. ASSUME NEW i \in DOMAIN x, NEW j \in DOMAIN y, x[i] = y[j] PROVE FALSE
    <3>1. i = Len(x) + j
      BY <1>2, <1>4, <2>3 DEF Once
    <3>2. QED
      BY <1>2, <3>1
  <2>4. QED
    BY <2>1, <2>2, <2>3 DEF Once, Elements
<1>5. ASSUME Once(x), Once(y), Elements(x) \cap Elements(y) = {} PROVE Once(z)
  <2>1. \A i \in DOMAIN x, j \in DOMAIN y : x[i] # y[j]
    BY <1>5 DEF Elements
  <2>2. ASSUME NEW i \in DOMAIN z, NEW j \in DOMAIN z, z[i] = z[j] PROVE i = j
    <3>1. CASE i \in DOMAIN x
      BY <1>2, <1>5, <2>1, <2>2, <3>1 DEF Once
    <3>2. CASE i > Len(x) /\ i - Len(x) \in DOMAIN y /\ z[i] = y[i - Len(x)]
      <4>1. j > Len(x) /\ j - Len(x) \in DOMAIN y /\ z[j] = y[j - Len(x)]
        BY <1>2, <2>1, <2>2, <3>2
      <4>2. i - Len(x) = j - Len(x)
        BY <1>5, <2>2, <3>2, <4>1 DEF Once
      <4>3. QED
        BY <1>2, <4>2
    <3>3. QED
      BY <1>2, <3>1, <3>2
  <2>3. QED
    BY <2>2 DEF Once
<1>6. ASSUME NEW b, NEW c, Before(z, b, c)
      PROVE  Before(x, b, c) \/ Before(y, b, c) \/ (b \in Elements(x) /\ c \in Elements(y))
  <2>1. PICK i, j \in DOMAIN z : i < j /\ z[i] = b /\ z[j] = c
    BY <1>6 DEF Before
  <2>2. CASE i \in DOMAIN x /\ j \in DOMAIN x
    BY <1>2, <2>1, <2>2 DEF Before
  <2>3. CASE i \in DOMAIN x /\ j \notin DOMAIN x
    BY <1>2, <2>1, <2>3 DEF Elements
  <2>4. CASE i \notin DOMAIN x
    <3>1. i > Len(x) /\ i - Len(x) \in DOMAIN y /\ z[i] = y[i - Len(x)]
      BY <1>2, <2>4
    <3>2. j > Len(x) /\ j - Len(x) \in DOMAIN y /\ z[j] = y[j - Len(x)] /\ i - Len(x) < j - Len(x)
      BY <1>2, <2>1, <3>1
    <3>3. QED
      BY <2>1, <3>1, <3>2 DEF Before
  <2>5. QED
    BY <2>2, <2>3, <2>4
<1>7. ASSUME NEW b, NEW c, Before(x, b, c) PROVE Before(z, b, c)
  BY <1>2, <1>7 DEF Before
<1>8. ASSUME NEW b, NEW c, Before(y, b, c) PROVE Before(z, b, c)
  <2>1. PICK i, j \in DOMAIN y : i < j /\ y[i] = b /\ y[j] = c
    BY <1>8 DEF Before
  <2>2. Len(x) + i < Len(x) + j
    BY <1>2, <2>1
  <2>3. QED
    BY <1>2, <2>1, <2>2 DEF Before
<1>9. ASSUME NEW b \in Elements(x), NEW c \in Elements(y) PROVE Before(z, b, c)
  <2>1. PICK i \in DOMAIN x : x[i] = b
    BY DEF Elements
  <2>2. PICK j \in DOMAIN y : y[j] = c
    BY DEF Elements
  <2>3. i < Len(x) + j
    BY <1>2
  <2>4. QED
    BY <1>2, <2>1, <2>2, <2>3 DEF Before
<1>10. QED
  BY <1>1, <1>2, <1>3, <1>4, <1>5, <1>6, <1>7, <1>8, <1>9

\* A sequence is what is in front of a place and what is behind it.
LEMMA Cut ==
  ASSUME NEW A, NEW x \in Seq(A), NEW n \in Nat, n <= Len(x)
  PROVE  /\ SubSeq(x, 1, n) \in Seq(A) /\ SubSeq(x, n + 1, Len(x)) \in Seq(A)
         /\ x = SubSeq(x, 1, n) \o SubSeq(x, n + 1, Len(x))
         /\ n = Len(x) => SubSeq(x, n + 1, Len(x)) = <<>> /\ SubSeq(x, 1, n) = x
<1>1. Len(x) \in Nat
  OBVIOUS
<1>2. SubSeq(x, 1, n) \o SubSeq(x, n + 1, Len(x)) = SubSeq(x, 1, Len(x))
  <2>1. 1 \in 1..Len(x) + 1 /\ n \in 1 - 1..Len(x) /\ Len(x) \in n..Len(x)
    BY <1>1
  <2>2. QED
    BY <2>1, ConcatAdjacentSubSeq
<1>3. SubSeq(x, 1, Len(x)) = x
  BY SubSeqFull
<1>4. n = Len(x) => SubSeq(x, n + 1, Len(x)) = <<>>
  BY <1>1, SubSeqEmpty
<1>5. \A i \in 1..Len(x) : x[i] \in A
  OBVIOUS
<1>6. SubSeq(x, 1, n) \in Seq(A)
  BY <1>1, <1>5, SubSeqProperties
<1>7. SubSeq(x, n + 1, Len(x)) \in Seq(A)
  BY <1>1, <1>5, SubSeqProperties
<1>8. QED
  BY <1>2, <1>3, <1>4, <1>6, <1>7

LEMMA Regrouped ==
  ASSUME NEW A, NEW s \in Seq(A), NEW t \in Seq(A), NEW u \in Seq(A)
  PROVE  (s \o t) \o u = s \o (t \o u)
BY ConcatAssociative

LEMMA RegroupedText == \A s, t, u \in Seq(Nat) : (s \o t) \o u = s \o (t \o u)
BY ConcatAssociative, SMTT(40)

LEMMA PairIs ==
  ASSUME NEW A, NEW x \in A, NEW y \in A
  PROVE  /\ <<x, y>> \in Seq(A) /\ Elements(<<x, y>>) = {x, y}
         /\ \A b, c : Before(<<x, y>>, b, c) <=> b = x /\ c = y
<1>1. PICK s : s = <<x, y>>
  OBVIOUS
<1>2. s \in Seq(A) /\ DOMAIN s = {1, 2} /\ s[1] = x /\ s[2] = y
  BY <1>1
<1>3. Elements(s) = {x, y} /\ \A b, c : Before(s, b, c) <=> b = x /\ c = y
  BY <1>2 DEF Elements, Before
<1>4. QED
  BY <1>1, <1>2, <1>3

LEMMA SingleIs ==
  ASSUME NEW A, NEW x \in A
  PROVE  /\ <<x>> \in Seq(A) /\ Elements(<<x>>) = {x}
         /\ \A b, c : ~Before(<<x>>, b, c)
<1>1. PICK s : s = <<x>>
  OBVIOUS
<1>2. s \in Seq(A) /\ DOMAIN s = {1} /\ s[1] = x
  BY <1>1
<1>3. Elements(s) = {x} /\ \A b, c : ~Before(s, b, c)
  BY <1>2 DEF Elements, Before
<1>4. QED
  BY <1>1, <1>2, <1>3

\* What is not the head of a queue is its tail.
LEMMA QueueIs ==
  ASSUME NEW A, NEW s \in Seq(A), s # <<>>
  PROVE  Head(s) \in A /\ Tail(s) \in Seq(A) /\ s = <<Head(s)>> \o Tail(s)
<1>1. Len(s) \in Nat /\ 1 <= Len(s) /\ Head(s) = s[1] /\ s[1] \in A
  BY EmptySeq
<1>2. Tail(s) \in Seq(A) /\ Tail(s) = SubSeq(s, 2, Len(s))
  BY HeadTailProperties, TailIsSubSeq
<1>3. SubSeq(s, 1, Len(s)) = <<s[1]>> \o SubSeq(s, 1 + 1, Len(s))
  <2>1. 1 \in 1..Len(s) /\ Len(s) \in 1..Len(s)
    BY <1>1
  <2>2. QED
    BY <2>1, SubSeqRecursiveFirst
<1>4. SubSeq(s, 1, Len(s)) = s
  BY SubSeqFull
<1>5. QED
  BY <1>1, <1>2, <1>3, <1>4

-----------------------------------------------------------------------------
(***************************************************************************)
(* Output of the serial port.  sent is what is on the wire and what        *)
(* outBuf still holds, shed what was given up, part what is left to each   *)
(* sender, accept what was taken over, order the messages that were        *)
(* posted, where the place of each sender.                                 *)
(***************************************************************************)
PortBytes == Messages \X (1..MessageSize)
SenderPlaces == {"new", "writing", "sent", "refused"}

Early(order, b, c) == (b[1] = c[1] /\ b[2] < c[2]) \/ Before(order, b[1], c[1])

OutRight(sent, shed, part, accept, order, where) ==
  /\ sent \in Seq(PortBytes) /\ part \in [Messages -> Seq(PortBytes)]
  /\ order \in Seq(Messages) /\ where \in [Messages -> SenderPlaces]
  /\ Once(sent)
  /\ \A b : b \in accept <=>
       b \in Elements(sent) \/ b \in shed \/ \E m \in Messages : b \in Elements(part[m])
  /\ \A b \in shed : b \notin Elements(sent)
  /\ \A m \in Messages :
       /\ Once(part[m])
       /\ \A b \in Elements(part[m]) : b[1] = m /\ b \notin Elements(sent) /\ b \notin shed
       /\ where[m] # "writing" => part[m] = <<>>
       /\ where[m] = "new" => \A b \in Elements(sent) \cup shed : b[1] # m
       /\ where[m] \in {"new", "writing"} => m \notin Elements(order)
       /\ m \in Elements(order) => Elements(R!Bytes(m)) \subseteq Elements(sent) \cup shed
  /\ \A b, c : Before(sent, b, c) /\ b[1] \in Elements(order) /\ c[1] \in Elements(order) =>
       Early(order, b, c)

LEMMA BytesAre ==
  ASSUME NEW m \in Messages
  PROVE  /\ R!Bytes(m) \in Seq(PortBytes) /\ Once(R!Bytes(m))
         /\ \A b \in Elements(R!Bytes(m)) : b[1] = m
         /\ \A b, c : Before(R!Bytes(m), b, c) => b[1] = c[1] /\ b[2] < c[2]
<1>1. MessageSize \in Nat
  BY LinesAssumption
<1>2. PICK x : x = [i \in 1..MessageSize |-> <<m, i>>]
  OBVIOUS
<1>3. x = R!Bytes(m)
  BY <1>2 DEF R!Bytes
<1>4. x \in [1..MessageSize -> PortBytes] /\ DOMAIN x = 1..MessageSize /\ \A i \in DOMAIN x : x[i] = <<m, i>>
  <2>1. DOMAIN x = 1..MessageSize /\ \A i \in DOMAIN x : x[i] = <<m, i>>
    BY <1>2
  <2>2. \A i \in 1..MessageSize : <<m, i>> \in PortBytes
    BY DEF PortBytes
  <2>3. x \in [1..MessageSize -> PortBytes]
    BY <1>2, <2>2
  <2>4. QED
    BY <2>1, <2>3
<1>5. x \in Seq(PortBytes)
  BY <1>1, <1>4
<1>6. Once(x)
  BY <1>4 DEF Once
<1>7. \A b \in Elements(x) : b[1] = m
  BY <1>4 DEF Elements
<1>8. \A b, c : Before(x, b, c) => b[1] = c[1] /\ b[2] < c[2]
  BY <1>4 DEF Before
<1>9. QED
  BY <1>3, <1>5, <1>6, <1>7, <1>8

\* post.
LEMMA PostRight ==
  ASSUME NEW sent, NEW shed, NEW part, NEW accept, NEW order, NEW where,
         OutRight(sent, shed, part, accept, order, where), NEW m \in Messages, where[m] = "new"
  PROVE  OutRight(sent \o R!Bytes(m), shed, part, accept \cup Elements(R!Bytes(m)), Append(order, m),
                  [where EXCEPT ![m] = "sent"])
<1>1. PICK x : x = R!Bytes(m)
  OBVIOUS
<1>2. /\ x \in Seq(PortBytes) /\ Once(x) /\ \A b \in Elements(x) : b[1] = m
      /\ \A b, c : Before(x, b, c) => b[1] = c[1] /\ b[2] < c[2]
  BY <1>1, BytesAre
<1>3. PICK longer : longer = sent \o x
  OBVIOUS
<1>4. sent \in Seq(PortBytes) /\ order \in Seq(Messages) /\ part \in [Messages -> Seq(PortBytes)]
      /\ where \in [Messages -> SenderPlaces]
  BY DEF OutRight
<1>5. /\ longer \in Seq(PortBytes) /\ Elements(longer) = Elements(sent) \cup Elements(x)
      /\ Once(longer) <=> Once(sent) /\ Once(x) /\ Elements(sent) \cap Elements(x) = {}
      /\ \A b, c : Before(longer, b, c) <=>
           Before(sent, b, c) \/ Before(x, b, c) \/ (b \in Elements(sent) /\ c \in Elements(x))
  BY <1>2, <1>3, <1>4, Joined
<1>6. PICK more : more = Append(order, m)
  OBVIOUS
<1>7. /\ more \in Seq(Messages) /\ Elements(more) = Elements(order) \cup {m}
      /\ \A b, c : Before(order, b, c) => Before(more, b, c)
      /\ \A b \in Elements(order) : Before(more, b, m)
  <2>1. /\ more \in Seq(Messages) /\ Len(more) = Len(order) + 1 /\ Len(order) \in Nat
        /\ \A i \in 1..Len(order) : more[i] = order[i]
        /\ more[Len(order) + 1] = m
    BY <1>4, <1>6
  <2>2. DOMAIN order = 1..Len(order) /\ DOMAIN more = 1..Len(order) + 1
    BY <1>4, <2>1
  <2>3. Elements(more) = Elements(order) \cup {m}
    BY <2>1, <2>2 DEF Elements
  <2>4. \A b, c : Before(order, b, c) => Before(more, b, c)
    BY <2>1, <2>2 DEF Before
  <2>5. ASSUME NEW b \in Elements(order) PROVE Before(more, b, m)
    <3>1. PICK i \in 1..Len(order) : order[i] = b
      BY <2>2 DEF Elements
    <3>2. i < Len(order) + 1
      BY <2>1
    <3>3. QED
      BY <2>1, <2>2, <3>1, <3>2 DEF Before
  <2>6. QED
    BY <2>1, <2>3, <2>4, <2>5
<1>8. PICK then : then = [where EXCEPT ![m] = "sent"]
  OBVIOUS
<1>9. /\ then \in [Messages -> SenderPlaces] /\ then[m] = "sent"
      /\ \A k \in Messages : k # m => then[k] = where[k]
  BY <1>4, <1>8 DEF SenderPlaces
<1>10. part[m] = <<>> /\ m \notin Elements(order) /\ \A b \in Elements(sent) \cup shed : b[1] # m
  BY DEF OutRight
<1>11. Once(longer)
  BY <1>2, <1>5, <1>10 DEF OutRight
<1>12. ASSUME NEW k \in Messages
       PROVE  /\ Once(part[k])
              /\ \A b \in Elements(part[k]) : b[1] = k /\ b \notin Elements(longer) /\ b \notin shed
              /\ then[k] # "writing" => part[k] = <<>>
              /\ then[k] = "new" => \A b \in Elements(longer) \cup shed : b[1] # k
              /\ then[k] \in {"new", "writing"} => k \notin Elements(more)
              /\ k \in Elements(more) => Elements(R!Bytes(k)) \subseteq Elements(longer) \cup shed
  <2>1. CASE k = m
    BY <1>1, <1>5, <1>7, <1>9, <1>10, <2>1, EmptyHasNone
  <2>2. CASE k # m
    BY <1>2, <1>5, <1>7, <1>9, <2>2 DEF OutRight
  <2>3. QED
    BY <2>1, <2>2
<1>13. ASSUME NEW b, NEW c, Before(longer, b, c), b[1] \in Elements(more), c[1] \in Elements(more)
       PROVE  Early(more, b, c)
  <2>1. CASE Before(sent, b, c)
    <3>1. b \in Elements(sent) /\ c \in Elements(sent)
      BY <2>1 DEF Before, Elements
    <3>2. Early(order, b, c)
      BY <1>7, <1>10, <1>13, <2>1, <3>1 DEF OutRight
    <3>3. QED
      BY <1>7, <3>2 DEF Early
  <2>2. CASE Before(x, b, c)
    BY <1>2, <2>2 DEF Early
  <2>3. CASE b \in Elements(sent) /\ c \in Elements(x)
    BY <1>2, <1>7, <1>10, <1>13, <2>3 DEF Early
  <2>4. QED
    BY <1>5, <1>13, <2>1, <2>2, <2>3
<1>14. \A b : b \in accept \cup Elements(x) <=>
         b \in Elements(longer) \/ b \in shed \/ \E k \in Messages : b \in Elements(part[k])
  BY <1>5 DEF OutRight
<1>15. \A b \in shed : b \notin Elements(longer)
  BY <1>2, <1>5, <1>10 DEF OutRight
<1>16. OutRight(longer, shed, part, accept \cup Elements(x), more, then)
  BY <1>15, <1>4, <1>5, <1>7, <1>9, <1>11, <1>12, <1>13, <1>14 DEF OutRight
<1>17. QED
  BY <1>1, <1>3, <1>6, <1>8, <1>16

\* post without room.
LEMMA RefuseRight ==
  ASSUME NEW sent, NEW shed, NEW part, NEW accept, NEW order, NEW where,
         OutRight(sent, shed, part, accept, order, where), NEW m \in Messages, where[m] = "new"
  PROVE  OutRight(sent, shed, part, accept, order, [where EXCEPT ![m] = "refused"])
<1>1. PICK then : then = [where EXCEPT ![m] = "refused"]
  OBVIOUS
<1>2. /\ then \in [Messages -> SenderPlaces] /\ then[m] = "refused"
      /\ \A k \in Messages : k # m => then[k] = where[k]
  BY <1>1 DEF OutRight, SenderPlaces
<1>3. OutRight(sent, shed, part, accept, order, then)
  BY <1>2 DEF OutRight
<1>4. QED
  BY <1>1, <1>3

\* write: the bytes are the sender's.
LEMMA WriteRight ==
  ASSUME NEW sent, NEW shed, NEW part, NEW accept, NEW order, NEW where,
         OutRight(sent, shed, part, accept, order, where), NEW m \in Messages, where[m] = "new"
  PROVE  OutRight(sent, shed, [part EXCEPT ![m] = R!Bytes(m)], accept \cup Elements(R!Bytes(m)), order,
                  [where EXCEPT ![m] = "writing"])
<1>1. PICK x : x = R!Bytes(m)
  OBVIOUS
<1>2. x \in Seq(PortBytes) /\ Once(x) /\ \A b \in Elements(x) : b[1] = m
  BY <1>1, BytesAre
<1>3. PICK then : then = [where EXCEPT ![m] = "writing"]
  OBVIOUS
<1>4. /\ then \in [Messages -> SenderPlaces] /\ then[m] = "writing"
      /\ \A k \in Messages : k # m => then[k] = where[k]
  BY <1>3 DEF OutRight, SenderPlaces
<1>5. PICK parts : parts = [part EXCEPT ![m] = x]
  OBVIOUS
<1>6. /\ parts \in [Messages -> Seq(PortBytes)] /\ parts[m] = x
      /\ \A k \in Messages : k # m => parts[k] = part[k]
  BY <1>2, <1>5 DEF OutRight
<1>7. m \notin Elements(order) /\ \A b \in Elements(sent) \cup shed : b[1] # m
  BY DEF OutRight
<1>8. part[m] = <<>> /\ Elements(part[m]) = {}
  BY EmptyHasNone DEF OutRight
<1>9. ASSUME NEW b
      PROVE  b \in accept \cup Elements(x) <=>
               b \in Elements(sent) \/ b \in shed \/ \E k \in Messages : b \in Elements(parts[k])
  BY <1>6, <1>8 DEF OutRight
<1>10. ASSUME NEW k \in Messages
       PROVE  /\ Once(parts[k])
              /\ \A b \in Elements(parts[k]) : b[1] = k /\ b \notin Elements(sent) /\ b \notin shed
              /\ then[k] # "writing" => parts[k] = <<>>
              /\ then[k] = "new" => \A b \in Elements(sent) \cup shed : b[1] # k
              /\ then[k] \in {"new", "writing"} => k \notin Elements(order)
              /\ k \in Elements(order) => Elements(R!Bytes(k)) \subseteq Elements(sent) \cup shed
  <2>1. CASE k = m
    BY <1>2, <1>4, <1>6, <1>7, <2>1
  <2>2. CASE k # m
    BY <1>4, <1>6, <2>2 DEF OutRight
  <2>3. QED
    BY <2>1, <2>2
<1>11. OutRight(sent, shed, parts, accept \cup Elements(x), order, then)
  BY <1>4, <1>6, <1>9, <1>10 DEF OutRight
<1>12. QED
  BY <1>1, <1>3, <1>5, <1>11

\* A part of a sender's bytes is put in between two parts of what was sent, or behind them.
LEMMA InsertRight ==
  ASSUME NEW front \in Seq(PortBytes), NEW back \in Seq(PortBytes), NEW shed, NEW part, NEW accept, NEW order, NEW where,
         OutRight(front \o back, shed, part, accept, order, where), NEW m \in Messages,
         where[m] = "writing", NEW x \in Seq(PortBytes), NEW y \in Seq(PortBytes), part[m] = x \o y,
         NEW now \in SenderPlaces, now # "new", now # "writing" => y = <<>>
  PROVE  OutRight((front \o x) \o back, shed, [part EXCEPT ![m] = y], accept, order,
                  [where EXCEPT ![m] = now])
<1>1. PICK sent : sent = front \o back
  OBVIOUS
<1>2. PICK begun : begun = front \o x
  OBVIOUS
<1>3. PICK longer : longer = begun \o back
  OBVIOUS
<1>4. PICK z : z = x \o y
  OBVIOUS
<1>5. OutRight(sent, shed, part, accept, order, where) /\ part[m] = z
  BY <1>1, <1>4
<1>6. /\ Elements(sent) = Elements(front) \cup Elements(back)
      /\ Once(sent) <=> Once(front) /\ Once(back) /\ Elements(front) \cap Elements(back) = {}
      /\ \A b, c : Before(sent, b, c) <=>
           Before(front, b, c) \/ Before(back, b, c) \/ (b \in Elements(front) /\ c \in Elements(back))
  BY <1>1, Joined
<1>7. /\ begun \in Seq(PortBytes) /\ Elements(begun) = Elements(front) \cup Elements(x)
      /\ Once(begun) <=> Once(front) /\ Once(x) /\ Elements(front) \cap Elements(x) = {}
      /\ \A b, c : Before(begun, b, c) <=>
           Before(front, b, c) \/ Before(x, b, c) \/ (b \in Elements(front) /\ c \in Elements(x))
  BY <1>2, Joined
<1>8. /\ longer \in Seq(PortBytes) /\ Elements(longer) = Elements(begun) \cup Elements(back)
      /\ Once(longer) <=> Once(begun) /\ Once(back) /\ Elements(begun) \cap Elements(back) = {}
      /\ \A b, c : Before(longer, b, c) <=>
           Before(begun, b, c) \/ Before(back, b, c) \/ (b \in Elements(begun) /\ c \in Elements(back))
  BY <1>3, <1>7, Joined
<1>9. /\ Elements(z) = Elements(x) \cup Elements(y)
      /\ Once(z) <=> Once(x) /\ Once(y) /\ Elements(x) \cap Elements(y) = {}
  BY <1>4, Joined
<1>10. PICK then : then = [where EXCEPT ![m] = now]
  OBVIOUS
<1>11. /\ then \in [Messages -> SenderPlaces] /\ then[m] = now
       /\ \A k \in Messages : k # m => then[k] = where[k]
  BY <1>10 DEF OutRight
<1>12. PICK parts : parts = [part EXCEPT ![m] = y]
  OBVIOUS
<1>13. /\ parts \in [Messages -> Seq(PortBytes)] /\ parts[m] = y
       /\ \A k \in Messages : k # m => parts[k] = part[k]
  BY <1>12 DEF OutRight
<1>14. /\ Once(z) /\ m \notin Elements(order)
       /\ \A b \in Elements(z) : b[1] = m /\ b \notin Elements(sent) /\ b \notin shed
  BY <1>5 DEF OutRight
<1>15. Once(longer)
  BY <1>5, <1>6, <1>7, <1>8, <1>9, <1>14 DEF OutRight
<1>16. Elements(longer) = Elements(sent) \cup Elements(x)
  BY <1>6, <1>7, <1>8
<1>17. ASSUME NEW b
       PROVE  b \in accept <=> b \in Elements(longer) \/ b \in shed \/ \E k \in Messages : b \in Elements(parts[k])
  <2>1. b \in accept <=> b \in Elements(sent) \/ b \in shed \/ \E k \in Messages : b \in Elements(part[k])
    BY <1>5 DEF OutRight
  <2>2. (\E k \in Messages : b \in Elements(part[k])) <=>
          b \in Elements(x) \/ \E k \in Messages : b \in Elements(parts[k])
    BY <1>5, <1>9, <1>13
  <2>3. QED
    BY <1>16, <2>1, <2>2
<1>18. ASSUME NEW k \in Messages
       PROVE  /\ Once(parts[k])
              /\ \A b \in Elements(parts[k]) : b[1] = k /\ b \notin Elements(longer) /\ b \notin shed
              /\ then[k] # "writing" => parts[k] = <<>>
              /\ then[k] = "new" => \A b \in Elements(longer) \cup shed : b[1] # k
              /\ then[k] \in {"new", "writing"} => k \notin Elements(order)
              /\ k \in Elements(order) => Elements(R!Bytes(k)) \subseteq Elements(longer) \cup shed
  <2>1. CASE k = m
    <3>1. Once(y) /\ \A b \in Elements(y) : b[1] = m /\ b \notin Elements(longer) /\ b \notin shed
      BY <1>9, <1>14, <1>16
    <3>2. QED
      BY <1>11, <1>13, <1>14, <2>1, <3>1
  <2>2. CASE k # m
    <3>1. /\ Once(part[k]) /\ \A b \in Elements(part[k]) : b[1] = k /\ b \notin Elements(sent) /\ b \notin shed
          /\ where[k] # "writing" => part[k] = <<>>
          /\ where[k] = "new" => \A b \in Elements(sent) \cup shed : b[1] # k
          /\ where[k] \in {"new", "writing"} => k \notin Elements(order)
          /\ k \in Elements(order) => Elements(R!Bytes(k)) \subseteq Elements(sent) \cup shed
      BY <1>5 DEF OutRight
    <3>2. \A b \in Elements(x) : b[1] # k
      BY <1>9, <1>14, <2>2
    <3>3. QED
      BY <1>11, <1>13, <1>16, <2>2, <3>1, <3>2
  <2>3. QED
    BY <2>1, <2>2
<1>19. ASSUME NEW b, NEW c, Before(longer, b, c), b[1] \in Elements(order), c[1] \in Elements(order)
       PROVE  Early(order, b, c)
  <2>1. b \in Elements(longer) /\ c \in Elements(longer)
    BY <1>19 DEF Before, Elements
  <2>2. b \notin Elements(x) /\ c \notin Elements(x)
    BY <1>9, <1>14, <1>19
  <2>3. \A d, e : Before(x, d, e) => d \in Elements(x)
    BY DEF Before, Elements
  <2>4. Before(sent, b, c)
    BY <1>6, <1>7, <1>8, <1>19, <2>2, <2>3
  <2>5. QED
    BY <1>5, <1>19, <2>4 DEF OutRight
<1>20. \A b \in shed : b \notin Elements(longer)
  BY <1>5, <1>9, <1>14, <1>16 DEF OutRight
<1>21. OutRight(longer, shed, parts, accept, order, then)
  BY <1>20, <1>5, <1>8, <1>11, <1>13, <1>15, <1>17, <1>18, <1>19 DEF OutRight
<1>22. QED
  BY <1>2, <1>3, <1>10, <1>12, <1>21

\* write without room for the rest.
LEMMA GiveUpRight ==
  ASSUME NEW sent, NEW shed, NEW part, NEW accept, NEW order, NEW where,
         OutRight(sent, shed, part, accept, order, where), NEW m \in Messages, where[m] = "writing"
  PROVE  OutRight(sent, shed, [part EXCEPT ![m] = <<>>], accept \ Elements(part[m]), order,
                  [where EXCEPT ![m] = "refused"])
<1>1. PICK then : then = [where EXCEPT ![m] = "refused"]
  OBVIOUS
<1>2. /\ then \in [Messages -> SenderPlaces] /\ then[m] = "refused"
      /\ \A k \in Messages : k # m => then[k] = where[k]
  BY <1>1 DEF OutRight, SenderPlaces
<1>3. PICK parts : parts = [part EXCEPT ![m] = <<>>]
  OBVIOUS
<1>4. /\ parts \in [Messages -> Seq(PortBytes)] /\ parts[m] = <<>>
      /\ \A k \in Messages : k # m => parts[k] = part[k]
  BY <1>3, EmptyHasNone DEF OutRight
<1>5. \A b \in Elements(part[m]) : b[1] = m /\ b \notin Elements(sent) /\ b \notin shed
  BY DEF OutRight
<1>6. \A k \in Messages : k # m => \A b \in Elements(part[k]) : b \notin Elements(part[m])
  <2>1. \A k \in Messages : \A b \in Elements(part[k]) : b[1] = k
    BY DEF OutRight
  <2>2. QED
    BY <1>5, <2>1
<1>7. ASSUME NEW b
      PROVE  b \in accept \ Elements(part[m]) <=>
               b \in Elements(sent) \/ b \in shed \/ \E k \in Messages : b \in Elements(parts[k])
  <2>1. b \in accept <=> b \in Elements(sent) \/ b \in shed \/ \E k \in Messages : b \in Elements(part[k])
    BY DEF OutRight
  <2>2. (\E k \in Messages : b \in Elements(parts[k])) <=>
          b \notin Elements(part[m]) /\ \E k \in Messages : b \in Elements(part[k])
    BY <1>4, <1>6, EmptyHasNone
  <2>3. QED
    BY <1>5, <2>1, <2>2
<1>8. ASSUME NEW k \in Messages
      PROVE  /\ Once(parts[k])
             /\ \A b \in Elements(parts[k]) : b[1] = k /\ b \notin Elements(sent) /\ b \notin shed
             /\ then[k] # "writing" => parts[k] = <<>>
             /\ then[k] = "new" => \A b \in Elements(sent) \cup shed : b[1] # k
             /\ then[k] \in {"new", "writing"} => k \notin Elements(order)
             /\ k \in Elements(order) => Elements(R!Bytes(k)) \subseteq Elements(sent) \cup shed
  <2>1. CASE k = m
    BY <1>2, <1>4, <2>1, EmptyHasNone DEF OutRight
  <2>2. CASE k # m
    BY <1>2, <1>4, <2>2 DEF OutRight
  <2>3. QED
    BY <2>1, <2>2
<1>9. OutRight(sent, shed, parts, accept \ Elements(part[m]), order, then)
  BY <1>2, <1>4, <1>7, <1>8 DEF OutRight
<1>10. QED
  BY <1>1, <1>3, <1>9

\* handle_write gives up the middle of what was sent.
LEMMA DropRight ==
  ASSUME NEW front \in Seq(PortBytes), NEW middle \in Seq(PortBytes), NEW back \in Seq(PortBytes),
         NEW shed, NEW part, NEW accept, NEW order, NEW where,
         OutRight(front \o (middle \o back), shed, part, accept, order, where)
  PROVE  OutRight(front \o back, shed \cup Elements(middle), part, accept, order, where)
<1>1. PICK behind : behind = middle \o back
  OBVIOUS
<1>2. PICK sent : sent = front \o behind
  OBVIOUS
<1>3. PICK fewer : fewer = front \o back
  OBVIOUS
<1>4. OutRight(sent, shed, part, accept, order, where)
  BY <1>1, <1>2
<1>5. /\ behind \in Seq(PortBytes) /\ Elements(behind) = Elements(middle) \cup Elements(back)
      /\ Once(behind) <=> Once(middle) /\ Once(back) /\ Elements(middle) \cap Elements(back) = {}
      /\ \A b, c : Before(behind, b, c) <=>
           Before(middle, b, c) \/ Before(back, b, c) \/ (b \in Elements(middle) /\ c \in Elements(back))
  BY <1>1, Joined
<1>6. /\ Elements(sent) = Elements(front) \cup Elements(behind)
      /\ Once(sent) <=> Once(front) /\ Once(behind) /\ Elements(front) \cap Elements(behind) = {}
      /\ \A b, c : Before(sent, b, c) <=>
           Before(front, b, c) \/ Before(behind, b, c) \/ (b \in Elements(front) /\ c \in Elements(behind))
  BY <1>2, <1>5, Joined
<1>7. /\ fewer \in Seq(PortBytes) /\ Elements(fewer) = Elements(front) \cup Elements(back)
      /\ Once(fewer) <=> Once(front) /\ Once(back) /\ Elements(front) \cap Elements(back) = {}
      /\ \A b, c : Before(fewer, b, c) <=>
           Before(front, b, c) \/ Before(back, b, c) \/ (b \in Elements(front) /\ c \in Elements(back))
  BY <1>3, Joined
<1>8. Once(sent)
  BY <1>4 DEF OutRight
<1>9. Once(fewer) /\ Elements(middle) \cap Elements(fewer) = {}
      /\ Elements(sent) = Elements(fewer) \cup Elements(middle)
  BY <1>5, <1>6, <1>7, <1>8
<1>10. PICK more : more = shed \cup Elements(middle)
  OBVIOUS
<1>11. \A b : b \in accept <=>
         b \in Elements(fewer) \/ b \in more \/ \E k \in Messages : b \in Elements(part[k])
  BY <1>4, <1>9, <1>10 DEF OutRight
<1>12. \A b \in more : b \notin Elements(fewer)
  BY <1>4, <1>9, <1>10 DEF OutRight
<1>13. ASSUME NEW k \in Messages
       PROVE  /\ Once(part[k])
              /\ \A b \in Elements(part[k]) : b[1] = k /\ b \notin Elements(fewer) /\ b \notin more
              /\ where[k] # "writing" => part[k] = <<>>
              /\ where[k] = "new" => \A b \in Elements(fewer) \cup more : b[1] # k
              /\ where[k] \in {"new", "writing"} => k \notin Elements(order)
              /\ k \in Elements(order) => Elements(R!Bytes(k)) \subseteq Elements(fewer) \cup more
  BY <1>4, <1>9, <1>10 DEF OutRight
<1>14. ASSUME NEW b, NEW c, Before(fewer, b, c), b[1] \in Elements(order), c[1] \in Elements(order)
       PROVE  Early(order, b, c)
  <2>1. Before(sent, b, c)
    BY <1>5, <1>6, <1>7, <1>14
  <2>2. QED
    BY <1>4, <1>14, <2>1 DEF OutRight
<1>15. OutRight(fewer, more, part, accept, order, where)
  BY <1>4, <1>7, <1>9, <1>11, <1>12, <1>13, <1>14 DEF OutRight
<1>16. QED
  BY <1>3, <1>10, <1>15

-----------------------------------------------------------------------------
(***************************************************************************)
(* Input of the serial port.  text is what was cut out of what was read,   *)
(* tail what was not looked at yet, got what was read.                     *)
(***************************************************************************)
TextRight(text, tail, got) ==
  /\ text \in Seq(Nat) /\ tail \in Seq(Nat) /\ got \in Seq(Nat)
  /\ 0 \notin Elements(text)
  /\ \A b : b # 0 => (b \in Elements(text) \cup Elements(tail) <=> b \in Elements(got))
  /\ \A b \in Elements(got) : b <= Len(got)
  /\ \A b, c : Before(text \o tail, b, c) /\ b # 0 /\ c # 0 => b < c

LEMMA LeastIs ==
  ASSUME NEW A \in SUBSET Nat, A # {}
  PROVE  R!Min(A) \in A /\ \A y \in A : R!Min(A) <= y
<1>1. PICK x \in A : \A y \in A : ~ (<<y, x>> \in OpToRel(<, Nat))
  BY NatLessThanWellFounded, WFMin
<1>2. \A a, b \in Nat : <<a, b>> \in OpToRel(<, Nat) <=> a < b
  BY DEF OpToRel
<1>3. ASSUME NEW y \in A PROVE x <= y
  <2>1. x \in Nat /\ y \in Nat
    OBVIOUS
  <2>2. ~ (y < x)
    BY <1>1, <1>2, <2>1
  <2>3. QED
    BY <2>1, <2>2
<1>4. QED
  BY <1>3 DEF R!Min

\* compileResponse takes out what is in front of the delimiters, and leaves what is behind.
LEMMA CompiledIs ==
  ASSUME NEW s \in Seq(Nat)
  PROVE  \E line, gap, after \in Seq(Nat) :
           /\ R!CompileResponse(s) = [line |-> line, left |-> after]
           /\ s = (line \o gap) \o after
           /\ 0 \notin Elements(line) /\ Elements(gap) \subseteq {0}
<1>1. Len(s) \in Nat /\ DOMAIN s = 1..Len(s) /\ \A i \in 1..Len(s) : s[i] \in Nat
  OBVIOUS
<1>2. PICK n, m : n = R!FirstDelim(s) /\ m = R!AfterDelim(s)
  OBVIOUS
<1>3. PICK Zeros : Zeros = {i \in 1..Len(s) : s[i] = 0}
  OBVIOUS
<1>4. PICK Others2 : Others2 = {i \in n..Len(s) : s[i] # 0}
  OBVIOUS
<1>5. n = IF Zeros # {} THEN R!Min(Zeros) ELSE 0
  BY <1>2, <1>3 DEF R!FirstDelim, R!SelectInSeq, R!Delim
<1>6. m = IF Others2 # {} THEN R!Min(Others2) ELSE 0
  BY <1>2, <1>4 DEF R!AfterDelim, R!SelectInSubSeq, R!Delim
<1>7. CASE Zeros = {}
  <2>1. R!CompileResponse(s) = [line |-> <<>>, left |-> s]
    BY <1>2, <1>5, <1>7 DEF R!CompileResponse
  <2>2. <<>> \o <<>> = <<>> /\ <<>> \o s = s /\ <<>> \in Seq(Nat)
    BY ConcatEmptySeq, EmptyHasNone
  <2>3. QED
    BY <2>1, <2>2, EmptyHasNone
<1>8. CASE Zeros # {}
  <2>1. n \in Zeros /\ \A i \in Zeros : n <= i
    <3>1. Zeros \in SUBSET Nat
      BY <1>1, <1>3
    <3>2. QED
      BY <1>5, <1>8, <3>1, LeastIs
  <2>2. n \in 1..Len(s) /\ n \in Nat /\ n # 0 /\ s[n] = 0 /\ n - 1 \in Nat /\ n - 1 <= Len(s)
        /\ (n - 1) + 1 = n
    BY <1>1, <1>3, <2>1
  <2>3. PICK line, more : line = SubSeq(s, 1, n - 1) /\ more = SubSeq(s, n, Len(s))
    OBVIOUS
  <2>4. line \in Seq(Nat) /\ more \in Seq(Nat) /\ s = line \o more
    <3>1. PICK k : k = n - 1
      OBVIOUS
    <3>2. k \in Nat /\ k <= Len(s) /\ line = SubSeq(s, 1, k) /\ more = SubSeq(s, k + 1, Len(s))
      BY <2>2, <2>3, <3>1
    <3>3. QED
      BY <3>2, Cut
  <2>5. 0 \notin Elements(line)
    <3>1. \A i \in 1..n - 1 : s[i] # 0
      BY <1>1, <1>3, <2>1, <2>2
    <3>2. /\ Len(line) = (IF 1 <= n - 1 THEN (n - 1) - 1 + 1 ELSE 0)
          /\ \A i \in 1..(n - 1) - 1 + 1 : line[i] = s[1 + i - 1]
      <4>1. \A i \in 1..n - 1 : s[i] \in Nat
        BY <1>1, <2>2
      <4>2. QED
        BY <2>2, <2>3, <4>1, SubSeqProperties
    <3>3. DOMAIN line = 1..n - 1
      BY <2>2, <2>4, <3>2
    <3>4. \A i \in 1..n - 1 : line[i] = s[i]
      BY <2>2, <3>2
    <3>5. QED
      BY <3>1, <3>3, <3>4 DEF Elements
  <2>6. CASE Others2 = {}
    <3>1. R!CompileResponse(s) = [line |-> line, left |-> <<>>]
      BY <1>2, <1>6, <2>2, <2>3, <2>6 DEF R!CompileResponse
    <3>2. Elements(more) \subseteq {0}
      <4>1. \A i \in n..Len(s) : s[i] = 0 /\ s[i] \in Nat
        BY <1>1, <1>4, <2>2, <2>6
      <4>2. /\ Len(more) = (IF n <= Len(s) THEN Len(s) - n + 1 ELSE 0)
            /\ \A i \in 1..Len(s) - n + 1 : more[i] = s[n + i - 1]
        BY <1>1, <2>2, <2>3, <4>1, SubSeqProperties, SMTT(40)
      <4>3. DOMAIN more = 1..Len(s) - n + 1
        BY <1>1, <2>2, <2>4, <4>2
      <4>4. \A i \in 1..Len(s) - n + 1 : n + i - 1 \in n..Len(s)
        BY <1>1, <2>2
      <4>5. QED
        BY <4>1, <4>2, <4>3, <4>4 DEF Elements
    <3>3. (line \o more) \o <<>> = line \o more
      BY <2>4, ConcatEmptySeq
    <3>4. QED
      BY <2>4, <2>5, <3>1, <3>2, <3>3, EmptyHasNone
  <2>7. CASE Others2 # {}
    <3>1. m \in Others2 /\ \A i \in Others2 : m <= i
      <4>1. Others2 \in SUBSET Nat
        BY <1>4, <2>2
      <4>2. QED
        BY <1>6, <2>7, <4>1, LeastIs
    <3>2. m \in n..Len(s) /\ s[m] # 0 /\ m \in Nat /\ n < m /\ m # 0 /\ m - 1 \in Nat
      BY <1>4, <2>2, <3>1
    <3>3. PICK gap, after : gap = SubSeq(s, n, m - 1) /\ after = SubSeq(s, m, Len(s))
      OBVIOUS
    <3>4. R!CompileResponse(s) = [line |-> line, left |-> after]
      BY <1>2, <2>2, <2>3, <3>2, <3>3 DEF R!CompileResponse
    <3>5. gap \in Seq(Nat) /\ after \in Seq(Nat)
      <4>1. (\A i \in n..m - 1 : s[i] \in Nat) /\ (\A i \in m..Len(s) : s[i] \in Nat)
        BY <1>1, <2>2, <3>2
      <4>2. gap \in Seq(Nat)
        BY <2>2, <3>2, <3>3, <4>1, SubSeqProperties
      <4>3. after \in Seq(Nat)
        BY <1>1, <3>2, <3>3, <4>1, SubSeqProperties
      <4>4. QED
        BY <4>2, <4>3
    <3>6. more = gap \o after
      <4>1. n \in 1..Len(s) + 1 /\ m - 1 \in n - 1..Len(s) /\ Len(s) \in m - 1..Len(s) /\ (m - 1) + 1 = m
        BY <1>1, <2>2, <3>2
      <4>2. SubSeq(s, n, m - 1) \o SubSeq(s, (m - 1) + 1, Len(s)) = SubSeq(s, n, Len(s))
        BY <4>1, ConcatAdjacentSubSeq
      <4>3. QED
        BY <2>3, <3>3, <4>1, <4>2
    <3>7. Elements(gap) \subseteq {0}
      <4>1. \A i \in n..m - 1 : s[i] = 0 /\ s[i] \in Nat
        BY <1>1, <1>4, <2>2, <3>1, <3>2
      <4>2. /\ Len(gap) = (IF n <= m - 1 THEN (m - 1) - n + 1 ELSE 0)
            /\ \A i \in 1..(m - 1) - n + 1 : gap[i] = s[n + i - 1]
        BY <2>2, <3>2, <3>3, <4>1, SubSeqProperties
      <4>3. DOMAIN gap = 1..(m - 1) - n + 1
        BY <2>2, <3>2, <3>5, <4>2
      <4>4. \A i \in 1..(m - 1) - n + 1 : n + i - 1 \in n..m - 1
        BY <2>2, <3>2
      <4>5. QED
        BY <4>1, <4>2, <4>3, <4>4 DEF Elements
    <3>8. s = (line \o gap) \o after
      <4>1. line \in Seq(Nat)
        BY <2>4
      <4>2. (line \o gap) \o after = line \o (gap \o after)
        BY <3>5, <4>1, RegroupedText
      <4>3. QED
        BY <2>4, <3>6, <4>2
    <3>9. QED
      BY <2>4, <2>5, <3>4, <3>5, <3>7, <3>8
  <2>8. QED
    BY <2>6, <2>7
<1>9. QED
  BY <1>7, <1>8

\* What arrives is behind all that was received.
LEMMA ChunkIs ==
  ASSUME received \in Seq(Nat), NEW n \in Nat, NEW chunk \in R!Chunks(n)
  PROVE  /\ chunk \in Seq(Nat) /\ Len(chunk) = n
         /\ \A b \in Elements(chunk) : b = 0 \/ (Len(received) < b /\ b <= Len(received) + n)
         /\ \A b, c : Before(chunk, b, c) /\ b # 0 /\ c # 0 => b < c
<1>1. PICK A \in SUBSET (1..n) : chunk = [i \in 1..n |-> IF i \in A THEN Len(received) + i ELSE 0]
  BY DEF R!Chunks, R!Delim
<1>2. Len(received) \in Nat
  OBVIOUS
<1>3. /\ DOMAIN chunk = 1..n /\ \A i \in 1..n : chunk[i] \in Nat /\ (chunk[i] = 0 \/ chunk[i] = Len(received) + i)
  BY <1>1, <1>2
<1>4. chunk \in [1..n -> Nat]
  BY <1>1, <1>3
<1>5. chunk \in Seq(Nat) /\ Len(chunk) = n
  BY <1>3, <1>4
<1>6. \A b \in Elements(chunk) : b = 0 \/ (Len(received) < b /\ b <= Len(received) + n)
  BY <1>2, <1>3 DEF Elements
<1>7. \A b, c : Before(chunk, b, c) /\ b # 0 /\ c # 0 => b < c
  BY <1>2, <1>3 DEF Before
<1>8. QED
  BY <1>5, <1>6, <1>7

\* handle_read.
LEMMA ReadRight ==
  ASSUME NEW text, NEW tail, TextRight(text, tail, received), NEW n \in Nat, NEW chunk \in R!Chunks(n)
  PROVE  \E line, after \in Seq(Nat) :
           /\ R!CompileResponse(tail \o chunk) = [line |-> line, left |-> after]
           /\ TextRight(text \o line, after, received \o chunk)
<1>1. text \in Seq(Nat) /\ tail \in Seq(Nat) /\ received \in Seq(Nat) /\ Len(received) \in Nat
  BY DEF TextRight
<1>2. /\ chunk \in Seq(Nat) /\ Len(chunk) = n
      /\ \A b \in Elements(chunk) : b = 0 \/ (Len(received) < b /\ b <= Len(received) + n)
      /\ \A b, c : Before(chunk, b, c) /\ b # 0 /\ c # 0 => b < c
  BY <1>1, ChunkIs
<1>3. PICK s, got : s = tail \o chunk /\ got = received \o chunk
  OBVIOUS
<1>4. /\ s \in Seq(Nat) /\ Elements(s) = Elements(tail) \cup Elements(chunk)
      /\ \A b, c : Before(s, b, c) <=>
           Before(tail, b, c) \/ Before(chunk, b, c) \/ (b \in Elements(tail) /\ c \in Elements(chunk))
  BY <1>1, <1>2, <1>3, Joined
<1>5. PICK line, gap, after \in Seq(Nat) :
        /\ R!CompileResponse(s) = [line |-> line, left |-> after]
        /\ s = (line \o gap) \o after
        /\ 0 \notin Elements(line) /\ Elements(gap) \subseteq {0}
  BY <1>4, CompiledIs
<1>6. PICK begun : begun = line \o gap
  OBVIOUS
<1>7. /\ begun \in Seq(Nat) /\ Elements(begun) = Elements(line) \cup Elements(gap)
      /\ \A b, c : Before(begun, b, c) <=>
           Before(line, b, c) \/ Before(gap, b, c) \/ (b \in Elements(line) /\ c \in Elements(gap))
  BY <1>6, Joined
<1>8. /\ Elements(s) = Elements(begun) \cup Elements(after)
      /\ \A b, c : Before(s, b, c) <=>
           Before(begun, b, c) \/ Before(after, b, c) \/ (b \in Elements(begun) /\ c \in Elements(after))
  <2>1. s = begun \o after
    BY <1>5, <1>6
  <2>2. QED
    BY <1>7, <2>1, Joined
<1>9. PICK longer : longer = text \o line
  OBVIOUS
<1>10. /\ longer \in Seq(Nat) /\ Elements(longer) = Elements(text) \cup Elements(line)
       /\ \A b, c : Before(longer, b, c) <=>
            Before(text, b, c) \/ Before(line, b, c) \/ (b \in Elements(text) /\ c \in Elements(line))
  BY <1>1, <1>9, Joined
<1>11. \A b, c : Before(longer \o after, b, c) <=>
         Before(longer, b, c) \/ Before(after, b, c) \/ (b \in Elements(longer) /\ c \in Elements(after))
  BY <1>10, Joined
<1>12. \A b, c : Before(text \o tail, b, c) <=>
         Before(text, b, c) \/ Before(tail, b, c) \/ (b \in Elements(text) /\ c \in Elements(tail))
  BY <1>1, Joined
<1>13. got \in Seq(Nat) /\ Elements(got) = Elements(received) \cup Elements(chunk)
       /\ Len(got) = Len(received) + n
  <2>1. got \in Seq(Nat) /\ Elements(got) = Elements(received) \cup Elements(chunk)
    BY <1>1, <1>2, <1>3, Joined
  <2>2. Len(got) = Len(received) + n
    BY <1>1, <1>2, <1>3, ConcatProperties
  <2>3. QED
    BY <2>1, <2>2
<1>14. \A b \in Elements(received) \cup Elements(chunk) : b \in Nat
  BY <1>1, <1>2, ElementsIn
<1>15. /\ \A b : b # 0 => (b \in Elements(text) \cup Elements(tail) <=> b \in Elements(received))
       /\ \A b \in Elements(received) : b <= Len(received)
       /\ \A b, c : Before(text \o tail, b, c) /\ b # 0 /\ c # 0 => b < c
       /\ 0 \notin Elements(text)
  BY DEF TextRight
<1>16. 0 \notin Elements(longer)
  BY <1>5, <1>10, <1>15
<1>17. ASSUME NEW b, b # 0
       PROVE  b \in Elements(longer) \cup Elements(after) <=> b \in Elements(got)
  BY <1>4, <1>5, <1>7, <1>8, <1>10, <1>13, <1>15, <1>17
<1>18. \A b \in Elements(got) : b <= Len(got)
  BY <1>1, <1>2, <1>13, <1>14, <1>15
<1>19. ASSUME NEW b, NEW c, b # 0, c # 0, b \in Elements(received), c \in Elements(chunk) PROVE b < c
  <2>1. b \in Nat /\ c \in Nat /\ b <= Len(received) /\ Len(received) < c
    BY <1>2, <1>14, <1>15, <1>19
  <2>2. QED
    BY <1>1, <2>1
<1>20. ASSUME NEW b, NEW c, b # 0, c # 0, Before(s, b, c) PROVE b < c
  <2>1. CASE Before(tail, b, c)
    BY <1>12, <1>15, <1>20, <2>1
  <2>2. CASE Before(chunk, b, c)
    BY <1>2, <1>20, <2>2
  <2>3. CASE b \in Elements(tail) /\ c \in Elements(chunk)
    BY <1>15, <1>19, <1>20, <2>3
  <2>4. QED
    BY <1>4, <1>20, <2>1, <2>2, <2>3
<1>21. ASSUME NEW b, NEW c, b # 0, c # 0, b \in Elements(text), c \in Elements(s) PROVE b < c
  <2>1. CASE c \in Elements(tail)
    BY <1>12, <1>15, <1>21, <2>1
  <2>2. CASE c \in Elements(chunk)
    BY <1>15, <1>19, <1>21, <2>2
  <2>3. QED
    BY <1>4, <1>21, <2>1, <2>2
<1>22. ASSUME NEW b, NEW c, b # 0, c # 0, Before(longer \o after, b, c) PROVE b < c
  <2>1. CASE Before(text, b, c)
    BY <1>12, <1>15, <1>22, <2>1
  <2>2. CASE Before(line, b, c) \/ Before(after, b, c) \/ (b \in Elements(line) /\ c \in Elements(after))
    BY <1>7, <1>8, <1>20, <1>22, <2>2
  <2>3. CASE b \in Elements(text) /\ (c \in Elements(line) \/ c \in Elements(after))
    BY <1>7, <1>8, <1>21, <1>22, <2>3
  <2>4. QED
    BY <1>10, <1>11, <1>22, <2>1, <2>2, <2>3
<1>23. TextRight(longer, after, got)
  BY <1>10, <1>13, <1>16, <1>17, <1>18, <1>22 DEF TextRight
<1>24. QED
  BY <1>3, <1>5, <1>9, <1>23

LEMMA RegroupedBytes == \A s, t, u \in Seq(PortBytes) : (s \o t) \o u = s \o (t \o u)
BY ConcatAssociative, SMTT(40)

\* What is behind a place stays behind it when the sequence grows.
LEMMA SuffixGrows ==
  ASSUME NEW A, NEW x \in Seq(A), NEW y \in Seq(A), NEW n \in Nat, n <= Len(x)
  PROVE  SubSeq(x \o y, n + 1, Len(x \o y)) = SubSeq(x, n + 1, Len(x)) \o y
<1>1. PICK z, p, q, r : z = x \o y /\ p = SubSeq(x, 1, n) /\ q = SubSeq(x, n + 1, Len(x))
                        /\ r = SubSeq(z, n + 1, Len(z))
  OBVIOUS
<1>2. z \in Seq(A) /\ Len(z) = Len(x) + Len(y) /\ Len(x) \in Nat /\ Len(y) \in Nat
  BY <1>1, ConcatProperties
<1>3. p \in Seq(A) /\ q \in Seq(A) /\ x = p \o q
  BY <1>1, Cut
<1>4. SubSeq(z, 1, n) \in Seq(A) /\ r \in Seq(A) /\ z = SubSeq(z, 1, n) \o r
  <2>1. n <= Len(z)
    BY <1>2
  <2>2. QED
    BY <1>1, <1>2, <2>1, Cut
<1>5. SubSeq(z, 1, n) = p
  <2>1. CASE n = 0
    BY <1>1, <2>1, SubSeqEmpty
  <2>2. CASE n # 0
    <3>1. n \in 1..Len(x) /\ 1 \in 1..Len(x)
      BY <1>2, <2>2
    <3>2. QED
      BY <1>1, <3>1, SubSeqOfConcat1
  <2>3. QED
    BY <2>1, <2>2
<1>6. z = p \o (q \o y) /\ q \o y \in Seq(A)
  <2>1. z = (p \o q) \o y /\ q \o y \in Seq(A)
    BY <1>1, <1>3, ConcatProperties
  <2>2. (p \o q) \o y = p \o (q \o y)
    BY <1>3, Regrouped, SMTT(40)
  <2>3. QED
    BY <2>1, <2>2
<1>7. r = q \o y
  BY <1>3, <1>4, <1>5, <1>6, ConcatSimplifications
<1>8. QED
  BY <1>1, <1>7

-----------------------------------------------------------------------------
(***************************************************************************)
(* The serial port.                                                        *)
(***************************************************************************)
PortTypes ==
  /\ wire \in Seq(PortBytes) /\ outBuf \in Seq(PortBytes)
  /\ runPtr \in Nat /\ endPtr \in Nat /\ runPtr <= endPtr /\ endPtr <= Len(outBuf)
  /\ flushing \in {"out", "writing"}

Sent == wire \o R!Pending

\* Of input nothing is said when memcpy has mixed it up.
InputRight ==
  ~mixed => /\ taken \in Seq(Nat) /\ strInBuf \in Seq(Nat)
            /\ TextRight(taken \o strInBuf, inBuf, received)

PortInv ==
  /\ R!SettingsRestored /\ PortTypes
  /\ OutRight(Sent, dropped, rest, accepted, posted, stage)
  /\ InputRight

LEMMA PendingIs ==
  ASSUME PortTypes
  PROVE  R!Pending \in Seq(PortBytes) /\ Sent \in Seq(PortBytes)
<1>1. runPtr <= Len(outBuf) /\ Len(outBuf) \in Nat
  BY DEF PortTypes
<1>2. SubSeq(outBuf, runPtr + 1, Len(outBuf)) \in Seq(PortBytes)
  BY <1>1, Cut DEF PortTypes
<1>3. R!Pending \in Seq(PortBytes)
  BY <1>2 DEF R!Pending, PortTypes
<1>4. QED
  BY <1>3, ConcatProperties DEF Sent, PortTypes

\* What is put into outBuf is put behind everything.
LEMMA SentGrows ==
  ASSUME PortTypes, NEW x \in Seq(PortBytes), outBuf' = outBuf \o x,
         UNCHANGED <<wire, runPtr, endPtr, flushing>>
  PROVE  Sent' = Sent \o x /\ outBuf' \in Seq(PortBytes) /\ endPtr <= Len(outBuf')
<1>1. runPtr <= Len(outBuf) /\ Len(outBuf) \in Nat /\ outBuf \in Seq(PortBytes) /\ runPtr \in Nat
      /\ wire \in Seq(PortBytes) /\ endPtr \in Nat /\ endPtr <= Len(outBuf)
  BY DEF PortTypes
<1>2. outBuf \o x \in Seq(PortBytes) /\ Len(outBuf \o x) = Len(outBuf) + Len(x) /\ Len(x) \in Nat
  BY <1>1, ConcatProperties
<1>3. R!Pending' = R!Pending \o x
  <2>1. CASE flushing = "out"
    BY <2>1 DEF R!Pending
  <2>2. CASE flushing # "out"
    BY <1>1, <2>2, SuffixGrows DEF R!Pending
  <2>3. QED
    BY <2>1, <2>2
<1>4. Sent' = wire \o (R!Pending \o x)
  BY <1>3 DEF Sent
<1>5. Sent' = Sent \o x
  <2>1. PICK pending : pending = R!Pending
    OBVIOUS
  <2>2. pending \in Seq(PortBytes)
    BY <2>1, PendingIs
  <2>3. (wire \o pending) \o x = wire \o (pending \o x)
    <3>1. \A s, t, u \in Seq(PortBytes) : (s \o t) \o u = s \o (t \o u)
      BY RegroupedBytes
    <3>2. wire \in Seq(PortBytes) /\ x \in Seq(PortBytes)
      BY <1>1
    <3>3. QED
      BY <2>2, <3>1, <3>2
  <2>4. QED
    BY <1>4, <2>1, <2>3 DEF Sent
<1>6. QED
  BY <1>1, <1>2, <1>5

LEMMA SessionKeeps ==
  ASSUME PortInv, R!Open \/ R!Close
  PROVE  PortInv'
<1>1. CASE R!Open
  <2>1. PICK was : /\ was = [options |-> IF connected THEN saved ELSE options,
                            handles |-> IF connected THEN handles - 1 ELSE handles]
                   /\ R!OpenWith(was)
    BY <1>1 DEF R!Open
  <2>2. was.options = "original" /\ was.handles = 0
    BY <2>1 DEF PortInv, R!SettingsRestored
  <2>3. \/ /\ connected' = TRUE /\ saved' = was.options /\ handles' = was.handles + 1
           /\ inBuf' = <<>> /\ strInBuf' = <<>> /\ taken' = <<>> /\ received' = <<>>
        \/ /\ connected' = FALSE /\ options' = was.options /\ handles' = was.handles
           /\ UNCHANGED R!inputVars
    BY <2>1 DEF R!OpenWith
  <2>4. UNCHANGED R!outputVars
    BY <2>1 DEF R!OpenWith
  <2>5. R!SettingsRestored'
    BY <2>2, <2>3 DEF R!SettingsRestored
  <2>6. InputRight'
    <3>1. CASE UNCHANGED R!inputVars
      BY <3>1 DEF PortInv, InputRight, R!inputVars
    <3>2. CASE inBuf' = <<>> /\ strInBuf' = <<>> /\ taken' = <<>> /\ received' = <<>>
      <4>1. <<>> \in Seq(Nat) /\ <<>> \o <<>> = <<>> /\ Len(<<>>) = 0
        BY EmptyHasNone, ConcatEmptySeq
      <4>2. TextRight(<<>> \o <<>>, <<>>, <<>>)
        BY <4>1, EmptyHasNone DEF TextRight
      <4>3. QED
        BY <3>2, <4>1, <4>2 DEF InputRight
    <3>3. QED
      BY <2>3, <3>1, <3>2
  <2>7. QED
    BY <2>4, <2>5, <2>6 DEF PortInv, PortTypes, R!outputVars, Sent, R!Pending
<1>2. CASE R!Close
  <2>1. /\ connected' = FALSE /\ options' = saved /\ handles' = handles - 1 /\ connected
        /\ UNCHANGED R!outputVars /\ UNCHANGED R!inputVars
    BY <1>2 DEF R!Close
  <2>2. R!SettingsRestored'
    BY <2>1 DEF PortInv, R!SettingsRestored
  <2>3. InputRight'
    BY <2>1 DEF PortInv, InputRight, R!inputVars
  <2>4. QED
    BY <2>1, <2>2, <2>3 DEF PortInv, PortTypes, R!outputVars, Sent, R!Pending
<1>3. QED
  BY <1>1, <1>2

\* The steps of the senders.
LEMMA SenderKeeps ==
  ASSUME PortInv, NEW m \in Messages, R!Post(m) \/ R!Write(m) \/ R!WriteSome(m) \/ R!WriteLater(m)
  PROVE  PortInv'
<1>1. PortTypes /\ OutRight(Sent, dropped, rest, accepted, posted, stage)
      /\ rest \in [Messages -> Seq(PortBytes)]
  BY DEF PortInv, OutRight
<1>2. R!Bytes(m) \in Seq(PortBytes) /\ R!ToSet(R!Bytes(m)) = Elements(R!Bytes(m))
      /\ R!ToSet(rest[m]) = Elements(rest[m])
  BY BytesAre, Same
<1>3. UNCHANGED R!sessionVars /\ UNCHANGED R!inputVars /\ UNCHANGED <<flushing, endPtr, runPtr, dropped>>
  BY DEF R!Post, R!Write, R!WriteSome, R!WriteLater, R!LoopVars
<1>3a. dropped' = dropped
  BY <1>3
<1>4. ASSUME PortTypes', OutRight(Sent, dropped, rest, accepted, posted, stage)' PROVE PortInv'
  BY <1>3, <1>4 DEF PortInv, InputRight, R!SettingsRestored, R!sessionVars, R!inputVars
<1>5. ASSUME UNCHANGED <<wire, outBuf>> PROVE PortTypes' /\ Sent' = Sent
  BY <1>1, <1>3, <1>5 DEF PortTypes, Sent, R!Pending, R!inputVars
<1>6. ASSUME NEW x \in Seq(PortBytes), outBuf' = outBuf \o x, UNCHANGED wire
      PROVE  PortTypes' /\ Sent' = Sent \o x
  <2>1. Sent' = Sent \o x /\ outBuf' \in Seq(PortBytes) /\ endPtr <= Len(outBuf')
    BY <1>1, <1>3, <1>6, SentGrows
  <2>2. QED
    BY <1>1, <1>3, <1>6, <2>1 DEF PortTypes, R!inputVars
<1>7. CASE R!Post(m) /\ R!HasRoom(R!Bytes(m))
  <2>1. /\ outBuf' = outBuf \o R!Bytes(m) /\ stage' = [stage EXCEPT ![m] = "sent"]
        /\ accepted' = accepted \cup Elements(R!Bytes(m)) /\ posted' = Append(posted, m)
        /\ stage[m] = "new" /\ UNCHANGED <<rest, wire>>
    BY <1>2, <1>7 DEF R!Post
  <2>2. PortTypes' /\ Sent' = Sent \o R!Bytes(m)
    BY <1>2, <1>6, <2>1
  <2>3. OutRight(Sent, dropped, rest, accepted, posted, stage)'
    BY <1>1, <1>3a, <2>1, <2>2, PostRight
  <2>4. QED
    BY <1>4, <2>2, <2>3
<1>8. CASE R!Post(m) /\ ~R!HasRoom(R!Bytes(m))
  <2>1. /\ stage' = [stage EXCEPT ![m] = "refused"] /\ stage[m] = "new"
        /\ UNCHANGED <<outBuf, accepted, posted, rest, wire>>
    BY <1>8 DEF R!Post
  <2>2. OutRight(Sent, dropped, rest, accepted, posted, stage)'
    BY <1>1, <1>3a, <1>5, <2>1, RefuseRight
  <2>3. QED
    BY <1>4, <1>5, <2>1, <2>2
<1>9. CASE R!Write(m)
  <2>1. /\ stage' = [stage EXCEPT ![m] = "writing"] /\ stage[m] = "new"
        /\ rest' = [rest EXCEPT ![m] = R!Bytes(m)]
        /\ accepted' = accepted \cup Elements(R!Bytes(m))
        /\ UNCHANGED <<outBuf, posted, wire>>
    BY <1>2, <1>9 DEF R!Write
  <2>2. OutRight(Sent, dropped, rest, accepted, posted, stage)'
    BY <1>1, <1>3a, <1>5, <2>1, WriteRight
  <2>3. QED
    BY <1>4, <1>5, <2>1, <2>2
<1>10. CASE R!WriteSome(m)
  <2>1. PICK n \in 1..Len(rest[m]) :
          /\ wire' = wire \o SubSeq(rest[m], 1, n)
          /\ rest' = [rest EXCEPT ![m] = SubSeq(@, n + 1, Len(@))]
          /\ stage' = [stage EXCEPT ![m] = IF n = Len(rest[m]) THEN "sent" ELSE @]
    BY <1>10 DEF R!WriteSome
  <2>2. stage[m] = "writing" /\ UNCHANGED <<outBuf, accepted, posted>> /\ stage \in [Messages -> SenderPlaces]
    BY <1>1, <1>10 DEF R!WriteSome, OutRight
  <2>3. PICK x, y : x = SubSeq(rest[m], 1, n) /\ y = SubSeq(rest[m], n + 1, Len(rest[m]))
    OBVIOUS
  <2>4. /\ x \in Seq(PortBytes) /\ y \in Seq(PortBytes) /\ rest[m] = x \o y
        /\ n = Len(rest[m]) => y = <<>>
    <3>1. rest[m] \in Seq(PortBytes) /\ n \in Nat /\ n <= Len(rest[m])
      BY <1>1, <2>1
    <3>2. QED
      BY <2>3, <3>1, Cut
  <2>5. PICK now : now = IF n = Len(rest[m]) THEN "sent" ELSE "writing"
    OBVIOUS
  <2>6. now \in SenderPlaces /\ now # "new" /\ (now # "writing" => y = <<>>)
        /\ stage' = [stage EXCEPT ![m] = now] /\ rest' = [rest EXCEPT ![m] = y]
    BY <2>1, <2>2, <2>3, <2>4, <2>5 DEF SenderPlaces
  <2>7. PICK pending : pending = R!Pending
    OBVIOUS
  <2>8. pending \in Seq(PortBytes) /\ wire \in Seq(PortBytes) /\ Sent = wire \o pending
        /\ R!Pending' = pending
    BY <1>1, <1>3, <2>2, <2>7, PendingIs DEF PortTypes, Sent, R!Pending
  <2>9. Sent' = (wire \o x) \o pending
    BY <2>1, <2>3, <2>8 DEF Sent
  <2>10. OutRight((wire \o x) \o pending, dropped, rest', accepted, posted, stage')
    BY <1>1, <2>2, <2>4, <2>6, <2>8, InsertRight
  <2>11. PortTypes'
    <3>1. wire' \in Seq(PortBytes)
      BY <2>1, <2>3, <2>4, <2>8, ConcatProperties
    <3>2. QED
      BY <1>1, <1>3, <2>2, <3>1 DEF PortTypes, R!inputVars
  <2>12. QED
    BY <1>3a, <1>4, <2>2, <2>9, <2>10, <2>11
<1>11. CASE R!WriteLater(m) /\ R!HasRoom(rest[m])
  <2>1. /\ rest' = [rest EXCEPT ![m] = <<>>] /\ outBuf' = outBuf \o rest[m]
        /\ stage' = [stage EXCEPT ![m] = "sent"] /\ stage[m] = "writing"
        /\ UNCHANGED <<accepted, posted, wire>>
    BY <1>11 DEF R!WriteLater
  <2>2. PICK x : x = rest[m]
    OBVIOUS
  <2>3. x \in Seq(PortBytes) /\ x \o <<>> = x /\ <<>> \in Seq(PortBytes)
    BY <1>1, <2>2, ConcatEmptySeq, EmptyHasNone
  <2>4. PortTypes' /\ Sent' = Sent \o x
    BY <1>6, <2>1, <2>2, <2>3
  <2>5. Sent \in Seq(PortBytes) /\ Sent \o <<>> = Sent /\ (Sent \o x) \o <<>> = Sent \o x
    BY <1>1, <2>3, PendingIs, ConcatEmptySeq, ConcatProperties
  <2>6. PICK sent : sent = Sent
    OBVIOUS
  <2>7. OutRight((sent \o x) \o <<>>, dropped, rest', accepted, posted, stage')
    <3>1. OutRight(sent \o <<>>, dropped, rest, accepted, posted, stage) /\ rest[m] = x \o <<>>
      BY <1>1, <2>2, <2>3, <2>5, <2>6
    <3>2. sent \in Seq(PortBytes) /\ "sent" \in SenderPlaces /\ "sent" # "new"
      BY <2>5, <2>6 DEF SenderPlaces
    <3>3. QED
      BY <2>1, <2>3, <3>1, <3>2, InsertRight
  <2>8. OutRight(Sent, dropped, rest, accepted, posted, stage)'
    BY <1>3a, <2>1, <2>4, <2>5, <2>6, <2>7
  <2>9. QED
    BY <1>4, <2>4, <2>8
<1>12. CASE R!WriteLater(m) /\ ~R!HasRoom(rest[m])
  <2>1. /\ rest' = [rest EXCEPT ![m] = <<>>] /\ accepted' = accepted \ Elements(rest[m])
        /\ stage' = [stage EXCEPT ![m] = "refused"] /\ stage[m] = "writing"
        /\ UNCHANGED <<outBuf, posted, wire>>
    BY <1>2, <1>12 DEF R!WriteLater
  <2>2. OutRight(Sent, dropped, rest, accepted, posted, stage)'
    BY <1>1, <1>3a, <1>5, <2>1, GiveUpRight
  <2>3. QED
    BY <1>4, <1>5, <2>1, <2>2
<1>13. QED
  BY <1>7, <1>8, <1>9, <1>10, <1>11, <1>12

\* The steps of handle_write: what the device refuses is given up.
LEMMA FlushKeeps ==
  ASSUME PortInv, R!HandleWrite \/ R!FlushSome \/ R!EndFlush
  PROVE  PortInv'
<1>1. /\ PortTypes /\ wire \in Seq(PortBytes) /\ outBuf \in Seq(PortBytes)
      /\ runPtr \in Nat /\ endPtr \in Nat /\ runPtr <= endPtr /\ endPtr <= Len(outBuf) /\ Len(outBuf) \in Nat
  BY DEF PortInv, PortTypes
<1>2. UNCHANGED R!sessionVars /\ UNCHANGED R!inputVars /\ UNCHANGED <<stage, rest, accepted, posted>>
  BY DEF R!HandleWrite, R!FlushSome, R!EndFlush, R!EndFlushWith
<1>3. ASSUME PortTypes', OutRight(Sent, dropped, rest, accepted, posted, stage)' PROVE PortInv'
  BY <1>2, <1>3 DEF PortInv, InputRight, R!SettingsRestored, R!sessionVars, R!inputVars
<1>3a. ASSUME PortTypes', Sent' = Sent, dropped' = dropped PROVE PortInv'
  BY <1>2, <1>3, <1>3a DEF PortInv
<1>4. CASE R!HandleWrite
  <2>1. /\ flushing = "out" /\ flushing' = "writing" /\ endPtr' = Len(outBuf) /\ runPtr' = 0
        /\ UNCHANGED <<wire, outBuf, dropped>>
    BY <1>4 DEF R!HandleWrite
  <2>2. R!Pending' = R!Pending
    BY <1>1, <2>1, SubSeqFull DEF R!Pending
  <2>3. PortTypes'
    BY <1>1, <1>2, <2>1 DEF PortTypes, R!inputVars
  <2>4. QED
    BY <1>3a, <2>1, <2>2, <2>3 DEF Sent
<1>5. CASE R!FlushSome
  <2>1. PICK n \in 1..endPtr - runPtr :
          wire' = wire \o SubSeq(outBuf, runPtr + 1, runPtr + n) /\ runPtr' = runPtr + n
    BY <1>5 DEF R!FlushSome
  <2>2. flushing = "writing" /\ UNCHANGED <<outBuf, flushing, endPtr, dropped>>
    BY <1>5 DEF R!FlushSome
  <2>3. PICK k : k = runPtr + n
    OBVIOUS
  <2>4. k \in Nat /\ k <= endPtr /\ k <= Len(outBuf) /\ runPtr <= k
    BY <1>1, <2>1, <2>3
  <2>5. PICK x, y : x = SubSeq(outBuf, runPtr + 1, k) /\ y = SubSeq(outBuf, k + 1, Len(outBuf))
    OBVIOUS
  <2>6. x \o y = SubSeq(outBuf, runPtr + 1, Len(outBuf))
    <3>1. runPtr + 1 \in 1..Len(outBuf) + 1 /\ k \in (runPtr + 1) - 1..Len(outBuf) /\ Len(outBuf) \in k..Len(outBuf)
      BY <1>1, <2>4
    <3>2. QED
      BY <1>1, <2>5, <3>1, ConcatAdjacentSubSeq
  <2>7. x \in Seq(PortBytes) /\ y \in Seq(PortBytes)
    <3>1. (\A i \in runPtr + 1..k : outBuf[i] \in PortBytes) /\ (\A i \in k + 1..Len(outBuf) : outBuf[i] \in PortBytes)
      BY <1>1, <2>4
    <3>2. x \in Seq(PortBytes)
      BY <1>1, <2>4, <2>5, <3>1, SubSeqProperties
    <3>3. y \in Seq(PortBytes)
      BY <1>1, <2>4, <2>5, <3>1, SubSeqProperties
    <3>4. QED
      BY <3>2, <3>3
  <2>8. Sent = wire \o (x \o y) /\ Sent' = (wire \o x) \o y
    BY <2>1, <2>2, <2>3, <2>5, <2>6 DEF Sent, R!Pending
  <2>9. Sent' = Sent
    <3>1. wire \in Seq(PortBytes)
      BY <1>1
    <3>2. (wire \o x) \o y = wire \o (x \o y)
      BY <2>7, <3>1, RegroupedBytes
    <3>3. QED
      BY <2>8, <3>2
  <2>10. wire' \in Seq(PortBytes)
    BY <1>1, <2>1, <2>3, <2>5, <2>7, ConcatProperties
  <2>11. PortTypes'
    BY <1>1, <1>2, <2>1, <2>2, <2>3, <2>4, <2>10 DEF PortTypes, R!inputVars
  <2>12. QED
    BY <1>3a, <2>2, <2>9, <2>11
<1>6. CASE R!EndFlush
  <2>1. /\ flushing = "writing" /\ outBuf' = SubSeq(outBuf, endPtr + 1, Len(outBuf))
        /\ dropped' = dropped \cup R!ToSet(SubSeq(outBuf, runPtr + 1, endPtr))
        /\ flushing' = "out" /\ endPtr' = 0 /\ runPtr' = 0 /\ UNCHANGED wire
    BY <1>6 DEF R!EndFlush, R!EndFlushWith
  <2>2. PICK x, y : x = SubSeq(outBuf, runPtr + 1, endPtr) /\ y = SubSeq(outBuf, endPtr + 1, Len(outBuf))
    OBVIOUS
  <2>3. x \o y = SubSeq(outBuf, runPtr + 1, Len(outBuf))
    <3>1. runPtr + 1 \in 1..Len(outBuf) + 1 /\ endPtr \in (runPtr + 1) - 1..Len(outBuf)
          /\ Len(outBuf) \in endPtr..Len(outBuf)
      BY <1>1
    <3>2. QED
      BY <1>1, <2>2, <3>1, ConcatAdjacentSubSeq
  <2>4. y \in Seq(PortBytes)
    BY <1>1, <2>2, Cut
  <2>5. x \in Seq(PortBytes)
    <3>1. \A i \in runPtr + 1..endPtr : outBuf[i] \in PortBytes
      BY <1>1
    <3>2. QED
      BY <1>1, <2>2, <3>1, SubSeqProperties
  <2>6. Sent = wire \o (x \o y) /\ Sent' = wire \o y
    BY <2>1, <2>2, <2>3 DEF Sent, R!Pending
  <2>7. dropped' = dropped \cup Elements(x)
    BY <2>1, <2>2, Same
  <2>8. OutRight(wire \o (x \o y), dropped, rest, accepted, posted, stage)
    BY <2>6 DEF PortInv
  <2>9. OutRight(wire \o y, dropped \cup Elements(x), rest, accepted, posted, stage)
    BY <1>1, <2>4, <2>5, <2>8, DropRight
  <2>10. OutRight(Sent, dropped, rest, accepted, posted, stage)'
    BY <1>2, <2>6, <2>7, <2>9
  <2>11. outBuf' \in Seq(PortBytes) /\ Len(outBuf') \in Nat
    BY <2>1, <2>2, <2>4
  <2>12. PortTypes'
    BY <1>1, <2>1, <2>11 DEF PortTypes
  <2>13. QED
    BY <1>3, <2>10, <2>12
<1>7. QED
  BY <1>4, <1>5, <1>6

\* The steps of the reader.
LEMMA ReaderKeeps ==
  ASSUME PortInv, R!HandleRead \/ R!GetString
  PROVE  PortInv'
<1>1. UNCHANGED R!sessionVars /\ UNCHANGED R!outputVars
  BY DEF R!HandleRead, R!GetString
<1>1a. ASSUME InputRight' PROVE PortInv'
  BY <1>1, <1>1a DEF PortInv, PortTypes, R!SettingsRestored, R!sessionVars, R!outputVars, Sent, R!Pending
<1>1b. CASE mixed'
  BY <1>1a, <1>1b DEF InputRight
<1>1c. ~mixed' => ~mixed
  BY Zenon DEF R!HandleRead, R!GetString
<1>2. ASSUME ~mixed'
      PROVE  TextRight(taken \o strInBuf, inBuf, received) /\ taken \in Seq(Nat) /\ strInBuf \in Seq(Nat)
  BY <1>1c, <1>2 DEF PortInv, InputRight
<1>3. ASSUME TextRight(taken \o strInBuf, inBuf, received)', taken' \in Seq(Nat), strInBuf' \in Seq(Nat)
      PROVE  PortInv'
  BY <1>1a, <1>3 DEF InputRight
<1>4. CASE R!GetString /\ ~mixed'
  <2>1. taken' = taken \o strInBuf /\ strInBuf' = <<>> /\ UNCHANGED <<inBuf, received>>
    BY <1>4 DEF R!GetString
  <2>2. taken' \in Seq(Nat) /\ strInBuf' \in Seq(Nat) /\ taken' \o strInBuf' = taken \o strInBuf
    <3>1. taken \in Seq(Nat) /\ strInBuf \in Seq(Nat) /\ <<>> \in Seq(Nat)
      BY <1>2, <1>4, EmptyHasNone
    <3>2. taken \o strInBuf \in Seq(Nat)
      BY <3>1, ConcatProperties
    <3>3. (taken \o strInBuf) \o <<>> = taken \o strInBuf
      BY <3>2, ConcatEmptySeq
    <3>4. QED
      BY <2>1, <3>1, <3>2, <3>3
  <2>3. QED
    BY <1>2, <1>3, <1>4, <2>1, <2>2
<1>5. ASSUME R!HandleRead, ~mixed', UNCHANGED <<inBuf, strInBuf, received, taken>> PROVE PortInv'
  BY <1>2, <1>3, <1>5
<1>6. ASSUME R!HandleRead, ~mixed', ~UNCHANGED <<inBuf, strInBuf, received, taken>> PROVE PortInv'
  <2>1. PICK most : \E n \in 1..most : \E chunk \in R!Chunks(n) :
          /\ most \in Int
          /\ received' = received \o chunk
          /\ strInBuf' = strInBuf \o R!CompileResponse(inBuf \o chunk).line
          /\ mixed' = (mixed \/ inBuf' # R!CompileResponse(inBuf \o chunk).left)
    <3>1. BufSize - Len(inBuf) \in Int /\ MaxInput - Len(received) \in Int
      BY <1>2, <1>6, LinesAssumption DEF TextRight
    <3>2. QED
      BY <1>6, <3>1 DEF R!HandleRead
  <2>2. PICK n \in 1..most : \E chunk \in R!Chunks(n) :
          /\ most \in Int
          /\ received' = received \o chunk
          /\ strInBuf' = strInBuf \o R!CompileResponse(inBuf \o chunk).line
          /\ mixed' = (mixed \/ inBuf' # R!CompileResponse(inBuf \o chunk).left)
    BY <2>1
  <2>20. PICK chunk \in R!Chunks(n) :
          /\ most \in Int
          /\ received' = received \o chunk
          /\ strInBuf' = strInBuf \o R!CompileResponse(inBuf \o chunk).line
          /\ mixed' = (mixed \/ inBuf' # R!CompileResponse(inBuf \o chunk).left)
    BY <2>2
  <2>3. n \in Nat /\ taken' = taken
    BY <1>6, <2>20 DEF R!HandleRead
  <2>4. PICK line, after \in Seq(Nat) :
          /\ R!CompileResponse(inBuf \o chunk) = [line |-> line, left |-> after]
          /\ TextRight((taken \o strInBuf) \o line, after, received \o chunk)
    BY <1>2, <1>6, <2>3, ReadRight
  <2>50. inBuf' = R!CompileResponse(inBuf \o chunk).left
    BY <1>6, <2>20, Zenon
  <2>5. strInBuf' = strInBuf \o line /\ inBuf' = after
    BY <2>20, <2>4, <2>50
  <2>6. taken \o (strInBuf \o line) = (taken \o strInBuf) \o line /\ strInBuf' \in Seq(Nat)
    <3>1. strInBuf \o line \in Seq(Nat)
      BY <1>2, <1>6, <2>4, ConcatProperties
    <3>2. (taken \o strInBuf) \o line = taken \o (strInBuf \o line)
      <4>1. \A s, t, u \in Seq(Nat) : (s \o t) \o u = s \o (t \o u)
        BY RegroupedText
      <4>2. QED
        BY <1>2, <1>6, <2>4, <4>1
    <3>3. QED
      BY <2>5, <3>1, <3>2
  <2>7. TextRight(taken \o strInBuf, inBuf, received)'
    BY <2>20, <2>3, <2>4, <2>5, <2>6
  <2>8. QED
    BY <1>2, <1>3, <1>6, <2>3, <2>6, <2>7
<1>7. QED
  BY <1>1b, <1>4, <1>5, <1>6

LEMMA PortInvNext ==
  ASSUME PortInv, R!Next \/ UNCHANGED portVars
  PROVE  PortInv'
<1>1. CASE UNCHANGED portVars
  BY <1>1 DEF portVars, PortInv, PortTypes, InputRight, R!SettingsRestored, Sent, R!Pending
<1>2. QED
  BY <1>1, SessionKeeps, SenderKeeps, FlushKeeps, ReaderKeeps DEF R!Next

LEMMA PortInvInit == ASSUME R!Init PROVE PortInv
<1>1. /\ connected = FALSE /\ options = "original" /\ saved = "original" /\ handles = 0
      /\ outBuf = <<>> /\ flushing = "out" /\ endPtr = 0 /\ runPtr = 0
      /\ stage = [m \in Messages |-> "new"] /\ rest = [m \in Messages |-> <<>>]
      /\ accepted = {} /\ posted = <<>> /\ wire = <<>> /\ dropped = {}
      /\ inBuf = <<>> /\ strInBuf = <<>> /\ taken = <<>> /\ received = <<>>
  BY DEF R!Init
<1>2. (\A A : <<>> \in Seq(A)) /\ <<>> \o <<>> = <<>> /\ Len(<<>>) = 0
  BY EmptyHasNone, ConcatEmptySeq
<1>3. Sent = <<>>
  BY <1>1, <1>2 DEF Sent, R!Pending
<1>4. OutRight(Sent, dropped, rest, accepted, posted, stage)
  <2>1. rest \in [Messages -> Seq(PortBytes)] /\ stage \in [Messages -> SenderPlaces]
        /\ \A m \in Messages : rest[m] = <<>> /\ stage[m] = "new"
    BY <1>1, <1>2 DEF SenderPlaces
  <2>2. QED
    BY <1>1, <1>2, <1>3, <2>1, EmptyHasNone DEF OutRight
<1>5. InputRight
  BY <1>1, <1>2, EmptyHasNone DEF InputRight, TextRight
<1>6. PortTypes /\ R!SettingsRestored
  BY <1>1, <1>2 DEF PortTypes, R!SettingsRestored
<1>7. QED
  BY <1>4, <1>5, <1>6 DEF PortInv

LEMMA PortInvSafe == ASSUME PortInv PROVE PortKeeps
<1>1. PICK sent : sent = Sent
  OBVIOUS
<1>2. OutRight(sent, dropped, rest, accepted, posted, stage) /\ sent = wire \o R!Pending
  BY <1>1 DEF PortInv, Sent
<1>3. \A s : R!ToSet(s) = Elements(s) /\ (R!IsInjective(s) <=> Once(s))
  BY Same
<1>4. R!NothingLost
  <2>1. PICK unsent : unsent = UNION {Elements(rest[m]) : m \in Messages}
    OBVIOUS
  <2>2. \A b : b \in unsent <=> \E m \in Messages : b \in Elements(rest[m])
    BY <2>1
  <2>3. unsent = UNION {R!ToSet(rest[m]) : m \in Messages}
    BY <1>3, <2>1
  <2>4. Once(sent) /\ Elements(sent) \cup unsent \cup dropped = accepted
    BY <1>2, <2>2 DEF OutRight
  <2>5. \A m \in Messages : Once(rest[m]) /\ \A b \in Elements(rest[m]) : b[1] = m
    BY <1>2 DEF OutRight
  <2>6. Elements(sent) \cap unsent = {} /\ dropped \cap (Elements(sent) \cup unsent) = {}
    BY <1>2, <2>2 DEF OutRight
  <2>7. posted \in Seq(Messages) /\ DOMAIN posted = 1..Len(posted)
        /\ \A i \in DOMAIN posted : posted[i] \in Messages /\ posted[i] \in Elements(posted)
    <3>1. posted \in Seq(Messages)
      BY <1>2 DEF OutRight
    <3>2. QED
      BY <3>1 DEF Elements
  <2>8. \A i \in DOMAIN posted : Elements(R!Bytes(posted[i])) \subseteq Elements(sent) \cup dropped
    BY <1>2, <2>7 DEF OutRight
  <2>9. ASSUME NEW i \in DOMAIN sent, NEW j \in DOMAIN sent, i < j,
               {sent[i][1], sent[j][1]} \subseteq Elements(posted)
        PROVE  R!Earlier(sent[i], sent[j])
    <3>1. PICK b, c : b = sent[i] /\ c = sent[j]
      OBVIOUS
    <3>2. Before(sent, b, c) /\ b[1] \in Elements(posted) /\ c[1] \in Elements(posted)
      BY <2>9, <3>1 DEF Before
    <3>3. Early(posted, b, c)
      BY <1>2, <3>2 DEF OutRight
    <3>4. R!Earlier(b, c)
      BY <3>3 DEF Early, Before, R!Earlier
    <3>5. QED
      BY <3>1, <3>4
  <2>10. QED
    BY <1>2, <1>3, <2>3, <2>4, <2>5, <2>6, <2>8, <2>9 DEF R!NothingLost
<1>5. ASSUME ~mixed PROVE R!TextInOrder
  <2>1. PICK text : text = taken \o strInBuf
    OBVIOUS
  <2>2. PICK all : all = text \o inBuf
    OBVIOUS
  <2>3. TextRight(text, inBuf, received)
    BY <1>5, <2>1 DEF PortInv, InputRight
  <2>4. Elements(all) = Elements(text) \cup Elements(inBuf)
    BY <2>2, <2>3, Joined DEF TextRight
  <2>5. 0 \notin Elements(text) /\ Elements(all) \ {0} = Elements(received) \ {0}
    BY <2>3, <2>4 DEF TextRight
  <2>6. ASSUME NEW i \in DOMAIN all, NEW j \in DOMAIN all, i < j, 0 \notin {all[i], all[j]}
        PROVE  all[i] < all[j]
    <3>1. Before(all, all[i], all[j])
      BY <2>6 DEF Before
    <3>2. QED
      BY <2>2, <2>3, <2>6, <3>1 DEF TextRight
  <2>7. QED
    BY <1>3, <2>1, <2>2, <2>5, <2>6 DEF R!TextInOrder, R!Delim
<1>6. mixed => R!TextInOrder
  BY DEF R!TextInOrder
<1>7. QED
  BY <1>4, <1>5, <1>6 DEF PortKeeps, R!PortKeeps, PortInv

-----------------------------------------------------------------------------
(***************************************************************************)
(* Among the other ones: their steps leave the port alone.                 *)
(***************************************************************************)
LEMMA PortPart == FairSpecAll => R!Spec
<1>1. InitAll => R!Init
  BY DEF InitAll
<1>2. [NextAll]_allVars => [R!Next]_(R!portVars)
  BY DEF NextAll, Others, allVars, portVars, R!portVars, R!sessionVars, R!outputVars, R!inputVars
<1>3. QED
  BY <1>1, <1>2, PTL DEF FairSpecAll, R!Spec

\* Whatever is posted or written, by whomever and whenever: a port that is not connected has
\* its own settings; what was taken over is on the wire or still to be written, once and in the
\* order in which it was posted, or is what a handle_write gave up when the device was full; and
\* getString () returns what was read, in order, unless memcpy has mixed it up
\* (basic.rs232port.cpp, posix.rs232port.cpp).
THEOREM PortAlwaysKept == FairSpecAll => []PortKeeps
<1>1. R!Init => PortInv
  BY PortInvInit
<1>2. PortInv /\ [R!Next]_(R!portVars) => PortInv'
  <2>1. UNCHANGED R!portVars => UNCHANGED portVars
    BY DEF portVars, R!portVars, R!sessionVars, R!outputVars, R!inputVars
  <2>2. QED
    BY <2>1, PortInvNext
<1>3. PortInv => PortKeeps
  BY PortInvSafe
<1>4. QED
  BY <1>1, <1>2, <1>3, PortPart, PTL DEF R!Spec

-----------------------------------------------------------------------------
(***************************************************************************)
(* The port of Windows.                                                    *)
(***************************************************************************)
\* The event that postTerminate (true) waits for is set by the reader's last step only, and
\* reset by the next open ().
WinPortInv ==
  /\ terminated => reader = "stopped"
  /\ W!WinPortOrderly

LEMMA WinPortInvInit == ASSUME W!Init PROVE WinPortInv
BY DEF W!Init, WinPortInv, W!WinPortOrderly

LEMMA WinPortInvNext == ASSUME WinPortInv, [W!Next]_winVars PROVE WinPortInv'
<1>1. CASE UNCHANGED winVars
  BY <1>1 DEF WinPortInv, W!WinPortOrderly, winVars
<1>2. CASE W!Open
  BY <1>2 DEF WinPortInv, W!WinPortOrderly, W!Open, W!OpenAs
<1>3. CASE W!Close
  BY <1>3 DEF WinPortInv, W!WinPortOrderly, W!Close
<1>4. CASE W!ReadAtOnce \/ W!ReadPends \/ W!ReadCompletes
  BY <1>4 DEF WinPortInv, W!WinPortOrderly, W!ReadAtOnce, W!ReadPends, W!ReadCompletes, W!eventVars
<1>5. CASE W!ReadTerminated
  BY <1>5 DEF WinPortInv, W!WinPortOrderly, W!ReadTerminated
<1>6. CASE W!BeginWrite \/ W!WriteAtOnce \/ W!WritePends \/ W!WriteCompletes
  BY <1>6 DEF WinPortInv, W!WinPortOrderly, W!BeginWrite, W!WriteAtOnce, W!WritePends,
              W!WriteCompletes, W!Written, W!eventVars
<1>7. CASE W!WriteTerminated
  BY <1>7 DEF WinPortInv, W!WinPortOrderly, W!WriteTerminated, W!eventVars
<1>8. ASSUME NEW wait \in BOOLEAN, W!PostTerminate(wait) PROVE WinPortInv'
  BY <1>8 DEF WinPortInv, W!WinPortOrderly, W!PostTerminate
<1>9. CASE W!WaitReturns
  BY <1>9 DEF WinPortInv, W!WinPortOrderly, W!WaitReturns, W!eventVars
<1>10. QED
  BY <1>1, <1>2, <1>3, <1>4, <1>5, <1>6, <1>7, <1>8, <1>9 DEF W!Next

LEMMA WinPortPart == FairSpecAll => W!Init /\ [][W!Next]_winVars
<1>1. InitAll => W!Init
  BY DEF InitAll
<1>2. [NextAll]_allVars => [W!Next]_winVars
  BY DEF NextAll, Others, allVars, winVars
<1>3. QED
  BY <1>1, <1>2, PTL DEF FairSpecAll

\* postTerminate (true) returns when the thread that reads in this session has left receive ()
\* for good, whatever was terminated in sessions before; a write is only cut short in a
\* session that was terminated; and a closed port has its own time-outs (win32.rs232port.cpp).
THEOREM WinPortAlwaysOrderly == FairSpecAll => []W!WinPortOrderly
<1>1. W!Init => WinPortInv
  BY WinPortInvInit
<1>2. WinPortInv /\ [W!Next]_winVars => WinPortInv'
  BY WinPortInvNext
<1>3. WinPortInv => W!WinPortOrderly
  BY DEF WinPortInv
<1>4. QED
  BY <1>1, <1>2, <1>3, WinPortPart, PTL

-----------------------------------------------------------------------------
(***************************************************************************)
(* The channel between threads.                                            *)
(***************************************************************************)
PushBytes == Pushers \X Nat

\* msg says how much of a message is on its way: that much and no more was passed on, in order.
PassedInv ==
  /\ pushAt \in [Pushers -> {"out", "writing", "done"}]
  /\ msg \in [Pushers -> Nat] /\ bytesRest \in [Pushers -> Nat]
  /\ called \in Seq(PushBytes) /\ pipeBytes \in Seq(PushBytes)
  /\ \A p \in Pushers :
       /\ pushAt[p] = "out" => msg[p] = 0
       /\ pushAt[p] = "writing" => msg[p] + bytesRest[p] = PushSize
       /\ pushAt[p] = "done" => msg[p] = PushSize
  /\ \A p \in Pushers, k \in Nat : <<p, k>> \in Elements(I!Passed) <=> k \in 1..msg[p]
  /\ \A b, c : Before(I!Passed, b, c) /\ b[1] = c[1] => b[2] < c[2]

LEMMA PassedInvInit == ASSUME I!Init PROVE PassedInv
<1>1. pipeBytes = <<>> /\ called = <<>> /\ I!Passed = <<>>
  BY ConcatEmptySeq, EmptyHasNone DEF I!Init, I!Passed
<1>2. QED
  BY <1>1, EmptyHasNone DEF I!Init, PassedInv

LEMMA PassedInvSays ==
  ASSUME PassedInv
  PROVE  I!PushedInOrder /\ I!PushedOnce
<1>1. PICK s : s = I!Passed
  OBVIOUS
<1>2. s \in Seq(PushBytes) /\ Elements(s) \subseteq PushBytes /\ I!ToSet(s) = Elements(s)
  <2>1. s \in Seq(PushBytes)
    BY <1>1, Joined DEF PassedInv, I!Passed
  <2>2. QED
    BY <2>1, ElementsIn DEF I!ToSet, Elements
<1>3. \A p \in Pushers, k \in Nat : <<p, k>> \in Elements(s) <=> k \in 1..msg[p]
  BY <1>1 DEF PassedInv
<1>4. \A b \in Elements(s) : b[1] \in Pushers /\ b[2] \in Nat /\ b = <<b[1], b[2]>>
  BY <1>2 DEF PushBytes
<1>5. msg \in [Pushers -> Nat]
  BY DEF PassedInv
<1>6. I!PushedInOrder
  <2>1. ASSUME NEW i \in DOMAIN s, NEW j \in DOMAIN s, i < j, s[i][1] = s[j][1]
        PROVE  s[i][2] < s[j][2]
    <3>1. Before(s, s[i], s[j])
      BY <2>1 DEF Before
    <3>2. QED
      BY <1>1, <2>1, <3>1 DEF PassedInv
  <2>2. ASSUME NEW b \in Elements(s), NEW k \in 1..b[2]
        PROVE  <<b[1], k>> \in Elements(s)
    <3>1. b[1] \in Pushers /\ b[2] \in Nat /\ b[2] \in 1..msg[b[1]]
      BY <1>3, <1>4
    <3>2. k \in Nat /\ k \in 1..msg[b[1]]
      BY <1>5, <3>1
    <3>3. QED
      BY <1>3, <3>1, <3>2
  <2>3. QED
    BY <1>1, <1>2, <2>1, <2>2 DEF I!PushedInOrder
<1>7. ASSUME NEW p \in Pushers, pushAt[p] = "done"
      PROVE  {b \in Elements(s) : b[1] = p} = {p} \X (1..PushSize)
  <2>1. msg[p] = PushSize /\ PushSize \in Nat
    BY <1>7, LinesAssumption DEF PassedInv
  <2>2. \A b \in Elements(s) : b[1] = p => b \in {p} \X (1..PushSize)
    BY <1>3, <1>4, <2>1
  <2>3. \A k \in 1..PushSize : <<p, k>> \in Elements(s)
    BY <1>3, <2>1
  <2>4. QED
    BY <2>2, <2>3
<1>8. QED
  BY <1>1, <1>2, <1>6, <1>7 DEF I!PushedOnce

LEMMA RowIsSequence ==
  ASSUME NEW A, NEW n \in Nat, NEW w \in [1..n -> A]
  PROVE  w \in Seq(A) /\ DOMAIN w = 1..n
OBVIOUS

\* What a write () adds.
LEMMA NextBytes ==
  ASSUME NEW p \in Pushers, NEW m \in Nat, NEW n \in Nat, NEW w \in Seq(PushBytes),
         DOMAIN w = 1..n, \A i \in 1..n : w[i] = <<p, m + i>>
  PROVE  /\ \A b : b \in Elements(w) <=> \E k \in m + 1..m + n : b = <<p, k>>
         /\ \A b, c : Before(w, b, c) => b[2] < c[2]
<1>1. \A i \in 1..n : m + i \in Nat /\ m + i \in m + 1..m + n /\ w[i] = <<p, m + i>>
  OBVIOUS
<1>3. w \in Seq(PushBytes) /\ DOMAIN w = 1..n
  OBVIOUS
<1>4. \A k \in m + 1..m + n : k - m \in 1..n /\ m + (k - m) = k
  OBVIOUS
<1>5. \A b : b \in Elements(w) <=> \E k \in m + 1..m + n : b = <<p, k>>
  <2>1. ASSUME NEW b \in Elements(w) PROVE \E k \in m + 1..m + n : b = <<p, k>>
    BY <1>1, <1>3 DEF Elements
  <2>2. ASSUME NEW k \in m + 1..m + n PROVE <<p, k>> \in Elements(w)
    <3>1. PICK i : i = k - m
      OBVIOUS
    <3>2. i \in 1..n /\ w[i] = <<p, k>>
      BY <1>1, <1>4, <3>1
    <3>3. QED
      BY <1>3, <3>2 DEF Elements
  <2>3. QED
    BY <2>1, <2>2
<1>6. ASSUME NEW b, NEW c, Before(w, b, c) PROVE b[2] < c[2]
  <2>1. PICK i \in 1..n, j \in 1..n : i < j /\ w[i] = b /\ w[j] = c
    BY <1>3, <1>6 DEF Before
  <2>2. b[2] = m + i /\ c[2] = m + j
    BY <1>1, <2>1
  <2>3. QED
    BY <2>1, <2>2
<1>7. QED
  BY <1>5, <1>6

LEMMA RegroupedPushes == \A s, t, u \in Seq(PushBytes) : (s \o t) \o u = s \o (t \o u)
BY ConcatAssociative, SMTT(40)

LEMMA WriteKeeps ==
  ASSUME PassedInv, NEW p \in Pushers, I!WriteBytes(p)
  PROVE  PassedInv'
<1>1. PICK n \in 1..bytesRest[p] :
        /\ pushAt[p] = "writing" /\ UNCHANGED called
        /\ pipeBytes' = pipeBytes \o [i \in 1..n |-> <<p, msg[p] + i>>]
        /\ msg' = [msg EXCEPT ![p] = @ + n] /\ bytesRest' = [bytesRest EXCEPT ![p] = @ - n]
        /\ pushAt' = [pushAt EXCEPT ![p] = IF n = bytesRest[p] THEN "done" ELSE @]
  BY DEF I!WriteBytes
<1>2. PICK m, r, w, s : /\ m = msg[p] /\ r = bytesRest[p] /\ w = [i \in 1..n |-> <<p, m + i>>]
                        /\ s = I!Passed
  OBVIOUS
<1>3. /\ msg \in [Pushers -> Nat] /\ bytesRest \in [Pushers -> Nat] /\ m \in Nat /\ r \in Nat
      /\ called \in Seq(PushBytes) /\ pipeBytes \in Seq(PushBytes) /\ n \in Nat /\ 1 <= n /\ n <= r
      /\ m + r = PushSize /\ pushAt \in [Pushers -> {"out", "writing", "done"}]
  BY <1>1, <1>2, SMTT(40) DEF PassedInv
<1>4. /\ w \in Seq(PushBytes)
      /\ \A b : b \in Elements(w) <=> \E k \in m + 1..m + n : b = <<p, k>>
      /\ \A b, c : Before(w, b, c) => b[2] < c[2]
  <2>1. \A i \in 1..n : m + i \in Nat /\ <<p, m + i>> \in PushBytes /\ w[i] = <<p, m + i>>
    BY <1>2, <1>3, SMTT(40) DEF PushBytes
  <2>2. w \in [1..n -> PushBytes]
    BY <1>2, <2>1
  <2>3. w \in Seq(PushBytes) /\ DOMAIN w = 1..n
    BY <1>3, <2>2, RowIsSequence
  <2>4. m \in Nat /\ n \in Nat /\ \A i \in 1..n : w[i] = <<p, m + i>>
    BY <1>3, <2>1
  <2>5. /\ \A b : b \in Elements(w) <=> \E k \in m + 1..m + n : b = <<p, k>>
        /\ \A b, c : Before(w, b, c) => b[2] < c[2]
    BY <2>3, <2>4, NextBytes
  <2>6. QED
    BY <2>3, <2>5
<1>5. pipeBytes' = pipeBytes \o w /\ s = called \o pipeBytes
  BY <1>1, <1>2 DEF I!Passed
<1>6. I!Passed' = s \o w /\ pipeBytes' \in Seq(PushBytes) /\ s \in Seq(PushBytes)
  <2>1. (called \o pipeBytes) \o w = called \o (pipeBytes \o w)
    BY <1>3, <1>4, RegroupedPushes
  <2>2. called' = called
    BY <1>1
  <2>3. I!Passed' = called \o (pipeBytes \o w)
    BY <1>5, <2>2 DEF I!Passed
  <2>4. QED
    BY <1>3, <1>4, <1>5, <2>1, <2>3, Joined
<1>7. /\ Elements(s \o w) = Elements(s) \cup Elements(w)
      /\ \A b, c : Before(s \o w, b, c) <=>
           Before(s, b, c) \/ Before(w, b, c) \/ (b \in Elements(s) /\ c \in Elements(w))
  BY <1>4, <1>6, Joined
<1>8. msg' = [msg EXCEPT ![p] = m + n] /\ bytesRest' = [bytesRest EXCEPT ![p] = r - n]
  BY <1>1, <1>2, <1>3
<1>9. msg' \in [Pushers -> Nat] /\ bytesRest' \in [Pushers -> Nat] /\ msg'[p] = m + n /\ bytesRest'[p] = r - n
  BY <1>3, <1>8
<1>10. \A q \in Pushers : q # p => msg'[q] = msg[q] /\ bytesRest'[q] = bytesRest[q] /\ pushAt'[q] = pushAt[q]
  BY <1>1, <1>3, <1>8
<1>11. /\ pushAt' \in [Pushers -> {"out", "writing", "done"}]
       /\ pushAt'[p] = IF n = r THEN "done" ELSE "writing"
  BY <1>1, <1>2, <1>3
<1>12. \A q \in Pushers, k \in Nat : <<q, k>> \in Elements(s) <=> k \in 1..msg[q]
  BY <1>2 DEF PassedInv
<1>13. ASSUME NEW q \in Pushers, NEW k \in Nat
       PROVE  <<q, k>> \in Elements(s \o w) <=> k \in 1..msg'[q]
  <2>1. <<q, k>> \in Elements(w) <=> q = p /\ k \in m + 1..m + n
    BY <1>4
  <2>2. CASE q # p
    BY <1>7, <1>10, <1>12, <2>1, <2>2
  <2>3. CASE q = p
    <3>1. k \in 1..m + n <=> k \in 1..m \/ k \in m + 1..m + n
      BY <1>3
    <3>2. QED
      BY <1>2, <1>7, <1>9, <1>12, <2>1, <2>3, <3>1
  <2>4. QED
    BY <2>2, <2>3
<1>14. ASSUME NEW b, NEW c, Before(s \o w, b, c), b[1] = c[1] PROVE b[2] < c[2]
  <2>1. CASE Before(s, b, c)
    BY <1>2, <1>14, <2>1 DEF PassedInv
  <2>2. CASE Before(w, b, c)
    BY <1>4, <2>2
  <2>3. CASE b \in Elements(s) /\ c \in Elements(w)
    <3>1. PICK k \in m + 1..m + n : c = <<p, k>>
      BY <1>4, <2>3
    <3>2. b \in PushBytes
      BY <1>6, <2>3, ElementsIn
    <3>3. b = <<p, b[2]>> /\ b[2] \in Nat
      BY <1>14, <3>1, <3>2 DEF PushBytes
    <3>4. b[2] \in 1..m
      BY <1>2, <1>12, <2>3, <3>3
    <3>5. c[2] = k
      BY <3>1
    <3>6. QED
      BY <1>3, <3>4, <3>5
  <2>4. QED
    BY <1>7, <1>14, <2>1, <2>2, <2>3
<1>15. ASSUME NEW q \in Pushers
       PROVE  /\ pushAt'[q] = "out" => msg'[q] = 0
              /\ pushAt'[q] = "writing" => msg'[q] + bytesRest'[q] = PushSize
              /\ pushAt'[q] = "done" => msg'[q] = PushSize
  <2>1. CASE q = p
    <3>1. (m + n) + (r - n) = m + r /\ (n = r => m + n = m + r)
      BY <1>3
    <3>2. msg'[q] = m + n /\ bytesRest'[q] = r - n /\ pushAt'[q] = IF n = r THEN "done" ELSE "writing"
      BY <1>9, <1>11, <2>1
    <3>3. QED
      BY <1>3, <3>1, <3>2
  <2>2. CASE q # p
    BY <1>10, <2>2 DEF PassedInv
  <2>3. QED
    BY <2>1, <2>2
<1>16. called' \in Seq(PushBytes)
  BY <1>1, <1>3
<1>17. QED
  BY <1>6, <1>9, <1>11, <1>13, <1>14, <1>15, <1>16 DEF PassedInv

\* The callback takes from the front what the pipe loses.
LEMMA ReadPasses ==
  ASSUME PassedInv, I!HandleRead
  PROVE  PassedInv'
<1>1. PICK n : n = IF Len(pipeBytes) < AllocatedSize THEN Len(pipeBytes) ELSE AllocatedSize
  OBVIOUS
<1>2. PICK x, y : x = SubSeq(pipeBytes, 1, n) /\ y = SubSeq(pipeBytes, n + 1, Len(pipeBytes))
  OBVIOUS
<1>3. called' = called \o x /\ pipeBytes' = y /\ UNCHANGED <<pushAt, msg, bytesRest>>
  BY <1>1, <1>2 DEF I!HandleRead
<1>4. called \in Seq(PushBytes) /\ pipeBytes \in Seq(PushBytes) /\ n \in Nat /\ n <= Len(pipeBytes)
  <2>1. called \in Seq(PushBytes) /\ pipeBytes \in Seq(PushBytes)
    BY DEF PassedInv
  <2>2. Len(pipeBytes) \in Nat /\ AllocatedSize \in Nat
    BY <2>1, LinesAssumption
  <2>3. QED
    BY <1>1, <2>1, <2>2
<1>5. x \in Seq(PushBytes) /\ y \in Seq(PushBytes) /\ pipeBytes = x \o y
  BY <1>2, <1>4, Cut
<1>6. (called \o x) \o y = called \o (x \o y)
  BY <1>4, <1>5, RegroupedPushes, SMTT(40)
<1>7. I!Passed' = I!Passed
  BY <1>3, <1>5, <1>6 DEF I!Passed
<1>8. called' \in Seq(PushBytes) /\ pipeBytes' \in Seq(PushBytes)
  BY <1>3, <1>4, <1>5, ConcatProperties
<1>9. QED
  BY <1>3, <1>7, <1>8 DEF PassedInv

LEMMA PassedInvNext == ASSUME ~Interrupts, PassedInv, [I!Next]_ipVars PROVE PassedInv'
<1>1. CASE UNCHANGED ipVars
  BY <1>1 DEF PassedInv, ipVars, I!Passed
<1>2. ASSUME NEW p \in Pushers, I!Push(p) PROVE PassedInv'
  <2>1. /\ pushAt[p] = "out" /\ pushAt' = [pushAt EXCEPT ![p] = "writing"]
        /\ bytesRest' = [bytesRest EXCEPT ![p] = PushSize] /\ UNCHANGED <<msg, pipeBytes, called>>
    BY <1>2 DEF I!Push
  <2>2. PushSize \in Nat
    BY LinesAssumption
  <2>3. I!Passed' = I!Passed
    BY <2>1 DEF I!Passed
  <2>4. QED
    BY <2>1, <2>2, <2>3 DEF PassedInv
<1>3. ASSUME NEW p \in Pushers, I!PushStep(p) PROVE PassedInv'
  <2>1. I!WriteBytes(p)
    BY <1>3 DEF I!PushStep
  <2>2. QED
    BY <2>1, WriteKeeps
<1>4. CASE I!HandleRead
  BY <1>4, ReadPasses
<1>5. QED
  BY <1>1, <1>2, <1>3, <1>4 DEF I!Next

LEMMA ChannelPart == FairSpecAll => I!Init /\ [][I!Next]_ipVars
<1>1. InitAll => I!Init
  BY DEF InitAll
<1>2. [NextAll]_allVars => [I!Next]_ipVars
  BY DEF NextAll, Others, allVars, ipVars
<1>3. QED
  BY <1>1, <1>2, PTL DEF FairSpecAll

\* What threads push gets to the callback whole, once and each message in order, however many
\* push at a time, whatever the pipe has room for and in whatever pieces it is read
\* (basic.ipchannel.cpp), if no signal interrupts write ().
THEOREM PushesPassWhole ==
  ASSUME ~Interrupts
  PROVE  FairSpecAll => [](I!PushedInOrder /\ I!PushedOnce)
<1>1. I!Init => PassedInv
  BY PassedInvInit
<1>2. PassedInv /\ [I!Next]_ipVars => PassedInv'
  BY PassedInvNext
<1>3. PassedInv => I!PushedInOrder /\ I!PushedOnce
  BY PassedInvSays
<1>4. QED
  BY <1>1, <1>2, <1>3, ChannelPart, PTL

-----------------------------------------------------------------------------
(***************************************************************************)
(* Messages.                                                               *)
(***************************************************************************)
LetterBytes == [of : Letters, contents : BOOLEAN, place : Nat \ {0}]
LetterContents == Seq(LetterBytes)
LetterPlaces == [turn : Nat \ {0}, contents : BOOLEAN, place : Nat \ {0}]

LetterSize(turn) == L!Size(sentLetters[turn])
PartSize(contents, turn) == IF contents THEN LetterSize(turn) ELSE L!SizeOfSize

\* The byte at a place of the stream, and the place that follows.
LetterByte(q) == [of |-> sentLetters[q.turn], contents |-> q.contents, place |-> q.place]
NextPlace(q) ==
  IF q.place < PartSize(q.contents, q.turn)
  THEN [turn |-> q.turn, contents |-> q.contents, place |-> q.place + 1]
  ELSE IF q.contents \/ LetterSize(q.turn) = 0
  THEN [turn |-> q.turn + 1, contents |-> FALSE, place |-> 1]
  ELSE [turn |-> q.turn, contents |-> TRUE, place |-> 1]

\* The turns of the message that is sent and of the one that is received, and where both are.
OutTurn == Len(sentLetters) - Len(outbox) + 1
InTurn == Len(gotLetters) + Len(arrived) + 1
OutPlace ==
  IF outBytesRest # 0
  THEN [turn |-> OutTurn, contents |-> outContents, place |-> outNextByte]
  ELSE IF outContents
  THEN [turn |-> OutTurn, contents |-> FALSE, place |-> 1]
  ELSE IF LetterSize(OutTurn) = 0
  THEN [turn |-> OutTurn + 1, contents |-> FALSE, place |-> 1]
  ELSE [turn |-> OutTurn, contents |-> TRUE, place |-> 1]
InPlace == [turn |-> InTurn, contents |-> inContents, place |-> Len(inMessage.got) + 1]

\* What waits was sent last, and who is in the middle of a part goes on to its end.
LettersOut ==
  /\ sentLetters \in Seq(Letters) /\ outbox \in Seq(Letters) /\ bytes \in Seq(LetterBytes)
  /\ outContents \in BOOLEAN /\ outNeeded \in BOOLEAN
  /\ outNextByte \in Nat /\ outBytesRest \in Nat
  /\ Len(outbox) <= Len(sentLetters)
  /\ \A i \in 1..Len(outbox) : outbox[i] = sentLetters[OutTurn + i - 1]
  /\ outNeeded \/ outBytesRest # 0 \/ ~outContents => outbox # <<>>
  /\ outBytesRest # 0 =>
       outNextByte # 0 /\ outNextByte + outBytesRest = PartSize(outContents, OutTurn) + 1

\* The bytes on their way lead from where the receiver is to where the sender is.
Leads(pos) ==
  /\ pos \in [1..Len(bytes) + 1 -> LetterPlaces]
  /\ pos[1] = InPlace /\ pos[Len(bytes) + 1] = OutPlace
  /\ \A i \in 1..Len(bytes) :
       /\ pos[i].turn <= Len(sentLetters)
       /\ bytes[i] = LetterByte(pos[i]) /\ pos[i + 1] = NextPlace(pos[i])

\* What was received of the message whose turn it is.
Begun ==
  /\ inMessage.got \in Seq(LetterBytes)
  /\ inContents \/ Len(inMessage.got) # 0 => InTurn <= Len(sentLetters)
  /\ Len(inMessage.got) + inBytesRest = PartSize(inContents, InTurn)
  /\ \A i \in 1..Len(inMessage.got) :
       inMessage.got[i] =
         LetterByte([turn |-> InTurn, contents |-> inContents, place |-> i])

WholeLetter(m) == [i \in 1..L!Size(m) |-> [of |-> m, contents |-> TRUE, place |-> i]]

LettersIn ==
  /\ inMessage = [of |-> inMessage.of, got |-> inMessage.got]
  /\ inContents \in BOOLEAN /\ inBytesRest \in Nat
  /\ gotLetters \in Seq(LetterContents) /\ arrived \in Seq(LetterContents)
  /\ Len(gotLetters) + Len(arrived) <= Len(sentLetters)
  /\ \A i \in 1..Len(gotLetters) + Len(arrived) :
       LetterSize(i) # 0 /\ (gotLetters \o arrived)[i] = WholeLetter(sentLetters[i])
  /\ inBytesRest # 0 => Begun /\ \E pos : Leads(pos)

LetterInv == LettersOut /\ LettersIn

LEMMA SizesOfLetters == \A m : L!Size(m) \in 0..2
  BY DEF L!Size

LEMMA EmptySequence == Len(<<>>) = 0 /\ \A S : <<>> \in Seq(S)
  OBVIOUS

LEMMA LetterInvInit == ASSUME L!Init PROVE LetterInv
<1>1. LettersOut
  <2>1. sentLetters = <<>> /\ outbox = <<>> /\ bytes = <<>>
        /\ outContents = TRUE /\ outNeeded = FALSE /\ outNextByte = 0 /\ outBytesRest = 0
    BY DEF L!Init
  <2>2. sentLetters \in Seq(Letters) /\ outbox \in Seq(Letters) /\ bytes \in Seq(LetterBytes)
        /\ Len(outbox) = 0 /\ Len(sentLetters) = 0
    BY <2>1, EmptySequence
  <2>3. ~(outNeeded \/ outBytesRest # 0 \/ ~outContents)
    BY <2>1, Zenon
  <2>4. outContents \in BOOLEAN /\ outNeeded \in BOOLEAN
    BY <2>1, Zenon
  <2>5. outNextByte \in Nat /\ outBytesRest \in Nat /\ ~(outBytesRest # 0)
        /\ 1..Len(outbox) = {} /\ Len(outbox) <= Len(sentLetters)
    BY <2>1, <2>2
  <2>6. QED
    BY <2>2, <2>3, <2>4, <2>5, Zenon DEF LettersOut
<1>2. PICK pos : pos = [i \in 1..1 |-> InPlace]
  OBVIOUS
<1>3. InPlace = [turn |-> 1, contents |-> FALSE, place |-> 1] /\ OutPlace = InPlace
  <2>1. /\ sentLetters = <<>> /\ outbox = <<>> /\ gotLetters = <<>> /\ arrived = <<>>
        /\ inMessage.got = <<>> /\ inContents = FALSE /\ outContents = TRUE /\ outBytesRest = 0
    BY DEF L!Init, L!NoLetter
  <2>2. Len(<<>>) = 0
    BY EmptySequence
  <2>3. InTurn = 1 /\ OutTurn = 1
    BY <2>1, <2>2 DEF InTurn, OutTurn
  <2>4. InPlace = [turn |-> 1, contents |-> FALSE, place |-> 1]
    <3>1. Len(inMessage.got) + 1 = 1
      BY <2>1, <2>2
    <3>2. QED
      BY <2>1, <2>3, <3>1, Zenon DEF InPlace
  <2>5. OutPlace = [turn |-> 1, contents |-> FALSE, place |-> 1]
    BY <2>1, <2>3, Zenon DEF OutPlace
  <2>6. QED
    BY <2>4, <2>5
<1>4. InPlace \in LetterPlaces
  BY <1>3 DEF LetterPlaces
<1>5. Leads(pos)
  BY <1>2, <1>3, <1>4 DEF Leads, L!Init
<1>6. Begun
  BY DEF Begun, L!Init, L!NoLetter, PartSize, L!SizeOfSize
<1>7. LettersIn
  <2>1. /\ sentLetters = <<>> /\ gotLetters = <<>> /\ arrived = <<>> /\ inBytesRest = 2
        /\ inMessage = [of |-> <<>>, got |-> <<>>] /\ inContents = FALSE
    BY DEF L!Init, L!NoLetter, L!SizeOfSize
  <2>2. gotLetters \in Seq(LetterContents) /\ arrived \in Seq(LetterContents)
        /\ Len(gotLetters) = 0 /\ Len(arrived) = 0 /\ Len(sentLetters) = 0
    BY <2>1, EmptySequence
  <2>3. inBytesRest \in Nat /\ 1..Len(gotLetters) + Len(arrived) = {}
        /\ Len(gotLetters) + Len(arrived) <= Len(sentLetters)
    BY <2>1, <2>2
  <2>4. inMessage = [of |-> inMessage.of, got |-> inMessage.got]
    BY <2>1
  <2>5. inContents \in BOOLEAN
    BY <2>1, Zenon
  <2>6. QED
    BY <1>5, <1>6, <2>2, <2>3, <2>4, <2>5, Zenon DEF LettersIn
<1>8. QED
  BY <1>1, <1>7 DEF LetterInv

LEMMA SendKeepsLetters ==
  ASSUME LetterInv, NEW m \in Letters, L!SendMessage(m)
  PROVE  LetterInv'
<1>1. /\ outbox' = Append(outbox, m) /\ sentLetters' = Append(sentLetters, m)
      /\ UNCHANGED <<outContents, outNeeded, outNextByte, outBytesRest, bytes, inMessage,
                     inContents, inBytesRest, arrived, closed, gotLetters>>
  BY DEF L!SendMessage, L!inLetterVars
<1>2. /\ sentLetters \in Seq(Letters) /\ outbox \in Seq(Letters) /\ bytes \in Seq(LetterBytes)
      /\ gotLetters \in Seq(LetterContents) /\ arrived \in Seq(LetterContents)
      /\ Len(outbox) <= Len(sentLetters)
  BY DEF LetterInv, LettersOut, LettersIn
<1>3. /\ sentLetters' \in Seq(Letters) /\ outbox' \in Seq(Letters)
      /\ Len(sentLetters') = Len(sentLetters) + 1 /\ Len(outbox') = Len(outbox) + 1
      /\ \A i \in 1..Len(sentLetters) : sentLetters'[i] = sentLetters[i]
      /\ \A i \in 1..Len(outbox) : outbox'[i] = outbox[i]
      /\ sentLetters'[Len(sentLetters) + 1] = m /\ outbox'[Len(outbox) + 1] = m
  BY <1>1, <1>2
<1>4. OutTurn' = OutTurn /\ InTurn' = InTurn /\ OutTurn \in Nat /\ InTurn \in Nat
  BY <1>1, <1>2, <1>3 DEF OutTurn, InTurn
<1>5. \A i \in 1..Len(sentLetters) : LetterSize(i)' = LetterSize(i)
  BY <1>3 DEF LetterSize
<1>6. outBytesRest # 0 \/ ~outContents => OutTurn \in 1..Len(sentLetters)
  BY <1>2 DEF LetterInv, LettersOut, OutTurn
<1>7. LettersOut'
  <2>1. \A i \in 1..Len(outbox') : outbox'[i] = sentLetters'[OutTurn' + i - 1]
    <3>1. \A i \in 1..Len(outbox) : outbox[i] = sentLetters[OutTurn + i - 1]
                                  /\ OutTurn + i - 1 \in 1..Len(sentLetters)
      BY <1>2 DEF LetterInv, LettersOut, OutTurn
    <3>2. OutTurn + (Len(outbox) + 1) - 1 = Len(sentLetters) + 1
      BY <1>2 DEF OutTurn
    <3>3. QED
      <4>1. ASSUME NEW i \in 1..Len(outbox') PROVE outbox'[i] = sentLetters'[OutTurn + i - 1]
        <5>1. CASE i = Len(outbox) + 1
          BY <1>3, <3>2, <5>1
        <5>2. CASE i # Len(outbox) + 1
          <6>1. i \in 1..Len(outbox)
            BY <1>2, <1>3, <4>1, <5>2
          <6>2. QED
            BY <1>3, <3>1, <6>1
        <5>3. QED
          BY <5>1, <5>2
      <4>2. QED
        BY <1>4, <4>1
  <2>2. outBytesRest # 0 => PartSize(outContents, OutTurn)' = PartSize(outContents, OutTurn)
    BY <1>1, <1>4, <1>5, <1>6 DEF PartSize
  <2>3. outNeeded \/ outBytesRest # 0 \/ ~outContents => outbox' # <<>>
    BY <1>3, <1>2, EmptySequence
  <2>4. /\ outContents \in BOOLEAN /\ outNeeded \in BOOLEAN
        /\ outNextByte \in Nat /\ outBytesRest \in Nat
        /\ outBytesRest # 0 =>
             outNextByte # 0 /\ outNextByte + outBytesRest = PartSize(outContents, OutTurn) + 1
    BY DEF LetterInv, LettersOut
  <2>5. Len(outbox') <= Len(sentLetters')
    BY <1>2, <1>3
  <2>6. QED
    BY <1>1, <1>2, <1>3, <2>1, <2>2, <2>3, <2>4, <2>5 DEF LettersOut
<1>8. OutPlace' = OutPlace /\ InPlace' = InPlace
  BY <1>1, <1>4, <1>5, <1>6 DEF OutPlace, InPlace
<1>9. ASSUME inBytesRest # 0 PROVE Begun' /\ \E pos : Leads(pos)'
  <2>1. Begun /\ \E pos : Leads(pos)
    BY <1>9 DEF LetterInv, LettersIn
  <2>2. Begun'
    <3>1. /\ inMessage.got \in Seq(LetterBytes) /\ Len(inMessage.got) \in Nat
          /\ inContents \/ Len(inMessage.got) # 0 => InTurn \in 1..Len(sentLetters)
      BY <1>2, <2>1 DEF Begun, InTurn
    <3>2. inContents \/ Len(inMessage.got) # 0 =>
            LetterSize(InTurn)' = LetterSize(InTurn) /\ sentLetters'[InTurn] = sentLetters[InTurn]
      BY <1>3, <1>4, <1>5, <3>1
    <3>3. PartSize(inContents, InTurn)' = PartSize(inContents, InTurn)
      BY <1>1, <1>4, <3>2 DEF PartSize
    <3>4. \A i \in 1..Len(inMessage.got) : inMessage.got[i]
            = LetterByte([turn |-> InTurn, contents |-> inContents, place |-> i])'
      BY <1>1, <1>4, <2>1, <3>1, <3>2 DEF Begun, LetterByte
    <3>5. inContents \/ Len(inMessage.got) # 0 => InTurn <= Len(sentLetters')
      BY <1>2, <1>3, <1>4, <3>1
    <3>6. QED
      BY <1>1, <1>4, <2>1, <3>1, <3>3, <3>4, <3>5 DEF Begun
  <2>3. PICK pos : Leads(pos)
    BY <2>1
  <2>4. \A i \in 1..Len(bytes) : pos[i].turn \in 1..Len(sentLetters)
    <3>1. pos \in [1..Len(bytes) + 1 -> LetterPlaces] /\ Len(bytes) \in Nat /\ Len(sentLetters) \in Nat
      BY <1>2, <2>3 DEF Leads
    <3>2. \A i \in 1..Len(bytes) : pos[i] \in LetterPlaces /\ pos[i].turn <= Len(sentLetters)
      BY <2>3, <3>1 DEF Leads
    <3>3. QED
      BY <3>1, <3>2 DEF LetterPlaces
  <2>5. \A i \in 1..Len(bytes) : LetterByte(pos[i])' = LetterByte(pos[i])
                              /\ NextPlace(pos[i])' = NextPlace(pos[i])
    BY <1>3, <1>5, <2>4 DEF LetterByte, NextPlace, PartSize
  <2>6. Leads(pos)'
    <3>1. \A i \in 1..Len(bytes) : pos[i].turn <= Len(sentLetters')
      BY <1>2, <1>3, <2>4
    <3>2. QED
      BY <1>1, <1>8, <2>3, <2>5, <3>1 DEF Leads
  <2>7. QED
    BY <2>2, <2>6
<1>10. LettersIn'
  <2>1. \A i \in 1..Len(gotLetters) + Len(arrived) :
          LetterSize(i)' = LetterSize(i) /\ sentLetters'[i] = sentLetters[i]
    BY <1>2, <1>3, <1>5 DEF LetterInv, LettersIn
  <2>2. QED
    BY <1>1, <1>2, <1>3, <1>9, <2>1 DEF LetterInv, LettersIn
<1>11. QED
  BY <1>7, <1>10 DEF LetterInv

LEMMA RecvKeepsLetters == ASSUME LetterInv, L!RecvMessage PROVE LetterInv' /\ L!Received' = L!Received
<1>1. /\ arrived # <<>> /\ gotLetters' = Append(gotLetters, Head(arrived))
      /\ arrived' = Tail(arrived)
      /\ UNCHANGED <<outbox, outContents, outNeeded, outNextByte, outBytesRest, bytes, inMessage,
                     inContents, inBytesRest, closed, sentLetters>>
  BY DEF L!RecvMessage, L!outLetterVars
<1>2. gotLetters \in Seq(LetterContents) /\ arrived \in Seq(LetterContents)
  BY DEF LetterInv, LettersIn
<1>3. /\ gotLetters' \in Seq(LetterContents) /\ arrived' \in Seq(LetterContents)
      /\ Len(gotLetters') = Len(gotLetters) + 1 /\ Len(arrived') + 1 = Len(arrived)
  BY <1>1, <1>2
<1>4. gotLetters' \o arrived' = gotLetters \o arrived
  <2>1. \A i \in 1..Len(gotLetters) + Len(arrived) :
          (gotLetters' \o arrived')[i] = (gotLetters \o arrived)[i]
    BY <1>1, <1>2, <1>3
  <2>2. /\ gotLetters \o arrived \in Seq(LetterContents)
        /\ Len(gotLetters \o arrived) = Len(gotLetters) + Len(arrived)
    BY <1>2, ConcatProperties
  <2>3. /\ gotLetters' \o arrived' \in Seq(LetterContents)
        /\ Len(gotLetters' \o arrived') = Len(gotLetters) + Len(arrived)
    <3>1. Len(gotLetters') + Len(arrived') = Len(gotLetters) + Len(arrived)
      BY <1>2, <1>3, SMTT(40)
    <3>2. /\ gotLetters' \o arrived' \in Seq(LetterContents)
          /\ Len(gotLetters' \o arrived') = Len(gotLetters') + Len(arrived')
      BY <1>3, ConcatProperties
    <3>3. QED
      BY <3>1, <3>2
  <2>4. QED
    BY <2>1, <2>2, <2>3, SeqEqual
<1>5. LettersOut'
  BY <1>1 DEF LetterInv, LettersOut, OutTurn, PartSize, LetterSize
<1>6. InTurn' = InTurn
  <2>1. Len(gotLetters) \in Nat /\ Len(arrived) \in Nat /\ Len(arrived') \in Nat
    BY <1>2, <1>3
  <2>2. QED
    BY <1>3, <2>1 DEF InTurn
<1>7. Begun => Begun'
  BY <1>1, <1>6 DEF Begun, PartSize, LetterSize, LetterByte
<1>8. ASSUME NEW pos, Leads(pos) PROVE Leads(pos)'
  BY <1>1, <1>6, <1>8 DEF Leads, InPlace, OutPlace, OutTurn, LetterSize, LetterByte, NextPlace, PartSize
<1>9. LettersIn'
  <2>1. Len(gotLetters') + Len(arrived') = Len(gotLetters) + Len(arrived)
    BY <1>2, <1>3, SMTT(40)
  <2>2. \A i \in 1..Len(gotLetters) + Len(arrived) : LetterSize(i)' = LetterSize(i)
    BY <1>1 DEF LetterSize
  <2>3. inBytesRest # 0 => Begun' /\ \E pos : Leads(pos)'
    BY <1>7, <1>8 DEF LetterInv, LettersIn
  <2>4. QED
    BY <1>1, <1>3, <1>4, <2>1, <2>2, <2>3 DEF LetterInv, LettersIn
<1>10. L!Received' = L!Received
  BY <1>4 DEF L!Received
<1>11. QED
  BY <1>5, <1>9, <1>10 DEF LetterInv

LEMMA PlaceIs ==
  ASSUME NEW t \in Nat \ {0}, NEW c \in BOOLEAN, NEW k \in Nat \ {0}
  PROVE  [turn |-> t, contents |-> c, place |-> k] \in LetterPlaces
  BY Zenon DEF LetterPlaces

LEMMA NextPlaceIs == ASSUME NEW q \in LetterPlaces PROVE NextPlace(q) \in LetterPlaces
<1>1. q.turn \in Nat \ {0} /\ q.contents \in BOOLEAN /\ q.place \in Nat \ {0}
  BY DEF LetterPlaces
<1>2. q.turn + 1 \in Nat \ {0} /\ q.place + 1 \in Nat \ {0} /\ 1 \in Nat \ {0}
  BY <1>1
<1>3. FALSE \in BOOLEAN /\ TRUE \in BOOLEAN
  OBVIOUS
<1>4. \/ NextPlace(q) = [turn |-> q.turn, contents |-> q.contents, place |-> q.place + 1]
      \/ NextPlace(q) = [turn |-> q.turn + 1, contents |-> FALSE, place |-> 1]
      \/ NextPlace(q) = [turn |-> q.turn, contents |-> TRUE, place |-> 1]
  BY Zenon DEF NextPlace
<1>5. QED
  BY <1>1, <1>2, <1>3, <1>4, PlaceIs, Zenon

\* Bytes that are sent go on from where the sender was.
LEMMA TransmitKeepsLetters == ASSUME LetterInv, L!Transmit PROVE LetterInv' /\ L!Received' = L!Received
<1>1. PICK p, n : /\ p = L!Part /\ n \in 0..p.rest /\ (n = 0 <=> p.rest = 0)
                  /\ L!TransmitBytes(p, n, p.rest - n)
  BY DEF L!Transmit
<1>2. /\ sentLetters \in Seq(Letters) /\ outbox \in Seq(Letters) /\ bytes \in Seq(LetterBytes)
      /\ outNextByte \in Nat /\ outBytesRest \in Nat /\ Len(outbox) <= Len(sentLetters)
      /\ Len(outbox) \in Nat /\ Len(sentLetters) \in Nat /\ Len(bytes) \in Nat
  BY DEF LetterInv, LettersOut
<1>3. outbox # <<>> /\ Len(outbox) # 0
  <2>1. outbox # <<>>
    BY Zenon DEF LetterInv, LettersOut, L!Transmit, L!Want2Transmit
  <2>2. QED
    BY <1>2, <2>1
<1>4. /\ OutTurn \in 1..Len(sentLetters) /\ Head(outbox) = sentLetters[OutTurn]
      /\ Head(outbox) \in Letters
  <2>1. OutTurn \in 1..Len(sentLetters)
    BY <1>2, <1>3 DEF OutTurn
  <2>2. 1 \in 1..Len(outbox) /\ OutTurn + 1 - 1 = OutTurn
    BY <1>2, <1>3, <2>1
  <2>3. outbox[1] = sentLetters[OutTurn]
    BY <2>2 DEF LetterInv, LettersOut
  <2>4. QED
    BY <1>2, <1>3, <2>1, <2>3
<1>5. PICK size : size = LetterSize(OutTurn) /\ size = L!Size(Head(outbox)) /\ size \in 0..2
  BY <1>4, SizesOfLetters DEF LetterSize
<1>6. /\ p.contents \in BOOLEAN /\ p.next \in Nat \ {0} /\ p.rest \in Nat
      /\ p.next + p.rest = (IF p.contents THEN size ELSE 2) + 1
      /\ p.rest # 0 => OutPlace = [turn |-> OutTurn, contents |-> p.contents, place |-> p.next]
      /\ p.rest = 0 => p.contents /\ size = 0
                       /\ OutPlace = [turn |-> OutTurn + 1, contents |-> FALSE, place |-> 1]
  <2>1. CASE outBytesRest # 0
    <3>1. p.contents = outContents /\ p.next = outNextByte /\ p.rest = outBytesRest
      BY <1>1, <2>1 DEF L!Part
    <3>2. /\ outContents \in BOOLEAN /\ outNextByte # 0
          /\ outNextByte + outBytesRest = PartSize(outContents, OutTurn) + 1
      BY <2>1 DEF LetterInv, LettersOut
    <3>3. PartSize(outContents, OutTurn) = IF outContents THEN size ELSE 2
      BY <1>5 DEF PartSize, L!SizeOfSize
    <3>4. OutPlace = [turn |-> OutTurn, contents |-> p.contents, place |-> p.next]
      BY <2>1, <3>1, Zenon DEF OutPlace
    <3>5. QED
      BY <1>2, <2>1, <3>1, <3>2, <3>3, <3>4
  <2>2. CASE outBytesRest = 0 /\ outContents
    <3>1. p = [contents |-> FALSE, next |-> 1, rest |-> 2]
      BY <1>1, <2>2 DEF L!Part, L!SizeOfSize
    <3>2. OutPlace = [turn |-> OutTurn, contents |-> FALSE, place |-> 1]
      BY <2>2 DEF OutPlace
    <3>3. QED
      BY <3>1, <3>2
  <2>3. CASE outBytesRest = 0 /\ ~outContents
    <3>1. p = [contents |-> TRUE, next |-> 1, rest |-> size]
      BY <1>1, <1>5, <2>3 DEF L!Part
    <3>2. OutPlace = IF size = 0
                     THEN [turn |-> OutTurn + 1, contents |-> FALSE, place |-> 1]
                     ELSE [turn |-> OutTurn, contents |-> TRUE, place |-> 1]
      BY <1>5, <2>3 DEF OutPlace
    <3>3. QED
      BY <1>5, <3>1, <3>2
  <2>4. QED
    BY <2>1, <2>2, <2>3
<1>6a. PICK full : full = IF p.contents THEN size ELSE 2
  OBVIOUS
<1>6b. /\ p.next \in Nat \ {0} /\ p.rest \in Nat /\ p.next + p.rest = full + 1
       /\ PartSize(p.contents, OutTurn) = full
  BY <1>5, <1>6, <1>6a, Zenon DEF PartSize, L!SizeOfSize
<1>6c. full \in 0..2
  BY <1>5, <1>6a
<1>7. PICK done, fresh :
        /\ done = (p.contents /\ p.rest - n = 0)
        /\ fresh = [i \in 1..n |-> [of |-> Head(outbox), contents |-> p.contents,
                                    place |-> p.next + i - 1]]
  OBVIOUS
<1>8. /\ bytes' = bytes \o fresh /\ outContents' = p.contents
      /\ outNextByte' = p.next + n /\ outBytesRest' = p.rest - n
      /\ outbox' = (IF done THEN Tail(outbox) ELSE outbox)
      /\ outNeeded' = ~(done /\ Len(outbox) = 1)
      /\ UNCHANGED <<inMessage, inContents, inBytesRest, arrived, closed, sentLetters, gotLetters>>
  BY <1>1, <1>7 DEF L!TransmitBytes, L!inLetterVars
<1>9. n \in Nat /\ p.rest - n \in Nat /\ n <= p.rest
  BY <1>1, <1>6
<1>9a. done \in BOOLEAN /\ (done <=> p.contents /\ p.rest - n = 0)
  BY <1>7, Zenon
<1>10. /\ fresh \in Seq(LetterBytes) /\ Len(fresh) = n
       /\ \A i \in 1..n : fresh[i] =
            LetterByte([turn |-> OutTurn, contents |-> p.contents, place |-> p.next + i - 1])
  <2>1. \A i \in 1..n : /\ p.next + i - 1 \in Nat \ {0}
                        /\ fresh[i] \in LetterBytes
                        /\ fresh[i] = LetterByte([turn |-> OutTurn, contents |-> p.contents,
                                                  place |-> p.next + i - 1])
    BY <1>4, <1>6, <1>7, <1>9, SMTT(40) DEF LetterBytes, LetterByte
  <2>2. fresh \in [1..n -> LetterBytes]
    BY <1>7, <2>1
  <2>3. fresh \in Seq(LetterBytes) /\ Len(fresh) = n
    BY <1>9, <2>2, SeqDef, LenProperties
  <2>4. QED
    BY <2>1, <2>3
<1>11. /\ bytes' \in Seq(LetterBytes) /\ Len(bytes') = Len(bytes) + n
       /\ \A i \in 1..Len(bytes) + n :
            bytes'[i] = IF i <= Len(bytes) THEN bytes[i] ELSE fresh[i - Len(bytes)]
  BY <1>2, <1>8, <1>10, ConcatProperties
<1>12. /\ outbox' \in Seq(Letters) /\ Len(outbox') \in Nat /\ OutTurn' \in Nat
       /\ done => Len(outbox') = Len(outbox) - 1 /\ OutTurn' = OutTurn + 1
                  /\ \A i \in 1..Len(outbox') : outbox'[i] = outbox[i + 1]
       /\ ~done => outbox' = outbox /\ OutTurn' = OutTurn
  <2>1. CASE done
    <3>1. outbox' = Tail(outbox)
      BY <1>8, <2>1
    <3>2. /\ outbox' \in Seq(Letters) /\ Len(outbox') = Len(outbox) - 1
          /\ \A i \in 1..Len(outbox') : outbox'[i] = outbox[i + 1]
      BY <1>2, <1>3, <3>1, HeadTailProperties
    <3>3. QED
      BY <1>2, <1>8, <2>1, <3>2 DEF OutTurn
  <2>2. CASE ~done
    BY <1>2, <1>8, <2>2 DEF OutTurn
  <2>3. QED
    BY <2>1, <2>2
<1>13. LettersOut'
  <2>1. \A i \in 1..Len(outbox') : outbox'[i] = sentLetters[OutTurn' + i - 1]
    <3>1. \A i \in 1..Len(outbox) : outbox[i] = sentLetters[OutTurn + i - 1]
      BY DEF LetterInv, LettersOut
    <3>2. CASE done
      <4>1. ASSUME NEW i \in 1..Len(outbox') PROVE outbox'[i] = sentLetters[OutTurn' + i - 1]
        <5>1. i + 1 \in 1..Len(outbox) /\ OutTurn' + i - 1 = OutTurn + (i + 1) - 1
          BY <1>2, <1>4, <1>12, <3>2
        <5>2. QED
          BY <1>12, <3>1, <3>2, <5>1
      <4>2. QED
        BY <4>1
    <3>3. CASE ~done
      BY <1>12, <3>1, <3>3
    <3>4. QED
      BY <3>2, <3>3
  <2>2. outNeeded' \/ outBytesRest' # 0 \/ ~outContents' => outbox' # <<>>
    <3>1. CASE ~done
      BY <1>3, <1>12, <3>1
    <3>2. CASE done
      <4>1. outBytesRest' = 0 /\ outContents' /\ (outNeeded' <=> Len(outbox) # 1)
        BY <1>8, <1>9, <1>9a, <3>2
      <4>2. Len(outbox) # 1 => Len(outbox') # 0
        BY <1>2, <1>12, <3>2
      <4>3. QED
        BY <4>1, <4>2, EmptySequence
    <3>3. QED
      BY <3>1, <3>2
  <2>3. outBytesRest' # 0 =>
          outNextByte' # 0 /\ outNextByte' + outBytesRest' = PartSize(outContents, OutTurn)' + 1
    <3>1. ASSUME outBytesRest' # 0
          PROVE  PartSize(outContents, OutTurn)' = full
      <4>1. ~done
        BY <1>8, <1>9, <1>9a, <3>1
      <4>2. OutTurn' = OutTurn
        BY <1>12, <4>1
      <4>3. QED
        BY <1>6b, <1>8, <4>2 DEF PartSize, LetterSize
    <3>2. p.next + n # 0 /\ p.next + n + (p.rest - n) = full + 1
      BY <1>6b, <1>6c, <1>9
    <3>3. QED
      BY <1>8, <3>1, <3>2, Zenon
  <2>4. Len(outbox') <= Len(sentLetters)
    BY <1>2, <1>12
  <2>5. outContents' \in BOOLEAN /\ outNeeded' \in BOOLEAN
    BY <1>6, <1>8, Zenon
  <2>6. outNextByte' \in Nat /\ outBytesRest' \in Nat
    BY <1>6, <1>8, <1>9
  <2>7. sentLetters' = sentLetters
    BY <1>8
  <2>8. QED
    BY <1>2, <1>11, <1>12, <2>1, <2>2, <2>3, <2>4, <2>5, <2>6, <2>7 DEF LettersOut
<1>14. /\ n = 0 => OutPlace' = OutPlace
       /\ n # 0 => OutPlace' = NextPlace([turn |-> OutTurn, contents |-> p.contents,
                                          place |-> p.next + n - 1])
  <2>1. LetterSize(OutTurn)' = LetterSize(OutTurn') /\ sentLetters' = sentLetters
    BY <1>8 DEF LetterSize
  <2>2. CASE p.rest - n # 0
    <3>1. OutTurn' = OutTurn /\ n # 0 /\ p.next + n - 1 < full
      BY <1>1, <1>6b, <1>6c, <1>9, <1>9a, <1>12, <2>2, SMTT(40)
    <3>2. OutPlace' = [turn |-> OutTurn, contents |-> p.contents, place |-> p.next + n]
      BY <1>8, <2>2, <3>1 DEF OutPlace
    <3>4. NextPlace([turn |-> OutTurn, contents |-> p.contents, place |-> p.next + n - 1])
            = [turn |-> OutTurn, contents |-> p.contents, place |-> p.next + n - 1 + 1]
      BY <1>6b, <3>1 DEF NextPlace
    <3>5. QED
      BY <1>6, <1>9, <3>1, <3>2, <3>4
  <2>3. CASE p.rest - n = 0
    <3>1. outBytesRest' = 0 /\ (done <=> p.contents)
      BY <1>8, <1>9, <1>9a, <2>3
    <3>2. n # 0 => ~(p.next + n - 1 < PartSize(p.contents, OutTurn))
      BY <1>6b, <1>6c, <1>9, <2>3
    <3>3. CASE p.contents
      <4>1. OutPlace' = [turn |-> OutTurn + 1, contents |-> FALSE, place |-> 1]
        BY <1>8, <1>12, <3>1, <3>3 DEF OutPlace
      <4>2. n = 0 => OutPlace = [turn |-> OutTurn + 1, contents |-> FALSE, place |-> 1]
        BY <1>1, <1>6
      <4>3. QED
        BY <3>2, <3>3, <4>1, <4>2 DEF NextPlace
    <3>4. CASE ~p.contents
      <4>1. OutTurn' = OutTurn /\ ~outContents'
        BY <1>8, <1>12, <3>1, <3>4
      <4>2. OutPlace' = IF size = 0
                        THEN [turn |-> OutTurn + 1, contents |-> FALSE, place |-> 1]
                        ELSE [turn |-> OutTurn, contents |-> TRUE, place |-> 1]
        BY <1>5, <1>8, <3>1, <4>1 DEF OutPlace, LetterSize
      <4>3. n # 0
        BY <1>1, <1>6, <3>4
      <4>4. QED
        BY <1>5, <3>2, <3>4, <4>2, <4>3 DEF NextPlace
    <3>5. QED
      BY <3>3, <3>4
  <2>4. QED
    BY <2>2, <2>3
<1>15. InPlace' = InPlace /\ InTurn' = InTurn
  BY <1>8 DEF InPlace, InTurn
<1>16. ASSUME NEW pos, Leads(pos)
       PROVE  \E then : Leads(then)'
  <2>1. PICK then : then = [i \in 1..Len(bytes) + n + 1 |->
          IF i <= Len(bytes) THEN pos[i]
          ELSE IF i <= Len(bytes) + n
          THEN [turn |-> OutTurn, contents |-> p.contents, place |-> p.next + (i - Len(bytes)) - 1]
          ELSE OutPlace']
    OBVIOUS
  <2>2. /\ pos \in [1..Len(bytes) + 1 -> LetterPlaces]
        /\ pos[1] = InPlace /\ pos[Len(bytes) + 1] = OutPlace
        /\ \A i \in 1..Len(bytes) :
             /\ pos[i].turn <= Len(sentLetters)
             /\ bytes[i] = LetterByte(pos[i]) /\ pos[i + 1] = NextPlace(pos[i])
    BY <1>16 DEF Leads
  <2>3. /\ \A i \in 1..Len(bytes) : then[i] = pos[i]
        /\ \A j \in 1..n : then[Len(bytes) + j] =
             [turn |-> OutTurn, contents |-> p.contents, place |-> p.next + j - 1]
        /\ then[Len(bytes) + n + 1] = OutPlace'
    BY <1>2, <1>9, <2>1
  <2>4. then[Len(bytes) + 1] = OutPlace
    <3>1. CASE n = 0
      BY <1>2, <1>14, <2>3, <3>1
    <3>2. CASE n # 0
      <4>1. p.rest # 0 /\ 1 \in 1..n /\ p.next + 1 - 1 = p.next
        BY <1>1, <1>6, <1>9, <3>2
      <4>2. QED
        BY <1>6, <2>3, <4>1
    <3>3. QED
      BY <3>1, <3>2
  <2>5. OutPlace' \in LetterPlaces
    <3>1. CASE n = 0
      <4>1. pos[Len(bytes) + 1] \in LetterPlaces
        BY <1>2, <2>2
      <4>2. QED
        BY <1>14, <2>2, <3>1, <4>1
    <3>2. CASE n # 0
      <4>1. p.next + n - 1 \in Nat \ {0} /\ OutTurn \in Nat \ {0}
        BY <1>4, <1>2, <1>6b, <1>9, <3>2, SMTT(40)
      <4>2. p.contents \in BOOLEAN
        BY <1>6
      <4>3. QED
        BY <1>14, <3>2, <4>1, <4>2, PlaceIs, NextPlaceIs, Zenon
    <3>3. QED
      BY <3>1, <3>2
  <2>6. then \in [1..Len(bytes) + n + 1 -> LetterPlaces]
    <3>1. ASSUME NEW i \in 1..Len(bytes) + n + 1 PROVE then[i] \in LetterPlaces
      <4>1. CASE i <= Len(bytes)
        BY <1>2, <1>9, <2>2, <2>3, <3>1, <4>1
      <4>2. CASE i > Len(bytes) /\ i <= Len(bytes) + n
        <5>1. i - Len(bytes) \in 1..n /\ i = Len(bytes) + (i - Len(bytes))
          BY <1>2, <1>9, <3>1, <4>2
        <5>2. PICK j \in 1..n : i = Len(bytes) + j
          BY <5>1
        <5>3. p.next + j - 1 \in Nat \ {0} /\ OutTurn \in Nat \ {0}
          <6>1. j \in Nat /\ 1 <= j
            BY <1>9
          <6>2. p.next + j - 1 \in Nat \ {0}
            BY <1>6b, <6>1
          <6>3. QED
            BY <1>2, <1>4, <6>2
        <5>4. QED
          BY <1>6, <2>3, <5>2, <5>3, PlaceIs, Zenon
      <4>3. CASE i = Len(bytes) + n + 1
        BY <2>3, <2>5, <4>3
      <4>4. QED
        BY <1>2, <1>9, <3>1, <4>1, <4>2, <4>3, SMTT(40)
    <3>2. QED
      BY <2>1, <3>1
  <2>7. then[1] = InPlace
    <3>1. CASE Len(bytes) = 0
      BY <2>2, <2>4, <3>1
    <3>2. CASE Len(bytes) # 0
      BY <1>2, <2>2, <2>3, <3>2
    <3>3. QED
      BY <3>1, <3>2
  <2>8. ASSUME NEW i \in 1..Len(bytes) + n
        PROVE  /\ then[i].turn <= Len(sentLetters)
               /\ bytes'[i] = LetterByte(then[i]) /\ then[i + 1] = NextPlace(then[i])
    <3>1. CASE i <= Len(bytes)
      <4>1. i \in 1..Len(bytes) /\ then[i] = pos[i] /\ bytes'[i] = bytes[i]
        BY <1>2, <1>9, <1>11, <2>3, <2>8, <3>1
      <4>2. then[i + 1] = pos[i + 1]
        <5>1. CASE i = Len(bytes)
          BY <2>2, <2>4, <5>1
        <5>2. CASE i # Len(bytes)
          BY <1>2, <2>3, <3>1, <4>1, <5>2
        <5>3. QED
          BY <5>1, <5>2
      <4>3. QED
        BY <2>2, <4>1, <4>2
    <3>2. CASE i > Len(bytes)
      <4>1. PICK j \in 1..n : i = Len(bytes) + j /\ j = i - Len(bytes)
        <5>1. i - Len(bytes) \in 1..n /\ i = Len(bytes) + (i - Len(bytes))
          BY <1>2, <1>9, <2>8, <3>2
        <5>2. QED
          BY <5>1
      <4>2. then[i] = [turn |-> OutTurn, contents |-> p.contents, place |-> p.next + j - 1]
        BY <2>3, <4>1
      <4>3. bytes'[i] = LetterByte(then[i])
        BY <1>2, <1>10, <1>11, <2>8, <3>2, <4>1, <4>2
      <4>4. then[i + 1] = NextPlace(then[i])
        <5>1. CASE j = n
          <6>1. n # 0 /\ i + 1 = Len(bytes) + n + 1
            BY <1>2, <1>9, <4>1, <5>1
          <6>2. QED
            BY <1>14, <2>3, <4>2, <5>1, <6>1
        <5>2. CASE j # n
          <6>1. j + 1 \in 1..n /\ i + 1 = Len(bytes) + (j + 1)
            BY <1>2, <1>9, <4>1, <5>2
          <6>2. then[i + 1] = [turn |-> OutTurn, contents |-> p.contents,
                               place |-> p.next + (j + 1) - 1]
            BY <2>3, <6>1
          <6>3. /\ p.next + j - 1 < full
                /\ p.next + (j + 1) - 1 = p.next + j - 1 + 1
            BY <1>6b, <1>6c, <1>9, <5>2, <6>1, SMTT(40)
          <6>4. QED
            BY <1>6b, <4>2, <6>2, <6>3 DEF NextPlace
        <5>3. QED
          BY <5>1, <5>2
      <4>5. QED
        BY <1>4, <4>2, <4>3, <4>4
    <3>3. QED
      BY <1>2, <1>9, <2>8, <3>1, <3>2
  <2>9. sentLetters' = sentLetters
    BY <1>8
  <2>10. \A q : LetterByte(q)' = LetterByte(q) /\ NextPlace(q)' = NextPlace(q)
    BY <2>9 DEF LetterByte, NextPlace, PartSize, LetterSize
  <2>11. Leads(then)'
    BY <1>11, <1>15, <2>3, <2>6, <2>7, <2>8, <2>9, <2>10 DEF Leads
  <2>12. QED
    BY <2>11
<1>17. Begun => Begun'
  BY <1>8, <1>15 DEF Begun, PartSize, LetterSize, LetterByte
<1>18. LettersIn'
  <2>1. inBytesRest # 0 => Begun' /\ \E pos : Leads(pos)'
    BY <1>16, <1>17 DEF LetterInv, LettersIn
  <2>2. \A i : LetterSize(i)' = LetterSize(i)
    BY <1>8 DEF LetterSize
  <2>3. QED
    BY <1>8, <2>1, <2>2 DEF LetterInv, LettersIn
<1>19. L!Received' = L!Received
  BY <1>8 DEF L!Received
<1>20. QED
  BY <1>13, <1>18, <1>19 DEF LetterInv

\* The messages that were put together are the first that were sent.
LEMMA ReceivedAre ==
  ASSUME LetterInv
  PROVE  /\ Len(gotLetters) + Len(arrived) \in 0..Len(sentLetters)
         /\ L!Received = [i \in 1..Len(gotLetters) + Len(arrived) |-> sentLetters[i]]
<1>1. PICK all, d : all = gotLetters \o arrived /\ d = Len(gotLetters) + Len(arrived)
  OBVIOUS
<1>2. /\ gotLetters \in Seq(LetterContents) /\ arrived \in Seq(LetterContents)
      /\ d <= Len(sentLetters) /\ sentLetters \in Seq(Letters)
      /\ \A i \in 1..d : LetterSize(i) # 0 /\ all[i] = WholeLetter(sentLetters[i])
  BY <1>1 DEF LetterInv, LettersOut, LettersIn
<1>3. d \in 0..Len(sentLetters)
  BY <1>1, <1>2
<1>4. DOMAIN all = 1..d
  <2>1. all \in Seq(LetterContents) /\ Len(all) = d
    BY <1>1, <1>2, ConcatProperties
  <2>2. QED
    BY <2>1, LenProperties
<1>5. ASSUME NEW i \in 1..d
      PROVE  all[i][1].of = sentLetters[i] /\ all[i] = WholeLetter(all[i][1].of)
  <2>1. PICK size : size = L!Size(sentLetters[i]) /\ size \in 0..2 /\ size # 0
    BY <1>2, <1>5, SizesOfLetters DEF LetterSize
  <2>2. 1 \in 1..size
    BY <2>1
  <2>3. all[i] = [k \in 1..size |-> [of |-> sentLetters[i], contents |-> TRUE, place |-> k]]
    BY <1>2, <1>5, <2>1, Zenon DEF WholeLetter
  <2>4. all[i][1].of = sentLetters[i]
    BY <2>2, <2>3
  <2>5. QED
    BY <1>2, <1>5, <2>4, Zenon
<1>6. L!Received = [i \in DOMAIN all |->
         IF all[i] = WholeLetter(all[i][1].of) THEN all[i][1].of ELSE <<>>]
  BY <1>1, Zenon DEF L!Received, WholeLetter
<1>7. L!Received = [i \in 1..d |-> sentLetters[i]]
  BY <1>4, <1>5, <1>6
<1>8. QED
  BY <1>1, <1>3, <1>7

\* What recv () takes is what the receiver waits for, since parts have two bytes at most
\* and no call asks for more than the rest of one.
LEMMA NextBytesAre ==
  ASSUME LetterInv, NEW n \in 1..Len(bytes), n <= inBytesRest, NEW pos, Leads(pos), Begun
  PROVE  /\ InTurn \in 1..Len(sentLetters)
         /\ \A i \in 1..n : bytes[i] =
              LetterByte([turn |-> InTurn, contents |-> inContents,
                          place |-> Len(inMessage.got) + i])
         /\ pos[n + 1] = NextPlace([turn |-> InTurn, contents |-> inContents,
                                    place |-> Len(inMessage.got) + n])
<1>1. PICK k, full : k = Len(inMessage.got) /\ full = PartSize(inContents, InTurn)
  OBVIOUS
<1>2. /\ bytes \in Seq(LetterBytes) /\ sentLetters \in Seq(Letters) /\ inBytesRest \in Nat
      /\ gotLetters \in Seq(LetterContents) /\ arrived \in Seq(LetterContents)
  BY DEF LetterInv, LettersOut, LettersIn
<1>3. k \in Nat /\ k + inBytesRest = full
  BY <1>1 DEF Begun
<1>4. full \in 0..2
  BY <1>1, SizesOfLetters DEF PartSize, LetterSize, L!SizeOfSize
<1>5. n \in {1, 2} /\ 1 \in 1..Len(bytes) /\ (n = 2 => k = 0 /\ full = 2 /\ 2 \in 1..Len(bytes))
  BY <1>2, <1>3, <1>4
<1>6. pos[1] = [turn |-> InTurn, contents |-> inContents, place |-> k + 1]
  BY <1>1 DEF Leads, InPlace
<1>7. InTurn \in 1..Len(sentLetters)
  <2>1. pos[1].turn <= Len(sentLetters) /\ pos[1].turn = InTurn
    BY <1>5, <1>6 DEF Leads
  <2>2. InTurn \in Nat \ {0}
    BY <1>2 DEF InTurn
  <2>3. QED
    BY <1>2, <2>1, <2>2
<1>8. bytes[1] = LetterByte(pos[1]) /\ pos[1 + 1] = NextPlace(pos[1])
  BY <1>5 DEF Leads
<1>9. CASE n = 1
  <2>1. \A i \in 1..n : i = 1
    BY <1>9
  <2>2. QED
    BY <1>1, <1>6, <1>7, <1>8, <1>9, <2>1
<1>10. CASE n = 2
  <2>1. k = 0 /\ 1 < PartSize(inContents, InTurn)
    BY <1>1, <1>5, <1>10
  <2>2. pos[2] = [turn |-> InTurn, contents |-> inContents, place |-> 2]
    BY <1>6, <1>8, <2>1 DEF NextPlace
  <2>3. bytes[2] = LetterByte(pos[2]) /\ pos[2 + 1] = NextPlace(pos[2])
    BY <1>5, <1>10 DEF Leads
  <2>4. \A i \in 1..n : i = 1 \/ i = 2
    BY <1>10
  <2>5. QED
    BY <1>1, <1>6, <1>7, <1>8, <1>10, <2>1, <2>2, <2>3, <2>4
<1>11. QED
  BY <1>5, <1>9, <1>10

\* Received bytes complete a part, and the last part the message whose turn it is.
LEMMA ReceiveKeepsLetters ==
  ASSUME LetterInv, L!Receive
  PROVE  LetterInv' /\ InTurn' \in {InTurn, InTurn + 1}
<1>1. PICK n, got, m :
        /\ n \in 1..Len(bytes) /\ n <= inBytesRest /\ bytes' = SubSeq(bytes, n + 1, Len(bytes))
        /\ got = inMessage.got \o SubSeq(bytes, 1, n) /\ m = got[1].of
        /\ \/ /\ n # inBytesRest
              /\ inMessage' = [inMessage EXCEPT !.got = got] /\ inBytesRest' = inBytesRest - n
              /\ inContents' = inContents /\ arrived' = arrived
           \/ /\ n = inBytesRest /\ inContents
              /\ arrived' = Append(arrived, got) /\ inMessage' = L!NoLetter
              /\ inContents' = FALSE /\ inBytesRest' = 2
           \/ /\ n = inBytesRest /\ ~inContents
              /\ inMessage' = [of |-> m, got |-> <<>>]
              /\ inContents' = (L!Size(m) # 0) /\ inBytesRest' = L!Size(m)
              /\ arrived' = arrived
  BY DEF L!Receive, L!SizeOfSize
<1>1a. n \in 1..Len(bytes) /\ n <= inBytesRest
  BY <1>1, Zenon
<1>1b. bytes' = SubSeq(bytes, n + 1, Len(bytes))
  BY <1>1, Zenon
<1>1c. got = inMessage.got \o SubSeq(bytes, 1, n)
  BY <1>1, Zenon
<1>1d. m = got[1].of
  BY <1>1, Zenon
<1>2. inBytesRest # 0
  BY DEF L!Receive
<1>3. UNCHANGED <<outbox, outContents, outNeeded, outNextByte, outBytesRest, sentLetters, gotLetters>>
  BY DEF L!Receive, L!outLetterVars
<1>4. Begun
  BY <1>2 DEF LetterInv, LettersIn
<1>5. PICK pos : Leads(pos)
  BY <1>2 DEF LetterInv, LettersIn
<1>6. /\ bytes \in Seq(LetterBytes) /\ sentLetters \in Seq(Letters) /\ inBytesRest \in Nat
      /\ gotLetters \in Seq(LetterContents) /\ arrived \in Seq(LetterContents)
      /\ inMessage = [of |-> inMessage.of, got |-> inMessage.got]
      /\ Len(gotLetters) + Len(arrived) <= Len(sentLetters)
      /\ Len(gotLetters) \in Nat /\ Len(arrived) \in Nat /\ Len(sentLetters) \in Nat
      /\ Len(bytes) \in Nat /\ n \in Nat /\ 1 <= n /\ n <= Len(bytes)
  BY <1>1a DEF LetterInv, LettersOut, LettersIn
<1>7. /\ InTurn \in 1..Len(sentLetters)
      /\ \A i \in 1..n : bytes[i] =
           LetterByte([turn |-> InTurn, contents |-> inContents,
                       place |-> Len(inMessage.got) + i])
      /\ pos[n + 1] = NextPlace([turn |-> InTurn, contents |-> inContents,
                                 place |-> Len(inMessage.got) + n])
  BY <1>1, <1>4, <1>5, NextBytesAre
<1>8. /\ inMessage.got \in Seq(LetterBytes) /\ Len(inMessage.got) \in Nat
      /\ Len(inMessage.got) + inBytesRest = PartSize(inContents, InTurn)
  BY <1>4 DEF Begun
<1>9. /\ bytes' \in Seq(LetterBytes) /\ Len(bytes') = Len(bytes) - n
      /\ \A i \in 1..Len(bytes) - n : bytes'[i] = bytes[i + n]
  <2>1. \A i \in n + 1..Len(bytes) : bytes[i] \in LetterBytes
    BY <1>6, ElementOfSeq
  <2>2. /\ bytes' \in Seq(LetterBytes)
        /\ Len(bytes') = IF n + 1 <= Len(bytes) THEN Len(bytes) - (n + 1) + 1 ELSE 0
        /\ \A i \in 1..Len(bytes) - (n + 1) + 1 : bytes'[i] = bytes[n + 1 + i - 1]
    BY <1>1b, <1>6, <2>1, SubSeqProperties, SMTT(40)
  <2>3. \A i \in 1..Len(bytes) - n : n + 1 + i - 1 = i + n /\ i \in 1..Len(bytes) - (n + 1) + 1
    BY <1>6
  <2>4. QED
    BY <1>6, <2>2, <2>3, SMTT(40)
<1>10. /\ got \in Seq(LetterBytes) /\ Len(got) = Len(inMessage.got) + n
       /\ \A i \in 1..Len(got) :
            got[i] = LetterByte([turn |-> InTurn, contents |-> inContents, place |-> i])
  <2>1. PICK x : x = SubSeq(bytes, 1, n)
    OBVIOUS
  <2>2. x \in Seq(LetterBytes) /\ Len(x) = n /\ \A i \in 1..n : x[i] = bytes[i]
    <3>1. \A i \in 1..n : bytes[i] \in LetterBytes
      BY <1>6, ElementOfSeq
    <3>2. /\ x \in Seq(LetterBytes) /\ Len(x) = (IF 1 <= n THEN n - 1 + 1 ELSE 0)
          /\ \A i \in 1..n - 1 + 1 : x[i] = bytes[1 + i - 1]
      BY <1>6, <2>1, <3>1, SubSeqProperties, SMTT(40)
    <3>3. QED
      BY <1>6, <3>2
  <2>3. /\ got \in Seq(LetterBytes) /\ Len(got) = Len(inMessage.got) + n
        /\ \A i \in 1..Len(inMessage.got) + n :
             got[i] = IF i <= Len(inMessage.got) THEN inMessage.got[i]
                      ELSE x[i - Len(inMessage.got)]
    BY <1>1c, <1>8, <2>1, <2>2, ConcatProperties
  <2>4. ASSUME NEW i \in 1..Len(inMessage.got) + n
        PROVE  got[i] = LetterByte([turn |-> InTurn, contents |-> inContents, place |-> i])
    <3>1. CASE i <= Len(inMessage.got)
      BY <1>4, <1>8, <2>3, <2>4, <3>1 DEF Begun
    <3>2. CASE ~(i <= Len(inMessage.got))
      <4>1. /\ i - Len(inMessage.got) \in 1..n
            /\ Len(inMessage.got) + (i - Len(inMessage.got)) = i
        BY <1>6, <1>8, <2>4, <3>2
      <4>2. QED
        BY <1>7, <2>2, <2>3, <2>4, <3>2, <4>1
    <3>3. QED
      BY <3>1, <3>2
  <2>5. QED
    BY <2>3, <2>4
<1>11. m = sentLetters[InTurn] /\ L!Size(m) = LetterSize(InTurn) /\ L!Size(m) \in 0..2
  <2>1. 1 \in 1..Len(got)
    BY <1>6, <1>8, <1>10
  <2>2. QED
    <3>1. got[1].of = sentLetters[InTurn]
      <4>1. got[1] = LetterByte([turn |-> InTurn, contents |-> inContents, place |-> 1])
        BY <1>10, <2>1, Zenon
      <4>2. QED
        BY <4>1 DEF LetterByte
    <3>2. QED
      BY <1>1d, <3>1, SizesOfLetters, Zenon DEF LetterSize
<1>12. LettersOut'
  BY <1>3, <1>9 DEF LetterInv, LettersOut, OutTurn, PartSize, LetterSize
<1>13. ASSUME InPlace' = pos[n + 1] PROVE \E then : Leads(then)'
  <2>1. PICK then : then = [i \in 1..Len(bytes) - n + 1 |-> pos[i + n]]
    OBVIOUS
  <2>2. /\ pos \in [1..Len(bytes) + 1 -> LetterPlaces] /\ pos[Len(bytes) + 1] = OutPlace
        /\ \A i \in 1..Len(bytes) :
             /\ pos[i].turn <= Len(sentLetters)
             /\ bytes[i] = LetterByte(pos[i]) /\ pos[i + 1] = NextPlace(pos[i])
    BY <1>5 DEF Leads
  <2>3. \A i \in 1..Len(bytes) - n + 1 : i + n \in 1..Len(bytes) + 1
    BY <1>6
  <2>4. then \in [1..Len(bytes) - n + 1 -> LetterPlaces]
    BY <2>1, <2>2, <2>3
  <2>5. then[1] = pos[n + 1] /\ then[Len(bytes) - n + 1] = OutPlace
    <3>1. /\ 1 \in 1..Len(bytes) - n + 1 /\ Len(bytes) - n + 1 \in 1..Len(bytes) - n + 1
          /\ 1 + n = n + 1 /\ Len(bytes) - n + 1 + n = Len(bytes) + 1
      BY <1>6
    <3>2. QED
      BY <2>1, <2>2, <3>1
  <2>6. ASSUME NEW i \in 1..Len(bytes) - n
        PROVE  /\ then[i].turn <= Len(sentLetters)
               /\ bytes'[i] = LetterByte(then[i]) /\ then[i + 1] = NextPlace(then[i])
    <3>1. /\ i \in 1..Len(bytes) - n + 1 /\ i + 1 \in 1..Len(bytes) - n + 1
          /\ i + n \in 1..Len(bytes) /\ i + 1 + n = i + n + 1
      BY <1>6, <2>6
    <3>2. then[i] = pos[i + n] /\ then[i + 1] = pos[i + n + 1]
      BY <2>1, <3>1
    <3>3. QED
      BY <1>9, <2>2, <2>6, <3>1, <3>2
  <2>7. OutPlace' = OutPlace /\ sentLetters' = sentLetters
    BY <1>3 DEF OutPlace, OutTurn, LetterSize
  <2>8. \A q : LetterByte(q)' = LetterByte(q) /\ NextPlace(q)' = NextPlace(q)
    BY <2>7 DEF LetterByte, NextPlace, PartSize, LetterSize
  <2>9. Leads(then)'
    BY <1>9, <1>13, <2>4, <2>5, <2>6, <2>7, <2>8 DEF Leads
  <2>10. QED
    BY <2>9
<1>14. \A i \in 1..Len(gotLetters) + Len(arrived) :
         LetterSize(i) # 0 /\ (gotLetters \o arrived)[i] = WholeLetter(sentLetters[i])
  BY DEF LetterInv, LettersIn
<1>15. \A i : LetterSize(i)' = LetterSize(i)
  BY <1>3 DEF LetterSize
<1>16. \A c, i : PartSize(c, i)' = PartSize(c, i)
  BY <1>15 DEF PartSize
<1>17. \A q : LetterByte(q)' = LetterByte(q)
  BY <1>3 DEF LetterByte
<1>18. inContents \in BOOLEAN
  BY DEF LetterInv, LettersIn
\* More of the same part is to come.
<1>19. CASE /\ n # inBytesRest
            /\ inMessage' = [inMessage EXCEPT !.got = got] /\ inBytesRest' = inBytesRest - n
            /\ inContents' = inContents /\ arrived' = arrived
  <2>1. InTurn' = InTurn
    BY <1>3, <1>19 DEF InTurn
  <2>2. inMessage' = [of |-> inMessage.of, got |-> got] /\ inMessage'.got = got
    BY <1>6, <1>19
  <2>3. InPlace' = pos[n + 1]
    <3>1. InPlace' = [turn |-> InTurn, contents |-> inContents, place |-> Len(got) + 1]
      BY <1>19, <2>1, <2>2 DEF InPlace
    <3>2. Len(inMessage.got) + n < PartSize(inContents, InTurn)
      BY <1>1, <1>6, <1>8, <1>19
    <3>3. QED
      BY <1>7, <1>10, <3>1, <3>2 DEF NextPlace
  <2>4. Begun'
    <3>1. Len(got) + (inBytesRest - n) = PartSize(inContents, InTurn)
      BY <1>6, <1>8, <1>10
    <3>2. InTurn <= Len(sentLetters)
      BY <1>7, <1>6
    <3>3. QED
      BY <1>3, <1>10, <1>16, <1>17, <1>19, <2>1, <2>2, <3>1, <3>2, Zenon DEF Begun
  <2>5. inBytesRest' \in Nat
    <3>1. inBytesRest - n \in Nat
      BY <1>1a, <1>6
    <3>2. QED
      BY <1>19, <3>1, Zenon
  <2>6. LettersIn'
    BY <1>3, <1>6, <1>13, <1>14, <1>15, <1>18, <1>19, <2>2, <2>3, <2>4, <2>5, Zenon DEF LettersIn
  <2>7. QED
    BY <1>12, <2>1, <2>6 DEF LetterInv
\* The message is complete.
<1>20. CASE /\ n = inBytesRest /\ inContents
            /\ arrived' = Append(arrived, got) /\ inMessage' = L!NoLetter
            /\ inContents' = FALSE /\ inBytesRest' = 2
  <2>1. Len(got) = LetterSize(InTurn) /\ LetterSize(InTurn) # 0
    <3>1. PartSize(inContents, InTurn) = LetterSize(InTurn)
      BY <1>20 DEF PartSize
    <3>2. n = inBytesRest
      BY <1>20
    <3>3. QED
      BY <1>6, <1>8, <1>10, <3>1, <3>2
  <2>2. got = WholeLetter(sentLetters[InTurn])
    <3>1. \A i \in 1..Len(got) :
            got[i] = [of |-> sentLetters[InTurn], contents |-> TRUE, place |-> i]
      <4>1. inContents = TRUE
        BY <1>18, <1>20, Zenon
      <4>2. QED
        BY <1>10, <4>1 DEF LetterByte
    <3>2. WholeLetter(sentLetters[InTurn]) =
            [i \in 1..Len(got) |-> [of |-> sentLetters[InTurn], contents |-> TRUE, place |-> i]]
      BY <2>1, Zenon DEF WholeLetter, LetterSize
    <3>3. got \in [1..Len(got) -> LetterBytes]
      BY <1>10, LenProperties
    <3>4. got = [i \in 1..Len(got) |-> got[i]]
      BY <3>3
    <3>5. QED
      BY <3>1, <3>2, <3>4
  <2>3. /\ arrived' \in Seq(LetterContents) /\ Len(arrived') = Len(arrived) + 1
        /\ \A i \in 1..Len(arrived) : arrived'[i] = arrived[i]
        /\ arrived'[Len(arrived) + 1] = got
    <3>1. got \in LetterContents
      BY <1>10 DEF LetterContents
    <3>2. arrived' = Append(arrived, got)
      BY <1>20
    <3>3. QED
      BY <1>6, <3>1, <3>2, AppendProperties
  <2>4. InTurn' = InTurn + 1 /\ InTurn = Len(gotLetters) + Len(arrived) + 1
        /\ Len(gotLetters') + Len(arrived') = Len(gotLetters) + Len(arrived) + 1
    BY <1>3, <1>6, <2>3 DEF InTurn
  <2>5. gotLetters' \o arrived' = Append(gotLetters \o arrived, got)
    <3>1. got \in LetterContents /\ arrived' = Append(arrived, got) /\ gotLetters' = gotLetters
      BY <1>3, <1>10, <1>20 DEF LetterContents
    <3>2. gotLetters \o Append(arrived, got) = Append(gotLetters \o arrived, got)
      BY <1>6, <3>1
    <3>3. QED
      BY <3>1, <3>2
  <2>6. ASSUME NEW i \in 1..Len(gotLetters') + Len(arrived')
        PROVE  LetterSize(i) # 0 /\ (gotLetters' \o arrived')[i] = WholeLetter(sentLetters[i])
    <3>1. PICK all : all = gotLetters \o arrived
      OBVIOUS
    <3>2. /\ all \in Seq(LetterContents) /\ Len(all) = Len(gotLetters) + Len(arrived)
          /\ got \in LetterContents
      BY <1>6, <1>10, <3>1, ConcatProperties DEF LetterContents
    <3>3. /\ \A j \in 1..Len(all) : Append(all, got)[j] = all[j]
          /\ Append(all, got)[Len(all) + 1] = got
      BY <3>2, AppendProperties
    <3>4. CASE i \in 1..Len(all)
      BY <1>14, <2>5, <3>1, <3>2, <3>3, <3>4
    <3>5. CASE i = Len(all) + 1
      BY <2>1, <2>2, <2>4, <2>5, <3>1, <3>2, <3>3, <3>5
    <3>6. i \in 1..Len(all) \/ i = Len(all) + 1
      BY <1>6, <2>4, <2>6, <3>2
    <3>7. QED
      BY <3>4, <3>5, <3>6
  <2>7. inMessage' = [of |-> <<>>, got |-> <<>>] /\ inMessage'.got = <<>>
    BY <1>20 DEF L!NoLetter
  <2>8. InPlace' = pos[n + 1]
    <3>1. InPlace' = [turn |-> InTurn + 1, contents |-> FALSE, place |-> 1]
      <4>1. Len(inMessage'.got) + 1 = 1
        BY <2>7, EmptySequence
      <4>2. QED
        BY <1>20, <2>4, <4>1, Zenon DEF InPlace
    <3>2. ~(Len(inMessage.got) + n < PartSize(inContents, InTurn))
      <4>1. n = inBytesRest
        BY <1>20
      <4>2. QED
        BY <1>6, <1>8, <4>1
    <3>3. inContents
      BY <1>20
    <3>4. QED
      BY <1>7, <3>1, <3>2, <3>3 DEF NextPlace
  <2>9. Begun'
    <3>1. /\ inMessage'.got \in Seq(LetterBytes) /\ Len(inMessage'.got) = 0
          /\ 1..Len(inMessage'.got) = {} /\ Len(inMessage'.got) + 2 = 2
      BY <2>7, EmptySequence
    <3>2. inContents' = FALSE /\ inBytesRest' = 2
      BY <1>20
    <3>3. PartSize(inContents, InTurn)' = 2
      BY <3>2, Zenon DEF PartSize, L!SizeOfSize
    <3>4. QED
      BY <3>1, <3>2, <3>3, Zenon DEF Begun
  <2>10. inContents' \in BOOLEAN /\ inBytesRest' \in Nat
    BY <1>20
  <2>11. Len(gotLetters') + Len(arrived') <= Len(sentLetters')
    BY <1>3, <1>6, <1>7, <2>4
  <2>12. gotLetters' \in Seq(LetterContents)
    BY <1>3, <1>6
  <2>13. inMessage' = [of |-> inMessage'.of, got |-> inMessage'.got]
    BY <2>7
  <2>14. LettersIn'
    BY <1>3, <1>13, <1>15, <2>3, <2>6, <2>8, <2>9, <2>10, <2>11, <2>12, <2>13, Zenon DEF LettersIn
  <2>15. QED
    BY <1>12, <2>4, <2>14 DEF LetterInv
\* The size is complete and says how much is to come.
<1>21. CASE /\ n = inBytesRest /\ ~inContents
            /\ inMessage' = [of |-> m, got |-> <<>>]
            /\ inContents' = (L!Size(m) # 0) /\ inBytesRest' = L!Size(m)
            /\ arrived' = arrived
  <2>1. InTurn' = InTurn
    BY <1>3, <1>21 DEF InTurn
  <2>2. inMessage'.got = <<>> /\ inMessage' = [of |-> inMessage'.of, got |-> inMessage'.got]
    BY <1>21
  <2>3. /\ inMessage'.got \in Seq(LetterBytes) /\ Len(inMessage'.got) = 0
        /\ 1..Len(inMessage'.got) = {} /\ \A k \in Nat : Len(inMessage'.got) + k = k
    BY <2>2, EmptySequence
  <2>4. inBytesRest' = LetterSize(InTurn) /\ inBytesRest' \in Nat
    BY <1>11, <1>21
  <2>5. inContents' \in BOOLEAN /\ (inContents' <=> inBytesRest' # 0)
    BY <1>21, Zenon
  <2>6. ASSUME inBytesRest' # 0 PROVE Begun' /\ InPlace' = pos[n + 1]
    <3>1. inContents' = TRUE
      BY <2>5, <2>6, Zenon
    <3>2. PartSize(inContents, InTurn)' = LetterSize(InTurn)
      BY <1>15, <2>1, <3>1, Zenon DEF PartSize
    <3>3. InTurn' <= Len(sentLetters')
      BY <1>3, <1>6, <1>7, <2>1
    <3>4. Len(inMessage'.got) + inBytesRest' = PartSize(inContents, InTurn)'
      BY <2>3, <2>4, <3>2
    <3>5. Begun'
      BY <2>3, <3>3, <3>4, Zenon DEF Begun
    <3>6. InPlace' = [turn |-> InTurn, contents |-> TRUE, place |-> 1]
      <4>1. Len(inMessage'.got) + 1 = 1
        BY <2>3
      <4>2. QED
        BY <2>1, <3>1, <4>1, Zenon DEF InPlace
    <3>7. ~(Len(inMessage.got) + n < PartSize(inContents, InTurn))
      <4>1. n = inBytesRest
        BY <1>21
      <4>2. QED
        BY <1>6, <1>8, <4>1
    <3>8. ~inContents /\ LetterSize(InTurn) # 0
      BY <1>21, <2>4, <2>6
    <3>9. QED
      BY <1>7, <3>5, <3>6, <3>7, <3>8 DEF NextPlace
  <2>7. LettersIn'
    BY <1>3, <1>6, <1>13, <1>14, <1>15, <1>21, <2>2, <2>4, <2>5, <2>6, Zenon DEF LettersIn
  <2>8. QED
    BY <1>12, <2>1, <2>7 DEF LetterInv
<1>22. QED
  BY <1>1, <1>19, <1>20, <1>21

LEMMA LetterInvUnchanged ==
  ASSUME LetterInv,
         UNCHANGED <<outbox, outContents, outNeeded, outNextByte, outBytesRest, inMessage,
                     inContents, inBytesRest, arrived, bytes, sentLetters, gotLetters>>
  PROVE  LetterInv'
<1>1. LettersOut'
  BY DEF LetterInv, LettersOut, OutTurn, PartSize, LetterSize
<1>2. OutPlace' = OutPlace /\ InPlace' = InPlace /\ InTurn' = InTurn
  BY DEF OutPlace, InPlace, OutTurn, InTurn, LetterSize
<1>3. \A q : LetterByte(q)' = LetterByte(q) /\ NextPlace(q)' = NextPlace(q)
  BY DEF LetterByte, NextPlace, PartSize, LetterSize
<1>4. ASSUME NEW pos, Leads(pos) PROVE Leads(pos)'
  BY <1>2, <1>3, <1>4 DEF Leads
<1>5. Begun => Begun'
  BY <1>2, <1>3 DEF Begun, PartSize, LetterSize
<1>6. \A i : LetterSize(i)' = LetterSize(i)
  BY DEF LetterSize
<1>7. LettersIn'
  BY <1>4, <1>5, <1>6 DEF LetterInv, LettersIn
<1>8. QED
  BY <1>1, <1>7 DEF LetterInv

LEMMA LetterStep ==
  ASSUME LetterInv, [L!Next]_letterVars
  PROVE  LetterInv' /\ [L!Abstract!Next]_<<sentLetters, L!Received>>
<1>1. PICK d : d = Len(gotLetters) + Len(arrived)
  OBVIOUS
<1>2. /\ L!Received = [i \in 1..d |-> sentLetters[i]] /\ d \in 0..Len(sentLetters)
      /\ sentLetters \in Seq(Letters) /\ InTurn = d + 1
  BY <1>1, ReceivedAre DEF LetterInv, LettersOut, InTurn
<1>3. CASE UNCHANGED letterVars
  <2>1. LetterInv'
    BY <1>3, LetterInvUnchanged DEF letterVars
  <2>2. L!Received' = L!Received /\ sentLetters' = sentLetters
    BY <1>3 DEF letterVars, L!Received
  <2>3. QED
    BY <2>1, <2>2
<1>4. CASE \E m \in Letters : L!SendMessage(m)
  <2>1. PICK m \in Letters : L!SendMessage(m)
    BY <1>4
  <2>2. LetterInv'
    BY <2>1, SendKeepsLetters
  <2>3. L!Received' = L!Received
    BY <2>1 DEF L!SendMessage, L!inLetterVars, L!Received
  <2>4. \A i \in 1..Len(sentLetters) : sentLetters[i] # m
    <3>1. ~L!Contains(sentLetters, m)
      BY <2>1 DEF L!SendMessage
    <3>2. DOMAIN sentLetters = 1..Len(sentLetters)
      BY <1>2, LenProperties
    <3>3. QED
      BY <3>1, <3>2 DEF L!Contains
  <2>5. sentLetters' = Append(sentLetters, m)
    BY <2>1 DEF L!SendMessage
  <2>6. L!Abstract!Accept(m)
    BY <2>3, <2>4, <2>5 DEF L!Abstract!Accept
  <2>7. QED
    BY <2>2, <2>6 DEF L!Abstract!Next
<1>5. CASE L!Transmit
  BY <1>5, TransmitKeepsLetters DEF L!Transmit, L!TransmitBytes
<1>6. CASE L!RecvMessage
  BY <1>6, RecvKeepsLetters DEF L!RecvMessage
<1>7. CASE L!Receive
  <2>1. LetterInv' /\ InTurn' \in {InTurn, InTurn + 1}
    BY <1>7, ReceiveKeepsLetters
  <2>2. sentLetters' = sentLetters
    BY <1>7 DEF L!Receive
  <2>3. PICK e : e = Len(gotLetters') + Len(arrived')
    OBVIOUS
  <2>4. /\ L!Received' = [i \in 1..e |-> sentLetters[i]] /\ e \in 0..Len(sentLetters)
        /\ InTurn' = e + 1
    <3>1. LetterInv' => /\ (Len(gotLetters) + Len(arrived) \in 0..Len(sentLetters))'
                        /\ (L!Received = [i \in 1..Len(gotLetters) + Len(arrived) |-> sentLetters[i]])'
      BY ReceivedAre, PTL
    <3>2. QED
      BY <2>1, <2>2, <2>3, <3>1 DEF InTurn
  <2>5. e = d \/ e = d + 1
    BY <1>2, <2>1, <2>4
  <2>6. CASE e = d
    BY <1>2, <2>1, <2>2, <2>4, <2>6
  <2>7. CASE e = d + 1
    <3>1. PICK r, t : r = L!Received /\ t = L!Received'
      OBVIOUS
    <3>2. r \in Seq(Letters) /\ Len(r) = d
      <4>1. \A i \in 1..d : sentLetters[i] \in Letters
        BY <1>2
      <4>2. r \in [1..d -> Letters] /\ d \in Nat
        BY <1>2, <3>1, <4>1
      <4>3. QED
        BY <4>2, SeqDef, LenProperties
    <3>3. t \in Seq(Letters) /\ Len(t) = d + 1
      <4>1. \A i \in 1..d + 1 : sentLetters[i] \in Letters
        BY <1>2, <2>4, <2>7
      <4>2. t \in [1..d + 1 -> Letters] /\ d + 1 \in Nat
        BY <1>2, <2>4, <2>7, <3>1, <4>1
      <4>3. QED
        BY <4>2, SeqDef, LenProperties
    <3>4. sentLetters[d + 1] \in Letters /\ d < Len(sentLetters)
      BY <1>2, <2>4, <2>7
    <3>5. t = Append(r, sentLetters[d + 1])
      <4>1. /\ Append(r, sentLetters[d + 1]) \in Seq(Letters)
            /\ Len(Append(r, sentLetters[d + 1])) = d + 1
            /\ \A i \in 1..d : Append(r, sentLetters[d + 1])[i] = r[i]
            /\ Append(r, sentLetters[d + 1])[d + 1] = sentLetters[d + 1]
        BY <3>2, <3>4, AppendProperties
      <4>2. \A i \in 1..d + 1 : t[i] = sentLetters[i]
        BY <2>4, <2>7, <3>1
      <4>3. \A i \in 1..d : r[i] = sentLetters[i]
        BY <1>2, <3>1
      <4>4. \A i \in 1..d + 1 : i \in 1..d \/ i = d + 1
        BY <1>2
      <4>5. \A i \in 1..d + 1 : t[i] = Append(r, sentLetters[d + 1])[i]
        BY <4>1, <4>2, <4>3, <4>4, Zenon
      <4>6. QED
        BY <3>3, <4>1, <4>5, SeqEqual
    <3>6. L!Abstract!Deliver
      BY <2>2, <3>1, <3>2, <3>4, <3>5 DEF L!Abstract!Deliver
    <3>7. QED
      BY <2>1, <3>6 DEF L!Abstract!Next
  <2>8. QED
    BY <2>5, <2>6, <2>7
<1>8. CASE L!ReceiveNothing
  <2>1. UNCHANGED <<outbox, outContents, outNeeded, outNextByte, outBytesRest, inMessage, inContents,
                    inBytesRest, arrived, bytes, sentLetters, gotLetters>>
    BY <1>8 DEF L!ReceiveNothing, L!outLetterVars
  <2>2. LetterInv'
    BY <2>1, LetterInvUnchanged
  <2>3. L!Received' = L!Received
    BY <2>1 DEF L!Received
  <2>4. QED
    BY <2>1, <2>2, <2>3
<1>9. CASE L!PostRestart \/ L!WriteRestart \/ L!BuildList \/ L!Restarted \/ L!WakeUp
  <2>1. UNCHANGED <<outbox, outContents, outNeeded, outNextByte, outBytesRest, inMessage, inContents,
                    inBytesRest, arrived, bytes, sentLetters, gotLetters>>
    BY <1>9 DEF L!PostRestart, L!WriteRestart, L!BuildList, L!Restarted, L!WakeUp,
                L!outLetterVars, L!inLetterVars
  <2>2. LetterInv'
    BY <2>1, LetterInvUnchanged
  <2>3. L!Received' = L!Received
    BY <2>1 DEF L!Received
  <2>4. QED
    BY <2>1, <2>2, <2>3
<1>10. QED
  BY <1>3, <1>4, <1>5, <1>6, <1>7, <1>8, <1>9 DEF L!Next

LEMMA MessagePart == FairSpecAll => L!Init /\ [][L!Next]_letterVars
<1>1. InitAll => L!Init
  BY DEF InitAll
<1>2. [NextAll]_allVars => [L!Next]_letterVars
  BY DEF NextAll, Others, allVars, letterVars
<1>3. QED
  BY <1>1, <1>2, PTL DEF FairSpecAll

\* Two SimpleNetPoints implement a packet channel (transmit and receive, simplenetpoint.cpp):
\* messages arrive whole, once and in order, in whatever pieces send () and recv () move
\* their sizes and contents.
THEOREM MessagesImplementChannel == FairSpecAll => L!ImplementsMessageChannel
<1>1. L!Init => LetterInv /\ L!Abstract!Init
  <2>1. ASSUME L!Init PROVE LetterInv /\ L!Abstract!Init
    <3>1. LetterInv
      BY <2>1, LetterInvInit
    <3>2. gotLetters = <<>> /\ arrived = <<>> /\ sentLetters = <<>>
      BY <2>1 DEF L!Init
    <3>3. L!Received = [i \in 1..0 |-> sentLetters[i]]
      <4>1. Len(gotLetters) + Len(arrived) = 0
        BY <3>2, EmptySequence
      <4>2. QED
        BY <3>1, <4>1, ReceivedAre
    <3>4. L!Received = <<>>
      <4>1. L!Received \in [1..0 -> Letters]
        BY <3>3
      <4>2. L!Received \in Seq(Letters) /\ Len(L!Received) = 0
        BY <4>1, SeqDef, LenProperties
      <4>3. QED
        BY <4>2, EmptySeq
    <3>5. QED
      BY <3>1, <3>2, <3>4 DEF L!Abstract!Init
  <2>2. QED
    BY <2>1
<1>2. LetterInv /\ [L!Next]_letterVars => LetterInv' /\ [L!Abstract!Next]_<<sentLetters, L!Received>>
  BY LetterStep
<1>3. QED
  BY <1>1, <1>2, MessagePart, PTL DEF L!ImplementsMessageChannel, L!Abstract!Spec
=============================================================================
