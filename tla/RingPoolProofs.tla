---------------------------- MODULE RingPoolProofs ----------------------------
(***************************************************************************)
(* Theorems about ring_pool for every number and size of pools.            *)
(* Pools are counted through: push has filled the first Passed of them,    *)
(* and the swap thread has saved the first "saved" of those.  The pool     *)
(* that is counted i is at i % RootSize in the ring.                       *)
(***************************************************************************)
EXTENDS RingPool, TLAPS

-----------------------------------------------------------------------------
(***************************************************************************)
(* Division with remainder, which the provers do not know by themselves.   *)
(***************************************************************************)

\* The quotient and the remainder of any integer.
LEMMA DivMod ==
  ASSUME NEW N \in Nat \ {0}, NEW x \in Int
  PROVE  /\ x % N \in 0..N - 1
         /\ x \div N \in Int
         /\ x = N * (x \div N) + (x % N)
<1>1. x % N \in 0..N - 1
  OBVIOUS
<1>2. x \div N \in Int
  OBVIOUS
<1>3. x = N * (x \div N) + (x % N)
  OBVIOUS
<1>4. QED
  BY <1>1, <1>2, <1>3

\* Multiples of N are N apart.
LEMMA MulMono ==
  ASSUME NEW N \in Nat \ {0}, NEW a \in Int, NEW b \in Int, a < b
  PROVE  N * a + N <= N * b
OBVIOUS

\* They are the only ones.
LEMMA DivUnique ==
  ASSUME NEW N \in Nat \ {0}, NEW q \in Int, NEW r \in 0..N - 1, NEW x \in Int,
         x = N * q + r
  PROVE  x \div N = q /\ x % N = r
<1> DEFINE p == x \div N
<1>1. p \in Int /\ x % N \in 0..N - 1 /\ x = N * p + (x % N)
  BY DivMod
<1>2. ASSUME p < q PROVE FALSE
  <2>1. N * p + N <= N * q
    BY <1>1, <1>2, MulMono
  <2>2. QED
    BY <1>1, <2>1
<1>3. ASSUME q < p PROVE FALSE
  <2>1. N * q + N <= N * p
    BY <1>1, <1>3, MulMono
  <2>2. QED
    BY <1>1, <2>1
<1>4. p = q
  BY <1>1, <1>2, <1>3
<1>5. QED
  BY <1>1, <1>4

\* Counting on by one.
LEMMA ModNext ==
  ASSUME NEW N \in Nat \ {0}, NEW x \in Int
  PROVE  /\ ((x % N) + 1) % N = (x + 1) % N
         /\ (x % N) + 1 = N => (x + 1) % N = 0 /\ (x + 1) \div N = (x \div N) + 1
         /\ (x % N) + 1 # N => (x + 1) % N = (x % N) + 1 /\ (x + 1) \div N = x \div N
<1> DEFINE q == x \div N
           r == x % N
           y == x + 1
<1>1. q \in Int /\ r \in 0..N - 1 /\ x = N * q + r /\ y = x + 1 /\ y \in Int
  BY DivMod
<1> HIDE DEF q, r, y
<1>2. ASSUME r + 1 = N
      PROVE  (r + 1) % N = 0 /\ y % N = 0 /\ y \div N = q + 1
  <2>1. r + 1 = N * 1 + 0
    BY <1>1, <1>2
  <2>2. 0 \in 0..N - 1 /\ r + 1 \in Int /\ 1 \in Int
    BY <1>1
  <2>3. y \div N = q + 1 /\ y % N = 0
    <3> DEFINE p == q + 1
    <3>1. p \in Int /\ y = N * p + 0
      BY <1>1, <1>2
    <3> HIDE DEF p
    <3>2. y \div N = p /\ y % N = 0
      BY <1>1, <2>2, <3>1, DivUnique
    <3>3. QED
      BY <3>2 DEF p
  <2>4. (r + 1) % N = 0
    BY <2>1, <2>2, DivUnique
  <2>5. QED
    BY <2>3, <2>4
<1>3. ASSUME r + 1 # N
      PROVE  (r + 1) % N = r + 1 /\ y % N = r + 1 /\ y \div N = q
  <2>1. r + 1 = N * 0 + (r + 1)
    BY <1>1, <1>3
  <2>2. r + 1 \in 0..N - 1 /\ r + 1 \in Int /\ 0 \in Int
    BY <1>1, <1>3
  <2>3. y \div N = q /\ y % N = r + 1
    <3> DEFINE v == r + 1
    <3>1. v \in 0..N - 1 /\ y = N * q + v
      BY <1>1, <2>2
    <3> HIDE DEF v
    <3>2. y \div N = q /\ y % N = v
      BY <1>1, <3>1, DivUnique
    <3>3. QED
      BY <3>2 DEF v
  <2>4. (r + 1) % N = r + 1
    BY <2>1, <2>2, DivUnique
  <2>5. QED
    BY <2>3, <2>4
<1>4. (r + 1) % N = y % N
  <2>1. CASE r + 1 = N
    BY <1>2, <2>1, Zenon
  <2>2. CASE r + 1 # N
    BY <1>3, <2>2, Zenon
  <2>3. QED
    BY <2>1, <2>2
<1>5. r + 1 = N => y % N = 0 /\ y \div N = q + 1
  BY <1>2
<1>6. r + 1 # N => y % N = r + 1 /\ y \div N = q
  BY <1>3
<1>7. QED
  BY <1>4, <1>5, <1>6, Zenon DEF q, r, y

\* Whole turns do not change the remainder.
LEMMA ModShift ==
  ASSUME NEW N \in Nat \ {0}, NEW x \in Int, NEW k \in Int
  PROVE  (x + N * k) % N = x % N
<1> DEFINE q == x \div N
           r == x % N
           y == x + N * k
<1>1. q \in Int /\ r \in 0..N - 1 /\ x = N * q + r
  BY DivMod
<1> HIDE DEF q, r
<1>2. y \in Int /\ y = N * (q + k) + r
  BY <1>1
<1>3. q + k \in Int
  BY <1>1
<1> HIDE DEF y
<1>4. y % N = r
  BY <1>1, <1>2, <1>3, DivUnique
<1>5. QED
  BY <1>4 DEF y, r

\* The distance of two remainders is that of the numbers.
LEMMA ModDiff ==
  ASSUME NEW N \in Nat \ {0}, NEW x \in Int, NEW y \in Int
  PROVE  ((x % N) - (y % N)) % N = (x - y) % N
<1> DEFINE p == x \div N
           q == y \div N
           d == (x % N) - (y % N)
           k == p - q
<1>1. p \in Int /\ q \in Int /\ x % N \in Int /\ y % N \in Int
      /\ x = N * p + (x % N) /\ y = N * q + (y % N)
  BY DivMod
<1>2. d \in Int /\ k \in Int /\ x - y = d + N * k
  BY <1>1
<1> HIDE DEF d, k
<1>3. (d + N * k) % N = d % N
  BY <1>2, ModShift
<1>4. QED
  BY <1>2, <1>3 DEF d

\* Less than a turn is its own remainder.
LEMMA ModSmall ==
  ASSUME NEW N \in Nat \ {0}, NEW x \in 0..N - 1
  PROVE  x % N = x
OBVIOUS

\* Numbers less than a turn apart have different remainders.
LEMMA ModApart ==
  ASSUME NEW N \in Nat \ {0}, NEW x \in Int, NEW y \in Int, x - y \in 1..N - 1
  PROVE  x % N # y % N
<1> SUFFICES ASSUME x % N = y % N PROVE FALSE
  OBVIOUS
<1>1. (x - y) % N = x - y /\ 0 % N = 0
  BY ModSmall
<1>2. (x % N) - (y % N) = 0
  BY DivMod
<1>3. ((x % N) - (y % N)) % N = (x - y) % N
  BY ModDiff
<1>4. 0 % N = x - y
  BY <1>1, <1>2, <1>3, Zenon
<1>5. QED
  BY <1>1, <1>4

\* Multiples keep their order.
LEMMA MulAtMost ==
  ASSUME NEW N \in Nat \ {0}, NEW a \in Int, NEW b \in Int, a <= b
  PROVE  N * a <= N * b
<1>1. CASE a = b
  BY <1>1
<1>2. CASE a < b
  BY <1>2, MulMono
<1>3. QED
  BY <1>1, <1>2

\* Going back from a remainder.
LEMMA ModMinus ==
  ASSUME NEW N \in Nat \ {0}, NEW x \in Int, NEW d \in Int
  PROVE  ((x % N) - d) % N = (x - d) % N
<1> DEFINE q == x \div N
           y == (x % N) - d
<1>1. q \in Int /\ x % N \in Int /\ x = N * q + (x % N)
  BY DivMod
<1>2. y \in Int /\ x - d = y + N * q
  BY <1>1
<1> HIDE DEF y, q
<1>3. (y + N * q) % N = y % N
  BY <1>1, <1>2, ModShift
<1>4. QED
  BY <1>2, <1>3 DEF y

\* Scaling a division.
LEMMA ScaledMod ==
  ASSUME NEW N \in Nat \ {0}, NEW K \in Nat \ {0}, NEW x \in Int
  PROVE  (K * x) % (K * N) = K * (x % N)
<1> DEFINE q == x \div N
           r == x % N
           M == K * N
           v == K * r
           y == K * x
<1>1. q \in Int /\ r \in 0..N - 1 /\ x = N * q + r
  BY DivMod
<1> HIDE DEF q, r
<1>2. M \in Nat \ {0} /\ v \in Int /\ y \in Int
  BY <1>1
<1>3. v \in 0..M - 1
  <2>1. K * 0 <= K * r /\ K * r + K <= K * N
    BY <1>1, MulMono, MulAtMost
  <2>2. QED
    BY <1>2, <2>1
<1>4. y = M * q + v
  BY <1>1
<1> HIDE DEF M, v, y
<1>5. y % M = v
  BY <1>1, <1>2, <1>3, <1>4, DivUnique
<1>6. QED
  BY <1>5 DEF y, M, v, r

\* A position in a ring of N pools of K records: its pool and its place in the pool
\* are those of the record.
LEMMA RingPosition ==
  ASSUME NEW N \in Nat \ {0}, NEW K \in Nat \ {0}, NEW x \in Int
  PROVE  /\ ((x % (K * N)) \div K) % N = (x \div K) % N
         /\ (x % (K * N)) % K = x % K
<1> DEFINE M == K * N
           q == x \div M
           r == x % M
           u == r \div K
           v == r % K
           w == N * q
           t == u + w
<1>1. M \in Nat \ {0}
  OBVIOUS
<1> HIDE DEF M
<1>2. q \in Int /\ r \in Int /\ x = M * q + r
  BY <1>1, DivMod
<1> HIDE DEF q, r
<1>3. u \in Int /\ v \in 0..K - 1 /\ r = K * u + v
  BY <1>2, DivMod
<1> HIDE DEF u, v
<1>4. w \in Int /\ t \in Int /\ x = K * t + v
  BY <1>2, <1>3 DEF M
<1> HIDE DEF t
<1>5. x \div K = t /\ x % K = v
  BY <1>3, <1>4, DivUnique
<1>6. t % N = u % N
  BY <1>2, <1>3, ModShift DEF t
<1>7. QED
  BY <1>5, <1>6 DEF u, v, r, M

\* The sizes of the ring.
LEMMA Sizes ==
  /\ RootSize \in Nat \ {0} /\ PoolSize \in Nat \ {0} /\ Capacity \in Nat \ {0}
  /\ MemPools \in Nat /\ 2 <= MemPools /\ MemPools <= RootSize
  /\ Capacity = PoolSize * RootSize
BY RingPoolAssumption DEF Capacity

\* Pools less than a turn apart are at different places of the ring.
LEMMA PlacesApart ==
  ASSUME NEW i \in Int, NEW j \in Int, i # j, i - j < RootSize, j - i < RootSize
  PROVE  i % RootSize # j % RootSize
<1>1. CASE i < j
  <2>1. j - i \in 1..RootSize - 1
    BY <1>1, Sizes
  <2>2. QED
    BY <2>1, ModApart, Sizes
<1>2. CASE j < i
  <2>1. i - j \in 1..RootSize - 1
    BY <1>2, Sizes
  <2>2. QED
    BY <2>1, ModApart, Sizes
<1>3. QED
  BY <1>1, <1>2

\* Every number has its place.
LEMMA PlaceTyped ==
  ASSUME NEW i \in Int
  PROVE  /\ i % RootSize \in Pools
         /\ (i % RootSize) % RootSize = i % RootSize
         /\ ((i % RootSize) + 1) % RootSize = (i + 1) % RootSize
         /\ (i + RootSize) % RootSize = i % RootSize
<1>1. i % RootSize \in 0..RootSize - 1
  BY DivMod, Sizes
<1>2. (i % RootSize) % RootSize = i % RootSize
  BY <1>1, ModSmall, Sizes
<1>3. ((i % RootSize) + 1) % RootSize = (i + 1) % RootSize
  BY ModNext, Sizes
<1>4. (i + RootSize) % RootSize = i % RootSize
  <2> DEFINE k == 1
  <2>1. k \in Int /\ i + RootSize = i + RootSize * k
    BY Sizes
  <2> HIDE DEF k
  <2>2. QED
    BY <2>1, ModShift, Sizes
<1>5. QED
  BY <1>1, <1>2, <1>3, <1>4, Sizes DEF Pools

-----------------------------------------------------------------------------
(***************************************************************************)
(* The bookkeeping: pools of the right kind are where the two threads look *)
(* for them.                                                               *)
(***************************************************************************)

One(b) == IF b THEN 1 ELSE 0

\* Pools that push has filled, and records in the one after them.
Passed == pushed \div PoolSize
Filled == pushed % PoolSize

\* The pools are pools.
RootTyped ==
  /\ root \in [Pools -> [kind : {"mem", "file"}, count : 0..PoolSize,
                         data : [Slots -> 0..MaxPush]]]
  /\ pushed \in 0..MaxPush

\* The three indices of the ring.
Indices(saved) ==
  /\ saved \in 0..Passed /\ Passed <= saved + MemPools
  /\ pool2Swap = saved % RootSize
  /\ pool2Swap2 = (saved + MemPools) % RootSize
  /\ currentPool = Passed % RootSize

\* A credit is a memory pool that is neither full nor current.
Credits(saved) ==
  /\ credits \in Nat
  /\ credits = MemPools - 1 - (Passed - saved) + One(producer = "acquire")
               - One(job = "release")
  /\ producer \in {"idle", "acquire", "resume", "wake", "count"}
  /\ producer = "acquire" => Filled = 0
  /\ producer # "idle" => pushed > 0

\* A raised activate flag, and a swap under way, has a full pool of its own: the
\* thread lowers the flag before it saves a pool, and is resumed once per pool.
Jobs(saved) ==
  /\ job \in {"stop", "wake", "evict", "notify", "copy", "exchange", "release"}
  /\ job # "stop" => at = "step"
  /\ at = "step" /\ job = "stop" => activateFlag
  /\ activateFlag \in BOOLEAN
  /\ One(activateFlag = TRUE) + One(job \notin {"stop", "release"})
       + One(producer \in {"acquire", "resume"}) <= Passed - saved

\* The memory pools are those from the next one to be saved on; the current one is
\* partly filled and the ones behind it are empty.
Kinds(saved) ==
  \A i \in saved..saved + RootSize - 1 :
    LET pool == root[i % RootSize]
    IN  /\ pool.kind = IF i < saved + MemPools THEN "mem" ELSE "file"
        /\ i = Passed /\ i < saved + MemPools => pool.count = Filled
        /\ Passed < i /\ i < saved + MemPools => pool.count = 0

Book(saved) ==
  RootTyped /\ Indices(saved) /\ Credits(saved) /\ Jobs(saved) /\ Kinds(saved)

\* The records that were pushed fill Passed pools and a part of the next one.
LEMMA PassedTyped ==
  ASSUME pushed \in Nat
  PROVE  /\ Passed \in 0..pushed /\ Filled \in 0..PoolSize - 1
         /\ pushed = PoolSize * Passed + Filled
<1> DEFINE p == Passed
<1>1. p \in Int /\ Filled \in 0..PoolSize - 1 /\ pushed = PoolSize * p + Filled
  BY DivMod, Sizes DEF Passed, Filled
<1> HIDE DEF p
<1>2. ASSUME p < 0 PROVE FALSE
  <2>1. PoolSize * p + PoolSize <= PoolSize * 0
    BY <1>1, <1>2, MulMono, Sizes
  <2>2. QED
    BY <1>1, <2>1, Sizes
<1>3. p <= PoolSize * p
  BY <1>1, <1>2, Sizes
<1>4. QED
  BY <1>1, <1>2, <1>3, Sizes DEF p

\* One more record fills the current pool or does not.
LEMMA PassedNext ==
  ASSUME pushed \in Nat, pushed' = pushed + 1
  PROVE  /\ Filled + 1 = PoolSize => Passed' = Passed + 1 /\ Filled' = 0
         /\ Filled + 1 # PoolSize => Passed' = Passed /\ Filled' = Filled + 1
<1>1. Passed' = (pushed + 1) \div PoolSize /\ Filled' = (pushed + 1) % PoolSize
  BY DEF Passed, Filled
<1>2. pushed \in Int
  OBVIOUS
<1>3. /\ Filled + 1 = PoolSize =>
           (pushed + 1) % PoolSize = 0 /\ (pushed + 1) \div PoolSize = Passed + 1
      /\ Filled + 1 # PoolSize =>
           (pushed + 1) % PoolSize = Filled + 1 /\ (pushed + 1) \div PoolSize = Passed
  BY <1>2, ModNext, Sizes DEF Passed, Filled
<1>4. QED
  BY <1>1, <1>3

\* The producer has a memory pool with room before it pushes.
LEMMA PushFindsRoom ==
  ASSUME MemPools < RootSize, NEW saved \in Nat, Book(saved), producer = "idle"
  PROVE  /\ Passed < saved + MemPools
         /\ root[currentPool].kind = "mem" /\ root[currentPool].count = Filled
<1>1. Passed \in Nat /\ Filled \in 0..PoolSize - 1
  BY PassedTyped DEF Book, RootTyped
<1>2. Passed < saved + MemPools
  BY <1>1, Sizes DEF Book, Credits, Indices, One
<1>3. Passed \in saved..saved + RootSize - 1
  BY <1>1, <1>2, Sizes DEF Book, Indices
<1>4. QED
  BY <1>2, <1>3 DEF Book, Kinds, Indices

\* What push does to the pools.
LEMMA PushStores ==
  ASSUME MemPools < RootSize, NEW saved \in Nat, Book(saved), Push
  PROVE  /\ currentPool \in Pools /\ Filled \in Slots
         /\ root'[currentPool] = [kind  |-> "mem", count |-> Filled + 1,
              data |-> [root[currentPool].data EXCEPT ![Filled] = pushed + 1]]
         /\ \A p \in Pools : p # currentPool => root'[p] = root[p]
         /\ RootTyped'
<1>1. producer = "idle" /\ pushed < MaxPush /\ pushed' = pushed + 1
  BY DEF Push
<1>2. currentPool \in Pools /\ Filled \in Slots /\ Filled \in 0..PoolSize - 1
  BY PassedTyped, PlaceTyped DEF Book, RootTyped, Indices, Slots
<1>3. root[currentPool].count = Filled /\ root[currentPool].kind = "mem"
  BY <1>1, PushFindsRoom
<1>4. root' = [root EXCEPT ![currentPool].data[Filled] = pushed + 1,
                           ![currentPool].count = Filled + 1]
  BY <1>3 DEF Push
<1>5. root \in [Pools -> [kind : {"mem", "file"}, count : 0..PoolSize,
                          data : [Slots -> 0..MaxPush]]]
      /\ pushed \in 0..MaxPush
  BY DEF Book, RootTyped
<1>6. root'[currentPool] = [kind  |-> "mem", count |-> Filled + 1,
              data |-> [root[currentPool].data EXCEPT ![Filled] = pushed + 1]]
  BY <1>2, <1>3, <1>4, <1>5
<1>7. \A p \in Pools : p # currentPool => root'[p] = root[p]
  BY <1>2, <1>4, <1>5
<1>8. Filled + 1 \in 0..PoolSize /\ pushed + 1 \in 0..MaxPush
  BY <1>1, <1>2, <1>5, Sizes, RingPoolAssumption
<1>9. RootTyped'
  BY <1>1, <1>2, <1>4, <1>5, <1>8 DEF RootTyped
<1>10. QED
  BY <1>2, <1>6, <1>7, <1>9

\* What a swap does to the pools: the one that was saved is a file pool now, the
\* other one an empty memory pool.
LEMMA SwapExchanges ==
  ASSUME MemPools < RootSize, NEW saved \in Nat, Book(saved), Exchange
  PROVE  /\ Passed > saved
         /\ pool2Swap \in Pools /\ pool2Swap2 \in Pools /\ pool2Swap # pool2Swap2
         /\ root[pool2Swap].kind = "mem" /\ root[pool2Swap2].kind = "file"
         /\ root'[pool2Swap] = root[pool2Swap2]
         /\ root'[pool2Swap2] = [root[pool2Swap] EXCEPT !.count = 0]
         /\ \A p \in Pools : p \notin {pool2Swap, pool2Swap2} => root'[p] = root[p]
         /\ RootTyped'
<1>1. Passed \in Nat /\ saved + MemPools \in Nat
  BY PassedTyped, Sizes DEF Book, RootTyped
<1>2. Passed > saved
  BY <1>1 DEF Book, Jobs, Exchange, One
<1>3. saved \in saved..saved + RootSize - 1 /\ saved + MemPools \in saved..saved + RootSize - 1
  BY Sizes
<1>4. pool2Swap \in Pools /\ pool2Swap2 \in Pools /\ pool2Swap # pool2Swap2
  <2> DEFINE next == saved + MemPools
  <2>1. /\ next \in Int /\ saved \in Int /\ saved # next
        /\ saved - next < RootSize /\ next - saved < RootSize
    BY Sizes
  <2>2. pool2Swap = saved % RootSize /\ pool2Swap2 = next % RootSize
    BY DEF Book, Indices
  <2> HIDE DEF next
  <2>3. QED
    BY <2>1, <2>2, PlaceTyped, PlacesApart
<1>5. root[pool2Swap].kind = "mem" /\ root[pool2Swap2].kind = "file"
  BY <1>3, Sizes DEF Book, Indices, Kinds
<1>6. root' = [root EXCEPT ![pool2Swap] = root[pool2Swap2],
                           ![pool2Swap2] = [root[pool2Swap] EXCEPT !.count = 0]]
  BY DEF Exchange
<1>7. root \in [Pools -> [kind : {"mem", "file"}, count : 0..PoolSize,
                          data : [Slots -> 0..MaxPush]]]
  BY DEF Book, RootTyped
<1>8. root'[pool2Swap] = root[pool2Swap2]
  BY <1>4, <1>6, <1>7
<1>9. root'[pool2Swap2] = [root[pool2Swap] EXCEPT !.count = 0]
  BY <1>4, <1>6, <1>7
<1>10. \A p \in Pools : p \notin {pool2Swap, pool2Swap2} => root'[p] = root[p]
  BY <1>4, <1>6, <1>7
<1>11. RootTyped'
  <2>1. [root[pool2Swap] EXCEPT !.count = 0]
          \in [kind : {"mem", "file"}, count : 0..PoolSize, data : [Slots -> 0..MaxPush]]
    <3> DEFINE pool == root[pool2Swap]
    <3>1. pool \in [kind : {"mem", "file"}, count : 0..PoolSize, data : [Slots -> 0..MaxPush]]
          /\ 0 \in 0..PoolSize
      BY <1>4, <1>7, Sizes
    <3> HIDE DEF pool
    <3>2. [pool EXCEPT !.count = 0]
            \in [kind : {"mem", "file"}, count : 0..PoolSize, data : [Slots -> 0..MaxPush]]
      BY <3>1
    <3>3. QED
      BY <3>2 DEF pool
  <2>2. QED
    BY <1>4, <1>6, <1>7, <2>1 DEF RootTyped, Exchange, Book
<1>12. QED
  BY <1>2, <1>4, <1>5, <1>8, <1>9, <1>10, <1>11

\* A swap moves the bookkeeping on by one pool.
LEMMA SwapKeepsBook ==
  ASSUME MemPools < RootSize, NEW saved \in Nat, Book(saved), Exchange
  PROVE  Book(saved + 1)'
<1>1. Passed' = Passed /\ Filled' = Filled /\ Passed \in Nat /\ Filled \in 0..PoolSize - 1
  BY PassedTyped DEF Exchange, Passed, Filled, Book, RootTyped
<1>2. Passed > saved
  BY SwapExchanges
<1>3. Indices(saved + 1)'
  <2>1. pool2Swap' = (saved + 1) % RootSize
    BY PlaceTyped DEF Exchange, Book, Indices
  <2>2. pool2Swap2' = (saved + MemPools + 1) % RootSize
    BY PlaceTyped, Sizes DEF Exchange, Book, Indices
  <2>3. saved + MemPools + 1 = saved + 1 + MemPools
    BY Sizes
  <2>4. currentPool' = Passed % RootSize
    BY DEF Exchange, Book, Indices
  <2>5. QED
    BY <1>1, <1>2, <2>1, <2>2, <2>3, <2>4, Sizes DEF Book, Indices
<1>4. Credits(saved + 1)'
  BY <1>1, <1>2, Sizes DEF Exchange, Book, Credits, One
<1>5. Jobs(saved + 1)'
  BY <1>1, <1>2, Sizes DEF Exchange, Book, Jobs, One, threadVars
<1>6. Kinds(saved + 1)'
  <2> SUFFICES ASSUME NEW i \in saved + 1..saved + 1 + RootSize - 1
               PROVE  LET pool == root'[i % RootSize]
                      IN  /\ pool.kind = IF i < saved + 1 + MemPools THEN "mem" ELSE "file"
                          /\ i = Passed /\ i < saved + 1 + MemPools => pool.count = Filled
                          /\ Passed < i /\ i < saved + 1 + MemPools => pool.count = 0
    BY <1>1 DEF Kinds
  <2>1. i \in Int
    OBVIOUS
  <2>2. CASE i = saved + RootSize
    <3>1. i % RootSize = pool2Swap
      BY <2>2, PlaceTyped DEF Book, Indices
    <3>2. root'[i % RootSize].kind = "file"
      BY <3>1, SwapExchanges
    <3>3. QED
      BY <2>2, <3>2, Sizes
  <2>3. CASE i = saved + MemPools
    <3>1. i % RootSize = pool2Swap2
      BY <2>3 DEF Book, Indices
    <3>2. root'[i % RootSize] = [root[pool2Swap] EXCEPT !.count = 0]
          /\ root[pool2Swap].kind = "mem"
          /\ root[pool2Swap] \in [kind : {"mem", "file"}, count : 0..PoolSize,
                                  data : [Slots -> 0..MaxPush]]
      BY <3>1, SwapExchanges DEF Book, RootTyped
    <3>3. root'[i % RootSize].kind = "mem" /\ root'[i % RootSize].count = 0
      BY <3>2
    <3>4. i = Passed => Filled = 0
      BY <1>1, <2>3, Sizes DEF Book, Credits, One
    <3>5. QED
      BY <2>3, <3>3, <3>4, Sizes
  <2>4. CASE i \in saved + 1..saved + RootSize - 1 /\ i # saved + MemPools
    <3>1. i % RootSize # pool2Swap
      <4>1. /\ saved \in Int /\ i # saved
            /\ i - saved < RootSize /\ saved - i < RootSize
        BY <2>4, Sizes
      <4>2. QED
        BY <2>1, <4>1, PlacesApart DEF Book, Indices
    <3>2. i % RootSize # pool2Swap2
      <4> DEFINE next == saved + MemPools
      <4>1. /\ next \in Int /\ i # next
            /\ i - next < RootSize /\ next - i < RootSize
        BY <2>4, Sizes
      <4>2. pool2Swap2 = next % RootSize
        BY DEF Book, Indices
      <4> HIDE DEF next
      <4>3. QED
        BY <2>1, <4>1, <4>2, PlacesApart
    <3>3. root'[i % RootSize] = root[i % RootSize]
      BY <2>1, <3>1, <3>2, PlaceTyped, SwapExchanges
    <3>4. i \in saved..saved + RootSize - 1
      BY <2>4
    <3>5. QED
      BY <2>4, <3>3, <3>4, Sizes DEF Book, Kinds
  <2>5. QED
    BY <2>2, <2>3, <2>4, Sizes
<1>7. QED
  BY <1>3, <1>4, <1>5, <1>6, SwapExchanges DEF Book

\* push keeps it: the memory pool after a full one is empty.
LEMMA PushKeepsBook ==
  ASSUME MemPools < RootSize, NEW saved \in Nat, Book(saved), Push
  PROVE  Book(saved)'
<1>1. /\ Passed \in Nat /\ Filled \in 0..PoolSize - 1
      /\ Filled + 1 = PoolSize => Passed' = Passed + 1 /\ Filled' = 0
      /\ Filled + 1 # PoolSize => Passed' = Passed /\ Filled' = Filled + 1
  BY PassedTyped, PassedNext DEF Push, Book, RootTyped
<1>2. producer = "idle" /\ Passed < saved + MemPools /\ root[currentPool].count = Filled
  BY PushFindsRoom DEF Push
<1>3. IF Filled + 1 = PoolSize
      THEN currentPool' = (currentPool + 1) % RootSize /\ producer' = "acquire"
      ELSE producer' = "count" /\ UNCHANGED currentPool
  BY <1>2 DEF Push
<1>4. Indices(saved)'
  <2>1. currentPool' = Passed' % RootSize
    BY <1>1, <1>3, PlaceTyped DEF Book, Indices
  <2>2. QED
    BY <1>1, <1>2, <2>1, Sizes DEF Book, Indices, Push
<1>5. Credits(saved)'
  <2>1. pushed' > 0
    BY DEF Push, Book, RootTyped
  <2>2. QED
    BY <1>1, <1>2, <1>3, <2>1, Sizes DEF Push, Book, Credits, One
<1>6. Jobs(saved)'
  BY <1>1, <1>2, <1>3, Sizes DEF Push, Book, Jobs, Indices, One, threadVars
<1>7. Kinds(saved)'
  <2> SUFFICES ASSUME NEW i \in saved..saved + RootSize - 1
               PROVE  LET pool == root'[i % RootSize]
                      IN  /\ pool.kind = IF i < saved + MemPools THEN "mem" ELSE "file"
                          /\ i = Passed' /\ i < saved + MemPools => pool.count = Filled'
                          /\ Passed' < i /\ i < saved + MemPools => pool.count = 0
    BY DEF Kinds
  <2>1. i \in Int /\ i % RootSize \in Pools
    BY PlaceTyped
  <2>2. CASE i = Passed
    <3>1. root'[i % RootSize].kind = "mem" /\ root'[i % RootSize].count = Filled + 1
      BY <2>2, PushStores DEF Book, Indices
    <3>2. QED
      BY <1>1, <1>2, <2>2, <3>1
  <2>3. CASE i # Passed
    <3>1. i % RootSize # currentPool
      <4>1. Passed \in Int /\ i - Passed < RootSize /\ Passed - i < RootSize
        BY <1>1, <1>2, Sizes DEF Book, Indices
      <4>2. QED
        BY <2>1, <2>3, <4>1, PlacesApart DEF Book, Indices
    <3>2. root'[i % RootSize] = root[i % RootSize]
      BY <2>1, <3>1, PushStores
    <3> DEFINE pool == root[i % RootSize]
    <3>3. /\ pool.kind = IF i < saved + MemPools THEN "mem" ELSE "file"
          /\ Passed < i /\ i < saved + MemPools => pool.count = 0
      BY DEF Book, Kinds
    <3> HIDE DEF pool
    <3>4. /\ i = Passed' => pool.count = 0 \/ ~(i < saved + MemPools)
          /\ i = Passed' => Filled' = 0
          /\ Passed' < i => Passed < i
      BY <1>1, <2>1, <2>3, <3>3
    <3>5. QED
      BY <3>2, <3>3, <3>4 DEF pool
  <2>4. QED
    BY <2>2, <2>3
<1>8. QED
  BY <1>4, <1>5, <1>6, <1>7, PushStores DEF Book

\* The copy changes the file pool only, and finds both pools of their kinds.
LEMMA CopyCopies ==
  ASSUME MemPools < RootSize, NEW saved \in Nat, Book(saved), Copy
  PROVE  /\ job' = "exchange"
         /\ pool2Swap \in Pools /\ pool2Swap2 \in Pools /\ pool2Swap # pool2Swap2
         /\ root'[pool2Swap2] = [kind  |-> "file", count |-> root[pool2Swap].count,
                                 data  |-> root[pool2Swap].data]
         /\ \A p \in Pools : p # pool2Swap2 => root'[p] = root[p]
         /\ RootTyped'
<1>1. saved \in saved..saved + RootSize - 1 /\ saved + MemPools \in saved..saved + RootSize - 1
  BY Sizes
<1>2. pool2Swap \in Pools /\ pool2Swap2 \in Pools /\ pool2Swap # pool2Swap2
  <2> DEFINE next == saved + MemPools
  <2>1. /\ next \in Int /\ saved \in Int /\ saved # next
        /\ saved - next < RootSize /\ next - saved < RootSize
    BY Sizes
  <2>2. pool2Swap = saved % RootSize /\ pool2Swap2 = next % RootSize
    BY DEF Book, Indices
  <2> HIDE DEF next
  <2>3. QED
    BY <2>1, <2>2, PlaceTyped, PlacesApart
<1>3. root[pool2Swap].kind = "mem" /\ root[pool2Swap2].kind = "file"
  BY <1>1, Sizes DEF Book, Indices, Kinds
<1>4. pool2Swap % RootSize = pool2Swap /\ pool2Swap2 % RootSize = pool2Swap2
  BY <1>2, ModSmall, Sizes DEF Pools
<1>5. job' = "exchange"
      /\ root' = [root EXCEPT ![pool2Swap2].data = root[pool2Swap].data,
                              ![pool2Swap2].count = root[pool2Swap].count]
  BY <1>3, <1>4 DEF Copy
<1>6. root \in [Pools -> [kind : {"mem", "file"}, count : 0..PoolSize,
                          data : [Slots -> 0..MaxPush]]]
  BY DEF Book, RootTyped
<1>7. root'[pool2Swap2] = [kind  |-> "file", count |-> root[pool2Swap].count,
                           data  |-> root[pool2Swap].data]
  BY <1>2, <1>3, <1>5, <1>6
<1>8. \A p \in Pools : p # pool2Swap2 => root'[p] = root[p]
  BY <1>2, <1>5, <1>6
<1>9. RootTyped'
  <2>1. root'[pool2Swap2] \in [kind : {"mem", "file"}, count : 0..PoolSize,
                               data : [Slots -> 0..MaxPush]]
    BY <1>2, <1>6, <1>7
  <2>2. root' = [root EXCEPT ![pool2Swap2] = root'[pool2Swap2]]
    BY <1>2, <1>5, <1>6
  <2>3. QED
    BY <1>6, <2>1, <2>2 DEF RootTyped, Copy, Book
<1>10. QED
  BY <1>2, <1>5, <1>7, <1>8, <1>9

LEMMA CopyKeepsBook ==
  ASSUME MemPools < RootSize, NEW saved \in Nat, Book(saved), Copy
  PROVE  Book(saved)'
<1>1. Passed' = Passed /\ Filled' = Filled /\ Passed \in Nat
  BY PassedTyped DEF Copy, Passed, Filled, Book, RootTyped
<1>2. Indices(saved)' /\ Credits(saved)' /\ Jobs(saved)'
  BY <1>1, CopyCopies, Sizes DEF Copy, Book, Indices, Credits, Jobs, One, threadVars
<1>3. Kinds(saved)'
  <2> SUFFICES ASSUME NEW i \in saved..saved + RootSize - 1
               PROVE  LET pool == root'[i % RootSize]
                      IN  /\ pool.kind = IF i < saved + MemPools THEN "mem" ELSE "file"
                          /\ i = Passed /\ i < saved + MemPools => pool.count = Filled
                          /\ Passed < i /\ i < saved + MemPools => pool.count = 0
    BY <1>1 DEF Kinds
  <2>1. i \in Int /\ i % RootSize \in Pools
    BY PlaceTyped
  <2>2. CASE i = saved + MemPools
    <3>1. root'[i % RootSize].kind = "file"
      BY <2>2, CopyCopies DEF Book, Indices
    <3>2. QED
      BY <2>2, <3>1, Sizes
  <2>3. CASE i # saved + MemPools
    <3>1. i % RootSize # pool2Swap2
      <4> DEFINE next == saved + MemPools
      <4>1. next \in Int /\ i # next /\ i - next < RootSize /\ next - i < RootSize
        BY <2>3, Sizes
      <4>2. pool2Swap2 = next % RootSize
        BY DEF Book, Indices
      <4> HIDE DEF next
      <4>3. QED
        BY <2>1, <4>1, <4>2, PlacesApart
    <3>2. root'[i % RootSize] = root[i % RootSize]
      BY <2>1, <3>1, CopyCopies
    <3>3. QED
      BY <3>2 DEF Book, Kinds
  <2>4. QED
    BY <2>2, <2>3
<1>4. QED
  BY <1>2, <1>3, CopyCopies DEF Book

\* So does every step that does not touch the pools.
LEMMA OtherStepsKeepBook ==
  ASSUME NEW saved \in Nat, Book(saved), [Next]_vars,
         UNCHANGED <<root, currentPool, pool2Swap, pool2Swap2, pushed>>
  PROVE  Book(saved)' \/ Exchange \/ Copy
<1>1. Passed' = Passed /\ Filled' = Filled /\ Passed \in Nat
  BY PassedTyped DEF Passed, Filled, Book, RootTyped
<1>2. RootTyped' /\ Indices(saved)' /\ Kinds(saved)'
  BY <1>1 DEF Book, RootTyped, Indices, Kinds
<1> SUFFICES ASSUME ~Exchange, ~Copy PROVE Credits(saved)' /\ Jobs(saved)'
  BY <1>2 DEF Book
<1> USE <1>1, Sizes DEF Book, Credits, Jobs, One
<1>3. ASSUME UNCHANGED <<credits, producer, job, at, activateFlag>>
      PROVE  Credits(saved)' /\ Jobs(saved)'
  BY <1>3
<1>4. CASE Push
  BY <1>4, RingPoolAssumption DEF Push, RootTyped
<1>5. CASE Acquire
  BY <1>5 DEF Acquire, threadVars
<1>6. CASE ResumeSwapper
  BY <1>6 DEF ResumeSwapper, Thread!Resume, Thread!threadVars, ringVars
<1>7. CASE WakeSwapper
  BY <1>7 DEF WakeSwapper, Thread!UserWakes, Thread!WakeUp, ringVars
<1>8. CASE CountRecord
  BY <1>8 DEF CountRecord, threadVars
<1>9. CASE StopItself
  <2>1. /\ activateFlag = TRUE /\ activateFlag' = FALSE /\ job = "stop" /\ job' = "wake"
        /\ at' = at /\ at = "step" /\ UNCHANGED <<producer, credits>>
    BY <1>9 DEF StopItself, Thread!Stop, Thread!threadVars, ringVars
  <2>2. Credits(saved)'
    BY <2>1
  <2>3. activateFlag' \in BOOLEAN
    BY <2>1
  <2>4. (One(activateFlag = TRUE) + One(job \notin {"stop", "release"})
           + One(producer \in {"acquire", "resume"}) <= Passed - saved)'
    BY <2>1
  <2>5. QED
    BY <2>1, <2>2, <2>3, <2>4
<1>10. CASE WakeItself
  BY <1>10 DEF WakeItself, Thread!UserWakes, Thread!WakeUp, ringVars
<1>11. CASE Evict
  BY <1>11 DEF Evict, threadVars
<1>12. CASE Notify
  BY <1>12 DEF Notify, threadVars, ringVars
<1>13. CASE Release
  BY <1>13 DEF Release, Thread!StepReturns, Thread!Go, Thread!flagVars
<1>14. CASE TakeIterator \/ AdvanceIterator \/ UNCHANGED vars
  BY <1>3, <1>14 DEF TakeIterator, AdvanceIterator, vars, ringVars, threadVars
<1>15. ASSUME Thread!Start \/ Thread!TestTerminate \/ Thread!TestActive \/ Thread!Wait
                \/ Thread!SpuriousWakeup,
              UNCHANGED <<ringVars, producer, job, readerVars>>
       PROVE  Credits(saved)' /\ Jobs(saved)'
  BY <1>15 DEF Thread!Start, Thread!TestTerminate, Thread!TestActive, Thread!Wait,
               Thread!SpuriousWakeup, Thread!Go, Thread!flagVars, ringVars
<1>16. QED
  BY <1>4, <1>5, <1>6, <1>7, <1>8, <1>9, <1>10, <1>11, <1>12, <1>13, <1>14, <1>15
     DEF Next, PushStep, SwapperStep, Spurious

\* At the start the first pool is current and the first MemPools are in memory.
LEMMA BookStarts ==
  ASSUME Init, MemPools < RootSize
  PROVE  Book(0) /\ Passed = 0 /\ Filled = 0
<1>1. Passed = 0 /\ Filled = 0
  <2>1. 0 = PoolSize * 0 + 0 /\ 0 \in 0..PoolSize - 1
    BY Sizes
  <2>2. 0 \div PoolSize = 0 /\ 0 % PoolSize = 0
    BY <2>1, DivUnique, Sizes
  <2>3. QED
    BY <2>2 DEF Passed, Filled, Init
<1>2. RootTyped
  BY RingPoolAssumption, Sizes DEF Init, RootTyped
<1>3. \A i \in 0..RootSize - 1 : i % RootSize = i
  BY ModSmall, Sizes
<1>4. Indices(0)
  BY <1>1, <1>3, Sizes DEF Init, Indices
<1>5. Credits(0) /\ Jobs(0)
  <2>1. /\ credits = MemPools - 1 /\ producer = "idle" /\ job = "stop"
        /\ at = "created" /\ activateFlag = FALSE
    BY DEF Init, Thread!Init
  <2>2. Credits(0)
    BY <1>1, <2>1, Sizes DEF Credits, One
  <2>3. One(activateFlag = TRUE) + One(job \notin {"stop", "release"})
          + One(producer \in {"acquire", "resume"}) <= Passed - 0
    BY <1>1, <2>1 DEF One
  <2>4. activateFlag \in BOOLEAN
    BY <2>1
  <2>5. QED
    BY <2>1, <2>2, <2>3, <2>4 DEF Jobs
<1>6. Kinds(0)
  <2> SUFFICES ASSUME NEW i \in 0..0 + RootSize - 1
               PROVE  /\ root[i].kind = IF i < 0 + MemPools THEN "mem" ELSE "file"
                      /\ root[i].count = 0
    BY <1>1, <1>3, Sizes DEF Kinds
  <2>1. i \in Pools
    BY Sizes DEF Pools
  <2>2. root[i] = [kind  |-> IF i < MemPools THEN "mem" ELSE "file", count |-> 0,
                   data  |-> [s \in Slots |-> 0]]
    BY <2>1 DEF Init
  <2>3. QED
    BY <2>2, Sizes
<1>7. QED
  BY <1>1, <1>2, <1>4, <1>5, <1>6 DEF Book

\* Every step keeps the bookkeeping, and a swap moves it on.
LEMMA BookStep ==
  ASSUME MemPools < RootSize, NEW saved \in Nat, Book(saved), [Next]_vars
  PROVE  IF Exchange THEN Book(saved + 1)' ELSE Book(saved)'
<1>1. Push \/ Copy \/ Exchange \/ UNCHANGED <<root, currentPool, pool2Swap, pool2Swap2, pushed>>
  BY DEF Next, PushStep, SwapperStep, Spurious, vars, ringVars, Acquire, ResumeSwapper,
         WakeSwapper, CountRecord, StopItself, WakeItself, Evict, Notify, Release,
         TakeIterator, AdvanceIterator
<1>2. QED
  BY <1>1, PushKeepsBook, CopyKeepsBook, SwapKeepsBook, OtherStepsKeepBook

\* push never writes past the end of a pool nor outside memory, and _swap finds the
\* pools it casts: for every number and size of pools, if one of them is a file pool.
THEOREM PushHasRoomAlways ==
  ASSUME MemPools < RootSize
  PROVE  Spec => [](PushHasRoom /\ SwapFindsPools)
<1> DEFINE Inv == \E saved \in Nat : Book(saved)
<1>1. Init => Inv
  BY BookStarts
<1>2. Inv /\ [Next]_vars => Inv'
  <2> SUFFICES ASSUME NEW saved \in Nat, Book(saved), [Next]_vars PROVE Inv'
    OBVIOUS
  <2>1. saved + 1 \in Nat
    OBVIOUS
  <2>2. QED
    BY <2>1, BookStep
<1>3. Inv => PushHasRoom /\ SwapFindsPools
  <2> SUFFICES ASSUME NEW saved \in Nat, Book(saved) PROVE PushHasRoom /\ SwapFindsPools
    OBVIOUS
  <2>1. Filled < PoolSize
    BY PassedTyped, Sizes DEF Book, RootTyped
  <2>2. PushHasRoom
    BY <2>1, PushFindsRoom DEF PushHasRoom
  <2>3. SwapFindsPools
    BY DEF Book, Jobs, SwapFindsPools
  <2>4. QED
    BY <2>2, <2>3
<1>4. QED
  BY <1>1, <1>2, <1>3, PTL DEF Spec

-----------------------------------------------------------------------------
(***************************************************************************)
(* The records in the pools.                                               *)
(***************************************************************************)

\* Every pool that was filled, until it is overwritten, holds its records, and so
\* does the part of the current one that is filled.
Contents(saved) ==
  /\ \A i \in 0..Passed - 1 :
       saved + MemPools + One(job = "exchange") <= i + RootSize =>
         \A s \in Slots : root[i % RootSize].data[s] = PoolSize * i + s + 1
  /\ \A s \in 0..Filled - 1 : root[currentPool].data[s] = PoolSize * Passed + s + 1
  /\ job = "exchange" => root[pool2Swap2].data = root[pool2Swap].data

\* The current pool is the one to be overwritten only while the producer waits for
\* a credit, and then nothing is in it yet.
LEMMA CurrentInMemory ==
  ASSUME NEW saved \in Nat, Book(saved)
  PROVE  Passed < saved + MemPools \/ (Passed = saved + MemPools /\ Filled = 0)
<1>1. Passed \in Nat
  BY PassedTyped DEF Book, RootTyped
<1>2. QED
  BY <1>1, Sizes DEF Book, Indices, Credits, One

\* push puts its record behind the others.
LEMMA PushKeepsContents ==
  ASSUME MemPools < RootSize, NEW saved \in Nat, Book(saved), Contents(saved), Push
  PROVE  Contents(saved)'
<1>1. /\ Passed \in Nat /\ Filled \in 0..PoolSize - 1
      /\ pushed = PoolSize * Passed + Filled
      /\ Filled + 1 = PoolSize => Passed' = Passed + 1 /\ Filled' = 0
      /\ Filled + 1 # PoolSize => Passed' = Passed /\ Filled' = Filled + 1
  BY PassedTyped, PassedNext DEF Push, Book, RootTyped
<1>2. producer = "idle" /\ Passed < saved + MemPools /\ saved <= Passed
      /\ currentPool = Passed % RootSize /\ job' = job
  BY PushFindsRoom DEF Push, Book, Indices
<1>3. \A s \in 0..Filled : root'[currentPool].data[s] = PoolSize * Passed + s + 1
  <2>1. root[currentPool].data \in [Slots -> 0..MaxPush] /\ currentPool \in Pools
    BY PushStores DEF Book, RootTyped
  <2>2. root'[currentPool].data = [root[currentPool].data EXCEPT ![Filled] = pushed + 1]
    BY PushStores
  <2>3. 0..Filled \subseteq Slots
    BY <1>1, Sizes DEF Slots
  <2>4. QED
    BY <1>1, <2>1, <2>2, <2>3 DEF Contents
<1>4. ASSUME NEW i \in 0..Passed' - 1, NEW s \in Slots,
             saved + MemPools + One(job = "exchange") <= i + RootSize
      PROVE  root'[i % RootSize].data[s] = PoolSize * i + s + 1
  <2>1. CASE i = Passed
    <3>1. s \in 0..Filled
      BY <1>1, <2>1 DEF Slots
    <3>2. QED
      BY <1>2, <1>3, <2>1, <3>1
  <2>2. CASE i # Passed
    <3>1. i \in 0..Passed - 1 /\ i \in Int /\ i % RootSize \in Pools
      BY <1>1, <2>2, PlaceTyped
    <3>2. i - Passed < RootSize /\ Passed - i < RootSize /\ Passed \in Int
      BY <1>1, <1>2, <1>4, <2>2, <3>1, Sizes DEF One
    <3>3. i % RootSize # currentPool
      BY <1>2, <2>2, <3>1, <3>2, PlacesApart
    <3>4. root'[i % RootSize] = root[i % RootSize]
      BY <3>1, <3>3, PushStores
    <3>5. QED
      BY <1>4, <3>1, <3>4 DEF Contents
  <2>3. QED
    BY <2>1, <2>2
<1>5. \A s \in 0..Filled' - 1 : root'[currentPool'].data[s] = PoolSize * Passed' + s + 1
  <2>1. CASE Filled + 1 = PoolSize
    BY <1>1, <2>1
  <2>2. CASE Filled + 1 # PoolSize
    <3>1. currentPool' = currentPool /\ Filled' - 1 = Filled /\ Passed' = Passed
      BY <1>1, <1>2, <2>2, PushFindsRoom DEF Push
    <3>2. QED
      BY <1>3, <3>1
  <2>3. QED
    BY <2>1, <2>2
<1>6. job = "exchange" => root'[pool2Swap2].data = root'[pool2Swap].data
  <2> SUFFICES ASSUME job = "exchange"
               PROVE  root'[pool2Swap2].data = root'[pool2Swap].data
    OBVIOUS
  <2> DEFINE next == saved + MemPools
  <2>1. saved < Passed
    BY <1>1 DEF Book, Jobs, One
  <2>2. /\ saved \in Int /\ next \in Int /\ Passed \in Int
        /\ saved # Passed /\ next # Passed
        /\ saved - Passed < RootSize /\ Passed - saved < RootSize
        /\ next - Passed < RootSize /\ Passed - next < RootSize
    BY <1>1, <1>2, <2>1, Sizes
  <2>3. pool2Swap = saved % RootSize /\ pool2Swap2 = next % RootSize
    BY DEF Book, Indices
  <2> HIDE DEF next
  <2>4. pool2Swap # currentPool /\ pool2Swap2 # currentPool
        /\ pool2Swap \in Pools /\ pool2Swap2 \in Pools
    BY <1>2, <2>2, <2>3, PlacesApart, PlaceTyped
  <2>5. root'[pool2Swap] = root[pool2Swap] /\ root'[pool2Swap2] = root[pool2Swap2]
    BY <2>4, PushStores
  <2>6. QED
    BY <2>5 DEF Contents
<1>7. pool2Swap' = pool2Swap /\ pool2Swap2' = pool2Swap2
  BY DEF Push
<1>8. QED
  BY <1>2, <1>4, <1>5, <1>6, <1>7 DEF Contents

\* The copy overwrites the oldest pool, which it no longer has to hold.
LEMMA CopyKeepsContents ==
  ASSUME MemPools < RootSize, NEW saved \in Nat, Book(saved), Contents(saved), Copy
  PROVE  Contents(saved)'
<1> DEFINE next == saved + MemPools
<1>1. /\ Passed' = Passed /\ Filled' = Filled /\ Passed \in Nat
      /\ UNCHANGED <<currentPool, pool2Swap, pool2Swap2>>
      /\ job = "copy" /\ job' = "exchange"
  BY PassedTyped, CopyCopies DEF Copy, Passed, Filled, Book, RootTyped
<1>2. next \in Int /\ Passed <= next /\ pool2Swap2 = next % RootSize
      /\ next = saved + MemPools /\ currentPool = Passed % RootSize /\ saved <= Passed
  BY Sizes DEF Book, Indices
<1> HIDE DEF next
<1>3. ASSUME NEW i \in 0..Passed - 1, NEW s \in Slots, next + 1 <= i + RootSize
      PROVE  root'[i % RootSize].data[s] = PoolSize * i + s + 1
  <2>1. i \in Int /\ i # next /\ i - next < RootSize /\ next - i < RootSize
    BY <1>1, <1>2, <1>3, Sizes
  <2>2. i % RootSize \in Pools /\ i % RootSize # pool2Swap2
    BY <1>2, <2>1, PlacesApart, PlaceTyped
  <2>3. root'[i % RootSize] = root[i % RootSize]
    BY <2>2, CopyCopies
  <2>4. saved + MemPools + One(job = "exchange") <= i + RootSize
    BY <1>1, <1>2, <1>3, Sizes DEF One
  <2>5. QED
    BY <2>3, <2>4 DEF Contents
<1>4. ASSUME NEW s \in 0..Filled - 1
      PROVE  root'[currentPool].data[s] = PoolSize * Passed + s + 1
  <2>1. Passed < next
    BY <1>2, <1>4, CurrentInMemory
  <2>2. Passed \in Int /\ Passed # next /\ Passed - next < RootSize /\ next - Passed < RootSize
    BY <1>1, <1>2, <2>1, Sizes
  <2>3. currentPool \in Pools /\ currentPool # pool2Swap2
    BY <1>2, <2>2, PlacesApart, PlaceTyped
  <2>4. QED
    BY <2>3, CopyCopies DEF Contents
<1>5. root'[pool2Swap2].data = root'[pool2Swap].data
  BY CopyCopies
<1>6. saved + MemPools + One(job' = "exchange") = next + 1
  BY <1>1, <1>2, Sizes DEF One
<1>7. QED
  BY <1>1, <1>3, <1>4, <1>5, <1>6 DEF Contents

\* The exchange puts the copy in the place of what was copied.
LEMMA SwapKeepsContents ==
  ASSUME MemPools < RootSize, NEW saved \in Nat, Book(saved), Contents(saved), Exchange
  PROVE  Contents(saved + 1)'
<1> DEFINE next == saved + MemPools
<1>1. /\ Passed' = Passed /\ Filled' = Filled /\ Passed \in Nat /\ saved < Passed
      /\ currentPool' = currentPool /\ job = "exchange" /\ job' = "release"
  BY PassedTyped, SwapExchanges DEF Exchange, Passed, Filled, Book, RootTyped
<1>2. /\ next \in Int /\ Passed <= next /\ pool2Swap2 = next % RootSize
      /\ next = saved + MemPools /\ currentPool = Passed % RootSize
      /\ pool2Swap = saved % RootSize /\ saved \in Int /\ saved < next
      /\ next < saved + RootSize
  BY Sizes DEF Book, Indices
<1> HIDE DEF next
<1>3. ASSUME NEW i \in 0..Passed - 1, NEW s \in Slots, next + 1 <= i + RootSize
      PROVE  root'[i % RootSize].data[s] = PoolSize * i + s + 1
  <2>1. saved + MemPools + One(job = "exchange") <= i + RootSize
    BY <1>1, <1>2, <1>3, Sizes DEF One
  <2>2. root[i % RootSize].data[s] = PoolSize * i + s + 1
    BY <2>1 DEF Contents
  <2>3. CASE i = saved
    BY <1>1, <1>2, <2>2, <2>3, SwapExchanges DEF Contents
  <2>4. CASE i # saved
    <3>1. /\ i \in Int /\ i # next /\ i - next < RootSize /\ next - i < RootSize
          /\ i - saved < RootSize /\ saved - i < RootSize
      BY <1>1, <1>2, <1>3, <2>4, Sizes
    <3>2. i % RootSize # pool2Swap
      BY <1>2, <2>4, <3>1, PlacesApart
    <3>3. i % RootSize # pool2Swap2
      BY <1>2, <3>1, PlacesApart
    <3>4. i % RootSize \in Pools
      BY PlaceTyped
    <3>5. root'[i % RootSize] = root[i % RootSize]
      BY <3>2, <3>3, <3>4, SwapExchanges
    <3>6. QED
      BY <2>2, <3>5
  <2>5. QED
    BY <2>3, <2>4
<1>4. ASSUME NEW s \in 0..Filled - 1
      PROVE  root'[currentPool].data[s] = PoolSize * Passed + s + 1
  <2>1. Passed < next
    BY <1>2, <1>4, CurrentInMemory
  <2>2. /\ Passed \in Int /\ Passed # next /\ Passed - next < RootSize
        /\ next - Passed < RootSize /\ Passed # saved /\ Passed - saved < RootSize
        /\ saved - Passed < RootSize
    BY <1>1, <1>2, <2>1, Sizes
  <2>3. currentPool # pool2Swap
    BY <1>2, <2>2, PlacesApart
  <2>4. currentPool # pool2Swap2 /\ currentPool \in Pools
    BY <1>2, <2>2, PlacesApart, PlaceTyped
  <2>5. root'[currentPool] = root[currentPool]
    BY <2>3, <2>4, SwapExchanges
  <2>6. QED
    BY <2>5 DEF Contents
<1>5. saved + 1 + MemPools + One(job' = "exchange") = next + 1
  BY <1>1, <1>2, Sizes DEF One
<1>6. QED
  BY <1>1, <1>3, <1>4, <1>5 DEF Contents

\* So the contents stay right.
LEMMA ContentsStep ==
  ASSUME MemPools < RootSize, NEW saved \in Nat, Book(saved), Contents(saved), [Next]_vars
  PROVE  IF Exchange THEN Contents(saved + 1)' ELSE Contents(saved)'
<1>1. CASE Exchange
  BY <1>1, SwapKeepsContents
<1>2. CASE Push
  BY <1>2, PushKeepsContents DEF Push, Exchange
<1>3. CASE Copy
  BY <1>3, CopyKeepsContents DEF Copy, Exchange
<1>4. CASE ~Exchange /\ ~Push /\ ~Copy
  <2>1. UNCHANGED <<root, currentPool, pool2Swap, pool2Swap2, pushed>>
        /\ (job = "exchange" <=> job' = "exchange")
    BY <1>4
       DEF Next, PushStep, SwapperStep, Spurious, vars, ringVars, Acquire, ResumeSwapper,
           WakeSwapper, CountRecord, StopItself, WakeItself, Evict, Notify, Release,
           TakeIterator, AdvanceIterator
  <2>2. Passed' = Passed /\ Filled' = Filled /\ One(job' = "exchange") = One(job = "exchange")
    BY <2>1 DEF Passed, Filled, One
  <2>3. Contents(saved)'
    BY <2>1, <2>2 DEF Contents
  <2>4. QED
    BY <1>4, <2>3
<1>5. QED
  BY <1>1, <1>2, <1>3, <1>4

-----------------------------------------------------------------------------
(***************************************************************************)
(* The window between begin () and end ().                                 *)
(***************************************************************************)

\* The pool that is to be overwritten is given up before it is.
Evicted == One(job \in {"notify", "copy", "exchange"})

\* The oldest pool in the window.
Oldest(saved) ==
  IF saved + MemPools + Evicted < RootSize THEN 0 ELSE saved + MemPools + Evicted - RootSize

Window(saved) ==
  /\ beginPos = PoolSize * (Oldest(saved) % RootSize)
  /\ endPos = Counted % Capacity

\* The records that are counted fill the pools from the oldest on: at least what
\* fits into the file pools but one record, at most what fits into the ring but one.
LEMMA WindowBounds ==
  ASSUME MemPools < RootSize, NEW saved \in Nat, Book(saved)
  PROVE  /\ Counted \in Nat /\ Oldest(saved) \in 0..Passed
         /\ PoolSize * Oldest(saved) <= Counted
         /\ Counted - PoolSize * Oldest(saved) < Capacity
         /\ Counted - PoolSize * (saved + MemPools - RootSize) < Capacity
         /\ Oldest(saved) > 0 =>
              Counted - PoolSize * Oldest(saved) >= PoolSize * (RootSize - MemPools) - 1
<1> DEFINE o == Oldest(saved)
           p == Passed
           f == saved + MemPools - RootSize
           c == Counted
           k == RootSize - MemPools
<1>1. /\ p \in Nat /\ Filled \in 0..PoolSize - 1 /\ pushed = PoolSize * p + Filled
      /\ pushed \in Nat
  BY PassedTyped DEF Book, RootTyped
<1>2. c = IF producer = "idle" THEN pushed ELSE pushed - 1
  BY DEF Counted
<1>3. c \in Nat /\ c <= pushed /\ pushed <= c + 1
  BY <1>1, <1>2 DEF Book, Credits
<1>4. /\ Evicted \in {0, 1} /\ Evicted <= p - saved
      /\ saved <= p /\ p <= saved + MemPools
  BY <1>1 DEF Evicted, One, Book, Jobs, Indices
<1>5. /\ f \in Int /\ k \in Nat /\ k > 0
      /\ o = IF f + Evicted < 0 THEN 0 ELSE f + Evicted
      /\ f + RootSize = saved + MemPools
  BY <1>4, Sizes DEF Oldest
<1>6. p < f + RootSize \/ (p = f + RootSize /\ Filled = 0 /\ c = pushed - 1)
  <2>1. p < f + RootSize \/ (p = f + RootSize /\ Filled = 0)
    BY <1>5, CurrentInMemory
  <2>2. p = f + RootSize => producer = "acquire"
    BY <1>1, <1>5, Sizes DEF Book, Credits, One
  <2>3. QED
    BY <1>2, <2>1, <2>2
<1>7. o \in Nat /\ o <= p /\ (o > 0 => o + k <= p)
  BY <1>1, <1>4, <1>5, Sizes
<1> HIDE DEF o, p, f, c
<1>8. c - PoolSize * f < Capacity
  <2>1. CASE p < f + RootSize
    <3>1. PoolSize * p + PoolSize <= PoolSize * (f + RootSize)
      BY <1>1, <1>5, <2>1, MulMono, Sizes
    <3>2. QED
      BY <1>1, <1>3, <1>5, <3>1, Sizes
  <2>2. CASE p = f + RootSize /\ Filled = 0 /\ c = pushed - 1
    BY <1>1, <1>3, <1>5, <2>2, Sizes
  <2>3. QED
    BY <1>6, <2>1, <2>2
<1>9. PoolSize * f <= PoolSize * o
  BY <1>4, <1>5, <1>7, MulAtMost, Sizes
<1>10. o > 0 => c - PoolSize * o >= PoolSize * k - 1
  <2> SUFFICES ASSUME o > 0 PROVE c - PoolSize * o >= PoolSize * k - 1
    OBVIOUS
  <2> DEFINE ok == o + k
  <2>1. ok \in Int /\ ok <= p
    BY <1>5, <1>7
  <2> HIDE DEF k
  <2>2. PoolSize * ok = PoolSize * o + PoolSize * k
    BY <1>5, <1>7, Sizes
  <2> HIDE DEF ok
  <2>3. PoolSize * ok <= PoolSize * p
    BY <1>1, <2>1, MulAtMost, Sizes
  <2>4. QED
    BY <1>1, <1>3, <1>5, <1>7, <2>2, <2>3, Sizes
<1>11. PoolSize * o <= c
  <2>1. CASE o = 0
    BY <1>3, <2>1, Sizes
  <2>2. CASE o > 0
    <3>1. PoolSize * k >= 1
      <4>1. PoolSize * 1 <= PoolSize * k
        BY <1>5, MulAtMost, Sizes
      <4>2. QED
        BY <4>1, Sizes
    <3>2. QED
      BY <1>3, <1>5, <1>7, <1>10, <2>2, <3>1, Sizes
  <2>3. QED
    BY <1>7, <2>1, <2>2
<1>12. c - PoolSize * o < Capacity
  BY <1>3, <1>5, <1>7, <1>8, <1>9, Sizes
<1>13. QED
  BY <1>3, <1>7, <1>8, <1>10, <1>11, <1>12 DEF o, p, f, c

\* A position stands for its record, unless it is a turn behind.
LEMMA RecordOfPosition ==
  ASSUME NEW saved \in Nat, Window(saved), NEW a \in Int, Counted \in Int,
         a <= Counted, Counted - a < Capacity
  PROVE  RecordAt(a % Capacity) = a + 1
<1>1. ((Counted % Capacity) - (a % Capacity)) % Capacity = (Counted - a) % Capacity
  BY ModDiff, Sizes
<1>2. Counted - a \in 0..Capacity - 1
  BY Sizes
<1>3. (Counted - a) % Capacity = Counted - a
  BY <1>2, ModSmall, Sizes
<1>4. QED
  BY <1>1, <1>3 DEF RecordAt, Window

\* size () is the number of records since the oldest pool.
LEMMA SizeCounts ==
  ASSUME MemPools < RootSize, NEW saved \in Nat, Book(saved), Window(saved)
  PROVE  /\ beginPos = (PoolSize * Oldest(saved)) % Capacity
         /\ Size = Counted - PoolSize * Oldest(saved)
<1> DEFINE o == Oldest(saved)
           b == PoolSize * o
<1>1. Counted \in Int /\ o \in Int /\ b <= Counted /\ Counted - b < Capacity
  BY WindowBounds DEF Book, RootTyped
<1> HIDE DEF o
<1>2. b % Capacity = PoolSize * (o % RootSize) /\ b \in Int
  <2>1. RootSize \in Nat \ {0} /\ PoolSize \in Nat \ {0}
    BY Sizes
  <2>2. (PoolSize * o) % (PoolSize * RootSize) = PoolSize * (o % RootSize)
    BY <1>1, <2>1, ScaledMod, Zenon
  <2>3. QED
    BY <1>1, <2>1, <2>2, Sizes
<1>3. beginPos = b % Capacity /\ endPos = Counted % Capacity
  BY <1>2 DEF Window, o
<1> HIDE DEF b
<1>4. ((Counted % Capacity) - (b % Capacity)) % Capacity = (Counted - b) % Capacity
  BY <1>1, <1>2, ModDiff, Sizes
<1>5. Counted - b \in 0..Capacity - 1
  BY <1>1, <1>2, Sizes
<1>6. (Counted - b) % Capacity = Counted - b
  BY <1>5, ModSmall, Sizes
<1>7. QED
  BY <1>3, <1>4, <1>6 DEF Size, o, b

\* push counts its record, and the swap thread gives up the oldest pool when it is
\* the one to be overwritten.
LEMMA EvictGivesUp ==
  ASSUME MemPools < RootSize, NEW saved \in Nat, Book(saved), Window(saved), Evict
  PROVE  /\ beginPos' = PoolSize * (Oldest(saved)' % RootSize)
         /\ job' = "copy" => saved + MemPools < RootSize
<1> DEFINE o == Oldest(saved)
           f == saved + MemPools
<1>1. /\ saved \in Nat /\ Passed \in Nat /\ f \in Nat /\ f = saved + MemPools
      /\ pool2Swap2 = f % RootSize /\ job = "evict" /\ at = "step"
  BY PassedTyped, Sizes DEF Book, RootTyped, Indices, Evict
<1>2. o = IF f < RootSize THEN 0 ELSE f - RootSize
  BY <1>1, Sizes DEF Oldest, Evicted, One
<1>3. RootIdx(beginPos) = o % RootSize
  <2>1. o \in Int /\ o % RootSize \in Int
    BY <1>1, <1>2, PlaceTyped, Sizes DEF Pools
  <2> HIDE DEF o
  <2> DEFINE v == o % RootSize
  <2>2. v \in Int /\ beginPos = PoolSize * v + 0 /\ beginPos \in Int /\ 0 \in 0..PoolSize - 1
    BY <2>1, Sizes DEF Window, o
  <2>3. v % RootSize = v
    BY <2>1, PlaceTyped
  <2> HIDE DEF v
  <2>4. beginPos \div PoolSize = v
    BY <2>2, DivUnique, Sizes
  <2>5. QED
    BY <2>3, <2>4 DEF RootIdx, v
<1>4. CASE f < RootSize
  <2>1. f % RootSize = f /\ o % RootSize = 0 /\ f # 0
    BY <1>1, <1>2, <1>4, ModSmall, Sizes
  <2>2. beginPos' = beginPos /\ job' = "copy"
    BY <1>1, <1>3, <2>1 DEF Evict
  <2>3. Oldest(saved)' = 0
    BY <1>1, <1>4, <2>2, Sizes DEF Oldest, Evicted, One
  <2>4. QED
    BY <1>2, <1>4, <2>2, <2>3, Sizes DEF Window
<1>5. CASE ~(f < RootSize)
  <2>1. o \in Int /\ o = f - RootSize /\ o + RootSize = f
    BY <1>1, <1>2, <1>5, Sizes
  <2>2. o % RootSize = pool2Swap2
    BY <1>1, <2>1, PlaceTyped
  <2>3. beginPos' = ((pool2Swap2 + 1) % RootSize) * PoolSize
        /\ job' = IF beginPos' = beginPos THEN "copy" ELSE "notify"
    BY <1>3, <2>2 DEF Evict
  <2>4. (pool2Swap2 + 1) % RootSize = (o + 1) % RootSize /\ o + 1 \in Int
    BY <2>1, <2>2, PlaceTyped
  <2>5. o % RootSize # (o + 1) % RootSize /\ o % RootSize \in Pools /\ (o + 1) % RootSize \in Pools
    <3> DEFINE n == o + 1
    <3>1. n \in Int /\ o \in Int /\ o # n /\ o - n < RootSize /\ n - o < RootSize
      BY <2>1, Sizes
    <3> HIDE DEF n, o
    <3>2. o % RootSize # n % RootSize /\ o % RootSize \in Pools /\ n % RootSize \in Pools
      BY <3>1, PlacesApart, PlaceTyped
    <3>3. QED
      BY <3>2 DEF n
  <2>6. beginPos' # beginPos
    <3> DEFINE x == o % RootSize
               y == (o + 1) % RootSize
    <3>1. x \in Int /\ y \in Int /\ x # y
      BY <2>5 DEF Pools
    <3>2. beginPos = PoolSize * x /\ beginPos' = y * PoolSize
      BY <2>3, <2>4 DEF Window
    <3> HIDE DEF x, y
    <3>3. CASE x < y
      BY <3>1, <3>2, <3>3, MulMono, Sizes
    <3>4. CASE y < x
      BY <3>1, <3>2, <3>4, MulMono, Sizes
    <3>5. QED
      BY <3>1, <3>3, <3>4
  <2>7. job' = "notify"
    BY <2>3, <2>6
  <2>8. Oldest(saved)' = o + 1
    BY <1>1, <1>5, <2>1, <2>7, Sizes DEF Oldest, Evicted, One
  <2>9. beginPos' = PoolSize * ((o + 1) % RootSize)
    BY <2>3, <2>4, <2>5, Sizes DEF Pools
  <2>10. QED
    BY <2>7, <2>8, <2>9
<1>6. QED
  BY <1>4, <1>5

\* So the window follows.
LEMMA WindowStep ==
  ASSUME MemPools < RootSize, NEW saved \in Nat, Book(saved), Window(saved), [Next]_vars
  PROVE  IF Exchange THEN Window(saved + 1)' ELSE Window(saved)'
<1>1. pushed \in Nat /\ producer \in {"idle", "acquire", "resume", "wake", "count"}
  BY DEF Book, RootTyped, Credits
<1>2. ASSUME UNCHANGED <<pushed, endPos>>, producer = "idle" <=> producer' = "idle"
      PROVE  endPos' = Counted' % Capacity
  BY <1>2 DEF Window, Counted
<1>3. ASSUME UNCHANGED beginPos, Evicted' = Evicted
      PROVE  beginPos' = PoolSize * (Oldest(saved)' % RootSize)
  BY <1>3 DEF Window, Oldest
<1>4. CASE Exchange
  <2>1. Oldest(saved + 1)' = Oldest(saved)
    BY <1>4, Sizes DEF Exchange, Oldest, Evicted, One
  <2>2. QED
    BY <1>2, <1>4, <2>1 DEF Exchange, Window
<1>5. CASE Push
  <2>1. Counted' = Counted
    BY <1>1, <1>5 DEF Push, Counted
  <2>2. Evicted' = Evicted /\ ~Exchange
    BY <1>5 DEF Push, Evicted, One, Exchange
  <2>3. QED
    BY <1>3, <1>5, <2>1, <2>2 DEF Push, Window
<1>6. CASE CountRecord
  <2>1. Counted' = Counted + 1 /\ Counted \in Int
    BY <1>1, <1>6 DEF CountRecord, Counted
  <2>2. endPos' = ((Counted % Capacity) + 1) % Capacity
    BY <1>6 DEF CountRecord, Window
  <2>3. endPos' = Counted' % Capacity
    BY <2>1, <2>2, ModNext, Sizes
  <2>4. Evicted' = Evicted /\ beginPos' = beginPos /\ ~Exchange
    BY <1>6 DEF CountRecord, Evicted, One, Exchange
  <2>5. QED
    BY <1>3, <2>3, <2>4 DEF Window
<1>7. CASE Evict
  BY <1>2, <1>7, EvictGivesUp DEF Evict, Exchange, Window
<1>8. CASE ~Exchange /\ ~Push /\ ~CountRecord /\ ~Evict
  <2>1. UNCHANGED <<pushed, endPos, beginPos>> /\ (producer = "idle" <=> producer' = "idle")
        /\ (job \in {"notify", "copy", "exchange"} <=> job' \in {"notify", "copy", "exchange"})
    BY <1>8, CopyCopies
       DEF Next, PushStep, SwapperStep, Spurious, vars, ringVars, Acquire, ResumeSwapper,
           WakeSwapper, StopItself, WakeItself, Copy, Notify, Release, TakeIterator,
           AdvanceIterator
  <2>2. Evicted' = Evicted
    BY <2>1 DEF Evicted, One
  <2>3. QED
    BY <1>2, <1>3, <1>8, <2>1, <2>2 DEF Window
<1>9. QED
  BY <1>4, <1>5, <1>6, <1>7, <1>8

\* The invariant of the ring.
RingInv == \E saved \in 0..Passed : Book(saved) /\ Contents(saved) /\ Window(saved)

\* It is inductive, for every number and size of pools, if one of them is a file pool.
THEOREM RingCorrect ==
  ASSUME MemPools < RootSize
  PROVE  Spec => []RingInv
<1>1. Init => RingInv
  <2> SUFFICES ASSUME Init PROVE RingInv
    OBVIOUS
  <2>1. Book(0) /\ Passed = 0 /\ Filled = 0
    BY BookStarts
  <2>2. Contents(0)
    BY <2>1 DEF Contents, Init
  <2>3. Oldest(0) = 0 /\ Counted = 0 /\ 0 % RootSize = 0 /\ 0 % Capacity = 0
    BY ModSmall, Sizes DEF Init, Oldest, Evicted, One, Counted
  <2>4. Window(0)
    BY <2>3, Sizes DEF Init, Window
  <2>5. QED
    BY <2>1, <2>2, <2>4 DEF RingInv
<1>2. RingInv /\ [Next]_vars => RingInv'
  <2> SUFFICES ASSUME NEW saved \in 0..Passed, Book(saved), Contents(saved), Window(saved),
                      [Next]_vars
               PROVE  RingInv'
    BY DEF RingInv
  <2>1. saved \in Nat /\ saved + 1 \in Nat
    OBVIOUS
  <2>2. CASE Exchange
    <3>1. Book(saved + 1)' /\ Contents(saved + 1)' /\ Window(saved + 1)'
      BY <2>1, <2>2, BookStep, ContentsStep, WindowStep
    <3>2. saved + 1 \in 0..Passed'
      BY <3>1 DEF Book, Indices
    <3>3. QED
      BY <3>1, <3>2 DEF RingInv
  <2>3. CASE ~Exchange
    <3>1. Book(saved)' /\ Contents(saved)' /\ Window(saved)'
      BY <2>1, <2>3, BookStep, ContentsStep, WindowStep
    <3>2. saved \in 0..Passed'
      BY <3>1 DEF Book, Indices
    <3>3. QED
      BY <3>1, <3>2 DEF RingInv
  <2>4. QED
    BY <2>2, <2>3
<1>3. QED
  BY <1>1, <1>2, PTL DEF Spec

\* Whatever the two threads do to the pools, the records between begin () and end ()
\* are the latest ones, in their order.
THEOREM WindowIsReadable ==
  ASSUME MemPools < RootSize
  PROVE  Spec => []WindowReadable
<1>1. RingInv => WindowReadable
  <2> SUFFICES ASSUME NEW saved \in 0..Passed, Book(saved), Contents(saved), Window(saved),
                      NEW d \in 1..Size
               PROVE  LET pos == (endPos - d) % Capacity
                      IN  root[RootIdx(pos)].data[PoolIdx(pos)] = Counted + 1 - d
    BY DEF RingInv, WindowReadable
  <2> DEFINE o == Oldest(saved)
             a == Counted - d
             i == a \div PoolSize
             s == a % PoolSize
             p == Passed
  <2>1. /\ saved \in Nat /\ p \in Nat /\ Filled \in 0..PoolSize - 1
        /\ pushed = PoolSize * p + Filled /\ pushed \in Nat
    BY PassedTyped DEF Book, RootTyped
  <2>2. Counted \in Nat /\ Counted <= pushed /\ o \in Nat
    BY <2>1, WindowBounds DEF Counted, Book, Credits
  <2>3. Size = Counted - PoolSize * o
    BY <2>1, SizeCounts
  <2> HIDE DEF o, p
  <2>4. a \in Int /\ PoolSize * o <= a /\ a < pushed
    <3> DEFINE b == PoolSize * o
    <3>1. b \in Int
      BY <2>2, Sizes
    <3> HIDE DEF b
    <3>2. d \in Int /\ 1 <= d /\ d <= Counted - b
      BY <2>2, <2>3, <3>1 DEF b
    <3>3. a \in Int /\ b <= a /\ a < pushed
      BY <2>1, <2>2, <3>1, <3>2
    <3>4. QED
      BY <3>3 DEF b
  <2>5. (endPos - d) % Capacity = a % Capacity
    <3> DEFINE c == Counted
    <3>1. c \in Int /\ d \in Int /\ Capacity \in Nat \ {0} /\ endPos = c % Capacity
          /\ a = c - d
      BY <2>2, Sizes DEF Window
    <3> HIDE DEF c, a
    <3>2. ((c % Capacity) - d) % Capacity = (c - d) % Capacity
      BY <3>1, ModMinus
    <3>3. QED
      BY <3>1, <3>2, Zenon
  <2> HIDE DEF a
  <2>6. RootIdx(a % Capacity) = i % RootSize /\ PoolIdx(a % Capacity) = s
    <3>1. ((a % (PoolSize * RootSize)) \div PoolSize) % RootSize = i % RootSize
          /\ (a % (PoolSize * RootSize)) % PoolSize = s
      BY <2>4, RingPosition, Sizes
    <3>2. Capacity = PoolSize * RootSize
      BY Sizes
    <3>3. QED
      BY <3>1, <3>2, Zenon DEF RootIdx, PoolIdx
  <2>7. i \in Int /\ s \in 0..PoolSize - 1 /\ a = PoolSize * i + s
    BY <2>4, DivMod, Sizes
  <2> HIDE DEF i, s
  <2>8. o <= i
    <3>1. ASSUME i < o PROVE FALSE
      <4>1. PoolSize * i + PoolSize <= PoolSize * o
        BY <2>2, <2>7, <3>1, MulMono, Sizes
      <4>2. QED
        BY <2>2, <2>4, <2>7, <4>1, Sizes
    <3>2. QED
      BY <2>2, <2>7, <3>1
  <2>9. i <= p
    <3>1. ASSUME p < i PROVE FALSE
      <4>1. PoolSize * p + PoolSize <= PoolSize * i
        BY <2>1, <2>7, <3>1, MulMono, Sizes
      <4>2. QED
        BY <2>1, <2>4, <2>7, <4>1, Sizes
    <3>2. QED
      BY <2>1, <2>7, <3>1
  <2>10. root[i % RootSize].data[s] = PoolSize * i + s + 1
    <3>1. CASE i < p
      <4>1. i \in 0..Passed - 1
        BY <2>1, <2>2, <2>7, <2>8, <3>1 DEF p
      <4>2. saved + MemPools + One(job = "exchange") <= i + RootSize
        BY <2>1, <2>2, <2>7, <2>8, Sizes DEF o, Oldest, Evicted, One
      <4>3. s \in Slots
        BY <2>7 DEF Slots
      <4>4. QED
        BY <4>1, <4>2, <4>3 DEF Contents
    <3>2. CASE i = p
      <4>1. s < Filled
        BY <2>1, <2>4, <2>7, <3>2, Sizes
      <4>2. s \in 0..Filled - 1
        BY <2>1, <2>7, <4>1
      <4>3. i % RootSize = currentPool
        BY <3>2 DEF Book, Indices, p
      <4>4. QED
        BY <3>2, <4>2, <4>3 DEF Contents, p
    <3>3. QED
      BY <2>1, <2>7, <2>9, <3>1, <3>2
  <2>11. PoolSize * i + s + 1 = Counted + 1 - d
    BY <2>2, <2>3, <2>7, Sizes DEF a
  <2>12. QED
    BY <2>5, <2>6, <2>10, <2>11
<1>2. QED
  BY <1>1, RingCorrect, PTL

\* Records are given up only when the ring has come round: the file pools' worth of
\* records, but one, can always be read.
THEOREM KeepsTheLatest ==
  ASSUME MemPools < RootSize
  PROVE  Spec => []KeepsLatest
<1>1. RingInv => KeepsLatest
  <2> SUFFICES ASSUME NEW saved \in 0..Passed, Book(saved), Window(saved)
               PROVE  KeepsLatest
    BY DEF RingInv
  <2> DEFINE o == Oldest(saved)
             promised == (RootSize - MemPools) * PoolSize - 1
  <2>1. saved \in Nat
    BY PassedTyped DEF Book, RootTyped
  <2>2. /\ Counted \in Nat /\ o \in Nat /\ Size = Counted - PoolSize * o
        /\ o > 0 => Counted - PoolSize * o >= PoolSize * (RootSize - MemPools) - 1
    BY <2>1, WindowBounds, SizeCounts DEF Book, RootTyped
  <2> HIDE DEF o
  <2>3. promised \in Int /\ promised = PoolSize * (RootSize - MemPools) - 1
    BY Sizes
  <2> HIDE DEF promised
  <2>4. Size >= IF Counted < promised THEN Counted ELSE promised
    <3>1. CASE o = 0
      BY <2>2, <2>3, <3>1, Sizes
    <3>2. CASE o > 0
      BY <2>2, <2>3, <3>2, Sizes
    <3>3. QED
      BY <2>2, <3>1, <3>2
  <2>5. QED
    BY <2>4 DEF KeepsLatest, promised
<1>2. QED
  BY <1>1, RingCorrect, PTL

-----------------------------------------------------------------------------
(***************************************************************************)
(* The reader's iterator.                                                  *)
(***************************************************************************)

\* The way from a position to end () gets shorter by one when the position counts on.
LEMMA ComesNearer ==
  ASSUME NEW N \in Nat \ {0}, NEW e \in 0..N - 1, NEW h \in 0..N - 1, e # h
  PROVE  (e - ((h + 1) % N)) % N = ((e - h) % N) - 1
<1> DEFINE d == e - h
           q == d \div N
           r == d % N
           w == r - 1
           x == d - 1
<1>1. d \in Int /\ x \in Int /\ x = d - 1
  OBVIOUS
<1>2. q \in Int /\ r \in 0..N - 1 /\ d = N * q + r
  BY <1>1, DivMod
<1>3. r # 0
  <2>1. CASE h < e
    <3>1. d \in 0..N - 1 /\ d # 0
      BY <2>1
    <3>2. QED
      BY <3>1, ModSmall
  <2>2. CASE e < h
    <3> DEFINE y == d + N
               k == 1
    <3>1. k \in Int /\ d + N * k = y
      OBVIOUS
    <3>2. y \in 0..N - 1 /\ y # 0
      BY <2>2
    <3> HIDE DEF k, y, d
    <3>3. y % N = d % N
      BY <1>1, <3>1, ModShift
    <3>4. QED
      BY <3>2, <3>3, ModSmall
  <2>3. QED
    BY <2>1, <2>2
<1> HIDE DEF d, q
<1>4. x % N = w
  <2>1. w \in 0..N - 1 /\ x = N * q + w
    <3> HIDE DEF r
    <3>1. QED
      BY <1>1, <1>2, <1>3
  <2> HIDE DEF w, x, r
  <2>2. QED
    BY <1>1, <1>2, <2>1, DivUnique
<1>5. (e - ((h + 1) % N)) % N = x % N
  <2> DEFINE y == h + 1
  <2>1. e \in Int /\ y \in Int /\ e % N = e /\ e - y = x
    BY ModSmall DEF d
  <2> HIDE DEF y, x
  <2>2. ((e % N) - (y % N)) % N = (e - y) % N
    BY <2>1, ModDiff
  <2>3. (e - (y % N)) % N = x % N
    BY <2>1, <2>2
  <2>4. QED
    BY <2>3 DEF y
<1>6. QED
  BY <1>4, <1>5 DEF d

\* It gets longer by one, at most, when end () counts on.
LEMMA GoesAway ==
  ASSUME NEW N \in Nat \ {0}, NEW e \in Int, NEW h \in 0..N - 1
  PROVE  (((e + 1) % N) - h) % N <= (((e % N) - h) % N) + 1
<1> DEFINE y == e + 1
           d == e - h
           x == y - h
<1>1. y \in Int /\ h \in Int /\ d \in Int /\ x \in Int /\ x = d + 1
  OBVIOUS
<1>2. ((y % N) - h) % N = x % N
  <2> HIDE DEF y
  <2>1. QED
    BY <1>1, ModMinus
<1>3. ((e % N) - h) % N = d % N
  <2>1. ((e % N) - h) % N = (e - h) % N
    BY <1>1, ModMinus
  <2>2. QED
    BY <2>1, Zenon
<1> HIDE DEF d, x
<1>4. x % N <= (d % N) + 1
  <2>1. d % N \in 0..N - 1
    BY <1>1, DivMod
  <2>2. CASE (d % N) + 1 = N
    BY <1>1, <2>1, <2>2, ModNext
  <2>3. CASE (d % N) + 1 # N
    <3>1. (d + 1) % N = (d % N) + 1
      BY <1>1, <2>3, ModNext
    <3>2. x % N = (d % N) + 1
      BY <1>1, <3>1, Zenon
    <3>3. QED
      BY <2>1, <3>2
  <2>4. QED
    BY <2>2, <2>3
<1>5. QED
  BY <1>2, <1>3, <1>4, Zenon DEF y

\* The iterators that ring_pool makes denote a record of the window, or the next one.
LEMMA IteratorTaken ==
  ASSUME MemPools < RootSize, NEW saved \in Nat, Book(saved), Window(saved), TakeIterator
  PROVE  \E a \in Int : /\ PoolSize * Oldest(saved) <= a /\ a <= Counted
                        /\ held' = a % Capacity /\ heldRecord' = a + 1
<1> DEFINE b == PoolSize * Oldest(saved)
           c == Counted
<1>1. /\ b \in Int /\ c \in Nat /\ b <= c /\ c - b < Capacity
      /\ beginPos = b % Capacity /\ endPos = c % Capacity /\ Size = c - b
  BY WindowBounds, SizeCounts, Sizes DEF Window
<1> HIDE DEF b
<1>2. ASSUME NEW a \in Int, b <= a, a <= c, held' = a % Capacity
      PROVE  heldRecord' = a + 1
  <2>1. Counted \in Int /\ a <= Counted /\ Counted - a < Capacity
    BY <1>1, <1>2, Sizes
  <2>2. RecordAt(a % Capacity) = a + 1
    BY <2>1, RecordOfPosition
  <2>3. QED
    BY <1>2, <2>2 DEF TakeIterator
<1>3. CASE held' = beginPos
  BY <1>1, <1>2, <1>3 DEF b
<1>4. CASE held' = endPos
  BY <1>1, <1>2, <1>4 DEF b
<1>5. CASE beginPos # endPos /\ held' = (endPos - 1) % Capacity
  <2> DEFINE a == c - 1
             one == 1
  <2>1. a \in Int /\ b <= a /\ a <= c /\ a = c - one /\ one \in Int /\ c \in Int
    BY <1>1, <1>5
  <2> HIDE DEF c, a
  <2>2. held' = ((c % Capacity) - one) % Capacity
    BY <1>1, <1>5
  <2> HIDE DEF one
  <2>3. ((c % Capacity) - one) % Capacity = (c - one) % Capacity
    BY <2>1, ModMinus, Sizes
  <2>4. held' = a % Capacity
    BY <2>1, <2>2, <2>3, Zenon
  <2>5. heldRecord' = a + 1
    BY <1>2, <2>1, <2>4 DEF c
  <2>6. QED
    BY <2>1, <2>4, <2>5 DEF b, c
<1>6. QED
  BY <1>3, <1>4, <1>5 DEF TakeIterator

\* What holds for any reader: its iterator is one of the ring's, and was made to
\* denote a record that was pushed, or the next one.
Loose ==
  /\ heldRecord \in Nat /\ heldRecord <= Counted + 1
  /\ held # Absent =>
       /\ held \in 0..Capacity - 1
       /\ heldRecord + ((endPos - held) % Capacity) <= Counted + 1

\* The steps that move the iterator or end (), and the others.
LEMMA ReaderSteps ==
  ASSUME NEW saved \in Nat, Book(saved), [Next]_vars
  PROVE  \/ TakeIterator
         \/ AdvanceIterator
         \/ (CountRecord /\ UNCHANGED readerVars)
         \/ Notify
         \/ (UNCHANGED <<readerVars, endPos>> /\ Counted' = Counted)
<1>1. pushed \in Nat /\ producer \in {"idle", "acquire", "resume", "wake", "count"}
  BY DEF Book, RootTyped, Credits
<1>2. CASE Push /\ UNCHANGED readerVars
  BY <1>1, <1>2 DEF Push, Counted
<1>3. CASE (Acquire \/ ResumeSwapper \/ WakeSwapper) /\ UNCHANGED readerVars
  BY <1>3 DEF Acquire, ResumeSwapper, WakeSwapper, Counted, ringVars
<1>4. CASE (StopItself \/ WakeItself \/ Evict \/ Copy \/ Exchange \/ Release)
           /\ UNCHANGED readerVars
  BY <1>4 DEF StopItself, WakeItself, Evict, Copy, Exchange, Release, Counted, ringVars
<1>5. CASE UNCHANGED <<ringVars, producer, job, readerVars>>
  BY <1>5 DEF ringVars, Counted
<1>6. CASE UNCHANGED vars
  BY <1>5, <1>6 DEF vars
<1>7. CASE SwapperStep
  BY <1>4, <1>5, <1>7 DEF SwapperStep
<1>8. CASE PushStep
  BY <1>3, <1>8 DEF PushStep
<1>9. CASE Spurious
  BY <1>5, <1>9 DEF Spurious
<1>10. QED
  BY <1>2, <1>6, <1>7, <1>8, <1>9, Zenon DEF Next

\* A position in the ring.
LEMMA PositionTyped ==
  ASSUME NEW x \in Int
  PROVE  x % Capacity \in 0..Capacity - 1 /\ (PoolSize * (x % RootSize)) \in 0..Capacity - 1
<1> DEFINE r == x % RootSize
           last == RootSize - 1
<1>1. r \in Int /\ last \in Int /\ 0 <= r /\ r <= last
  BY DivMod, Sizes
<1>2. x % Capacity \in 0..Capacity - 1
  BY DivMod, Sizes
<1> HIDE DEF r
<1>3. PoolSize * last = Capacity - PoolSize
  BY Sizes
<1> HIDE DEF last
<1>4. PoolSize * 0 <= PoolSize * r /\ PoolSize * r <= PoolSize * last
  BY <1>1, MulAtMost, Sizes
<1>5. PoolSize * r \in 0..Capacity - 1
  BY <1>1, <1>3, <1>4, Sizes
<1>6. QED
  BY <1>2, <1>5 DEF r

\* Whatever the reader does, its iterator stays one of the ring's.
LEMMA LooseStep ==
  ASSUME MemPools < RootSize, NEW saved \in Nat, Book(saved), Window(saved), Loose,
         [Next]_vars
  PROVE  Loose'
<1> DEFINE c == Counted
           b == PoolSize * Oldest(saved)
<1>1. /\ c \in Nat /\ b \in Nat /\ b <= c /\ Size = c - b
      /\ endPos = c % Capacity /\ endPos \in 0..Capacity - 1
      /\ beginPos \in 0..Capacity - 1
  <2>1. c \in Nat /\ Oldest(saved) \in Nat /\ b <= c /\ Size = c - b /\ endPos = c % Capacity
    BY WindowBounds, SizeCounts DEF Window, Book, RootTyped, Indices
  <2>2. endPos \in 0..Capacity - 1
    BY <2>1, PositionTyped
  <2>3. beginPos \in 0..Capacity - 1
    BY <2>1, PositionTyped DEF Window
  <2>4. b \in Nat
    BY <2>1, Sizes
  <2>5. QED
    BY <2>1, <2>2, <2>3, <2>4
<1> HIDE DEF b
<1>2. ASSUME UNCHANGED endPos, Counted' = Counted, held' \in 0..Capacity - 1,
             heldRecord' = c + 1 - ((endPos - held') % Capacity), heldRecord' \in Nat
      PROVE  Loose'
  <2> DEFINE d == (endPos - held') % Capacity
  <2>1. d \in 0..Capacity - 1
    <3> DEFINE x == endPos - held'
    <3>1. x \in Int
      BY <1>1, <1>2, Sizes
    <3> HIDE DEF x
    <3>2. x % Capacity \in 0..Capacity - 1
      BY <3>1, DivMod, Sizes
    <3>3. QED
      BY <3>2 DEF x
  <2>2. heldRecord' = c + 1 - d /\ (endPos' - held') % Capacity = d
    BY <1>2
  <2> HIDE DEF d
  <2>3. heldRecord' + d <= c + 1 /\ heldRecord' <= c + 1
    BY <1>1, <1>2, <2>1, <2>2
  <2>4. QED
    BY <1>2, <2>2, <2>3 DEF Loose
<1>3. CASE TakeIterator
  <2>1. UNCHANGED endPos /\ Counted' = Counted
        /\ heldRecord' = c + 1 - ((endPos - held') % Capacity)
    BY <1>3 DEF TakeIterator, ringVars, Counted, RecordAt
  <2>2. PICK a \in Int : b <= a /\ a <= c /\ held' = a % Capacity /\ heldRecord' = a + 1
    BY <1>3, IteratorTaken DEF b
  <2>3. held' \in 0..Capacity - 1 /\ heldRecord' \in Nat
    BY <1>1, <2>2, PositionTyped
  <2>4. QED
    BY <1>2, <2>1, <2>3
<1>4. CASE AdvanceIterator
  <2> DEFINE h == held
  <2>1. /\ endPos' = endPos /\ Counted' = c /\ h # endPos
        /\ held' = (h + 1) % Capacity /\ heldRecord' = heldRecord + 1
        /\ h \in 0..Capacity - 1 /\ heldRecord \in Nat
        /\ heldRecord + ((endPos - h) % Capacity) <= c + 1
    BY <1>4 DEF AdvanceIterator, ringVars, Counted, Loose
  <2> HIDE DEF h
  <2>2. (endPos - ((h + 1) % Capacity)) % Capacity = ((endPos - h) % Capacity) - 1
    BY <1>1, <2>1, ComesNearer, Sizes
  <2>3. (endPos - h) % Capacity \in 0..Capacity - 1
        /\ (endPos - ((h + 1) % Capacity)) % Capacity \in 0..Capacity - 1
    <3> DEFINE x == endPos - h
               y == endPos - ((h + 1) % Capacity)
    <3>1. x \in Int /\ y \in Int
      BY <1>1, <2>1, DivMod, Sizes
    <3> HIDE DEF x, y
    <3>2. x % Capacity \in 0..Capacity - 1 /\ y % Capacity \in 0..Capacity - 1
      BY <3>1, DivMod, Sizes
    <3>3. QED
      BY <3>2 DEF x, y
  <2> DEFINE u == (endPos - h) % Capacity
             v == (endPos - ((h + 1) % Capacity)) % Capacity
  <2>4. u \in Int /\ v \in Int /\ 0 <= v /\ v = u - 1 /\ heldRecord + u <= c + 1
        /\ v = (endPos' - held') % Capacity
    BY <2>1, <2>2, <2>3, Sizes
  <2> HIDE DEF u, v, c
  <2>5. heldRecord' \in Nat /\ heldRecord' <= c + 1 /\ heldRecord' + v <= c + 1
    BY <1>1, <2>1, <2>4
  <2>6. held' \in 0..Capacity - 1
    BY <2>1, PositionTyped
  <2>7. QED
    BY <2>1, <2>4, <2>5, <2>6 DEF Loose, c
<1>5. CASE CountRecord /\ UNCHANGED readerVars
  <2>1. pushed \in Nat /\ producer \in {"idle", "acquire", "resume", "wake", "count"}
    BY DEF Book, RootTyped, Credits
  <2>2. Counted' = c + 1 /\ UNCHANGED <<held, heldRecord>> /\ endPos' = (endPos + 1) % Capacity
    BY <1>5, <2>1 DEF CountRecord, Counted, readerVars
  <2>3. CASE held = Absent
    BY <1>1, <2>2, <2>3 DEF Loose
  <2>4. CASE held # Absent
    <3> DEFINE h == held
               u == (endPos - h) % Capacity
               v == (endPos' - h) % Capacity
    <3>1. h \in 0..Capacity - 1 /\ heldRecord \in Nat /\ heldRecord + u <= c + 1
          /\ heldRecord <= c + 1
      BY <2>4 DEF Loose
    <3> HIDE DEF h
    <3>2. (((endPos + 1) % Capacity) - h) % Capacity <= (((endPos % Capacity) - h) % Capacity) + 1
      <4>1. endPos \in Int /\ Capacity \in Nat \ {0}
        BY <1>1, Sizes
      <4> HIDE DEF u, v
      <4>2. QED
        BY <3>1, <4>1, GoesAway
    <3>3. endPos % Capacity = endPos
      BY <1>1, ModSmall, Sizes
    <3>4. v <= u + 1
      BY <2>2, <3>2, <3>3
    <3>5. u \in Int /\ v \in Int
      <4> DEFINE x == endPos - h
                 y == endPos' - h
      <4>1. x \in Int /\ y \in Int
        BY <1>1, <2>2, <3>1, PositionTyped
      <4> HIDE DEF x, y
      <4>2. x % Capacity \in Int /\ y % Capacity \in Int
        BY <4>1, DivMod, Sizes
      <4>3. QED
        BY <4>2 DEF x, y
    <3> HIDE DEF u
    <3>6. v = (endPos' - held') % Capacity
      BY <2>2 DEF h
    <3> HIDE DEF v, c
    <3>7. heldRecord + v <= c + 1 + 1 /\ heldRecord <= c + 1 + 1
      BY <1>1, <3>1, <3>4, <3>5
    <3>8. QED
      BY <2>2, <3>1, <3>6, <3>7 DEF Loose, h
  <2>5. QED
    BY <2>3, <2>4
<1>6. CASE Notify
  <2>1. UNCHANGED endPos /\ Counted' = Counted
    BY <1>6 DEF Notify, ringVars, Counted
  <2>2. CASE UNCHANGED readerVars
    BY <2>1, <2>2 DEF Loose, readerVars
  <2>3. CASE held' = beginPos /\ heldRecord' = RecordAt(beginPos)
    <3>1. heldRecord' = c + 1 - Size /\ heldRecord' = c + 1 - ((endPos - held') % Capacity)
      BY <2>3 DEF RecordAt, Size
    <3>2. heldRecord' \in Nat
      BY <1>1, <3>1
    <3>3. QED
      BY <1>1, <1>2, <2>1, <2>3, <3>1, <3>2
  <2>4. QED
    BY <1>6, <2>2, <2>3 DEF Notify
<1>7. CASE UNCHANGED <<readerVars, endPos>> /\ Counted' = Counted
  BY <1>7 DEF Loose, readerVars
<1>8. QED
  BY <1>3, <1>4, <1>5, <1>6, <1>7, ReaderSteps

\* The bookkeeping types everything but the iterator.
LEMMA BookTyped ==
  ASSUME MemPools < RootSize, NEW saved \in Nat, Book(saved), Window(saved), Loose
  PROVE  PoolsFit
<1>1. /\ pushed \in 0..MaxPush /\ Filled \in 0..PoolSize - 1
      /\ Passed \in Nat /\ MaxPush \in Nat
  BY PassedTyped, RingPoolAssumption DEF Book, RootTyped
<1>2. Counted \in Nat /\ Counted <= MaxPush
  BY <1>1, WindowBounds DEF Counted
<1>3. currentPool \in Pools /\ pool2Swap \in Pools /\ pool2Swap2 \in Pools
  <2>1. saved + MemPools \in Int
    BY Sizes
  <2>2. QED
    BY <1>1, <2>1, PlaceTyped DEF Book, Indices
<1>4. beginPos \in 0..Capacity - 1 /\ endPos \in 0..Capacity - 1
  <2>1. Oldest(saved) \in Int
    BY WindowBounds DEF Book, Indices
  <2>2. QED
    BY <1>2, <2>1, PositionTyped DEF Window
<1>5. credits \in 0..MemPools - 1
  <2>1. One(producer = "acquire") <= Passed - saved
    BY <1>1 DEF Book, Jobs, One
  <2>2. QED
    BY <1>1, <2>1, Sizes DEF Book, Credits, One
<1>6. held \in {Absent} \cup 0..Capacity - 1 /\ heldRecord \in 0..MaxPush + 1
  BY <1>1, <1>2 DEF Loose
<1>7. TypeOK
  BY <1>1, <1>3, <1>4, <1>5, <1>6 DEF TypeOK, Book, RootTyped, Credits, Jobs
<1>8. PushHasRoom
  BY <1>1, PushFindsRoom, Sizes DEF PushHasRoom
<1>9. SwapFindsPools
  BY DEF Book, Jobs, SwapFindsPools
<1>10. QED
  BY <1>7, <1>8, <1>9 DEF PoolsFit

\* Neither thread meets a pool that it cannot use, every index stays in its range, the
\* semaphore never counts more than the memory pools but one, and the reader's iterator
\* never leaves the ring.
THEOREM PoolsAlwaysFit ==
  ASSUME MemPools < RootSize
  PROVE  Spec => []PoolsFit
<1> DEFINE Inv == RingInv /\ Loose
<1>1. Init => Loose
  BY Sizes DEF Init, Loose, Counted
<1>2. RingInv /\ Loose /\ [Next]_vars => Loose'
  <2> SUFFICES ASSUME NEW saved \in 0..Passed, Book(saved), Window(saved), Loose, [Next]_vars
               PROVE  Loose'
    BY DEF RingInv
  <2>1. saved \in Nat
    OBVIOUS
  <2>2. QED
    BY <2>1, LooseStep
<1>3. RingInv /\ Loose => PoolsFit
  <2> SUFFICES ASSUME NEW saved \in 0..Passed, Book(saved), Window(saved), Loose
               PROVE  PoolsFit
    BY DEF RingInv
  <2>1. saved \in Nat
    OBVIOUS
  <2>2. QED
    BY <2>1, BookTyped
<1>4. QED
  BY <1>1, <1>2, <1>3, RingCorrect, PTL DEF Spec

\* What holds for a reader that validates its iterator in every call-back: the iterator
\* is where its record is, and that record is not older than the pool that the swap
\* thread overwrites next.
Place(saved) ==
  held # Absent =>
    \E h \in Nat :
      /\ heldRecord = h + 1 /\ held = h % Capacity
      /\ h <= Counted
      /\ PoolSize * (saved + MemPools + One(job \in {"copy", "exchange"}) - RootSize) <= h

\* The call-back finds every iterator that was left behind: while a pool is given up,
\* the window is not empty and the producer is less than a turn ahead of the pool.
LEMMA CallBackCorrects ==
  ASSUME CallBack, MemPools < RootSize, PoolSize * (RootSize - MemPools) >= 2,
         NEW saved \in Nat, Book(saved), Window(saved), Place(saved), Notify,
         held # Absent
  PROVE  \/ held' = beginPos /\ heldRecord' = RecordAt(beginPos)
         \/ /\ UNCHANGED readerVars
            /\ PoolSize * Oldest(saved) <= heldRecord - 1
<1> DEFINE c == Counted
           o == Oldest(saved)
           f == saved + MemPools - RootSize
           b == PoolSize * o
           g == PoolSize * f
<1>1. PICK h \in Nat : heldRecord = h + 1 /\ held = h % Capacity /\ h <= c /\ g <= h
  BY Sizes DEF Place, Notify, One
<1>2. /\ c \in Nat /\ o \in Nat /\ b \in Nat /\ b <= c /\ c - b < Capacity /\ c - g < Capacity
      /\ o > 0 => c - b >= PoolSize * (RootSize - MemPools) - 1
  BY WindowBounds, Sizes DEF Book, RootTyped, Indices
<1>3. /\ beginPos = b % Capacity /\ endPos = c % Capacity /\ Size = c - b
  BY SizeCounts DEF Window
<1>4. o = 0 => b = 0
  BY Sizes
<1>5. g \in Int
  BY Sizes
<1> HIDE DEF b, c, o, g, f
<1>6. CASE b <= h
  BY <1>1, <1>6 DEF Notify, b, o
<1>7. CASE ~(b <= h)
  <2>1. h < b /\ c - b >= 1
    <3> DEFINE least == PoolSize * (RootSize - MemPools)
    <3>1. least \in Int /\ least >= 2
      BY Sizes
    <3>2. o > 0 => c - b >= least - 1
      BY <1>2
    <3> HIDE DEF least
    <3>3. o # 0
      BY <1>1, <1>4, <1>7
    <3>4. QED
      BY <1>2, <1>7, <3>1, <3>2, <3>3
  <2>2. beginPos # endPos
    <3>1. c \in Int /\ b \in Int /\ c - b \in 1..Capacity - 1
      BY <1>2, <2>1, Sizes
    <3>2. c % Capacity # b % Capacity
      BY <3>1, ModApart, Sizes
    <3>3. QED
      BY <1>3, <3>2
  <2>3. /\ (held - endPos) % Capacity = h - c + Capacity
        /\ (beginPos - endPos) % Capacity = b - c + Capacity
    <3>1. ASSUME NEW x \in Int, x < c, c - x < Capacity
          PROVE  ((x % Capacity) - (c % Capacity)) % Capacity = x - c + Capacity
      <4> DEFINE d == x - c
                 e == d + Capacity
                 one == 1
      <4>1. d \in Int /\ one \in Int /\ e = d + Capacity * one /\ d = x - c /\ c \in Int
        BY <1>2, Sizes
      <4>2. e \in 0..Capacity - 1
        BY <1>2, <3>1, Sizes
      <4> HIDE DEF d, e, one
      <4>3. ((x % Capacity) - (c % Capacity)) % Capacity = (x - c) % Capacity
        <5>1. c \in Int /\ x \in Int /\ Capacity \in Nat \ {0}
          BY <3>1, <4>1, Sizes
        <5>2. QED
          BY <5>1, ModDiff
      <4>4. (d + Capacity * one) % Capacity = d % Capacity
        BY <4>1, ModShift, Sizes
      <4>5. e % Capacity = e
        BY <4>2, ModSmall, Sizes
      <4>6. ((x % Capacity) - (c % Capacity)) % Capacity = e
        BY <4>1, <4>3, <4>4, <4>5, Zenon
      <4>7. QED
        BY <4>6 DEF d, e
    <3>2. h \in Int /\ h < c /\ c - h < Capacity
      BY <1>1, <1>2, <1>5, <2>1, Sizes
    <3>3. b \in Int /\ b < c /\ c - b < Capacity
      BY <1>2, <2>1
    <3>4. QED
      BY <1>1, <1>3, <3>1, <3>2, <3>3
  <2>4. (held - endPos) % Capacity \in 1..((beginPos - endPos) % Capacity) - 1
    BY <1>1, <1>2, <1>5, <2>1, <2>3, Sizes
  <2>5. Overwritten(held)
    BY <2>4 DEF Overwritten
  <2>6. QED
    BY <2>2, <2>5 DEF Notify
<1>8. QED
  BY <1>6, <1>7

\* So the iterator keeps its place.
LEMMA PlaceStep ==
  ASSUME CallBack, MemPools < RootSize, PoolSize * (RootSize - MemPools) >= 2,
         NEW saved \in Nat, Book(saved), Window(saved), Place(saved), [Next]_vars
  PROVE  IF Exchange THEN Place(saved + 1)' ELSE Place(saved)'
<1> DEFINE c == Counted
           o == Oldest(saved)
           f == saved + MemPools - RootSize
           w(j) == PoolSize * (saved + MemPools + One(j \in {"copy", "exchange"}) - RootSize)
           At(h) == heldRecord' = h + 1 /\ held' = h % Capacity
<1>1. /\ c \in Nat /\ o \in Nat /\ PoolSize * o <= c /\ c - PoolSize * o < Capacity
      /\ c - PoolSize * f < Capacity
  BY WindowBounds DEF Book, RootTyped, Indices
<1>2. \A j : w(j) \in Int
  BY Sizes DEF One
<1>3. \A j : j \notin {"copy", "exchange"} =>
        w(j) = PoolSize * f /\ w(j) <= w("copy") /\ w("copy") = w("exchange")
  BY Sizes DEF One
<1>4. w(job) <= PoolSize * o
  <2> DEFINE v == saved + MemPools + One(job \in {"copy", "exchange"}) - RootSize
  <2>1. v \in Int /\ v <= o
    BY Sizes DEF One, Oldest, Evicted
  <2> HIDE DEF v, o
  <2>2. PoolSize * v <= PoolSize * o
    BY <1>1, <2>1, MulAtMost, Sizes
  <2>3. QED
    BY <2>2 DEF v
<1> HIDE DEF w
<1>5. ASSUME UNCHANGED readerVars, c <= Counted', Counted' \in Nat, w(job') <= w(job)
      PROVE  Place(saved)'
  <2> SUFFICES ASSUME held # Absent PROVE Place(saved)'
    BY <1>5 DEF Place, readerVars
  <2>1. PICK h \in Nat : heldRecord = h + 1 /\ held = h % Capacity /\ h <= c /\ w(job) <= h
    BY DEF Place, w
  <2>2. w(job') <= h /\ h <= Counted'
    <3>1. w(job') \in Int /\ w(job) \in Int
      BY <1>2
    <3> HIDE DEF c
    <3>2. QED
      BY <1>1, <1>5, <2>1, <3>1
  <2>3. QED
    BY <1>5, <2>1, <2>2 DEF Place, readerVars, w
<1>6. CASE TakeIterator
  <2>1. PICK a \in Int : PoolSize * o <= a /\ a <= c /\ At(a)
    BY <1>6, IteratorTaken
  <2>2. a \in Nat /\ w(job) <= a
    <3> DEFINE b == PoolSize * o
    <3>1. b \in Nat /\ w(job) \in Int /\ w(job) <= b /\ b <= a
      BY <1>1, <1>2, <1>4, <2>1, Sizes
    <3> HIDE DEF b
    <3>2. QED
      BY <3>1
  <2>3. Counted' = c /\ job' = job
    BY <1>6 DEF TakeIterator, ringVars, Counted
  <2>4. ~Exchange
    BY <1>6 DEF TakeIterator, Exchange
  <2>5. QED
    BY <2>1, <2>2, <2>3, <2>4 DEF Place, w
<1>7. CASE AdvanceIterator
  <2>1. PICK h \in Nat : heldRecord = h + 1 /\ held = h % Capacity /\ h <= c /\ w(job) <= h
    BY <1>7 DEF Place, AdvanceIterator, w
  <2>2. h # c
    BY <1>7, <2>1 DEF AdvanceIterator, Window
  <2>3. held' = (h + 1) % Capacity
    <3>1. held' = ((h % Capacity) + 1) % Capacity
      BY <1>7, <2>1 DEF AdvanceIterator
    <3>2. ((h % Capacity) + 1) % Capacity = (h + 1) % Capacity
      <4>1. h \in Int /\ Capacity \in Nat \ {0}
        BY Sizes
      <4>2. QED
        BY <4>1, ModNext
    <3>3. QED
      BY <3>1, <3>2
  <2>4. h + 1 \in Nat /\ h + 1 <= c /\ w(job) <= h + 1 /\ heldRecord' = (h + 1) + 1
    <3>1. w(job) \in Int
      BY <1>2
    <3> HIDE DEF c
    <3>2. QED
      BY <1>1, <1>7, <2>1, <2>2, <3>1 DEF AdvanceIterator
  <2>5. Counted' = c /\ job' = job
    BY <1>7 DEF AdvanceIterator, ringVars, Counted
  <2>6. ~Exchange
    BY <1>7 DEF AdvanceIterator, Exchange
  <2>7. QED
    BY <2>3, <2>4, <2>5, <2>6 DEF Place, w
<1>8. CASE Notify
  <2>1. job = "notify" /\ job' = "copy" /\ Counted' = c /\ ~Exchange
    BY <1>8 DEF Notify, ringVars, Counted, Exchange
  <2>2. w("copy") <= PoolSize * o
    <3> DEFINE v == saved + MemPools + 1 - RootSize
    <3>1. v \in Int /\ v <= o /\ w("copy") = PoolSize * v
      BY <2>1, Sizes DEF One, Oldest, Evicted, w
    <3> HIDE DEF v, o
    <3>2. QED
      BY <1>1, <3>1, MulAtMost, Sizes
  <2>3. CASE held = Absent
    BY <1>8, <2>1, <2>3 DEF Place, Notify, readerVars
  <2>4. CASE held # Absent /\ UNCHANGED readerVars /\ PoolSize * o <= heldRecord - 1
    <3>1. PICK h \in Nat : heldRecord = h + 1 /\ held = h % Capacity /\ h <= c
      BY <2>4 DEF Place
    <3>2. w("copy") <= h
      BY <1>1, <1>2, <2>2, <2>4, <3>1, Sizes
    <3>3. QED
      BY <2>1, <2>4, <3>1, <3>2 DEF Place, readerVars, w
  <2>5. CASE held' = beginPos /\ heldRecord' = RecordAt(beginPos)
    <3> DEFINE b == PoolSize * o
    <3>1. b \in Nat /\ b <= c /\ c - b < Capacity
      BY <1>1, Sizes
    <3>2. beginPos = b % Capacity
      BY SizeCounts
    <3> HIDE DEF b
    <3>3. RecordAt(b % Capacity) = b + 1
      BY <1>1, <3>1, RecordOfPosition
    <3>4. At(b) /\ w("copy") <= b
      BY <2>2, <2>5, <3>2, <3>3 DEF b
    <3>5. QED
      BY <2>1, <3>1, <3>4 DEF Place, w
  <2>6. QED
    BY <1>8, <2>1, <2>3, <2>4, <2>5, CallBackCorrects
<1>9. CASE Exchange
  <2>1. UNCHANGED readerVars /\ Counted' = c /\ job = "exchange" /\ job' = "release"
    BY <1>9, ReaderSteps DEF Exchange, Counted, TakeIterator, AdvanceIterator, CountRecord,
                            Notify
  <2>2. PoolSize * ((saved + 1) + MemPools + One(job' \in {"copy", "exchange"}) - RootSize)
        = w(job)
    <3>1. (saved + 1) + MemPools + One(job' \in {"copy", "exchange"}) - RootSize
          = saved + MemPools + One(job \in {"copy", "exchange"}) - RootSize
      BY <2>1, Sizes DEF One
    <3>2. QED
      BY <3>1 DEF w
  <2>3. QED
    BY <1>9, <2>1, <2>2 DEF Place, readerVars, w
<1>10. CASE Evict /\ UNCHANGED readerVars
  <2>1. Counted' = c /\ ~Exchange /\ job = "evict"
        /\ (job' = "notify" \/ (job' = "copy" /\ saved + MemPools < RootSize))
    BY <1>10, EvictGivesUp DEF Evict, Exchange, Counted
  <2>2. CASE job' = "notify"
    <3>1. w(job') <= w(job)
      BY <1>2, <1>3, <2>1, <2>2
    <3>2. QED
      BY <1>1, <1>5, <1>10, <2>1, <3>1
  <2>3. CASE job' = "copy" /\ saved + MemPools < RootSize
    <3> DEFINE v == saved + MemPools + 1 - RootSize
    <3>1. v \in Int /\ v <= 0 /\ w("copy") = PoolSize * v
      BY <2>3, Sizes DEF One, w
    <3> HIDE DEF v
    <3>2. PoolSize * v <= PoolSize * 0
      BY <3>1, MulAtMost, Sizes
    <3>3. w("copy") <= 0
      BY <3>1, <3>2, Sizes
    <3>4. QED
      BY <1>2, <1>10, <2>1, <2>3, <3>3 DEF Place, readerVars, w
  <2>4. QED
    BY <2>1, <2>2, <2>3
<1>11. CASE ~Exchange /\ ~Evict /\ ~TakeIterator /\ ~AdvanceIterator /\ ~Notify
  <2>1. UNCHANGED readerVars /\ c <= Counted' /\ Counted' \in Nat
    <3>1. pushed \in Nat /\ producer \in {"idle", "acquire", "resume", "wake", "count"}
      BY DEF Book, RootTyped, Credits
    <3>2. CountRecord => Counted' = c + 1
      BY <3>1 DEF CountRecord, Counted
    <3>3. QED
      BY <1>1, <1>11, <3>2, ReaderSteps DEF readerVars
  <2>2. job' \in {"copy", "exchange"} <=> job \in {"copy", "exchange"}
    BY <1>11, CopyCopies
       DEF Next, PushStep, SwapperStep, Spurious, vars, ringVars, Push, Acquire, ResumeSwapper,
           WakeSwapper, CountRecord, StopItself, WakeItself, Copy, Release
  <2>3. w(job') = w(job)
    BY <2>2 DEF One, w
  <2>4. QED
    <3>1. w(job') <= w(job)
      BY <1>2, <2>3
    <3>2. QED
      BY <1>5, <1>11, <2>1, <3>1
<1>12. (Evict \/ Exchange) => UNCHANGED readerVars \/ TakeIterator \/ AdvanceIterator \/ Notify
  BY ReaderSteps
<1>13. QED
  BY <1>6, <1>7, <1>8, <1>9, <1>10, <1>11, <1>12

\* An iterator that is validated in every call-back goes on denoting its record, or the
\* oldest one that is left, whatever the producer does meanwhile: for every ring whose
\* file pools have room for two records.  (With room for one, the window is empty while
\* its only pool is given up, and validate does nothing.)
THEOREM ReaderAlwaysKeepsPlace ==
  ASSUME CallBack, MemPools < RootSize, PoolSize * (RootSize - MemPools) >= 2
  PROVE  Spec => []ReaderKeepsPlace
<1> DEFINE Inv == \E saved \in Nat : Book(saved) /\ Window(saved) /\ Place(saved)
<1>1. Init => Inv
  <2> SUFFICES ASSUME Init PROVE Inv
    OBVIOUS
  <2>1. Book(0)
    BY BookStarts
  <2>2. Oldest(0) = 0 /\ Counted = 0 /\ 0 % RootSize = 0 /\ 0 % Capacity = 0
    BY ModSmall, Sizes DEF Init, Oldest, Evicted, One, Counted
  <2>3. Window(0) /\ Place(0)
    BY <2>2, Sizes DEF Init, Window, Place
  <2>4. QED
    BY <2>1, <2>3
<1>2. Inv /\ [Next]_vars => Inv'
  <2> SUFFICES ASSUME NEW saved \in Nat, Book(saved), Window(saved), Place(saved), [Next]_vars
               PROVE  Inv'
    OBVIOUS
  <2>1. saved + 1 \in Nat
    OBVIOUS
  <2>2. CASE Exchange
    <3>1. Book(saved + 1)' /\ Window(saved + 1)' /\ Place(saved + 1)'
      BY <2>2, BookStep, WindowStep, PlaceStep
    <3>2. QED
      BY <2>1, <3>1
  <2>3. CASE ~Exchange
    <3>1. Book(saved)' /\ Window(saved)' /\ Place(saved)'
      BY <2>3, BookStep, WindowStep, PlaceStep
    <3>2. QED
      BY <3>1
  <2>4. QED
    BY <2>2, <2>3
<1>3. Inv => ReaderKeepsPlace
  <2> SUFFICES ASSUME NEW saved \in Nat, Book(saved), Window(saved), Place(saved),
                      held # Absent, job # "notify"
               PROVE  (held - beginPos) % Capacity <= Size /\ RecordAt(held) = heldRecord
    BY DEF ReaderKeepsPlace
  <2> DEFINE c == Counted
             b == PoolSize * Oldest(saved)
  <2>1. /\ c \in Nat /\ b \in Nat /\ b <= c /\ c - b < Capacity /\ Size = c - b
        /\ beginPos = b % Capacity /\ Oldest(saved) \in Nat
    BY WindowBounds, SizeCounts, Sizes DEF Book, RootTyped, Indices
  <2>2. PICK h \in Nat : /\ heldRecord = h + 1 /\ held = h % Capacity /\ h <= c
                         /\ PoolSize * (saved + MemPools + One(job \in {"copy", "exchange"})
                                        - RootSize) <= h
    BY DEF Place
  <2>3. b <= h
    BY <2>2, Sizes DEF Oldest, Evicted, One
  <2> HIDE DEF b, c
  <2>4. (held - beginPos) % Capacity = h - b
    <3>1. ((h % Capacity) - (b % Capacity)) % Capacity = (h - b) % Capacity
      <4>1. h \in Int /\ b \in Int /\ Capacity \in Nat \ {0}
        BY <2>1, Sizes
      <4>2. QED
        BY <4>1, ModDiff
    <3>2. h - b \in 0..Capacity - 1
      BY <2>1, <2>2, <2>3, Sizes
    <3>3. QED
      BY <2>1, <2>2, <3>1, <3>2, ModSmall, Sizes
  <2>5. RecordAt(h % Capacity) = h + 1
    <3>1. Counted \in Int /\ h \in Int /\ h <= Counted /\ Counted - h < Capacity
      BY <2>1, <2>2, <2>3, Sizes DEF c
    <3>2. QED
      BY <3>1, RecordOfPosition
  <2>6. QED
    BY <2>1, <2>2, <2>4, <2>5
<1>4. QED
  BY <1>1, <1>2, <1>3, PTL DEF Spec
=============================================================================
