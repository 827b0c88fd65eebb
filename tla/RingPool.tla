------------------------------ MODULE RingPool ------------------------------
(***************************************************************************)
(* msdc::ring_pool (crs/msdc/ring_pool.h, crs/msdc/ring_pool.cpp): a ring  *)
(* of record pools.  One thread pushes records into memory pools; when one *)
(* is full, the swap thread copies the oldest full memory pool to the file *)
(* pool that is next in the ring, and exchanges the two.  The swap thread  *)
(* is a cPosixThread: its state and its steps come from PosixThread.       *)
(* Records are numbered in the order they are pushed; 0 is a zeroed one.   *)
(* A reader keeps an iterator, moves it, and may let validate correct it   *)
(* in the call-back that ring_pool makes when it gives records up.         *)
(***************************************************************************)
EXTENDS Integers

CONSTANTS RootSize,   \* _metrix.nRootSize: pools in the ring
          PoolSize,   \* _metrix.nPoolSize: records in a pool
          MemPools,   \* how many of the pools are memory pools
          MaxPush,    \* bound: records pushed
          Reader,     \* the steps of the reader: "begin", "recent", "end", "forth"
          CallBack,   \* whether the reader validates its iterator in the call-back
          Absent      \* no iterator

ASSUME RingPoolAssumption ==
  /\ RootSize \in Nat /\ MemPools \in 2..RootSize
  /\ PoolSize \in Nat \ {0}
  /\ MaxPush \in Nat

VARIABLES
  root,          \* _root: kind, nCount and records of each pool
  currentPool,   \* _currentPool
  pool2Swap,     \* _nPool2Swap: the oldest memory pool
  pool2Swap2,    \* _nPool2Swap2: the file pool it is copied to
  beginPos,      \* _beginPos
  endPos,        \* _endPos
  credits,       \* the count of _semaphore
  pushed,        \* history: records stored
  producer,      \* where push is
  job,           \* where the swap thread's Step is
  held,          \* iterator::index of the reader's iterator
  heldRecord,    \* history: the record that it was made to denote
  at, runningFlag, activateFlag, terminateFlag, wakeupFlag, caller, owner

Thread == INSTANCE PosixThread WITH
  Users <- {"producer", "swapper"}, StepResults <- {"again"}, StartedFirst <- TRUE

threadVars == <<at, runningFlag, activateFlag, terminateFlag, wakeupFlag, caller, owner>>
ringVars == <<root, currentPool, pool2Swap, pool2Swap2, beginPos, endPos, credits, pushed>>
readerVars == <<held, heldRecord>>
vars == <<ringVars, producer, job, threadVars, readerVars>>

Pools == 0..RootSize - 1
Slots == 0..PoolSize - 1
Capacity == RootSize * PoolSize

RootIdx(pos) == (pos \div PoolSize) % RootSize
PoolIdx(pos) == pos % PoolSize

Init ==
  /\ root = [p \in Pools |-> [kind  |-> IF p < MemPools THEN "mem" ELSE "file",
                              count |-> 0,
                              data  |-> [s \in Slots |-> 0]]]
  /\ currentPool = 0 /\ pool2Swap = 0 /\ pool2Swap2 = MemPools
  /\ beginPos = 0 /\ endPos = 0
  /\ credits = MemPools - 1
  /\ pushed = 0
  /\ producer = "idle" /\ job = "stop"
  /\ held = Absent /\ heldRecord = 0
  /\ Thread!Init

-----------------------------------------------------------------------------
(* push.                                                                   *)

\* The record is stored; a full pool makes the producer go on to the next one.
Push ==
  /\ producer = "idle" /\ pushed < MaxPush
  /\ LET count == root[currentPool].count
     IN  /\ root' = [root EXCEPT ![currentPool].data[count] = pushed + 1,
                                 ![currentPool].count = count + 1]
         /\ IF count + 1 = PoolSize
            THEN currentPool' = (currentPool + 1) % RootSize /\ producer' = "acquire"
            ELSE producer' = "count" /\ UNCHANGED currentPool
  /\ pushed' = pushed + 1
  /\ UNCHANGED <<pool2Swap, pool2Swap2, beginPos, endPos, credits, job, threadVars>>

Acquire ==
  /\ producer = "acquire" /\ credits > 0
  /\ credits' = credits - 1
  /\ producer' = "resume"
  /\ UNCHANGED <<root, currentPool, pool2Swap, pool2Swap2, beginPos, endPos, pushed,
                 job, threadVars>>

ResumeSwapper ==
  /\ producer = "resume"
  /\ Thread!Resume("producer")
  /\ producer' = "wake"
  /\ UNCHANGED <<ringVars, job>>

WakeSwapper ==
  /\ producer = "wake"
  /\ Thread!UserWakes("producer")
  /\ producer' = "count"
  /\ UNCHANGED <<ringVars, job>>

CountRecord ==
  /\ producer = "count"
  /\ endPos' = (endPos + 1) % Capacity
  /\ producer' = "idle"
  /\ UNCHANGED <<root, currentPool, pool2Swap, pool2Swap2, beginPos, credits, pushed,
                 job, threadVars>>

PushStep == (Acquire \/ ResumeSwapper \/ WakeSwapper \/ CountRecord) /\ UNCHANGED readerVars

-----------------------------------------------------------------------------
(* Step of the swap thread: Stop, then _swap.                              *)

StopItself ==
  /\ at = "step" /\ job = "stop"
  /\ Thread!Stop("swapper")
  /\ job' = "wake"
  /\ UNCHANGED <<ringVars, producer>>

WakeItself ==
  /\ at = "step" /\ job = "wake"
  /\ Thread!UserWakes("swapper")
  /\ job' = "evict"
  /\ UNCHANGED <<ringVars, producer>>

\* Fault: one more pool than necessary is given up.
EvictTwo ==
  /\ at = "step" /\ job = "evict"
  /\ beginPos' = IF RootIdx(beginPos) = pool2Swap2
                 THEN ((pool2Swap2 + 2) % RootSize) * PoolSize ELSE beginPos
  /\ job' = IF beginPos' = beginPos THEN "copy" ELSE "notify"
  /\ UNCHANGED <<root, currentPool, pool2Swap, pool2Swap2, endPos, credits, pushed,
                 producer, threadVars>>

\* Fault: the first pool to be overwritten is looked for one pool too late.
EvictLate ==
  /\ at = "step" /\ job = "evict"
  /\ beginPos' = IF RootIdx(beginPos) = (pool2Swap2 + RootSize - 1) % RootSize
                 THEN pool2Swap2 * PoolSize ELSE beginPos
  /\ job' = IF beginPos' = beginPos THEN "copy" ELSE "notify"
  /\ UNCHANGED <<root, currentPool, pool2Swap, pool2Swap2, endPos, credits, pushed,
                 producer, threadVars>>

\* increment_begin_iter: the pool that will be overwritten leaves the window.  The
\* releases that follow change nothing in this class (see CompositeCore).
Evict ==
  /\ at = "step" /\ job = "evict"
  /\ beginPos' = IF RootIdx(beginPos) = pool2Swap2
                 THEN ((pool2Swap2 + 1) % RootSize) * PoolSize ELSE beginPos
  /\ job' = IF beginPos' = beginPos THEN "copy" ELSE "notify"
  /\ UNCHANGED <<root, currentPool, pool2Swap, pool2Swap2, endPos, credits, pushed,
                 producer, threadVars>>

\* The file pool takes the records of the memory pool.  If either pool is not of
\* its kind, the cast gives a null pointer.
Copy ==
  /\ at = "step" /\ job = "copy"
  /\ LET from == pool2Swap % RootSize
         to   == pool2Swap2 % RootSize
     IN  IF root[from].kind = "mem" /\ root[to].kind = "file"
         THEN /\ root' = [root EXCEPT ![to].data = root[from].data,
                                      ![to].count = root[from].count]
              /\ job' = "exchange"
         ELSE job' = "crashed" /\ UNCHANGED root
  /\ UNCHANGED <<currentPool, pool2Swap, pool2Swap2, beginPos, endPos, credits, pushed,
                 producer, threadVars>>

\* Fault: the memory pool keeps its count.
ExchangeKeepingCount ==
  /\ at = "step" /\ job = "exchange"
  /\ root' = [root EXCEPT ![pool2Swap] = root[pool2Swap2],
                          ![pool2Swap2] = root[pool2Swap]]
  /\ pool2Swap2' = (pool2Swap2 + 1) % RootSize
  /\ pool2Swap' = (pool2Swap + 1) % RootSize
  /\ job' = "release"
  /\ UNCHANGED <<currentPool, beginPos, endPos, credits, pushed, producer, threadVars>>

\* The pools change places; the memory pool is cleared, though not its records.
Exchange ==
  /\ at = "step" /\ job = "exchange"
  /\ root' = [root EXCEPT ![pool2Swap] = root[pool2Swap2],
                          ![pool2Swap2] = [root[pool2Swap] EXCEPT !.count = 0]]
  /\ pool2Swap2' = (pool2Swap2 + 1) % RootSize
  /\ pool2Swap' = (pool2Swap + 1) % RootSize
  /\ job' = "release"
  /\ UNCHANGED <<currentPool, beginPos, endPos, credits, pushed, producer, threadVars>>

\* Fault: the producer is not told that a memory pool is free.
ReleaseNothing ==
  /\ job = "release"
  /\ Thread!StepReturns("again")
  /\ job' = "stop"
  /\ UNCHANGED <<ringVars, producer>>

Release ==
  /\ job = "release"
  /\ credits' = credits + 1
  /\ Thread!StepReturns("again")
  /\ job' = "stop"
  /\ UNCHANGED <<root, currentPool, pool2Swap, pool2Swap2, beginPos, endPos, pushed,
                 producer>>

-----------------------------------------------------------------------------
(* A reader and its iterator.                                              *)

\* size (), and the number of records that push has counted.
Size == (endPos - beginPos) % Capacity
Counted == IF producer = "idle" THEN pushed ELSE pushed - 1

\* The record at a position between begin () and end (); end () is the next one.
RecordAt(pos) == Counted + 1 - ((endPos - pos) % Capacity)

\* The iterators that ring_pool makes.
TakeIterator ==
  /\ \/ "begin" \in Reader /\ held' = beginPos
     \/ "end" \in Reader /\ held' = endPos
     \/ "recent" \in Reader /\ held' = IF beginPos = endPos THEN endPos
                                      ELSE (endPos - 1) % Capacity
  /\ heldRecord' = RecordAt(held')
  /\ UNCHANGED <<ringVars, producer, job, threadVars>>

\* operator++: the index counts on; the ring looks at its low bits.  (A reader that
\* walks backwards to begin () may miss it when begin () moves past its iterator; the
\* model's reader walks forwards.)
AdvanceIterator ==
  /\ "forth" \in Reader
  /\ held \notin {Absent, endPos}
  /\ held' = (held + 1) % Capacity /\ heldRecord' = heldRecord + 1
  /\ UNCHANGED <<ringVars, producer, job, threadVars>>

\* Fault: the last of the positions that were given up is kept.
OverwrittenShort(pos) ==
  (pos - endPos) % Capacity \in 1..((beginPos - endPos) % Capacity) - 2

\* validate: whether a position is behind end () and before begin ().
Overwritten(pos) ==
  (pos - endPos) % Capacity \in 1..((beginPos - endPos) % Capacity) - 1

\* notifyValidateIterators: a call-back, if there is one, validates the iterator.
Notify ==
  /\ at = "step" /\ job = "notify"
  /\ IF CallBack /\ held # Absent /\ beginPos # endPos /\ Overwritten(held)
     THEN held' = beginPos /\ heldRecord' = RecordAt(beginPos)
     ELSE UNCHANGED readerVars
  /\ job' = "copy"
  /\ UNCHANGED <<ringVars, producer, threadVars>>

SwapperStep ==
  \/ (StopItself \/ WakeItself \/ Evict \/ Copy \/ Exchange \/ Release) /\ UNCHANGED readerVars
  \/ Notify
  \/ /\ Thread!Start \/ Thread!TestTerminate \/ Thread!TestActive \/ Thread!Wait
     /\ UNCHANGED <<ringVars, producer, job, readerVars>>

Spurious == Thread!SpuriousWakeup /\ UNCHANGED <<ringVars, producer, job, readerVars>>

-----------------------------------------------------------------------------
Next == (Push /\ UNCHANGED readerVars) \/ PushStep \/ SwapperStep \/ Spurious
        \/ TakeIterator \/ AdvanceIterator

Spec == Init /\ [][Next]_vars

\* A push that was begun goes on as far as the semaphore lets it, and the swap
\* thread is scheduled.
FairSpec == Spec /\ WF_vars(PushStep) /\ WF_vars(SwapperStep)

-----------------------------------------------------------------------------
\* Type invariant.
TypeOK ==
  /\ root \in [Pools -> [kind : {"mem", "file"}, count : 0..PoolSize,
                         data : [Slots -> 0..MaxPush]]]
  /\ currentPool \in Pools /\ pool2Swap \in Pools
  /\ pool2Swap2 \in Pools \cup {MemPools}
  /\ beginPos \in 0..Capacity - 1 /\ endPos \in 0..Capacity - 1
  /\ credits \in 0..MemPools - 1
  /\ pushed \in 0..MaxPush
  /\ producer \in {"idle", "acquire", "resume", "wake", "count"}
  /\ job \in {"stop", "wake", "evict", "notify", "copy", "exchange", "release", "crashed"}
  /\ held \in {Absent} \cup 0..Capacity - 1
  /\ heldRecord \in 0..MaxPush + 1

\* push never writes past the end of a pool, nor into one that is not in memory:
\* the credits keep the producer behind the swap thread (lines 204-210).
PushHasRoom ==
  producer = "idle" =>
    root[currentPool].kind = "mem" /\ root[currentPool].count < PoolSize

\* _swap finds a memory pool to save and a file pool to save it in (lines 189-191).
SwapFindsPools == job # "crashed"

\* Neither thread meets a pool that it cannot use.
PoolsFit == TypeOK /\ PushHasRoom /\ SwapFindsPools

\* Between begin () and end () are exactly the latest records, in their order,
\* while pools are copied and exchanged under the reader.
WindowReadable ==
  \A d \in 1..Size :
    LET pos == (endPos - d) % Capacity
    IN  root[RootIdx(pos)].data[PoolIdx(pos)] = Counted + 1 - d

\* Records are given up only when the ring has come round: what the file pools hold
\* can always be read, but for one record, because a pool is evicted before the
\* record that filled the newest one is counted (lines 204-212).
KeepsLatest ==
  LET promised == (RootSize - MemPools) * PoolSize - 1
  IN  Size >= IF Counted < promised THEN Counted ELSE promised

\* An iterator that is validated in every call-back goes on denoting its record, or
\* the oldest one that is left, in spite of pushes meanwhile: the producer never comes
\* round to where validate would take an old position for a new one (lines 215-231).
ReaderKeepsPlace ==
  held # Absent /\ job # "notify" =>
    (held - beginPos) % Capacity <= Size /\ RecordAt(held) = heldRecord

\* The same for a reader that calls validate now and then, without the call-back.
ValidateIsEnough ==
  held # Absent /\ beginPos # endPos /\ ~Overwritten(held) => RecordAt(held) = heldRecord

\* The producer does not wait for ever (push, line 208).
ProducerGoesOn == producer = "acquire" ~> producer # "acquire"

\* A full pool in memory, asked to be saved, is saved: with two memory pools no
\* Resume is lost between the thread's test and its Stop.
FullPoolsAreSaved ==
  \A p \in Pools :
    (root[p].kind = "mem" /\ root[p].count = PoolSize) ~> root[p].kind = "file"

\* Both threads go on.
RingGoesOn == ProducerGoesOn /\ FullPoolsAreSaved
=============================================================================
