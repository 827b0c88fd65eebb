\* The default two memory pools: the ring comes round more than twice.
SPECIFICATION FairSpec
CONSTANTS
  RootSize = 4
  PoolSize = 2
  MemPools = 2
  MaxPush = 20
  Reader = {"begin", "recent", "end", "forth"}
  CallBack = TRUE
  Absent = Absent
INVARIANTS PoolsFit WindowReadable KeepsLatest ReaderKeepsPlace
PROPERTIES RingGoesOn
\* The producer stops after MaxPush records.
CHECK_DEADLOCK FALSE
