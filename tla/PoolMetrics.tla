---------------------------- MODULE PoolMetrics ----------------------------
(***************************************************************************)
(* msdc::ring_pool::bit_mask_calculator (crs/msdc/ring_pool.{h,cpp}): from *)
(* the sizes a caller wishes it derives sizes that are powers of two, and  *)
(* the masks that split a position into a pool and a place in the pool.    *)
(***************************************************************************)
EXTENDS Integers, FiniteSetsExt

CONSTANTS Digits,       \* numeric_limits<size_t>::digits
          CharDigits    \* numeric_limits<unsigned char>::digits

Words == 0..2^Digits - 1
BitSet(n, bit) == (n \div 2^bit) % 2 = 1

VARIABLES desired,   \* desiredPoolSize, desiredRootSize
          metrics    \* what the calculator makes of them

\* The shift is the number of binary digits of the pool size wished, CharDigits at least.
Shift(pool) == Max({CharDigits} \cup {b \in CharDigits..Digits : BitSet(pool, b - 1)})

\* Fault: the size is rounded down to a power of two.
RootMaskDown(root, shift) ==
  2^Max({1} \cup {b \in 1..Digits - shift - 1 : BitSet(root, b)}) - 1

\* The root's mask: as many digits as the size wished has, of the digits that are left.
\* (A wish whose highest digit is the last one left is judged by its lower digits.)
RootMask(root, shift) ==
  LET rootDigits == Digits - shift - 1
      all        == 2^(rootDigits + 1) - 1
      digits     == {b \in 1..rootDigits : BitSet(root, b - 1)}
  IN  IF shift = Digits THEN 0
      ELSE IF root < all /\ digits # {} THEN 2^Max(digits) - 1 ELSE all

Calculate(pool, root) ==
  LET shift == Shift(pool)
      mask  == RootMask(root, shift)
  IN  [shift |-> shift, poolSize |-> (2^shift) % 2^Digits, poolMask |-> 2^shift - 1,
       rootSize |-> mask + 1, rootMask |-> mask, usedBits |-> 2^shift - 1 + mask * 2^shift]

Init ==
  /\ desired \in [pool : Words, root : Words]
  /\ metrics = Calculate(desired.pool, desired.root)

Next == UNCHANGED <<desired, metrics>>

\* root_idx and pool_idx; the masks are of the form 2^n - 1.
RootIdx(idx) == (idx \div 2^metrics.shift) % (metrics.rootMask + 1)
PoolIdx(idx) == idx % (metrics.poolMask + 1)

\* A ring has the room that was asked for, if the word allows it, and every position
\* below its capacity is one place of one pool, the successor of the last being the
\* first (lines 30-85; ring_pool.h 72-86).
MetricsFit ==
  desired.pool < 2^(Digits - 1) =>
    /\ metrics.poolSize > desired.pool
    /\ desired.root \in 1..2^(Digits - metrics.shift - 1) - 1 => metrics.rootSize > desired.root
    /\ metrics.usedBits = metrics.poolSize * metrics.rootSize - 1
    /\ \A idx \in 0..metrics.usedBits :
         /\ RootIdx(idx) \in 0..metrics.rootSize - 1
         /\ idx = RootIdx(idx) * metrics.poolSize + PoolIdx(idx)
    /\ RootIdx(metrics.usedBits + 1) = 0 /\ PoolIdx(metrics.usedBits + 1) = 0
=============================================================================
