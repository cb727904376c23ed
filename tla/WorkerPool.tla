----------------------------- MODULE WorkerPool -----------------------------
(***************************************************************************)
(* How a new connection gets its worker thread: the cursor nextPool_, an   *)
(* AtomicInt32 that is never reduced, in EventLoopContext::allocWorkerIndex *)
(* of thirdpart/https/ApiServer.h and, in the same form, in                *)
(* Context::setWorker of Framework/game_gate/EntryPtr.h.                   *)
(*                                                                         *)
(* The integer types are given by their greatest values.  getAndAdd is one *)
(* atomic step and everything after it works on the value it returned, so  *)
(* calls of different threads need not be told apart.                      *)
(***************************************************************************)
EXTENDS Integers

CONSTANTS INT_MAX,  \* the greatest int
          SIZE_MAX, \* the greatest size_t
          MaxSize,  \* bound: workers a server is started with
          MaxAlloc  \* bound: connections served

\* size_t is no narrower than unsigned int, and the pool's size is an int.
ASSUME PoolAssumption ==
  /\ INT_MAX \in Nat \ {0}
  /\ SIZE_MAX \in Nat /\ SIZE_MAX >= 2 * INT_MAX + 1
  /\ MaxSize \in 1..INT_MAX
  /\ MaxAlloc \in Nat

VARIABLES size,   \* pool_.size(), fixed when the server starts
          cursor, \* nextPool_
          index,  \* the index the last call has come to, -1 before the first
          load,   \* load[i]: history: connections given to pool_[i]
          served, \* history: connections served
          jumps   \* history: times nextPool_ overflowed or came back to 0

poolVars == <<size, cursor, index, load, served, jumps>>

Least == -INT_MAX - 1
Index == 0..(size - 1)

\* The types of the variables: the cursor and the index stay an int.
PoolTypeOK ==
  /\ size \in 1..MaxSize
  /\ cursor \in Least..INT_MAX
  /\ index \in Least..INT_MAX
  /\ load \in [Index -> 0..MaxAlloc]
  /\ served \in 0..MaxAlloc
  /\ jumps \in 0..MaxAlloc

-----------------------------------------------------------------------------
\* Mutant of Increment: the counter saturates.
IncrementSaturating(n) == IF n = INT_MAX THEN INT_MAX ELSE n + 1

\* Mutant of Increment: the counter is wider than an int.
IncrementWide(n) == n + 1

\* AtomicIntegerT<int32_t>::getAndAdd(1) wraps around.
Increment(n) == IF n = INT_MAX THEN Least ELSE n + 1

\* int to size_t, and size_t to int.
ToSize(n) == IF n < 0 THEN n + SIZE_MAX + 1 ELSE n
ToInt(u) ==
  LET low == u % (2 * INT_MAX + 2)
  IN  IF low > INT_MAX THEN low - (2 * INT_MAX + 2) ELSE low

\* Mutant of Slot: the remainder by one worker too many.
SlotPastEnd(n) == ToInt(ToSize(n) % (size + 1))

\* nextPool_.getAndAdd(1) % pool_.size(), assigned to an int.
Slot(n) == ToInt(ToSize(n) % size)

PoolInit ==
  /\ size \in 1..MaxSize
  /\ cursor = 0
  /\ index = -1
  /\ load = [i \in Index |-> 0]
  /\ served = 0
  /\ jumps = 0

\* allocWorkerIndex and setWorker: the branch for a negative index starts
\* the cursor over and leaves it at 0 (allocWorkerIndex) or at 1 (setWorker).
AllocWorkerIndex ==
  LET slot == Slot(cursor)
  IN /\ served < MaxAlloc
     /\ cursor' \in IF slot < 0 THEN {0, 1} ELSE {Increment(cursor)}
     /\ index' = IF slot < 0 THEN 0 ELSE slot
     /\ load' = [i \in Index |-> IF i = index' THEN load[i] + 1 ELSE load[i]]
     /\ served' = served + 1
     /\ jumps' = IF (cursor' < 0) # (cursor < 0) THEN jumps + 1 ELSE jumps
     /\ UNCHANGED size

PoolNext == AllocWorkerIndex

PoolSpec == PoolInit /\ [][PoolNext]_poolVars

-----------------------------------------------------------------------------
(* Properties *)

\* assert(index >= 0 && index < pool_.size()) of allocWorkerIndex: whatever
\* the cursor, overflowed or not, a connection goes to a worker of the pool.
IndexInPool == served > 0 => index \in Index

\* Workers are used in turn: two of them differ by at most one connection,
\* and each time the cursor overflows, or comes back to 0 from below, adds at
\* most one more.
Balanced == \A i, j \in Index : load[i] - load[j] <= 1 + jumps

\* The comment on the branch: an overflowing nextPool_ is started over, so
\* that no call leaves it negative once it was found to be.
OverflowStartsOver == [][cursor < 0 => cursor' >= 0]_poolVars
=============================================================================
