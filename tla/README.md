# A verification project for cppserver

TLA+ modules, TLC configurations and TLAPS proofs for the parts of this
distributed game server whose code is in the repository. The repository holds
the server's headers; almost no `.cc` file is included, so what can be modelled
faithfully are the classes implemented inline (section 7 says what that leaves). Handlers that are only declared
are modelled from how the headers use them and are marked external in
`PROJECT.json`.

Paths below are relative to `src/`.

## 1. Inventory

| Part | State | Operations | Interaction and difficulty |
|---|---|---|---|
| Idle time wheel, `Framework/game_gate/EntryPtr.h` (`Entry`, `Buckets`), same code in `thirdpart/https/ApiServer.h` (`ConnBucket`) | ring of sets of `shared_ptr<Entry>`, one per event loop | `push`, `update`, `pop`, `~Entry` | the lifetime of an `Entry` is a reference count shared by buckets and queued functors; ticks race queued updates and disconnections |
| Session maps, `Framework/game_gate/Entities.h` | `map[session]`, `map[userid]` of weak connections, each under its lock | `add`, `get`, `broadcast`, two `remove` | called from worker threads of different connections: relogin races the old connection's offline handler |
| Connection `Context`, `EntryPtr.h` | user id, session, worker, weak `Entry` | setters, `setWorker` | a connection is pinned to one worker; the cursor is shared and overflows |
| Backend nodes, `Framework/game_gate/clients/`, `rpc/client/RpcContainer.h` | names of active nodes and of nodes under repair | `repair`, `recover`, `remaining` | two maps read one after the other |
| RPC client, `rpc/client/RpcService_c.h` | reply pointers, one `SpinLock` | four blocking calls (declared) | a reply may come after its call timed out |
| `SpinLockImpl`, `thirdpart/Logger/src/lock/impl/` | `sync_`, mutex, condition variable | `wait`, `notify` | timeouts, spurious wakeups, several waiters |
| Game record, `public/gameStruct.h` (`tagGameReplay`) | three vectors of flagged slots | `clear`, `addResult`, `addPlayer`, `addStep` | slots are reused for every round |
| Thirteen cards, `Games/Game_s13s/s13s.h` | hands with a tree of groups and pointers into themselves | `copy`, `swap`, destructor; the algorithms are declared | manual ownership, aliasing |
| Distributed lock and MongoDB holders, `thirdpart/RedisLock/redlock.h`, `thirdpart/MongoDB/MongoDBClient.h` | a thread-local object and a process-wide key | `instance`, `reset`, destructor | one thread's `reset` acts on all |
| Connection buffer, `thirdpart/muduo-vip/muduo/net/Buffer.h` | storage and two indices | append, prepend, retrieve, unwrite, integers, line search, shrink | content moves inside the storage between a caller's operations; indices are unsigned |
| Text codecs, `thirdpart/https/aes.h`, `htmlcodec.h` | locals of a call | AES and DES encryption with padding, HTML entities | block boundaries, C strings against byte counts, order of replacements |
| Weighted choice, `thirdpart/Logger/src/rand/impl/StdRandomImpl.h` (`WeightImpl`) | weights, the indices they belong to, range | `init`, `shuffle`, `getResult`, `recover` | two vectors permuted together, boundaries of the range |
| Hall, login, router, api and game servers, the other games | | declarations | no bodies in the repository |
| muduo, websocket, zookeeper, curl, ... | | | vendored |

What makes each part correct:

* **time wheel**: no open connection escapes it; no busy one is closed; no silent
  one stays open; an entry is destroyed once.
* **session maps**: the newest login of a user stays reachable, whatever the old
  connection's handlers do; displaced connections are closed; nothing leaks.
* **worker cursor**: indices stay inside the pool when the counter overflows; the
  load stays even.
* **reply lock**: no lost wakeup; one reply is not taken for two; a wait that is not
  woken for nothing again and again ends.
* **game record**: a round's record shows that round only and does not grow.
* **hands**: each tree has one owner; a hand's pointers lead into itself.
* **backend nodes**: the number of nodes in service is one there really was.
* **thread-local holders**: key and variable agree; objects do not leak; a guard
  never unlocks with an object that is gone.
* **buffer**: bytes come out as they went in, each once and in order.
* **codecs**: decoding undoes encoding for the texts it is meant for; no call leaves
  its arrays; calls end.
* **weighted choice**: every index keeps the probability it was given.

`PROJECT.json` lists the hazards, each at its line, with the properties that
catch it going wrong.

## 2. Plan

1. *Done*: `IdleTimeout` (abstract), `IdleWheel`, `IdleWheelProofs`.
2. *Done*: `GateSessions`, `GateSessionsProofs`.
3. *Done*: `GameReplay`, `SpinLock`, `HandInfo` with proofs, `WorkerPool`.
4. *Done*: `NodeContainer`, `ThreadLocalSingleton`, composed in `WorkerThreads`,
   with `WorkerThreadsProofs`, which also holds the proofs about `WorkerPool`.
5. *Done*: `ByteStream` (abstract), `Buffer`, `BufferProofs`.
6. *Done*: `Cipher`, `HtmlCodec`, `Weights`, composed in `Helpers`, `HelpersProofs`.
7. Every safety property of a passing run is proved; what stays with TLC is listed
   at the end of section 6.
8. Given up, because the bodies are missing: the RPC calls over `SpinLock`, the
   dun groups of thirteen cards, a composed gate. Section 7 gives the reasons.

## 3. Modules

Every module starts from the source named in its header comment. Operators whose
comment begins with "Mutant of" are variants with a plausible bug; they are not
used by any specification and exist to show that the properties can fail.

**IdleTimeout / IdleWheel.** `buckets[1]` is the oldest bucket and `buckets[Size]`
is `buckets_.back()`. An `Entry` is identified with its connection. It exists
while it is in a bucket or in `queued`, the set of connections with an
`update(entry)` queued on the loop. `Pop` is the whole of `pop()`: rotate, destroy
the entries nobody refers to, re-arm. `Update` is `update()` and the destruction of
the functor that carried the entry. `idle` and `reaped` are history variables.
`IdleTimeout` knows no buckets: a clock per connection that closes at `Limit`.
Its `Expiring` set has to be what `Pop` destroys. The refinement maps `queued` to
`pending` and `Size` to `Limit`. The constructor arms no timer: `Start`, external, is
the owner's first `runAfter`. `push` is called in the connection's callback, which
holds the connection, so its `lock()` always succeeds; the other branch is in `Push`
and is never taken. `~Entry` and the connection's own life are external. Debug
logging is left out.

**GateSessions.** One step per method of `Entities.h` (each holds its lock for its
whole body); a handler that calls two methods takes two steps. The repository does
not show which `remove` overloads the offline handlers call and whether a login
reply may be handled after the offline handler: the variables `removals` and
`lateLogin` are chosen in the initial state and never change, so one run covers the
disciplined use and the loosest one, and a property that needs the discipline
(`NoLeak`, `PeerAlive`, `ClosedIsForgotten`) says so. `kick` holds the connections returned by `add` that are still to be closed.
`get` and `broadcast` of `entities_` change nothing and are left out.

**GameReplay.** `slots[l]` is a vector of `[item, flag]`; the fields other than the
flag are one abstract item. `StopsAt` is the search loop, `Put` its two branches.
`added` and `peak` are history variables.

**SpinLock.** The mutex makes everything between two waits one step. A thread in
`wait_for` is asleep; awake after a signal or a spurious wakeup; late when its
time is up. Both still have to get the mutex back, and things happen in between.
How long a timeout is does not matter: it may run out at any moment, which also
covers the uninitialised `timeout_` of the default constructor. Notifications and
spurious wakeups are unlimited; `credit`, the history of notifications no wait has
used, stops counting at `MaxCredit`.

**HandInfo.** Objects are addresses with members; `groups` is a set of pointers to
members of objects, `select_group_index` is the pointer it selects. `Copy` copies
the members in the code's sense (pointers as they are); it is also `operator=` and the
copy constructor, which are public but used by `swap` alone in the repository, so
they are no actions of their own: a copy kept beside its original would share its
tree. `Swap` is the three copies
and the destruction of the temporary. Cards are the player who was dealt them.
After a swap a pointer into `enum_groups` may dangle as well, because the vector
may have been reallocated; the model reads the member that is now there.

**WorkerPool.** `int` and `size_t` are given by their greatest values, `INT_MAX` and
`SIZE_MAX`, and both conversions are modelled. The pool size is chosen at start.
`index` is the local the assertion of `allocWorkerIndex` is about (`IndexInPool`). The
dead branch sets the cursor to 0 in `ApiServer.h` and to 1 in `EntryPtr.h`; the model
allows both.
`jumps` is history: how often the cursor changed its sign. At an overflow and when the
cursor comes back to 0 from below, the number converted to `size_t` jumps, and the turn
skips unless the pool's size divides the jump.

**ByteStream / Buffer.** `b` is the storage, a sequence, with the two indices counted
from 0 as in the code. Operators named as the methods transform such a record
(`makeSpace`, `append`, `retrieve`, ...), actions call them under the methods'
preconditions. An integer is the bytes it has in host memory, so network order is
the reverse and no byte value is lost. `case true:` of `appendInt*` and
`prependInt*` has no `break`; the model writes both orders, as the code does. `got` is
the value the last call returned; `fields` and `tracked` are history: what was written
and not yet read, field by field, a string being one field and an integer with
`v = true` two, until a read or an unwrite cuts a field. `ByteStream` knows one
string. The refinement mapping is `content <- Readable(b)`. `readFd` and its
variants are only declared; `EnsureWritableBytes` followed by `HasWritten` is what
they may do to the buffer.

**Cipher, HtmlCodec, Weights / Helpers.** A call is one step per turn of its loop.
OpenSSL is external: an encrypted block is the pair of schedule and plain block,
only the same schedule gives the block back, and a wrong one, AES or DES, gives any
block of `Garbage`. `Des_Encrypt` writes its blocks to `szCommand[1024]` without a
check, and `Des_Decrypt` cuts off as many bytes as the last decrypted one says:
`CommandSize` is the size of that array, and a write behind it (`DesOverrun`) or a cut
in front of the text (`DesUnderrun`) leads to the phase `undefined`, where nothing is
known of the process. Base64 text is the sequence of its blocks. The read in front of the array
that `ClearPadding` makes for a text of one block is a choice of both outcomes.
HTML texts are sequences of tokens, `&` and an entity's name being separate ones,
so that an entity can come about by accident, which is the interesting case;
the assumptions on `codes` hold of the table in `htmlcodec.h`. `replace_all` writes a
piece for each token and joins the pieces. `Sums` are the running sums of the weights;
a draw by weight
takes any number of its range. `Helpers` runs one call at a time, as a handler does.

**ThreadLocalSingleton, NodeContainer / WorkerThreads.** `specific` and `keyLive` are
the pthread key of the holder; deleting it takes every thread's value away and no
destructor runs. `Instance` follows `instance()` and `set()`, `EndThread` the key's
destructor, `GuardOpen` and `GuardClose` the scoped lock. `owner` is the external
view of Redis on one resource. `remaining()` is two counts in either order, since
C++ leaves the order of the operands open; the maps behind them have separate
locks. `WorkerThreads` lets a thread do one of the two things at a time and runs
`Expire` and the changes of nodes beside them.

## 4. Runs

| Run | Instance | Shows |
|---|---|---|
| `idle_wheel` | 2 connections, 4 buckets | the wheel's safety, its refinement of the clock with fairness, and that silent connections are closed |
| `gate_sessions` | 2 users, 3 connections, one or both overloads, logins in time or late | the race of relogin and offline handler in its loosest form; no leak and no expired peer under the discipline those properties name |
| `game_replay` | 2 items, rounds of up to 2 entries in each list | records of consecutive rounds of all length combinations |
| `spin_lock` | 3 threads, any number of notifications and spurious wakeups, of which 3 unused are counted | the lock's safety, and that a wait returns unless it is woken for nothing for ever |
| `hand_info` | 2 hands, 2 players, 3 trees | ownership of trees |
| `hand_info_swap` | 2 hands, 2 players, 2 trees | **violated**: see the first finding |
| `worker_pool` | 5-bit int, pools of 1 to 7, 120 connections | the assertion on the index, and balance over seven changes of the cursor's sign |
| `worker_pool_overflow` | the same | **violated**: see the second finding |
| `byte_buffer` | prepend area and initial size 2, storage up to 6 bytes, strings and integers of 1 and 2 bytes | the buffer's layout and assertions, integers arriving among strings, and the refinement of a string of bytes |
| `helpers` | AES blocks of 3 bytes, DES blocks of 2 and room for 3 of them, 5 keys, texts of up to 6 bytes with NUL and padding values; HTML texts of up to 4 tokens; up to 3 weights of 0 to 3 | round trips, which calls leave their arrays, fair draws, every call ends |
| `html_decode` | the same | **violated**: see the third finding |
| `worker_threads` | 2 threads, one of which also counts nodes, 2 objects, 2 nodes; objects and nodes are symmetric | holders, guards and `remaining()` under all interleavings |

Why the bounds are enough. Four buckets give an entry a first, a middle and a
last position, two connections the case where one is updated as the other
expires. Three connections and two users give a user an old, a new and a third
login, while another user goes on. Rounds of up to two entries include a shorter
round after a longer one, the case that leaves free slots. Three threads are the
signalled one, the one overtaking it and the one still asleep. A 5-bit cursor
changes its sign every 16 connections, and 7 does not divide the jump of an overflow,
so the turn really skips. Six bytes of storage let the buffer fill, enlarge, move its
content over itself and run into its prepend area. Texts of up to six bytes end
inside, at and behind a block, and with their padding inside, at and behind the DES
array; one of the keys has another DES schedule than the rest. Two objects are the one a reset gave up
and its successor. Deadlock checking is off where the model runs out
of connections (`gate_sessions`) or reaches `MaxAlloc` (`worker_pool*`).

Fairness. `IdleWheel`: a wheel that is used is started, `pop()` re-arms its own timer and an event loop runs every
queued functor, so `Start`, `Pop` and `Update` are weakly fair; traffic, disconnection and
destruction are not. `GateSessions`: worker threads run the tasks they were given
(`Kick` and the two halves of the offline handler). `SpinLock`: a `wait_for`
that is left alone runs out, and a thread that asks for the mutex gets it. A wakeup
in time leads to a new `wait_for` with the full timeout, so nothing is assumed of a
sleeper that is woken again and again: "every wait returns" is false of this code,
and `WaitReturns` says what is true, that only endless spurious wakeups or endless
notifications used by others keep a wait from ending. `Helpers`: the loops are plain code of one
thread, so a call that has begun goes on; that somebody calls is not assumed.

## 5. Findings

* `handinfo_t::swap` (`Games/Game_s13s/s13s.h:473`) copies the pointers of `groups`,
  which lead into the hand object they were made for; after a swap each hand's
  `groups` leads into the other hand, although line 568 describes it as the merge
  of the hand's own groups. No caller of `swap` is in the repository. Ownership
  of the trees, the point of `forswap`, is right (`OwnedOnce`).
* `allocWorkerIndex` (`thirdpart/https/ApiServer.h:359`): the branch commented as
  handling the overflow of `nextPool_` is never taken, because the remainder is
  computed in `size_t`. Harmless: the index stays within the pool (`IndexInPool`).
* `HTML::Decode` (`thirdpart/https/htmlcodec.h:321`) replaces `&amp;` first, while its
  comment (line 303) has it last; a text that spells out an entity does not survive
  `Encode` and `Decode` (`DecodeUndoesEncode`). `HtmlRoundTrip` covers the others.

Met while modelling, without a run of their own:

* `Buffer::appendInt16/32/64` and `prependInt*` with `v = true` write the integer twice
  (`Buffer.h:236`: no `break`), once in each order. `FieldsArrive` counts them as two
  fields.
* `Des_Encrypt` does not check that the padded text fits `szCommand[1024]` (`aes.h:247`),
  and `Des_Decrypt` with a wrong key may cut off more than there is (`aes.h:284`).
  `CipherRoundTrip` says that nothing else leaves these arrays.
* `AES_ECBEncrypt` pads or cuts a key to 16 bytes and `AES_ECBDecrypt` does not
  (`aes.h:167`): with keys of other AES lengths they do not fit together.
  `CipherRoundTrip` is about keys of 16 bytes and of no AES length. `aes.h:184` writes
  one byte behind the array, which the model takes for the terminator it is meant
  to be.
* After the first `reset()` of any thread no holder's destructor runs again
  (`redlock.h:138`, `MongoDBClient.h:173`); `HolderConsistent` is conditional on that.
* `remaining()` can return a number that never was when both maps move between its
  reads; `RemainingWasTrue` shows that this is the only way.

## 6. Proofs

All theorems hold for every value of the constants that meets the named
assumptions (a ring has at least one bucket; `NoUser`, `NoConn` and `None` are no
members of the sets they extend; bounds are natural numbers).

* **IdleWheelProofs.** The properties are not inductive: they do not say where an
  entry is. `IInv` adds that the youngest bucket holding an entry is the one its
  `idle` count names (`Slots`), that a fresh connection is nowhere, that an open
  one is on the wheel or in a queued update, and that a reaped one is in neither. `ReferencedIsYoung` and
  `DroppedAreExpiring` turn bucket positions into clock readings; with them every
  action preserves `IInv` and simulates a step of `IdleTimeout`
  (`WheelImplementsClock`).
* **GateSessionsProofs.** `IInv` relates the maps to the progress of offline
  handlers; `OfflineRemoves` is the heart: the second half of an offline handler
  removes its own connection, an expired one, or nothing. From it follow
  reachability, the absence of leaks, the assertion in `remove`, and the action
  property that an open connection is never unregistered.
* **GameReplayProofs.** `Shape` says that the round is a prefix of valid slots and
  the rest is free, and that a vector is as long as the longest round. Then
  the search stops behind the round and nowhere else (`StopsBehindRound`).
* **SpinLockProofs.** Types, `NoLostWakeup` and `OneWaitPerNotify` are inductive
  together: `credit` never falls below zero because `sync_` set means it is positive.
* **BufferProofs.** `IInv` is the types and `Placed`: the indices are ordered and the
  storage is never shorter than `kCheapPrepend`, which `retrieveAll` needs. Lemmas state
  what `CopyTo`, `Resize` and each method leave readable; with them every action is a
  step of `ByteStream` or a stutter (`Refinement`), for every prepend size.
  `FieldsArrive` follows from `Packed`: until a field is cut, the content is the fields
  in network order one behind the other, without a gap; fields can be added at both
  ends and taken off the front.
* **WorkerThreadsProofs.** For the holders: a thread's object is in no other thread's
  variable or guard (`Private`), key and variable agree while the key lives
  (`KeyAgrees`), and a lock to be given back belongs to a guard that will do so
  (`GuardsHold`). For `remaining()`: a call with one count has the right one as long as
  the map it counted stands still, or a difference that was true as long as the
  other does (`HalfCounted`). For `WorkerPool`: `PoolInv` says that the
  workers were served in turn since the cursor last changed its sign, so that those who
  had their turn are ahead by one, on top of differences that earlier changes of sign
  explain (`Rounds`). `IndexInPool` is part of it: the remainder is below the pool's size,
  which is an `int`, so the conversion back changes nothing. `Balanced` alone does not say whose turn it is and is not inductive.
* **HelpersProofs.** `HelpersInv` joins three invariants. `CipherInv`: what is
  encrypted so far are the first blocks of the padded text under the schedule of the
  key, inside the array as far as DES is concerned; what is decrypted so far is, under
  the same schedule, their front, and under another one some bytes of that number. At
  the end only the padding has to come off (`ClearPadded`, `CutString`), and the number
  read there can exceed the text only under another schedule (`DesUnderrunInv`). `HtmlInv`: the text being rewritten is
  the concatenation of one piece per token of the original (`Pieces`). `EncodeTurn` and
  `DecodeTurn` show that one `replace_all` takes the pieces of the entries done so far to
  those of one entry more; the second has to know that no entity comes about across
  the border of two pieces but the ones the original spells out (`NextName`, `Ends`).
  `RoundTrip` reads off the result. `WeightsInv`: `indxId_` is a permutation that leads
  each weight back to its place in the list given to `init()` (`Belongs`), also in the
  middle of a shuffle; position `n` is reached by the numbers between two running sums
  (`DrawnAt`), and an exchange does not change the total (`TotalExchange`).
* **HandInfoProofs.** `OwnedOnce` is inductive with the types, once a copy is known
  to equal its source.

Induction over data. The provers cannot use the library's induction theorems, whose
parameter is an operator. `LeastNat` takes their place: a set of naturals that is not
empty has a least element, so a claim about the naturals up to a length is proved by
looking at the least counterexample (`Induct`). The recursive functions (`FlattenSeq`,
`Sums`) are pinned down by exhibiting one function that satisfies their equation and
showing by `Induct` that any other agrees with it.

Assumptions of these theorems: `PoolAssumption` (`size_t` is at least as wide as
`unsigned`, the pool's size is an `int`), `CreditAssumption` (a bound that is not 0),
`GarbageAssumption` (a wrong key gives some block of bytes), `CipherAssumption` (blocks of up to 255 bytes,
since the padding is a byte; printable characters are greater than the values of the
padding; a key has no NUL in it and at least the bytes DES takes), `CodesAssumption` (the
table starts with `&`, and no two entries share a character or a name) and
`WeightListsAssumption` (`assert(sum_ >= 1)` of `init`; no weight is negative). That a block
is decrypted by the schedule it was encrypted with is built into `Cipher`. Sums of
weights are unbounded integers: an overflow of `sum_` is not covered.

Only model-checked: liveness (`SilentIsClosed`, `DisplacedIsClosed`,
`ClosedIsForgotten`, `WaitReturns`, `Finishes`) and the fairness part of
`ImplementsTimeout`, which are out of the prover's reach.

## 7. Not modelled

Most of the repository's lines are declarations, tables and vendored code. What has
a body, state of its own and more than one-line accessors is a small part of it,
and the modules were chosen from that part. Left out:

* *Servers, tables, players, robots, RPC calls, CRedLock, RedisClient, zookeeper
  client*: headers with declarations; the handlers' bodies are not in the repository.
  Where a handler touches modelled state it is an external action.
* *The RPC calls on one `SpinLock`* (`RpcService_c.h`): what a call does before and
  after `wait` is not known, so a property about late replies would be about an
  invented body.
* *Games*: `texas.h`, `suoha.h`, the `TableFrameSink.h` files and the card algorithms of
  `s13s.h` (the dun groups `dundata_t` and `groupdun_t` among them) are constants, state
  and declarations.
* *Nested `CGuardLock`s* (`redlock.h:157`): `ThreadLocalSingleton` has one guard in scope per
  thread. The debug assertion of `Repair::add` (`Container.h:19`) is left out: its callers
  are not in the repository.
* *`onUserLoginNotify`* (`Gate.h:113`) carries nothing in the repository that would
  order it against a later login; `GateSessions` lets it come at any time.
* *Constants and messages*: `gameConst.h`, error codes, message tables, generated
  protobuf code.
* *Logging, ini files, curl, timers, HTTP parsing, formatting*: input and output.
* *muduo, websocket++ and their examples*: vendored; `Buffer`, which the fork changed,
  is modelled, and of the others only what the server relies on, as external
  actions.
* `INT::Sessions` in `Entities.h` is used by no server.

`PROJECT.json` gives the reason for each component.
