----------------------------- MODULE IdleWheel -----------------------------
(***************************************************************************)
(* The time wheel that closes idle client connections of one event loop:   *)
(* Entry and Buckets of Framework/game_gate/EntryPtr.h, and the same wheel *)
(* as ConnBucket in thirdpart/https/ApiServer.h.                           *)
(*                                                                         *)
(* Each connection has one Entry, kept alive only by the shared pointers   *)
(* in the buckets and by the EntryPtr a queued update(entry) carries (the  *)
(* connection's Context holds a weak pointer).  The wheel is a circular    *)
(* buffer of Size buckets: a tick appends an empty bucket and so drops the *)
(* oldest; an Entry whose last reference goes is destroyed, and ~Entry     *)
(* closes its connection.  An Entry is identified with its connection.     *)
(***************************************************************************)
EXTENDS Naturals

CONSTANTS Conns,  \* the TcpConnection objects the loop ever serves
          Size    \* number of buckets: idle timeout / interval

ASSUME SizeAssumption == Size \in Nat \ {0}

VARIABLES conn,    \* conn[c]: fresh, up, closing (disconnected), gone (weak_ptr expired)
          buckets, \* buckets_: 1 is the oldest bucket, Size is buckets_.back()
          queued,  \* connections with an update(entry) queued on the loop
          armed,   \* the runAfter timer of pop() is pending
          idle,    \* history: ticks since the Entry was last put in a bucket
          reaped   \* history: connections ~Entry has closed

vars == <<conn, buckets, queued, armed, idle, reaped>>

Slot == 1..Size

TypeOK ==
  /\ conn \in [Conns -> {"fresh", "up", "closing", "gone"}]
  /\ buckets \in [Slot -> SUBSET Conns]
  /\ queued \in SUBSET Conns
  /\ armed \in BOOLEAN
  /\ idle \in [Conns -> 0..Size]
  /\ reaped \in SUBSET Conns

-----------------------------------------------------------------------------
(* The wheel *)

\* entry->weakConn_.lock() yields the connection.
Lockable(c) == conn[c] \in {"up", "closing"}

\* A shared_ptr to the Entry of c exists: weakEntry_.lock() yields it.
Referenced(c) == c \in queued \/ \E i \in Slot : c \in buckets[i]

\* Mutant of Rotated: the buffer has spare capacity and grows.
RotatedGrowing == [i \in 1..(Size + 1) |-> IF i <= Size THEN buckets[i] ELSE {}]

\* Mutant of Rotated: the oldest bucket becomes the newest, uncleared.
RotatedReusingOldest == [i \in Slot |-> IF i < Size THEN buckets[i + 1] ELSE buckets[1]]

\* buckets_.push_back(Bucket()) on a full circular buffer.
Rotated == [i \in Slot |-> IF i < Size THEN buckets[i + 1] ELSE {}]

\* buckets_.back().insert(entry)
InsertBack(c) == [buckets EXCEPT ![Size] = @ \cup {c}]

\* Mutant of CloseIdle: ~Entry without forceClose.
CloseNothing(D) == UNCHANGED <<conn, reaped>> /\ D \subseteq Conns

\* ~Entry for every Entry of D: close the connections that are still open.
CloseIdle(D) ==
  LET open == {c \in D : conn[c] = "up"}
  IN /\ conn' = [c \in Conns |-> IF c \in open THEN "closing" ELSE conn[c]]
     /\ reaped' = reaped \cup open

-----------------------------------------------------------------------------
(* Actions: everything below runs in the loop thread *)

\* Buckets(loop, size, interval): resize(size), and no timer yet.
Init ==
  /\ conn = [c \in Conns |-> "fresh"]
  /\ buckets = [i \in Slot |-> {}]
  /\ queued = {}
  /\ armed = FALSE
  /\ idle = [c \in Conns |-> Size]
  /\ reaped = {}

\* The wheel's owner schedules the first pop().
Start ==
  /\ ~armed
  /\ armed' = TRUE
  /\ UNCHANGED <<conn, buckets, queued, idle, reaped>>

\* A client is accepted; its Entry is created and pushed, in the callback
\* of the connection, which holds the connection object: lock() yields it.
Push(c) ==
  /\ conn[c] = "fresh"
  /\ conn' = [conn EXCEPT ![c] = "up"]
  /\ buckets' = IF Lockable(c)' THEN InsertBack(c) ELSE buckets
  /\ idle' = IF Lockable(c)' THEN [idle EXCEPT ![c] = 0] ELSE idle
  /\ UNCHANGED <<queued, armed, reaped>>

\* A handler locks the weak Entry of the Context and queues an update.
QueueUpdate(c) ==
  /\ Referenced(c)
  /\ queued' = queued \cup {c}
  /\ UNCHANGED <<conn, buckets, armed, idle, reaped>>

\* Mutant of Update: the reference is dropped, the wheel is not touched.
UpdateWithoutInsert(c) ==
  /\ c \in queued
  /\ queued' = queued \ {c}
  /\ CloseIdle({c} \ UNION {buckets[i] : i \in Slot})
  /\ UNCHANGED <<buckets, idle, armed>>

\* update(entry) inserts the entry if its connection object still exists;
\* then the functor's EntryPtr goes, maybe as the last one.
Update(c) ==
  /\ c \in queued
  /\ queued' = queued \ {c}
  /\ IF Lockable(c)
     THEN /\ buckets' = InsertBack(c)
          /\ idle' = [idle EXCEPT ![c] = 0]
          /\ UNCHANGED <<conn, reaped>>
     ELSE /\ UNCHANGED <<buckets, idle>>
          /\ CloseIdle({c} \ UNION {buckets[i] : i \in Slot})
  /\ UNCHANGED armed

\* Mutant of Pop: the oldest bucket's entries die whoever refers to them.
PopIgnoringReferences ==
  /\ armed
  /\ buckets' = Rotated
  /\ idle' = [c \in Conns |-> IF idle[c] < Size THEN idle[c] + 1 ELSE Size]
  /\ CloseIdle(buckets[1])
  /\ armed' = TRUE
  /\ UNCHANGED queued

\* pop(): drop the oldest bucket, destroy the entries nobody else refers
\* to, re-arm the timer.
Pop ==
  /\ armed
  /\ buckets' = Rotated
  /\ idle' = [c \in Conns |-> IF idle[c] < Size THEN idle[c] + 1 ELSE Size]
  /\ CloseIdle(buckets[1] \ (queued \cup UNION {buckets[i] : i \in 2..Size}))
  /\ armed' = TRUE
  /\ UNCHANGED queued

\* The peer or a kick closes the connection.
Disconnect(c) ==
  /\ conn[c] = "up"
  /\ conn' = [conn EXCEPT ![c] = "closing"]
  /\ UNCHANGED <<buckets, queued, armed, idle, reaped>>

\* The last TcpConnectionPtr goes: weakConn_ expires.
Destroy(c) ==
  /\ conn[c] = "closing"
  /\ conn' = [conn EXCEPT ![c] = "gone"]
  /\ UNCHANGED <<buckets, queued, armed, idle, reaped>>

Next ==
  \/ \E c \in Conns :
        Push(c) \/ QueueUpdate(c) \/ Update(c) \/ Disconnect(c) \/ Destroy(c)
  \/ Start \/ Pop

Spec == Init /\ [][Next]_vars

\* The owner starts the wheel, pop() re-arms its own timer and the loop runs
\* every queued functor.
FairSpec ==
  /\ Spec
  /\ WF_vars(Start)
  /\ WF_vars(Pop)
  /\ \A c \in Conns : WF_vars(Update(c))

-----------------------------------------------------------------------------
(* Properties *)

\* Every open connection is on the clock: some shared_ptr keeps its Entry
\* alive, so a later pop() will find it (no open socket escapes the wheel).
OnTheClock == \A c \in Conns : conn[c] = "up" => Referenced(c)

\* pop() never closes a connection that had traffic within the last Size
\* ticks: what ~Entry closed had been idle for Size whole ticks.
ReapedWereIdle == \A c \in reaped : idle[c] = Size

\* An open connection with no queued update has been idle for fewer than
\* Size ticks: none outlives the timeout.
NoneOutlivesTimeout ==
  \A c \in Conns : conn[c] = "up" /\ c \notin queued => idle[c] < Size

\* A connection that ~Entry closed is never referenced by the wheel again:
\* its Entry is destroyed once.
ReapedStayOut ==
  \A c \in reaped : ~Referenced(c)

\* The wheel implements a clock per connection.
Timeout == INSTANCE IdleTimeout WITH Limit <- Size, pending <- queued
ImplementsTimeout == Timeout!FairSpec

\* A connection whose traffic stops is eventually closed.
SilentIsClosed ==
  \A c \in Conns : <>[][~Update(c)]_vars => <>[](conn[c] # "up")
=============================================================================
