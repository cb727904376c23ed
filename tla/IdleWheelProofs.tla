-------------------------- MODULE IdleWheelProofs --------------------------
(***************************************************************************)
(* The time wheel is correct for every set of connections and every number *)
(* of buckets.  The safety properties are not inductive: what makes them   *)
(* so is the position of an Entry.  An Entry last inserted k ticks ago is  *)
(* in bucket Size - k and in no younger one (Slots), older buckets being   *)
(* left open; a connection that has no Entry on the wheel is fresh, closed *)
(* or has an update queued.                                                *)
(***************************************************************************)
EXTENDS IdleWheel, TLAPS

\* The youngest bucket holding c is the one its idle count names.
Slots ==
  \A c \in Conns :
    /\ idle[c] < Size => c \in buckets[Size - idle[c]]
    /\ \A i \in Slot : c \in buckets[i] => i <= Size - idle[c]

\* A connection not yet accepted has no Entry.
FreshIsOff == \A c \in Conns : conn[c] = "fresh" => idle[c] = Size /\ c \notin queued

\* An open connection is on the wheel or carried by a queued update.
UpIsOn == \A c \in Conns : conn[c] = "up" => idle[c] < Size \/ c \in queued

\* What ~Entry closed is disconnected and off the wheel.
ReapedIsOff ==
  \A c \in reaped : idle[c] = Size /\ c \notin queued /\ conn[c] \in {"closing", "gone"}

IInv == TypeOK /\ Slots /\ FreshIsOff /\ UpIsOn /\ ReapedIsOff

-----------------------------------------------------------------------------

\* An Entry is referenced exactly when it is younger than Size ticks or
\* carried by a queued update.
LEMMA ReferencedIsYoung ==
  ASSUME TypeOK, Slots, NEW c \in Conns
  PROVE  Referenced(c) <=> c \in queued \/ idle[c] < Size
<1> USE SizeAssumption DEF Slot
<1>1. ASSUME NEW i \in Slot, c \in buckets[i] PROVE idle[c] < Size
  <2>1. i <= Size - idle[c] /\ idle[c] \in 0..Size
    BY <1>1 DEF Slots, TypeOK
  <2> QED BY <2>1
<1>2. ASSUME idle[c] < Size PROVE \E i \in Slot : c \in buckets[i]
  <2>1. Size - idle[c] \in Slot
    BY <1>2 DEF TypeOK
  <2> QED BY <2>1, <1>2 DEF Slots
<1> QED BY <1>1, <1>2 DEF Referenced

\* What a tick destroys: the entries whose idle count is about to reach
\* Size and that no queued update carries.
LEMMA DroppedAreExpiring ==
  ASSUME TypeOK, Slots, NEW c \in Conns
  PROVE  c \in buckets[1] \ (queued \cup UNION {buckets[i] : i \in 2..Size})
           <=> idle[c] = Size - 1 /\ c \notin queued
<1> USE SizeAssumption DEF Slot
<1>1. idle[c] \in 0..Size
  BY DEF TypeOK
<1>2. ASSUME c \in buckets[1], \A i \in 2..Size : c \notin buckets[i]
      PROVE  idle[c] = Size - 1
  <2>1. 1 <= Size - idle[c]
    BY <1>2 DEF Slots
  <2>2. c \in buckets[Size - idle[c]]
    BY <2>1, <1>1 DEF Slots
  <2> QED BY <2>1, <2>2, <1>1, <1>2
<1>3. ASSUME idle[c] = Size - 1
      PROVE  c \in buckets[1] /\ \A i \in 2..Size : c \notin buckets[i]
  BY <1>1, <1>3 DEF Slots
<1> QED BY <1>2, <1>3

\* A new wheel is empty.
LEMMA InitIInv == Init => IInv
<1> SUFFICES ASSUME Init PROVE IInv
  OBVIOUS
<1>1. TypeOK
  <2>1. armed \in BOOLEAN
    BY DEF Init
  <2>2. idle \in [Conns -> 0..Size] /\ buckets \in [Slot -> SUBSET Conns]
    BY SizeAssumption DEF Init, Slot
  <2> QED BY <2>1, <2>2 DEF Init, TypeOK
<1>2. Slots /\ FreshIsOff /\ UpIsOn /\ ReapedIsOff
  BY SizeAssumption DEF Init, Slots, FreshIsOff, UpIsOn, ReapedIsOff, Slot
<1> QED BY <1>1, <1>2 DEF IInv

\* A pushed Entry is in the newest bucket and its clock starts.
LEMMA PushIInv == ASSUME IInv, NEW c \in Conns, Push(c) PROVE IInv'
<1> USE SizeAssumption DEF IInv, Slot
<1>0. /\ buckets' = [buckets EXCEPT ![Size] = @ \cup {c}]
      /\ idle' = [idle EXCEPT ![c] = 0]
  BY DEF TypeOK, Push, Lockable, InsertBack
<1>1. TypeOK'
  <2>1. conn' \in [Conns -> {"fresh", "up", "closing", "gone"}]
    BY DEF TypeOK, Push
  <2>2. buckets' \in [Slot -> SUBSET Conns]
    BY <1>0 DEF TypeOK
  <2>3. idle' \in [Conns -> 0..Size]
    BY <1>0 DEF TypeOK
  <2> QED BY <2>1, <2>2, <2>3 DEF TypeOK, Push
<1>2. Slots'
  BY <1>0 DEF TypeOK, Slots, Push
<1>3. (FreshIsOff /\ UpIsOn /\ ReapedIsOff)'
  BY <1>0 DEF TypeOK, FreshIsOff, UpIsOn, ReapedIsOff, Push
<1> QED BY <1>1, <1>2, <1>3

\* Queueing an update adds a reference and nothing else.
LEMMA QueueUpdateIInv == ASSUME IInv, NEW c \in Conns, QueueUpdate(c) PROVE IInv'
<1> USE SizeAssumption DEF IInv
<1>1. c \in queued \/ idle[c] < Size
  BY ReferencedIsYoung DEF QueueUpdate
<1>2. TypeOK' /\ Slots'
  BY DEF TypeOK, Slots, QueueUpdate
<1>3. (FreshIsOff /\ UpIsOn /\ ReapedIsOff)'
  BY <1>1 DEF TypeOK, FreshIsOff, UpIsOn, ReapedIsOff, QueueUpdate
<1> QED BY <1>2, <1>3

\* An update moves its reference into the newest bucket, or drops it.
LEMMA UpdateIInv == ASSUME IInv, NEW c \in Conns, Update(c) PROVE IInv'
<1> USE SizeAssumption DEF IInv
<1>1. CASE Lockable(c)
  <2>0. /\ buckets' = [buckets EXCEPT ![Size] = @ \cup {c}]
        /\ idle' = [idle EXCEPT ![c] = 0]
        /\ queued' = queued \ {c}
        /\ UNCHANGED <<conn, reaped, armed>>
    BY <1>1 DEF Update, InsertBack, Lockable
  <2>1. TypeOK'
    BY <2>0 DEF TypeOK, Slot
  <2>2. Slots'
    BY <2>0 DEF TypeOK, Slots, Slot
  <2>3. (FreshIsOff /\ UpIsOn /\ ReapedIsOff)'
    BY <1>1 DEF TypeOK, FreshIsOff, UpIsOn, ReapedIsOff, Update, Lockable
  <2> QED BY <2>1, <2>2, <2>3
<1>2. CASE ~Lockable(c)
  <2>1. conn[c] = "gone"
    BY <1>2 DEF Lockable, TypeOK, FreshIsOff, Update
  <2>2. UNCHANGED <<conn, reaped, buckets, idle, armed>> /\ queued' = queued \ {c}
    BY <1>2, <2>1 DEF Update, CloseIdle, TypeOK
  <2> QED
    BY <2>1, <2>2 DEF TypeOK, Slots, FreshIsOff, UpIsOn, ReapedIsOff, Slot
<1> QED BY <1>1, <1>2

\* A tick shifts the buckets as the clocks advance.
LEMMA PopIInv == ASSUME IInv, Pop PROVE IInv'
<1> USE SizeAssumption DEF IInv
<1> DEFINE D == {d \in Conns : idle[d] = Size - 1 /\ d \notin queued /\ conn[d] = "up"}
<1>1. /\ conn' = [d \in Conns |-> IF d \in D THEN "closing" ELSE conn[d]]
      /\ reaped' = reaped \cup D
  <2>1. {d \in buckets[1] \ (queued \cup UNION {buckets[i] : i \in 2..Size}) :
            conn[d] = "up"} = D
    BY DroppedAreExpiring DEF TypeOK, Slot
  <2> QED BY <2>1 DEF Pop, CloseIdle
<1>2. TypeOK'
  BY <1>1 DEF TypeOK, Pop, Rotated, Slot
<1>3. Slots'
  <2> USE DEF Slot
  <2>1. /\ buckets' = [i \in Slot |-> IF i < Size THEN buckets[i + 1] ELSE {}]
        /\ idle' = [c \in Conns |-> IF idle[c] < Size THEN idle[c] + 1 ELSE Size]
    BY DEF Pop, Rotated
  <2> SUFFICES ASSUME NEW c \in Conns
               PROVE  /\ idle'[c] < Size => c \in buckets'[Size - idle'[c]]
                      /\ \A i \in Slot : c \in buckets'[i] => i <= Size - idle'[c]
    BY DEF Slots
  <2>2. idle[c] \in 0..Size
    BY DEF TypeOK
  <2>3. ASSUME idle'[c] < Size PROVE c \in buckets'[Size - idle'[c]]
    <3>1. idle'[c] = idle[c] + 1 /\ idle[c] < Size
      BY <2>1, <2>2, <2>3
    <3>2. c \in buckets[Size - idle[c]]
      BY <3>1 DEF Slots
    <3>3. Size - idle'[c] \in Slot /\ Size - idle'[c] < Size
          /\ (Size - idle'[c]) + 1 = Size - idle[c]
      BY <2>2, <2>3, <3>1
    <3> QED BY <2>1, <3>2, <3>3
  <2>4. ASSUME NEW i \in Slot, c \in buckets'[i] PROVE i <= Size - idle'[c]
    <3>1. i < Size /\ c \in buckets[i + 1]
      BY <2>1, <2>4
    <3>2. i + 1 <= Size - idle[c]
      BY <3>1 DEF Slots
    <3> QED BY <2>1, <2>2, <3>2
  <2> QED BY <2>3, <2>4
<1>4. (FreshIsOff /\ UpIsOn)'
  BY <1>1 DEF TypeOK, FreshIsOff, UpIsOn, Pop
<1>5. ReapedIsOff'
  BY <1>1 DEF TypeOK, ReapedIsOff, Pop
<1> QED BY <1>2, <1>3, <1>4, <1>5

\* Every step preserves the invariant.
LEMMA NextIInv == IInv /\ [Next]_vars => IInv'
<1> SUFFICES ASSUME IInv, [Next]_vars PROVE IInv'
  OBVIOUS
<1> USE DEF IInv
<1>1. ASSUME NEW c \in Conns, Disconnect(c) PROVE IInv'
  BY <1>1 DEF Disconnect, TypeOK, Slots, FreshIsOff, UpIsOn, ReapedIsOff
<1>2. ASSUME NEW c \in Conns, Destroy(c) PROVE IInv'
  BY <1>2 DEF Destroy, TypeOK, Slots, FreshIsOff, UpIsOn, ReapedIsOff
<1>3. CASE UNCHANGED vars
  BY <1>3 DEF vars, TypeOK, Slots, FreshIsOff, UpIsOn, ReapedIsOff
<1>4. CASE Start
  BY <1>4 DEF Start, TypeOK, Slots, FreshIsOff, UpIsOn, ReapedIsOff
<1> QED
  BY <1>1, <1>2, <1>3, <1>4, PushIInv, QueueUpdateIInv, UpdateIInv, PopIInv DEF Next

\* In every reachable state the youngest bucket an Entry is in is the one its
\* idle count names, an open connection is in a bucket or carried by a queued
\* update, and a connection that ~Entry closed is in neither.
THEOREM Invariance == Spec => []IInv
BY InitIInv, NextIInv, PTL DEF Spec

\* Type correctness of the wheel.
THEOREM TypeCorrect == Spec => []TypeOK
<1>1. IInv => TypeOK
  BY DEF IInv
<1> QED BY <1>1, Invariance, PTL

\* No open connection escapes the wheel.
THEOREM NoneEscapes == Spec => []OnTheClock
<1>1. IInv => OnTheClock
  BY ReferencedIsYoung DEF IInv, OnTheClock, UpIsOn
<1> QED BY <1>1, Invariance, PTL

\* Only connections idle for Size whole ticks are closed by pop().
THEOREM OnlyIdleReaped == Spec => []ReapedWereIdle
<1>1. IInv => ReapedWereIdle
  BY DEF IInv, ReapedWereIdle, ReapedIsOff
<1> QED BY <1>1, Invariance, PTL

\* No connection stays open for Size ticks without traffic.
THEOREM TimeoutIsBounded == Spec => []NoneOutlivesTimeout
<1>1. IInv => NoneOutlivesTimeout
  BY DEF IInv, NoneOutlivesTimeout, UpIsOn
<1> QED BY <1>1, Invariance, PTL

\* A connection closed by ~Entry never gets back on the wheel.
THEOREM ReapedOnce == Spec => []ReapedStayOut
<1>1. ASSUME IInv, NEW c \in reaped PROVE ~Referenced(c)
  <2>1. c \in Conns /\ idle[c] = Size /\ c \notin queued
    BY <1>1 DEF IInv, TypeOK, ReapedIsOff
  <2>2. ~(idle[c] < Size)
    BY <2>1, SizeAssumption
  <2> QED BY <1>1, <2>1, <2>2, ReferencedIsYoung DEF IInv
<1>2. IInv => ReapedStayOut
  BY <1>1 DEF ReapedStayOut
<1> QED BY <1>2, Invariance, PTL

-----------------------------------------------------------------------------

\* Every step of the wheel is a step of the clocks or a stutter.
LEMMA StepRefines == IInv /\ [Next]_vars => [Timeout!Next]_(Timeout!vars)
<1> SUFFICES ASSUME IInv, [Next]_vars PROVE [Timeout!Next]_(Timeout!vars)
  OBVIOUS
<1> USE SizeAssumption DEF IInv
<1>1. ASSUME NEW c \in Conns, Push(c) PROVE Timeout!Open(c)
  BY <1>1 DEF Push, Lockable, TypeOK, Timeout!Open
<1>2. ASSUME NEW c \in Conns, QueueUpdate(c) PROVE Timeout!Arrive(c)
  <2>1. idle[c] < Size \/ c \in queued
    BY <1>2, ReferencedIsYoung DEF QueueUpdate
  <2>2. conn[c] # "fresh"
    BY <2>1 DEF FreshIsOff, TypeOK
  <2> QED BY <1>2, <2>1, <2>2 DEF QueueUpdate, Timeout!Arrive
<1>3. ASSUME NEW c \in Conns, Update(c) PROVE Timeout!Handle(c)
  <2>1. CASE Lockable(c)
    BY <1>3, <2>1 DEF Update, Lockable, Timeout!Handle
  <2>2. CASE ~Lockable(c)
    <3>1. conn[c] = "gone"
      BY <1>3, <2>2 DEF Lockable, TypeOK, FreshIsOff, Update
    <3>2. UNCHANGED <<conn, reaped, idle>>
      BY <1>3, <2>2, <3>1 DEF Update, CloseIdle, TypeOK
    <3> QED BY <1>3, <3>1, <3>2 DEF Update, Timeout!Handle
  <2> QED BY <2>1, <2>2
<1>4. ASSUME Pop PROVE Timeout!Tick
  <2>1. {d \in buckets[1] \ (queued \cup UNION {buckets[i] : i \in 2..Size}) :
            conn[d] = "up"} = Timeout!Expiring
    BY DroppedAreExpiring DEF TypeOK, Slot, Timeout!Expiring
  <2> QED BY <1>4, <2>1 DEF Pop, CloseIdle, Timeout!Tick
<1>5. ASSUME NEW c \in Conns, Disconnect(c) PROVE Timeout!Disconnect(c)
  BY <1>5 DEF Disconnect, Timeout!Disconnect
<1>6. ASSUME NEW c \in Conns, Destroy(c) PROVE Timeout!Destroy(c)
  BY <1>6 DEF Destroy, Timeout!Destroy
<1>7. CASE UNCHANGED vars
  BY <1>7 DEF vars, Timeout!vars
<1>8. CASE Start
  BY <1>8 DEF Start, Timeout!vars
<1> QED
  BY <1>1, <1>2, <1>3, <1>4, <1>5, <1>6, <1>7, <1>8 DEF Next, Timeout!Next

\* The wheel of buckets implements one idle clock per connection.
THEOREM WheelImplementsClock == Spec => Timeout!Spec
<1>1. Init => Timeout!Init
  BY DEF Init, Timeout!Init
<1> QED BY <1>1, StepRefines, Invariance, PTL DEF Spec, Timeout!Spec
=============================================================================
