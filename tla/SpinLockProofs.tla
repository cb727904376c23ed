--------------------------- MODULE SpinLockProofs ---------------------------
(***************************************************************************)
(* Proofs about SpinLock, for any set of threads and any bound.   The two  *)
(* properties are inductive together with the types: sync_ rises only in   *)
(* notify(), which also signals a sleeper if there is one; a thread falls  *)
(* asleep only while sync_ is down; and whoever is awake or late lowers    *)
(* sync_ when it leaves or finds it down when it sleeps again.             *)
(***************************************************************************)
EXTENDS SpinLock, TLAPS

IInv == TypeOK /\ NoLostWakeup /\ OneWaitPerNotify

\* Leaving wait() uses up the notification that sync_ stands for.
LEMMA LeaveIInv ==
  ASSUME IInv, NEW t \in Threads, Leave(t)
  PROVE  IInv'
<1>1. TypeOK'
  <2>1. pc' \in [Threads -> {"out", "asleep", "awake", "late"}]
    BY DEF IInv, TypeOK, Leave
  <2>2. credit' \in 0..MaxCredit
    BY CreditAssumption DEF IInv, TypeOK, OneWaitPerNotify, Leave
  <2> QED BY <2>1, <2>2 DEF IInv, TypeOK, Leave
<1>2. NoLostWakeup' BY DEF NoLostWakeup, Leave
<1>3. OneWaitPerNotify' BY DEF IInv, TypeOK, OneWaitPerNotify, Leave
<1> QED BY <1>1, <1>2, <1>3 DEF IInv

\* The loop condition of wait() leaves, or sleeps with sync_ down.
LEMMA TestSyncIInv ==
  ASSUME IInv, NEW t \in Threads, TestSync(t)
  PROVE  IInv'
<1>1. CASE Leave(t) BY <1>1, LeaveIInv
<1>2. CASE ~sync /\ pc' = [pc EXCEPT ![t] = "asleep"] /\ UNCHANGED <<sync, credit>>
  <2>1. TypeOK' BY <1>2 DEF IInv, TypeOK
  <2>2. NoLostWakeup' BY <1>2 DEF NoLostWakeup
  <2>3. OneWaitPerNotify' BY <1>2 DEF IInv, OneWaitPerNotify
  <2> QED BY <2>1, <2>2, <2>3 DEF IInv
<1> QED BY <1>1, <1>2 DEF TestSync

\* notify() sets sync_ and leaves a sleeper alone only when another one is
\* on its way.
LEMMA NotifyIInv ==
  ASSUME IInv, Notify
  PROVE  IInv'
<1>1. TypeOK'
  <2>1. pc' \in [Threads -> {"out", "asleep", "awake", "late"}]
    BY DEF IInv, TypeOK, Notify, Signal, In
  <2>2. credit' \in 0..MaxCredit BY CreditAssumption DEF IInv, TypeOK, Notify
  <2> QED BY <2>1, <2>2 DEF IInv, TypeOK, Notify
<1>2. NoLostWakeup'
  <2>1. CASE In("asleep") = {} /\ UNCHANGED pc
    BY <2>1 DEF NoLostWakeup, In
  <2>2. ASSUME NEW t \in In("asleep"), pc' = [pc EXCEPT ![t] = "awake"]
        PROVE  NoLostWakeup'
    <3>1. t \in Threads /\ pc'[t] = "awake" BY <2>2 DEF In, IInv, TypeOK
    <3> QED BY <3>1 DEF NoLostWakeup, In
  <2> QED BY <2>1, <2>2 DEF Notify, Signal
<1>3. OneWaitPerNotify' BY CreditAssumption DEF IInv, TypeOK, OneWaitPerNotify, Notify
<1> QED BY <1>1, <1>2, <1>3 DEF IInv

\* A sleeper that wakes or expires stays on the way to mutex_.
LEMMA StirIInv ==
  ASSUME IInv, NEW t \in Threads, Expire(t) \/ Spurious(t)
  PROVE  IInv'
<1>1. TypeOK' BY DEF IInv, TypeOK, Expire, Spurious
<1>2. NoLostWakeup'
  <2>1. pc'[t] \in {"awake", "late"} BY DEF IInv, TypeOK, Expire, Spurious
  <2> QED BY <2>1 DEF NoLostWakeup, In
<1>3. OneWaitPerNotify' BY DEF IInv, OneWaitPerNotify, Expire, Spurious
<1> QED BY <1>1, <1>2, <1>3 DEF IInv

-----------------------------------------------------------------------------
\* The inductive invariant holds in every reachable state.
THEOREM Invariance == Spec => []IInv
<1>1. Init => IInv
  <2> SUFFICES ASSUME Init PROVE IInv OBVIOUS
  <2>1. TypeOK
    <3>1. 0 \in 0..MaxCredit BY CreditAssumption
    <3>2. pc \in [Threads -> {"out", "asleep", "awake", "late"}] BY DEF Init
    <3> QED BY <3>1, <3>2, Zenon DEF Init, TypeOK
  <2>2. NoLostWakeup BY DEF Init, NoLostWakeup
  <2>3. OneWaitPerNotify BY DEF Init, OneWaitPerNotify
  <2> QED BY <2>1, <2>2, <2>3 DEF IInv
<1>2. IInv /\ [Next]_vars => IInv'
  <2> SUFFICES ASSUME IInv, [Next]_vars PROVE IInv' OBVIOUS
  <2>1. CASE Notify BY <2>1, NotifyIInv
  <2>2. ASSUME NEW t \in Threads, Wait(t) \/ Recheck(t) PROVE IInv'
    BY <2>2, TestSyncIInv DEF Wait, Recheck
  <2>3. ASSUME NEW t \in Threads, Expire(t) \/ Spurious(t) PROVE IInv'
    BY <2>3, StirIInv
  <2>4. ASSUME NEW t \in Threads, GiveUp(t) PROVE IInv'
    BY <2>4, LeaveIInv DEF GiveUp
  <2>5. CASE UNCHANGED vars
    BY <2>5 DEF vars, IInv, TypeOK, NoLostWakeup, OneWaitPerNotify, In
  <2> QED BY <2>1, <2>2, <2>3, <2>4, <2>5 DEF Next
<1> QED BY <1>1, <1>2, PTL DEF Spec

\* The lock's state is always well typed.
THEOREM TypeCorrect == Spec => []TypeOK
<1>1. IInv => TypeOK BY DEF IInv
<1> QED BY <1>1, Invariance, PTL

\* notify() never leaves all its waiters asleep while sync_ is set, for any
\* number of threads.
THEOREM WakeupsAreNotLost == Spec => []NoLostWakeup
<1>1. IInv => NoLostWakeup BY DEF IInv
<1> QED BY <1>1, Invariance, PTL

\* A notification ends at most one wait early.
THEOREM NotificationsAreNotShared == Spec => []OneWaitPerNotify
<1>1. IInv => OneWaitPerNotify BY DEF IInv
<1> QED BY <1>1, Invariance, PTL
=============================================================================
