------------------------------ MODULE SpinLock ------------------------------
(***************************************************************************)
(* utils::SpinLockImpl of thirdpart/Logger/src/lock/impl/SpinLockImpl.h:   *)
(* the flag on which a thread that made a remote call waits for its reply  *)
(* (lock_ of rpc::client::Service, one for all calls of a Service).        *)
(*                                                                         *)
(* mutex_ is held from the entry of wait() or notify() to its exit except  *)
(* inside cond_.wait_for, so what lies between two waits is one step.  A   *)
(* thread inside wait_for is asleep; once signalled (or woken spuriously)  *)
(* it is awake, once its time is up it is late, and in both cases it still *)
(* has to get mutex_ back.  The two overloads differ in the length of the  *)
(* timeout, which is not modelled: it may run out at any moment (with the  *)
(* default constructor timeout_ is not even initialised).                  *)
(***************************************************************************)
EXTENDS Naturals

CONSTANTS Threads,
          MaxCredit \* bound: unused notifications the history tells apart

ASSUME CreditAssumption == MaxCredit \in Nat \ {0}

VARIABLES pc,    \* pc[t]: out of wait(), or where in wait_for
          sync,  \* sync_
          credit \* history: calls of notify() that no wait has used, or MaxCredit

vars == <<pc, sync, credit>>

TypeOK ==
  /\ pc \in [Threads -> {"out", "asleep", "awake", "late"}]
  /\ sync \in BOOLEAN
  /\ credit \in 0..MaxCredit

In(where) == {t \in Threads : pc[t] = where}

Init ==
  /\ pc = [t \in Threads |-> "out"]
  /\ sync = FALSE
  /\ credit = 0

-----------------------------------------------------------------------------
\* Mutant of Leave: the flag stays up after the wait.
LeaveSet(t) ==
  /\ pc' = [pc EXCEPT ![t] = "out"]
  /\ sync' = sync
  /\ credit' = IF sync THEN credit - 1 ELSE credit

\* The end of wait(): sync_ = false, whatever ended the loop.  A wait that
\* finds sync_ set has used a notification.
Leave(t) ==
  /\ pc' = [pc EXCEPT ![t] = "out"]
  /\ sync' = FALSE
  /\ credit' = IF sync THEN credit - 1 ELSE credit

\* while (!sync_): leave, or sleep (again) in a new wait_for.
TestSync(t) ==
  \/ sync /\ Leave(t)
  \/ ~sync /\ pc' = [pc EXCEPT ![t] = "asleep"] /\ UNCHANGED <<sync, credit>>

\* A thread calls wait().
Wait(t) == pc[t] = "out" /\ TestSync(t)

\* wait_for returned in time.
Recheck(t) == pc[t] = "awake" /\ TestSync(t)

\* wait_for runs out of time; a signalled thread that gets mutex_ back only
\* after its deadline reports a timeout too.
Expire(t) ==
  /\ pc[t] \in {"asleep", "awake"}
  /\ pc' = [pc EXCEPT ![t] = "late"]
  /\ UNCHANGED <<sync, credit>>

\* Mutant of GiveUp: a timed-out wait is stuck until somebody notifies.
GiveUpIfSet(t) == pc[t] = "late" /\ sync /\ Leave(t)

\* ... == std::cv_status::timeout: break.
GiveUp(t) == pc[t] = "late" /\ Leave(t)

\* cond_.notify_one()
Signal ==
  \/ In("asleep") = {} /\ UNCHANGED pc
  \/ \E t \in In("asleep") : pc' = [pc EXCEPT ![t] = "awake"]

\* Mutant of Notify: cond_.notify_one() is missing.
NotifyNobody ==
  /\ sync' = TRUE
  /\ credit' = IF credit < MaxCredit THEN credit + 1 ELSE credit
  /\ UNCHANGED pc

\* notify(): raise sync_, then wake one sleeper.
Notify ==
  /\ sync' = TRUE
  /\ Signal
  /\ credit' = IF credit < MaxCredit THEN credit + 1 ELSE credit

Spurious(t) ==
  /\ pc[t] = "asleep"
  /\ pc' = [pc EXCEPT ![t] = "awake"]
  /\ UNCHANGED <<sync, credit>>

Next ==
  \/ Notify
  \/ \E t \in Threads :
       Wait(t) \/ Recheck(t) \/ Expire(t) \/ GiveUp(t) \/ Spurious(t)

Spec == Init /\ [][Next]_vars

\* One wait_for that nobody interrupts.
TimesOut(t) == pc[t] = "asleep" /\ Expire(t)

\* A wait_for that is left alone runs out, and a thread that wants mutex_ gets
\* it.  A wakeup in time starts the timeout over (a new wait_for), so nothing
\* is assumed of a sleeper that is woken again and again.
FairSpec ==
  /\ Spec
  /\ \A t \in Threads : WF_vars(TimesOut(t)) /\ WF_vars(Recheck(t)) /\ WF_vars(GiveUp(t))

-----------------------------------------------------------------------------
(* Properties *)

\* No lost wakeup: while sync_ is set, nobody sleeps unless somebody is on
\* the way to mutex_, and that one clears sync_.
NoLostWakeup == sync /\ In("asleep") # {} => In("awake") \cup In("late") # {}

\* Every notify() ends at most one wait early: sync_ set is a notify() not
\* used up yet, so one reply is never taken for two.
OneWaitPerNotify == sync => credit > 0

\* Somebody other than t uses a notification.
Overtaken(t) == sync /\ ~sync' /\ pc'[t] = pc[t]

\* A wait() returns, notified or not, unless it is woken for nothing without
\* end: again and again spuriously, or by notifications that others use.
WaitReturns ==
  \A t \in Threads :
    <>[](pc[t] # "out") => \/ []<><<Spurious(t)>>_vars
                           \/ []<><<Overtaken(t)>>_vars
=============================================================================
