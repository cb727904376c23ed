------------------------ MODULE ThreadLocalSingleton ------------------------
(***************************************************************************)
(* The per-thread Redis lock client RedisLock::ThreadLocalSingleton and    *)
(* the scoped lock CGuardLock (thirdpart/RedisLock/redlock.h).  The same   *)
(* holder, without the scoped lock, keeps a thread's MongoDB client        *)
(* (thirdpart/MongoDB/MongoDBClient.h).                                    *)
(*                                                                         *)
(* pkey_ is one key for the process, created before main and deleted by    *)
(* the first reset() of any thread; with glibc that takes away the values  *)
(* of all threads, and a value set under a deleted key is ignored.         *)
(* CRedLock and the Redis servers are external: one resource, taken by     *)
(* Lock, taken or prolonged by ContinueLock, given back by Unlock or when  *)
(* its time to live is over.                                               *)
(***************************************************************************)
EXTENDS Naturals, FiniteSets

CONSTANTS
  Threads,   \* worker threads
  Objects,   \* addresses of CRedLock objects (bounds what can leak)
  NULL

VARIABLES
  running,   \* threads that have started and not ended
  s_value_,  \* s_value_[t]: the thread's object
  keyLive,   \* pkey_ has not been deleted
  specific,  \* specific[t]: the thread's value under pkey_
  heap,      \* objects that have been created and not deleted
  guard,     \* guard[t]: the CGuardLock in scope in the thread
  owner      \* who holds the resource, as Redis sees it

holderVars == <<running, s_value_, keyLive, specific, heap, guard, owner>>

Guards == [redLock : Objects, acquired : BOOLEAN, flag : BOOLEAN]
Owners == [redLock : Objects \cup {NULL}, acquired : BOOLEAN]

ASSUME NullAssumption == NULL \notin Objects \cup Guards \cup Owners

-----------------------------------------------------------------------------
HolderInit ==
  /\ running = {}
  /\ s_value_ = [t \in Threads |-> NULL]
  /\ keyLive = TRUE
  /\ specific = [t \in Threads |-> NULL]
  /\ heap = {}
  /\ guard = [t \in Threads |-> NULL]
  /\ owner = NULL

StartThread(t) ==
  /\ t \notin running
  /\ running' = running \cup {t}
  /\ UNCHANGED <<s_value_, keyLive, specific, heap, guard, owner>>

\* instance() in thread t returns o, a new object if the thread has none.
Instance(t, o) ==
  /\ t \in running
  /\ o \in IF s_value_[t] = NULL THEN Objects \ heap ELSE {s_value_[t]}
  /\ s_value_' = [s_value_ EXCEPT ![t] = o]
  /\ heap' = heap \cup {o}
  /\ specific' = IF s_value_[t] = NULL /\ keyLive THEN [specific EXCEPT ![t] = o]
                                                  ELSE specific
  /\ UNCHANGED <<running, keyLive>>

\* External: CRedLock::Lock and ContinueLock on behalf of object o.
Takes(o, acquired) ==
  owner = NULL \/ (acquired /\ owner = [redLock |-> o, acquired |-> TRUE])

\* Mutant of GuardOpen: takes pointer() for the object.
GuardOpenByPointer(t, acquired) ==
  LET o == s_value_[t]
  IN  /\ guard[t] = NULL /\ t \in running
      /\ guard' = [guard EXCEPT ![t] = [redLock |-> o, acquired |-> acquired,
                                        flag |-> Takes(o, acquired)]]
      /\ owner' = IF Takes(o, acquired) THEN [redLock |-> o, acquired |-> acquired]
                                        ELSE owner
      /\ UNCHANGED <<running, s_value_, keyLive, specific, heap>>

\* CGuardLock lock(REDISLOCK, resource, ttl, acquired).  A thread has one
\* guard in scope at a time: nested scopes are not modelled.
GuardOpen(t, acquired) ==
  \E o \in Objects :
    /\ guard[t] = NULL
    /\ Instance(t, o)
    /\ guard' = [guard EXCEPT ![t] = [redLock |-> o, acquired |-> acquired,
                                      flag |-> Takes(o, acquired)]]
    /\ owner' = IF Takes(o, acquired) THEN [redLock |-> o, acquired |-> acquired]
                                      ELSE owner

\* ~CGuardLock: a lock that was prolonged, or not obtained, is left alone.
\* External: Unlock gives back only what this object took.
GuardClose(t) ==
  /\ guard[t] # NULL
  /\ owner' = IF guard[t].flag /\ ~guard[t].acquired
                 /\ owner = [redLock |-> guard[t].redLock, acquired |-> FALSE]
                THEN NULL ELSE owner
  /\ guard' = [guard EXCEPT ![t] = NULL]
  /\ UNCHANGED <<running, s_value_, keyLive, specific, heap>>

\* Mutant of Reset: the key stays.
ResetKeepsKey(t) ==
  /\ t \in running
  /\ s_value_' = [s_value_ EXCEPT ![t] = NULL]
  /\ UNCHANGED <<running, keyLive, specific, heap, guard, owner>>

\* Mutant of Reset: the object is deleted as in the destructor.
ResetDeletes(t) ==
  /\ t \in running
  /\ heap' = heap \ {s_value_[t]}
  /\ keyLive' = FALSE /\ specific' = [u \in Threads |-> NULL]
  /\ s_value_' = [s_value_ EXCEPT ![t] = NULL]
  /\ UNCHANGED <<running, guard, owner>>

\* reset(), after a lost connection: the object is given up, not deleted.
Reset(t) ==
  /\ t \in running
  /\ keyLive' = FALSE /\ specific' = [u \in Threads |-> NULL]
  /\ s_value_' = [s_value_ EXCEPT ![t] = NULL]
  /\ UNCHANGED <<running, heap, guard, owner>>

\* The thread ends, outside every scope: destructor() runs if the thread
\* has a value under the key.  A lock the object had prolonged stays with
\* Redis and is nobody's.
EndThread(t) ==
  /\ t \in running /\ guard[t] = NULL
  /\ running' = running \ {t}
  /\ heap' = IF specific[t] # NULL THEN heap \ {s_value_[t]} ELSE heap
  /\ s_value_' = [s_value_ EXCEPT ![t] = NULL]
  /\ specific' = [specific EXCEPT ![t] = NULL]
  /\ owner' = IF owner # NULL /\ specific[t] # NULL /\ owner.redLock = s_value_[t]
                THEN [owner EXCEPT !.redLock = NULL] ELSE owner
  /\ UNCHANGED <<keyLive, guard>>

\* External: the time to live of the lock is over.
Expire ==
  /\ owner # NULL
  /\ owner' = NULL
  /\ UNCHANGED <<running, s_value_, keyLive, specific, heap, guard>>

\* What thread t does with its holder.
HolderStep(t) ==
  \/ StartThread(t)
  \/ \E o \in Objects : Instance(t, o) /\ UNCHANGED <<guard, owner>>
  \/ \E acquired \in BOOLEAN : GuardOpen(t, acquired)
  \/ GuardClose(t)
  \/ Reset(t)
  \/ EndThread(t)

-----------------------------------------------------------------------------
HolderTypeOK ==
  /\ running \subseteq Threads
  /\ {s_value_, specific} \subseteq [Threads -> Objects \cup {NULL}]
  /\ keyLive \in BOOLEAN
  /\ heap \subseteq Objects
  /\ guard \in [Threads -> Guards \cup {NULL}]
  /\ owner \in Owners \cup {NULL}

\* As long as no thread has reset its holder, key and variable of every
\* thread agree, so that the assertions of set() and destructor() hold, and
\* every object belongs to one running thread: none leaks.  A reset() of any
\* thread ends this for all of them.
HolderConsistent ==
  keyLive =>
    /\ \A t \in Threads : specific[t] = s_value_[t] /\ (s_value_[t] # NULL => t \in running)
    /\ \A t, u \in Threads : s_value_[t] = s_value_[u] => t = u \/ s_value_[t] = NULL
    /\ heap = {s_value_[t] : t \in Threads} \ {NULL}

\* The object a CGuardLock refers to exists until the guard has unlocked
\* with it, also when the holder is reset inside the guard's scope, and no
\* lock that is to be given back outlives the guards.
GuardIsAlive ==
  /\ \A t \in Threads : guard[t] # NULL => guard[t].redLock \in heap
  /\ owner # NULL /\ ~owner.acquired =>
       \E t \in Threads : guard[t] # NULL /\ guard[t].redLock = owner.redLock
=============================================================================
