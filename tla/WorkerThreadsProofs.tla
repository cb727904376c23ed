------------------------ MODULE WorkerThreadsProofs -------------------------
(***************************************************************************)
(* Proofs about WorkerThreads: the types, the per-thread lock client and   *)
(* the count of nodes in service, for any threads, objects and nodes; and  *)
(* about WorkerPool, which gives connections to the workers, for any width *)
(* of the integers and any number of workers.                              *)
(***************************************************************************)
EXTENDS WorkerThreads, WorkerPool, FiniteSetTheorems, TLAPS

\* An object belongs to one thread, and only that thread's guard uses it.
Private ==
  /\ \A t \in Threads : s_value_[t] # NULL => s_value_[t] \in heap /\ t \in running
  /\ \A t, u \in Threads : t # u /\ s_value_[t] # NULL => s_value_[t] # s_value_[u]
  /\ \A t, u \in Threads : t # u /\ guard[u] # NULL => guard[u].redLock # s_value_[t]

\* What the threads have under the key, and that nothing leaks while it lives.
KeyAgrees ==
  /\ \A t \in Threads : specific[t] = IF keyLive THEN s_value_[t] ELSE NULL
  /\ keyLive => \A o \in heap : \E t \in Threads : s_value_[t] = o

\* Guards refer to existing objects; a lock that is to be given back belongs
\* to a guard that will do so.
GuardsHold ==
  /\ \A t \in Threads : guard[t] # NULL => guard[t].redLock \in heap
  /\ owner # NULL /\ ~owner.acquired =>
       \E t \in Threads : /\ guard[t] # NULL
                          /\ guard[t].redLock = owner.redLock
                          /\ guard[t].flag /\ ~guard[t].acquired

HolderInv == HolderTypeOK /\ Private /\ KeyAgrees /\ GuardsHold

\* A call that has taken one count: if the map it has read has not changed
\* the count is still right, and if the other has not changed the difference
\* will be the number that was true then.
HalfCounted ==
  \A t \in Callers :
    /\ call[t].clients # -1 /\ call[t].repairing = -1 =>
         /\ "clients" \notin call[t].moved => call[t].clients = Cardinality(clients)
         /\ "names_" \notin call[t].moved =>
              call[t].clients - Cardinality(names_) \in call[t].seen
    /\ call[t].clients = -1 /\ call[t].repairing # -1 =>
         /\ "names_" \notin call[t].moved => call[t].repairing = Cardinality(names_)
         /\ "clients" \notin call[t].moved =>
              Cardinality(clients) - call[t].repairing \in call[t].seen
    /\ Counted(t) /\ ~({"clients", "names_"} \subseteq call[t].moved) =>
         call[t].clients - call[t].repairing \in call[t].seen
    /\ call[t].clients = -1 /\ call[t].repairing = -1 => call[t] = NoCall

NodeInv == NodeTypeOK /\ HalfCounted

IInv == HolderInv /\ NodeInv

-----------------------------------------------------------------------------
\* What instance() changes keeps the parts of the invariant that do not speak
\* of the lock, for the guards there are.
LEMMA InstanceStep ==
  ASSUME HolderInv, NEW t \in Threads, NEW o \in Objects, Instance(t, o)
  PROVE  /\ s_value_' \in [Threads -> Objects \cup {NULL}]
         /\ specific' \in [Threads -> Objects \cup {NULL}]
         /\ heap' \subseteq Objects /\ heap \subseteq heap' /\ o \in heap'
         /\ \A u \in Threads : s_value_'[u] = IF u = t THEN o ELSE s_value_[u]
         /\ \A u \in Threads : s_value_'[u] # NULL => s_value_'[u] \in heap' /\ u \in running
         /\ \A u, v \in Threads : u # v /\ s_value_'[u] # NULL => s_value_'[u] # s_value_'[v]
         /\ \A u, v \in Threads : u # v /\ guard[v] # NULL => guard[v].redLock # s_value_'[u]
         /\ KeyAgrees'
<1>1. /\ s_value_ \in [Threads -> Objects \cup {NULL}]
      /\ specific \in [Threads -> Objects \cup {NULL}]
      /\ heap \subseteq Objects /\ NULL \notin Objects
  BY NullAssumption DEF HolderInv, HolderTypeOK
<1>2. /\ t \in running
      /\ s_value_[t] = NULL => o \notin heap
      /\ s_value_[t] # NULL => o = s_value_[t]
      /\ s_value_' = [s_value_ EXCEPT ![t] = o]
      /\ heap' = heap \cup {o}
      /\ specific' = IF s_value_[t] = NULL /\ keyLive THEN [specific EXCEPT ![t] = o] ELSE specific
      /\ keyLive' = keyLive /\ running' = running
  BY DEF Instance
<1>3. \A u \in Threads : s_value_'[u] = IF u = t THEN o ELSE s_value_[u]
  BY <1>1, <1>2
<1>4. /\ s_value_' \in [Threads -> Objects \cup {NULL}]
      /\ specific' \in [Threads -> Objects \cup {NULL}]
      /\ heap' \subseteq Objects /\ heap \subseteq heap' /\ o \in heap'
  BY <1>1, <1>2
<1>5. \A u \in Threads : s_value_'[u] # NULL => s_value_'[u] \in heap' /\ u \in running
  BY <1>2, <1>3 DEF HolderInv, Private
<1>6. \A u, v \in Threads : u # v /\ s_value_'[u] # NULL => s_value_'[u] # s_value_'[v]
  <2> SUFFICES ASSUME NEW u \in Threads, NEW v \in Threads, u # v, s_value_'[u] # NULL
               PROVE  s_value_'[u] # s_value_'[v]
    OBVIOUS
  <2>1. \A w \in Threads : s_value_[w] # NULL => s_value_[w] \in heap
    BY DEF HolderInv, Private
  <2>2. \A x, y \in Threads : x # y /\ s_value_[x] # NULL => s_value_[x] # s_value_[y]
    BY DEF HolderInv, Private
  <2>3. o # NULL
    BY <1>1
  <2>4. CASE s_value_[t] = NULL
    BY <2>1, <2>2, <2>3, <2>4, <1>2, <1>3
  <2>5. CASE s_value_[t] # NULL
    BY <2>2, <2>3, <2>5, <1>2, <1>3
  <2>6. QED
    BY <2>4, <2>5
<1>7. \A u, v \in Threads : u # v /\ guard[v] # NULL => guard[v].redLock # s_value_'[u]
  BY <1>2, <1>3 DEF HolderInv, Private, GuardsHold
<1>8. KeyAgrees'
  <2>1. \A u \in Threads : specific[u] = IF keyLive THEN s_value_[u] ELSE NULL
    BY DEF HolderInv, KeyAgrees
  <2>2. keyLive => \A x \in heap : \E u \in Threads : s_value_[u] = x
    BY DEF HolderInv, KeyAgrees
  <2>3. \A u \in Threads : specific'[u] = IF keyLive THEN s_value_'[u] ELSE NULL
    <3>1. CASE s_value_[t] = NULL /\ keyLive
      BY <3>1, <2>1, <1>1, <1>2, <1>3
    <3>2. CASE ~(s_value_[t] = NULL /\ keyLive)
      BY <3>2, <2>1, <1>1, <1>2, <1>3
    <3>3. QED
      BY <3>1, <3>2
  <2>4. keyLive => \A x \in heap' : \E u \in Threads : s_value_'[u] = x
    <3> SUFFICES ASSUME keyLive, NEW x \in heap'
                 PROVE  \E u \in Threads : s_value_'[u] = x
      OBVIOUS
    <3>1. CASE x = o
      BY <3>1, <1>3
    <3>2. CASE x # o
      <4>1. PICK u \in Threads : s_value_[u] = x
        BY <3>2, <2>2, <1>2
      <4>2. x # NULL /\ (u = t => FALSE)
        BY <3>2, <4>1, <1>1, <1>2, <1>4
      <4>3. QED
        BY <4>1, <4>2, <1>3
    <3>3. QED
      BY <3>1, <3>2
  <2>5. QED
    BY <2>3, <2>4, <1>2 DEF KeyAgrees
<1>9. QED
  BY <1>3, <1>4, <1>5, <1>6, <1>7, <1>8

\* Every step of a thread with its holder keeps the invariant.
LEMMA HolderStepKeeps ==
  ASSUME HolderInv, NEW t \in Threads, HolderStep(t)
  PROVE  HolderInv'
<1>1. /\ running \subseteq Threads
      /\ s_value_ \in [Threads -> Objects \cup {NULL}]
      /\ specific \in [Threads -> Objects \cup {NULL}]
      /\ keyLive \in BOOLEAN /\ heap \subseteq Objects
      /\ guard \in [Threads -> Guards \cup {NULL}]
      /\ owner \in Owners \cup {NULL}
  BY DEF HolderInv, HolderTypeOK
<1>2. NULL \notin Objects /\ NULL \notin Guards /\ NULL \notin Owners
  BY NullAssumption
<1>3. CASE StartThread(t)
  BY <1>1, <1>3 DEF StartThread, HolderInv, HolderTypeOK, Private, KeyAgrees, GuardsHold
<1>4. ASSUME NEW o \in Objects, Instance(t, o), UNCHANGED <<guard, owner>> PROVE HolderInv'
  <2>1. running' = running /\ keyLive' = keyLive /\ guard' = guard /\ owner' = owner
    BY <1>4 DEF Instance
  <2>2. HolderTypeOK'
    BY <1>1, <1>4, <2>1, InstanceStep DEF HolderTypeOK
  <2>3. Private'
    BY <1>4, <2>1, InstanceStep DEF Private
  <2>4. KeyAgrees'
    BY <1>4, InstanceStep
  <2>5. GuardsHold'
    <3>1. heap \subseteq heap'
      BY <1>4, InstanceStep
    <3>2. QED
      BY <2>1, <3>1 DEF HolderInv, GuardsHold
  <2>6. QED
    BY <2>2, <2>3, <2>4, <2>5 DEF HolderInv
<1>5. ASSUME NEW acquired \in BOOLEAN, GuardOpen(t, acquired) PROVE HolderInv'
  <2>1. PICK o \in Objects :
          /\ guard[t] = NULL
          /\ Instance(t, o)
          /\ guard' = [guard EXCEPT ![t] = [redLock |-> o, acquired |-> acquired,
                                            flag |-> Takes(o, acquired)]]
          /\ owner' = IF Takes(o, acquired) THEN [redLock |-> o, acquired |-> acquired] ELSE owner
    BY <1>5 DEF GuardOpen
  <2> DEFINE g == [redLock |-> o, acquired |-> acquired, flag |-> Takes(o, acquired)]
             w == [redLock |-> o, acquired |-> acquired]
  <2>2. Takes(o, acquired) \in BOOLEAN
    BY DEF Takes
  <2>3. g \in Guards /\ g.redLock = o /\ g.acquired = acquired /\ g.flag = Takes(o, acquired)
    BY <2>2 DEF Guards
  <2>4. w \in Owners /\ w.redLock = o /\ w.acquired = acquired
    BY DEF Owners
  <2>5. guard' = [guard EXCEPT ![t] = g] /\ owner' = IF Takes(o, acquired) THEN w ELSE owner
    BY <2>1
  <2> HIDE DEF g, w
  <2>6. \A u \in Threads : guard'[u] = IF u = t THEN g ELSE guard[u]
    BY <1>1, <2>5
  <2>7. running' = running /\ keyLive' = keyLive
    BY <2>1 DEF Instance
  <2>8. HolderTypeOK'
    <3>1. guard' \in [Threads -> Guards \cup {NULL}] /\ owner' \in Owners \cup {NULL}
      BY <1>1, <2>3, <2>4, <2>5
    <3>2. QED
      BY <3>1, <1>1, <2>1, <2>7, InstanceStep DEF HolderTypeOK
  <2>9. Private'
    <3>1. \A u \in Threads : s_value_'[u] # NULL => s_value_'[u] \in heap' /\ u \in running'
      BY <2>1, <2>7, InstanceStep
    <3>2. \A u, v \in Threads : u # v /\ s_value_'[u] # NULL => s_value_'[u] # s_value_'[v]
      BY <2>1, InstanceStep
    <3>3. ASSUME NEW u \in Threads, NEW v \in Threads, u # v, guard'[v] # NULL
          PROVE  guard'[v].redLock # s_value_'[u]
      <4>1. \A x \in Threads : s_value_'[x] = IF x = t THEN o ELSE s_value_[x]
        BY <2>1, InstanceStep
      <4>2. CASE v = t
        <5>1. guard'[v].redLock = o /\ s_value_'[t] = o /\ o # NULL
          BY <4>1, <4>2, <2>3, <2>6, <1>2
        <5>2. QED
          BY <5>1, <3>2, <3>3, <4>2
      <4>3. CASE v # t
        <5>1. guard'[v] = guard[v]
          BY <4>3, <2>6
        <5>2. QED
          BY <5>1, <3>3, <2>1, InstanceStep
      <4>4. QED
        BY <4>2, <4>3
    <3>4. QED
      BY <3>1, <3>2, <3>3 DEF Private
  <2>10. KeyAgrees'
    BY <2>1, InstanceStep
  <2>11. GuardsHold'
    <3>1. heap \subseteq heap' /\ o \in heap'
      BY <2>1, InstanceStep
    <3>2. ASSUME NEW u \in Threads, guard'[u] # NULL PROVE guard'[u].redLock \in heap'
      BY <3>1, <3>2, <2>3, <2>6 DEF HolderInv, GuardsHold
    <3>3. ASSUME owner' # NULL, ~owner'.acquired
          PROVE  \E u \in Threads : /\ guard'[u] # NULL
                                    /\ guard'[u].redLock = owner'.redLock
                                    /\ guard'[u].flag /\ ~guard'[u].acquired
      <4>1. CASE Takes(o, acquired)
        <5>1. owner' = w /\ ~acquired
          BY <4>1, <3>3, <2>4, <2>5
        <5>2. guard'[t] = g /\ g # NULL
          BY <2>3, <2>6, <1>2
        <5>3. QED
          BY <5>1, <5>2, <4>1, <2>3, <2>4
      <4>2. CASE ~Takes(o, acquired)
        <5>1. owner' = owner
          BY <4>2, <2>5
        <5>2. PICK u \in Threads : /\ guard[u] # NULL
                                   /\ guard[u].redLock = owner.redLock
                                   /\ guard[u].flag /\ ~guard[u].acquired
          BY <5>1, <3>3 DEF HolderInv, GuardsHold
        <5>3. guard'[u] = guard[u]
          BY <5>2, <2>1, <2>6
        <5>4. QED
          BY <5>1, <5>2, <5>3
      <4>3. QED
        BY <4>1, <4>2
    <3>4. QED
      BY <3>2, <3>3 DEF GuardsHold
  <2>12. QED
    BY <2>8, <2>9, <2>10, <2>11 DEF HolderInv
<1>6. CASE GuardClose(t)
  <2>1. /\ guard[t] # NULL /\ guard' = [guard EXCEPT ![t] = NULL]
        /\ UNCHANGED <<running, s_value_, keyLive, specific, heap>>
        /\ owner' = owner \/ owner' = NULL
    BY <1>6 DEF GuardClose
  <2>2. \A u \in Threads : guard'[u] = IF u = t THEN NULL ELSE guard[u]
    BY <1>1, <2>1
  <2>3. HolderTypeOK' /\ Private' /\ KeyAgrees'
    <3>1. HolderTypeOK'
      BY <1>1, <2>1 DEF HolderTypeOK
    <3>2. Private'
      BY <2>1, <2>2 DEF HolderInv, Private
    <3>3. KeyAgrees'
      BY <2>1 DEF HolderInv, KeyAgrees
    <3>4. QED
      BY <3>1, <3>2, <3>3
  <2>4. GuardsHold'
    <3>1. \A u \in Threads : guard'[u] # NULL => guard'[u].redLock \in heap'
      BY <2>1, <2>2 DEF HolderInv, GuardsHold
    <3>2. ASSUME owner' # NULL, ~owner'.acquired
          PROVE  \E u \in Threads : /\ guard'[u] # NULL
                                    /\ guard'[u].redLock = owner'.redLock
                                    /\ guard'[u].flag /\ ~guard'[u].acquired
      <4>1. owner' = owner
        BY <3>2, <2>1
      <4>2. PICK u \in Threads : /\ guard[u] # NULL
                                 /\ guard[u].redLock = owner.redLock
                                 /\ guard[u].flag /\ ~guard[u].acquired
        BY <4>1, <3>2 DEF HolderInv, GuardsHold
      <4>3. u # t
        <5>1. SUFFICES ASSUME u = t PROVE FALSE
          OBVIOUS
        <5>2. owner \in Owners
          BY <1>1, <3>2, <4>1
        <5>3. owner = [redLock |-> guard[t].redLock, acquired |-> FALSE]
          BY <5>1, <5>2, <4>1, <4>2, <3>2 DEF Owners
        <5>4. owner' = NULL
          BY <5>1, <5>3, <4>2, <1>6 DEF GuardClose
        <5>5. QED
          BY <5>4, <3>2
      <4>4. QED
        BY <4>1, <4>2, <4>3, <2>2
    <3>3. QED
      BY <3>1, <3>2 DEF GuardsHold
  <2>5. QED
    BY <2>3, <2>4 DEF HolderInv
<1>7. CASE Reset(t)
  <2>1. /\ keyLive' = FALSE /\ specific' = [u \in Threads |-> NULL]
        /\ s_value_' = [s_value_ EXCEPT ![t] = NULL]
        /\ UNCHANGED <<running, heap, guard, owner>>
    BY <1>7 DEF Reset
  <2>2. \A u \in Threads : s_value_'[u] = IF u = t THEN NULL ELSE s_value_[u]
    BY <1>1, <2>1
  <2>3. HolderTypeOK'
    BY <1>1, <2>1 DEF HolderTypeOK
  <2>4. Private'
    <3>1. \A u, v \in Threads : u # v /\ guard[v] # NULL => guard[v].redLock # s_value_'[u]
      <4> SUFFICES ASSUME NEW u \in Threads, NEW v \in Threads, u # v, guard[v] # NULL
                   PROVE  guard[v].redLock # s_value_'[u]
        OBVIOUS
      <4>1. guard[v].redLock \in Objects
        BY <1>1 DEF Guards
      <4>2. guard[v].redLock # s_value_[u]
        BY DEF HolderInv, Private
      <4>3. QED
        BY <4>1, <4>2, <2>2, <1>2
    <3>2. QED
      BY <3>1, <2>1, <2>2 DEF HolderInv, Private
  <2>5. KeyAgrees'
    BY <2>1 DEF KeyAgrees
  <2>6. GuardsHold'
    BY <2>1 DEF HolderInv, GuardsHold
  <2>7. QED
    BY <2>3, <2>4, <2>5, <2>6 DEF HolderInv
<1>8. CASE EndThread(t)
  <2> DEFINE s == s_value_[t]
  <2>1. /\ t \in running /\ guard[t] = NULL /\ running' = running \ {t}
        /\ heap' = IF specific[t] # NULL THEN heap \ {s} ELSE heap
        /\ s_value_' = [s_value_ EXCEPT ![t] = NULL]
        /\ specific' = [specific EXCEPT ![t] = NULL]
        /\ owner' = (IF owner # NULL /\ specific[t] # NULL /\ owner.redLock = s
                      THEN [owner EXCEPT !.redLock = NULL] ELSE owner)
        /\ keyLive' = keyLive /\ guard' = guard
    BY <1>8 DEF EndThread
  <2>2. /\ \A u \in Threads : s_value_'[u] = IF u = t THEN NULL ELSE s_value_[u]
        /\ \A u \in Threads : specific'[u] = IF u = t THEN NULL ELSE specific[u]
    BY <1>1, <2>1
  <2>3. \A u \in Threads : specific[u] = IF keyLive THEN s_value_[u] ELSE NULL
    BY DEF HolderInv, KeyAgrees
  <2>4. owner' = NULL \/ owner' \in Owners
    <3>1. CASE owner # NULL /\ specific[t] # NULL /\ owner.redLock = s
      <4>1. owner \in Owners /\ owner' = [owner EXCEPT !.redLock = NULL]
        BY <3>1, <2>1, <1>1
      <4>2. QED
        BY <4>1 DEF Owners
    <3>2. QED
      BY <3>1, <2>1, <1>1
  <2>5. HolderTypeOK'
    BY <1>1, <2>1, <2>4 DEF HolderTypeOK
  <2>6. \A u \in Threads : guard[u] # NULL => guard[u].redLock # s /\ guard[u].redLock \in Objects
    <3> SUFFICES ASSUME NEW u \in Threads, guard[u] # NULL
                 PROVE  guard[u].redLock # s /\ guard[u].redLock \in Objects
      OBVIOUS
    <3>1. u # t
      BY <2>1
    <3>2. QED
      BY <3>1, <1>1 DEF HolderInv, Private, Guards
  <2>7. Private'
    <3>1. \A u \in Threads : s_value_'[u] # NULL => s_value_'[u] \in heap' /\ u \in running'
      BY <2>1, <2>2 DEF HolderInv, Private
    <3>2. \A u, v \in Threads : u # v /\ s_value_'[u] # NULL => s_value_'[u] # s_value_'[v]
      BY <2>2 DEF HolderInv, Private
    <3>3. \A u, v \in Threads : u # v /\ guard'[v] # NULL => guard'[v].redLock # s_value_'[u]
      BY <2>1, <2>2, <2>6, <1>2 DEF HolderInv, Private
    <3>4. QED
      BY <3>1, <3>2, <3>3 DEF Private
  <2>8. KeyAgrees'
    <3>1. \A u \in Threads : specific'[u] = IF keyLive' THEN s_value_'[u] ELSE NULL
      BY <2>1, <2>2, <2>3
    <3>2. ASSUME keyLive, NEW o \in heap' PROVE \E u \in Threads : s_value_'[u] = o
      <4>1. o \in heap /\ o # NULL
        BY <2>1, <1>1, <1>2
      <4>2. PICK u \in Threads : s_value_[u] = o
        BY <4>1, <3>2 DEF HolderInv, KeyAgrees
      <4>3. u # t
        BY <4>1, <4>2, <3>2, <2>1, <2>3
      <4>4. QED
        BY <4>2, <4>3, <2>2
    <3>3. QED
      BY <3>1, <3>2, <2>1 DEF KeyAgrees
  <2>9. GuardsHold'
    <3>1. \A u \in Threads : guard'[u] # NULL => guard'[u].redLock \in heap'
      BY <2>1, <2>6 DEF HolderInv, GuardsHold
    <3>2. ASSUME owner' # NULL, ~owner'.acquired
          PROVE  \E u \in Threads : /\ guard'[u] # NULL
                                    /\ guard'[u].redLock = owner'.redLock
                                    /\ guard'[u].flag /\ ~guard'[u].acquired
      <4>1. owner # NULL /\ owner \in Owners
        BY <3>2, <2>1, <1>1
      <4>2. ~owner.acquired
        BY <4>1, <3>2, <2>1 DEF Owners
      <4>3. PICK u \in Threads : /\ guard[u] # NULL
                                 /\ guard[u].redLock = owner.redLock
                                 /\ guard[u].flag /\ ~guard[u].acquired
        BY <4>1, <4>2 DEF HolderInv, GuardsHold
      <4>4. owner.redLock # s
        BY <4>3, <2>6
      <4>5. owner' = owner
        BY <4>4, <2>1
      <4>6. QED
        BY <4>3, <4>5, <2>1
    <3>3. QED
      BY <3>1, <3>2 DEF GuardsHold
  <2>10. QED
    BY <2>5, <2>7, <2>8, <2>9 DEF HolderInv
<1>9. QED
  BY <1>3, <1>4, <1>5, <1>6, <1>7, <1>8 DEF HolderStep

-----------------------------------------------------------------------------
\* The number of nodes in a set of nodes.
LEMMA CountIsSmall ==
  ASSUME NEW S, S \subseteq Nodes
  PROVE  /\ Cardinality(S) \in Nat /\ Cardinality(Nodes) \in Nat
         /\ Cardinality(S) <= Cardinality(Nodes)
<1>1. IsFiniteSet(Nodes)
  BY NodesAssumption
<1>2. IsFiniteSet(S) /\ Cardinality(S) <= Cardinality(Nodes)
  BY <1>1, FS_Subset
<1>3. QED
  BY <1>1, <1>2, FS_CardinalityType

\* A change of one map, with the history it writes, keeps the invariant.
LEMMA NodeChangeKeeps ==
  ASSUME NodeInv,
         \/ names_' = names_ /\ clients' \subseteq Nodes /\ Record("clients")
         \/ clients' = clients /\ names_' \subseteq Nodes /\ Record("names_")
  PROVE  NodeInv'
<1>1. clients \subseteq Nodes /\ names_ \subseteq Nodes /\ call \in [Callers -> Calls]
  BY DEF NodeInv, NodeTypeOK
<1>2. clients' \subseteq Nodes /\ names_' \subseteq Nodes
  BY <1>1
<1>3. PICK map \in {"clients", "names_"} :
        /\ map = "clients" => names_' = names_
        /\ map = "names_" => clients' = clients
        /\ Record(map)
  OBVIOUS
<1> DEFINE next(t) == IF InCall(t) /\ ~Counted(t) THEN [call[t] EXCEPT !.moved = @ \cup {map}]
                                                  ELSE call[t]
<1>4. call' = [t \in Callers |-> next(t)]
  BY <1>3 DEF Record
<1>5. \A t \in Callers : call'[t] = next(t)
  BY <1>4
<1>6. \A t \in Callers :
        /\ call'[t] \in Calls
        /\ call'[t].clients = call[t].clients
        /\ call'[t].repairing = call[t].repairing
        /\ call'[t].seen = call[t].seen
        /\ InCall(t) /\ ~Counted(t) => call'[t].moved = call[t].moved \cup {map}
        /\ ~(InCall(t) /\ ~Counted(t)) => call'[t].moved = call[t].moved
  <2> SUFFICES ASSUME NEW t \in Callers
               PROVE  /\ call'[t] \in Calls
                      /\ call'[t].clients = call[t].clients
                      /\ call'[t].repairing = call[t].repairing
                      /\ call'[t].seen = call[t].seen
                      /\ InCall(t) /\ ~Counted(t) => call'[t].moved = call[t].moved \cup {map}
                      /\ ~(InCall(t) /\ ~Counted(t)) => call'[t].moved = call[t].moved
    OBVIOUS
  <2>1. call[t] \in Calls
    BY <1>1
  <2>2. CASE InCall(t) /\ ~Counted(t)
    <3>1. call'[t] = [call[t] EXCEPT !.moved = call[t].moved \cup {map}]
      BY <2>2, <1>5
    <3>2. QED
      BY <2>1, <2>2, <3>1 DEF Calls
  <2>3. CASE ~(InCall(t) /\ ~Counted(t))
    BY <2>1, <2>3, <1>5
  <2>4. QED
    BY <2>2, <2>3
<1>7. NodeTypeOK'
  <2>1. call' \in [Callers -> Calls]
    BY <1>4, <1>5, <1>6
  <2>2. QED
    BY <2>1, <1>2 DEF NodeTypeOK
<1> HIDE DEF next
<1>8. HalfCounted'
  <2> SUFFICES ASSUME NEW t \in Callers
      PROVE
        /\ call'[t].clients # -1 /\ call'[t].repairing = -1 =>
             /\ "clients" \notin call'[t].moved => call'[t].clients = Cardinality(clients')
             /\ "names_" \notin call'[t].moved =>
                  call'[t].clients - Cardinality(names_') \in call'[t].seen
        /\ call'[t].clients = -1 /\ call'[t].repairing # -1 =>
             /\ "names_" \notin call'[t].moved => call'[t].repairing = Cardinality(names_')
             /\ "clients" \notin call'[t].moved =>
                  Cardinality(clients') - call'[t].repairing \in call'[t].seen
        /\ call'[t].clients # -1 /\ call'[t].repairing # -1
             /\ ~({"clients", "names_"} \subseteq call'[t].moved) =>
             call'[t].clients - call'[t].repairing \in call'[t].seen
        /\ call'[t].clients = -1 /\ call'[t].repairing = -1 => call'[t] = NoCall
    BY DEF HalfCounted, Counted
  <2>1. /\ call[t].clients # -1 /\ call[t].repairing = -1 =>
             /\ "clients" \notin call[t].moved => call[t].clients = Cardinality(clients)
             /\ "names_" \notin call[t].moved =>
                  call[t].clients - Cardinality(names_) \in call[t].seen
        /\ call[t].clients = -1 /\ call[t].repairing # -1 =>
             /\ "names_" \notin call[t].moved => call[t].repairing = Cardinality(names_)
             /\ "clients" \notin call[t].moved =>
                  Cardinality(clients) - call[t].repairing \in call[t].seen
        /\ call[t].clients # -1 /\ call[t].repairing # -1
             /\ ~({"clients", "names_"} \subseteq call[t].moved) =>
             call[t].clients - call[t].repairing \in call[t].seen
        /\ call[t].clients = -1 /\ call[t].repairing = -1 => call[t] = NoCall
    BY DEF NodeInv, HalfCounted, Counted
  <2>2. CASE InCall(t) /\ ~Counted(t)
    <3>1. /\ call'[t].clients = call[t].clients
          /\ call'[t].repairing = call[t].repairing
          /\ call'[t].seen = call[t].seen
          /\ call'[t].moved = call[t].moved \cup {map}
      BY <2>2, <1>6
    <3>2. call[t].clients = -1 \/ call[t].repairing = -1
      BY <2>2 DEF Counted
    <3>3. ~(call[t].clients = -1 /\ call[t].repairing = -1)
      BY <2>1, <2>2 DEF InCall
    <3>4. CASE map = "clients"
      BY <3>1, <3>2, <3>3, <3>4, <2>1, <1>3
    <3>5. CASE map = "names_"
      BY <3>1, <3>2, <3>3, <3>5, <2>1, <1>3
    <3>6. QED
      BY <3>4, <3>5
  <2>3. CASE ~(InCall(t) /\ ~Counted(t))
    <3>1. /\ call'[t].clients = call[t].clients
          /\ call'[t].repairing = call[t].repairing
          /\ call'[t].seen = call[t].seen
          /\ call'[t].moved = call[t].moved
      BY <2>3, <1>6
    <3>a. call'[t] = call[t]
      BY <2>3, <1>5 DEF next
    <3>2. \/ call[t].clients = -1 /\ call[t].repairing = -1
          \/ call[t].clients # -1 /\ call[t].repairing # -1
      BY <2>3 DEF InCall, NoCall, Counted
    <3>3. QED
      BY <3>1, <3>a, <3>2, <2>1
  <2>4. QED
    BY <2>2, <2>3
<1>9. QED
  BY <1>7, <1>8 DEF NodeInv

\* A step of remaining() changes one call; this is what keeps the invariant.
LEMMA CallChangeKeeps ==
  ASSUME NodeInv, NEW t \in Callers, NEW c \in Calls,
         clients' = clients, names_' = names_, call' = [call EXCEPT ![t] = c],
         c.clients # -1 /\ c.repairing = -1 =>
           c.clients = Cardinality(clients) /\ c.clients - Cardinality(names_) \in c.seen,
         c.clients = -1 /\ c.repairing # -1 =>
           c.repairing = Cardinality(names_) /\ Cardinality(clients) - c.repairing \in c.seen,
         c.clients # -1 /\ c.repairing # -1 /\ ~({"clients", "names_"} \subseteq c.moved) =>
           c.clients - c.repairing \in c.seen,
         c.clients = -1 /\ c.repairing = -1 => c = NoCall
  PROVE  NodeInv'
<1>1. clients \subseteq Nodes /\ names_ \subseteq Nodes /\ call \in [Callers -> Calls]
  BY DEF NodeInv, NodeTypeOK
<1>2. NodeTypeOK'
  BY <1>1 DEF NodeTypeOK
<1>3. \A u \in Callers : call'[u] = IF u = t THEN c ELSE call[u]
  BY <1>1
<1>4. HalfCounted'
  BY <1>3 DEF NodeInv, HalfCounted, Counted
<1>5. QED
  BY <1>2, <1>4 DEF NodeInv

\* A step of remaining() keeps the invariant.
LEMMA RemainingStepKeeps ==
  ASSUME NodeInv, NEW t \in Callers, RemainingStep(t)
  PROVE  NodeInv'
<1> DEFINE k == call[t]
           n == Cardinality(Nodes)
           C == Cardinality(clients)
           R == Cardinality(names_)
<1>1. k \in Calls /\ clients \subseteq Nodes /\ names_ \subseteq Nodes
  BY DEF NodeInv, NodeTypeOK
<1>2. C \in 0..n /\ R \in 0..n /\ n \in Nat
  BY <1>1, CountIsSmall
<1>3. C \in -1..n /\ R \in -1..n /\ C # -1 /\ R # -1 /\ C - R \in -n..n
  <2> HIDE DEF C, R, n
  <2>1. QED
    BY <1>2
<1>4. InService = C - R
  BY DEF InService
<1>5. /\ k.clients # -1 /\ k.repairing = -1 =>
           /\ "clients" \notin k.moved => k.clients = C
           /\ "names_" \notin k.moved => k.clients - R \in k.seen
      /\ k.clients = -1 /\ k.repairing # -1 =>
           /\ "names_" \notin k.moved => k.repairing = R
           /\ "clients" \notin k.moved => C - k.repairing \in k.seen
      /\ k.clients = -1 /\ k.repairing = -1 => k = NoCall
  BY DEF NodeInv, HalfCounted
<1>6. k.seen \subseteq -n..n /\ k.moved \subseteq {"clients", "names_"}
      /\ k.clients \in -1..n /\ k.repairing \in -1..n
  BY <1>1 DEF Calls
<1> HIDE DEF C, R, n
<1>7. CASE CountClients(t)
  <2> DEFINE c == [k EXCEPT !.clients = C, !.seen = k.seen \cup {C - R}]
  <2>1. k.clients = -1 /\ clients' = clients /\ names_' = names_ /\ call' = [call EXCEPT ![t] = c]
    BY <1>4, <1>7 DEF CountClients, C
  <2>2. /\ c.clients = C /\ c.repairing = k.repairing /\ c.moved = k.moved
        /\ c.seen = k.seen \cup {C - R}
    BY <1>1 DEF Calls
  <2>3. c \in Calls
    <3>1. k.seen \cup {C - R} \subseteq -n..n
      BY <1>3, <1>6
    <3> HIDE DEF k
    <3>2. QED
      BY <3>1, <1>1, <1>3 DEF Calls, n
  <2> HIDE DEF c
  <2>4. c.repairing # -1 /\ ~({"clients", "names_"} \subseteq c.moved) =>
          c.clients - c.repairing \in c.seen
    <3> SUFFICES ASSUME k.repairing # -1, ~({"clients", "names_"} \subseteq k.moved)
                 PROVE  C - k.repairing \in k.seen \cup {C - R}
      BY <2>2
    <3>1. CASE "clients" \notin k.moved
      BY <3>1, <2>1, <1>5
    <3>2. CASE "names_" \notin k.moved
      BY <3>2, <2>1, <1>5
    <3>3. QED
      BY <3>1, <3>2
  <2>5. c.repairing = -1 => c.clients - R \in c.seen
    BY <2>2
  <2>6. QED
    BY <2>1, <2>2, <2>3, <2>4, <2>5, <1>3, CallChangeKeeps DEF C, R
<1>8. CASE CountRepairing(t)
  <2> DEFINE c == [k EXCEPT !.repairing = R, !.seen = k.seen \cup {C - R}]
  <2>1. k.repairing = -1 /\ clients' = clients /\ names_' = names_ /\ call' = [call EXCEPT ![t] = c]
    BY <1>4, <1>8 DEF CountRepairing, R
  <2>2. /\ c.clients = k.clients /\ c.repairing = R /\ c.moved = k.moved
        /\ c.seen = k.seen \cup {C - R}
    BY <1>1 DEF Calls
  <2>3. c \in Calls
    <3>1. k.seen \cup {C - R} \subseteq -n..n
      BY <1>3, <1>6
    <3> HIDE DEF k
    <3>2. QED
      BY <3>1, <1>1, <1>3 DEF Calls, n
  <2> HIDE DEF c
  <2>4. c.clients # -1 /\ ~({"clients", "names_"} \subseteq c.moved) =>
          c.clients - c.repairing \in c.seen
    <3> SUFFICES ASSUME k.clients # -1, ~({"clients", "names_"} \subseteq k.moved)
                 PROVE  k.clients - R \in k.seen \cup {C - R}
      BY <2>2
    <3>1. CASE "clients" \notin k.moved
      BY <3>1, <2>1, <1>5
    <3>2. CASE "names_" \notin k.moved
      BY <3>2, <2>1, <1>5
    <3>3. QED
      BY <3>1, <3>2
  <2>5. c.clients = -1 => C - c.repairing \in c.seen
    BY <2>2
  <2>6. QED
    BY <2>1, <2>2, <2>3, <2>4, <2>5, <1>3, CallChangeKeeps DEF C, R
<1>9. CASE EndRemaining(t)
  <2>1. clients' = clients /\ names_' = names_ /\ call' = [call EXCEPT ![t] = NoCall]
    BY <1>9 DEF EndRemaining
  <2>2. NoCall.clients = -1 /\ NoCall.repairing = -1
    BY DEF NoCall
  <2>3. NoCall \in Calls
    BY <1>2 DEF NoCall, Calls, n
  <2>4. QED
    BY <2>1, <2>2, <2>3, CallChangeKeeps
<1>10. QED
  BY <1>7, <1>8, <1>9 DEF RemainingStep

\* Nodes that come, go and are maintained keep the invariant.
LEMMA NodeStepKeeps ==
  ASSUME NodeInv, NodeStep
  PROVE  NodeInv'
<1>1. clients \subseteq Nodes /\ names_ \subseteq Nodes
  BY DEF NodeInv, NodeTypeOK
<1>2. PICK n \in Nodes : Connect(n) \/ Disconnect(n) \/ Repair(n) \/ Recover(n)
  BY DEF NodeStep
<1>3. \/ names_' = names_ /\ clients' \subseteq Nodes /\ Record("clients")
      \/ clients' = clients /\ names_' \subseteq Nodes /\ Record("names_")
  BY <1>1, <1>2 DEF Connect, Disconnect, Repair, Recover
<1>4. QED
  BY <1>3, NodeChangeKeeps

-----------------------------------------------------------------------------
\* The inductive invariant of the process holds always.
THEOREM InductiveInvariant == Spec => []IInv
<1>1. Init => IInv
  <2> SUFFICES ASSUME Init PROVE IInv
    OBVIOUS
  <2>1. HolderInv
    BY DEF Init, HolderInit, HolderInv, HolderTypeOK, Private, KeyAgrees, GuardsHold
  <2>2. Cardinality(Nodes) \in Nat
    BY CountIsSmall
  <2>3. NoCall \in Calls /\ NoCall.clients = -1 /\ NoCall.repairing = -1
    BY <2>2 DEF NoCall, Calls
  <2>4. NodeInv
    BY <2>3 DEF Init, NodeInit, NodeInv, NodeTypeOK, HalfCounted, Counted
  <2>5. QED
    BY <2>1, <2>4 DEF IInv
<1>2. IInv /\ [Next]_vars => IInv'
  <2> SUFFICES ASSUME IInv, [Next]_vars PROVE IInv'
    OBVIOUS
  <2>1. HolderInv /\ NodeInv
    BY DEF IInv
  <2>2. ASSUME UNCHANGED nodeVars PROVE NodeInv'
    BY <2>1, <2>2 DEF nodeVars, NodeInv, NodeTypeOK, HalfCounted, Counted
  <2>3. ASSUME UNCHANGED holderVars PROVE HolderInv'
    BY <2>1, <2>3 DEF holderVars, HolderInv, HolderTypeOK, Private, KeyAgrees, GuardsHold
  <2>4. CASE \E t \in Threads : HolderStep(t) /\ UNCHANGED nodeVars
    BY <2>1, <2>2, <2>4, HolderStepKeeps DEF IInv
  <2>5. CASE \E t \in Callers : RemainingStep(t) /\ UNCHANGED holderVars
    BY <2>1, <2>3, <2>5, RemainingStepKeeps DEF IInv
  <2>6. CASE Expire /\ UNCHANGED nodeVars
    <3>1. HolderInv'
      BY <2>1, <2>6 DEF Expire, HolderInv, HolderTypeOK, Private, KeyAgrees, GuardsHold
    <3>2. QED
      BY <3>1, <2>2, <2>6 DEF IInv
  <2>7. CASE NodeStep /\ UNCHANGED holderVars
    BY <2>1, <2>3, <2>7, NodeStepKeeps DEF IInv
  <2>8. CASE UNCHANGED vars
    BY <2>2, <2>3, <2>8 DEF IInv, vars
  <2>9. QED
    BY <2>4, <2>5, <2>6, <2>7, <2>8 DEF Next
<1>3. QED
  BY <1>1, <1>2, PTL DEF Spec

\* The variables of both components always have their types.
THEOREM TypeCorrect == Spec => []TypeOK
<1>1. IInv => TypeOK
  BY DEF IInv, HolderInv, NodeInv, TypeOK
<1>2. QED
  BY <1>1, InductiveInvariant, PTL

\* Until the first reset(), for any number of threads that start and end,
\* set() and destructor() never fail their assertions and no object leaks.
THEOREM HolderAlwaysConsistent == Spec => []HolderConsistent
<1>1. ASSUME IInv PROVE HolderConsistent
  <2> SUFFICES ASSUME keyLive PROVE HolderConsistent
    BY DEF HolderConsistent
  <2>1. /\ s_value_ \in [Threads -> Objects \cup {NULL}] /\ heap \subseteq Objects
        /\ NULL \notin Objects
    BY <1>1, NullAssumption DEF IInv, HolderInv, HolderTypeOK
  <2>2. \A t \in Threads : specific[t] = s_value_[t] /\ (s_value_[t] # NULL => t \in running)
    BY <1>1 DEF IInv, HolderInv, Private, KeyAgrees
  <2>3. \A t, u \in Threads : s_value_[t] = s_value_[u] => t = u \/ s_value_[t] = NULL
    BY <1>1 DEF IInv, HolderInv, Private
  <2>4. heap = {s_value_[t] : t \in Threads} \ {NULL}
    BY <1>1, <2>1 DEF IInv, HolderInv, Private, KeyAgrees
  <2>5. QED
    BY <2>2, <2>3, <2>4 DEF HolderConsistent
<1>2. QED
  BY <1>1, InductiveInvariant, PTL

\* No guard ever unlocks with an object that has been deleted, whatever
\* threads end or reset their holders, and no plain lock outlives its guard.
THEOREM GuardAlwaysAlive == Spec => []GuardIsAlive
<1>1. IInv => GuardIsAlive
  BY DEF IInv, HolderInv, GuardsHold, GuardIsAlive
<1>2. QED
  BY <1>1, InductiveInvariant, PTL

\* remaining() returns a number that was true, for any number of nodes and
\* callers, unless nodes and maintenance both changed between its two counts.
THEOREM RemainingAlwaysTrue == Spec => []RemainingWasTrue
<1>1. ASSUME IInv PROVE RemainingWasTrue
  <2> SUFFICES ASSUME NEW t \in Callers, Counted(t), Cardinality(call[t].moved) <= 1
               PROVE  call[t].clients - call[t].repairing \in call[t].seen
    BY DEF RemainingWasTrue
  <2>1. ~({"clients", "names_"} \subseteq call[t].moved)
    <3> SUFFICES ASSUME {"clients", "names_"} \subseteq call[t].moved PROVE FALSE
      OBVIOUS
    <3>1. call[t] \in Calls
      BY <1>1 DEF IInv, NodeInv, NodeTypeOK
    <3>2. call[t].moved = {"clients", "names_"}
      BY <3>1 DEF Calls
    <3>3. IsFiniteSet({"clients"}) /\ Cardinality({"clients"}) = 1
      BY FS_Singleton
    <3>4. Cardinality({"clients"} \cup {"names_"}) = 2
      BY <3>3, FS_AddElement
    <3>5. {"clients"} \cup {"names_"} = {"clients", "names_"}
      OBVIOUS
    <3>6. QED
      BY <3>2, <3>4, <3>5
  <2>2. QED
    BY <1>1, <2>1 DEF IInv, NodeInv, HalfCounted
<1>2. QED
  BY <1>1, InductiveInvariant, PTL

-----------------------------------------------------------------------------
(* The assignment of workers: WorkerPool. *)

\* Quotient and remainder.
LEMMA DivMod ==
  ASSUME NEW n \in Nat, NEW s \in Nat \ {0}
  PROVE  n = s * (n \div s) + (n % s) /\ (n % s) \in 0..(s - 1) /\ (n \div s) \in Nat
OBVIOUS

\* They are determined by the number.
LEMMA DivModUnique ==
  ASSUME NEW s \in Nat \ {0}, NEW q \in Int, NEW r \in 0..(s - 1),
         NEW p \in Int, NEW t \in 0..(s - 1), s * q + r = s * p + t
  PROVE  q = p /\ r = t
<1>1. ASSUME q < p PROVE FALSE
  <2>1. s * (q + 1) <= s * p
    BY <1>1
  <2>2. s * (q + 1) = s * q + s
    OBVIOUS
  <2>3. QED
    BY <2>1, <2>2
<1>2. ASSUME p < q PROVE FALSE
  <2>1. s * (p + 1) <= s * q
    BY <1>2
  <2>2. s * (p + 1) = s * p + s
    OBVIOUS
  <2>3. QED
    BY <2>1, <2>2
<1>3. q = p
  BY <1>1, <1>2
<1>4. QED
  BY <1>3

\* A number below the modulus is its own remainder.
LEMMA ModSmall ==
  ASSUME NEW s \in Nat \ {0}, NEW r \in 0..(s - 1)
  PROVE  (r % s) = r
<1>1. r = s * (r \div s) + (r % s) /\ (r % s) \in 0..(s - 1) /\ (r \div s) \in Nat
  <2>1. r \in Nat
    OBVIOUS
  <2>2. QED
    BY <2>1, DivMod
<1> DEFINE q == r \div s
           t == r % s
<1> HIDE DEF q, t
<1>2. r = s * q + t /\ t \in 0..(s - 1) /\ q \in Int /\ 0 \in Int
  BY <1>1 DEF q, t
<1>3. s * 0 + r = s * q + t
  BY <1>2
<1>4. r = t
  BY <1>2, <1>3, DivModUnique
<1>5. QED
  BY <1>4 DEF t

\* The remainder of the successor.
LEMMA ModSucc ==
  ASSUME NEW n \in Nat, NEW s \in Nat \ {0}
  PROVE  ((n + 1) % s) = IF (n % s) = s - 1 THEN 0 ELSE (n % s) + 1
<1> DEFINE m == n + 1
<1>1. m \in Nat
  OBVIOUS
<1> HIDE DEF m
<1> DEFINE q == n \div s
           r == n % s
           p == m \div s
           t == m % s
<1>2. n = s * q + r /\ r \in 0..(s - 1) /\ q \in Nat
  BY DivMod
<1>3. m = s * p + t /\ t \in 0..(s - 1) /\ p \in Nat
  BY <1>1, DivMod
<1> HIDE DEF q, r, p, t
<1>4. q \in Int /\ p \in Int /\ q + 1 \in Int /\ 0 \in 0..(s - 1) /\ s * (q + 1) = s * q + s
  BY <1>2, <1>3
<1>5. CASE r = s - 1
  <2>1. s * (q + 1) + 0 = s * p + t
    BY <1>2, <1>3, <1>4, <1>5 DEF m
  <2>2. t = 0
    BY <2>1, <1>3, <1>4, DivModUnique
  <2>3. QED
    BY <2>2, <1>5 DEF r, t, m
<1>6. CASE r # s - 1
  <2> DEFINE k == r + 1
  <2>1. s * q + k = s * p + t /\ k \in 0..(s - 1)
    BY <1>2, <1>3, <1>6 DEF m
  <2> HIDE DEF k
  <2>2. k = t
    BY <2>1, <1>3, <1>4, DivModUnique
  <2>3. QED
    BY <2>2, <1>6 DEF k, r, t, m
<1>7. QED
  BY <1>5, <1>6

-----------------------------------------------------------------------------
\* The index computed from a cursor is within the pool.
LEMMA SlotProperties ==
  ASSUME size \in 1..MaxSize, NEW n \in Least..INT_MAX
  PROVE  /\ ToSize(n) \in Nat
         /\ Slot(n) = (ToSize(n) % size)
         /\ Slot(n) \in Index
<1>1. INT_MAX \in Nat /\ size \in Nat \ {0} /\ size <= INT_MAX
  BY PoolAssumption
<1>2. ToSize(n) \in Nat
  BY PoolAssumption DEF ToSize, Least
<1> DEFINE u == ToSize(n) % size
           m == 2 * INT_MAX + 2
<1>3. u \in 0..(size - 1)
  BY <1>1, <1>2, DivMod
<1>4. m \in Nat \ {0} /\ u \in 0..(m - 1)
  BY <1>1, <1>3
<1>5. (u % m) = u
  BY <1>4, ModSmall
<1> HIDE DEF u
<1>6. ToInt(u) = u
  BY <1>1, <1>3, <1>5 DEF ToInt
<1>7. Slot(n) = u
  BY <1>6 DEF Slot, u
<1>8. QED
  BY <1>2, <1>3, <1>7 DEF u, Index

\* The worker behind worker e, and the first behind the last.
Behind(e) == IF e = size - 1 THEN 0 ELSE e + 1

\* While the cursor keeps its sign, its index goes round the pool.
LEMMA SlotGoesRound ==
  ASSUME size \in 1..MaxSize, NEW n \in Least..INT_MAX,
         (Increment(n) < 0) <=> (n < 0)
  PROVE  Increment(n) \in Least..INT_MAX /\ Slot(Increment(n)) = Behind(Slot(n))
<1>1. INT_MAX \in Nat /\ SIZE_MAX \in Nat /\ size \in Nat \ {0} /\ n \in Int
  BY PoolAssumption DEF Least
<1>2. Increment(n) = n + 1 /\ n # INT_MAX /\ n # -1
  BY <1>1 DEF Increment, Least
<1> DEFINE m == n + 1
<1>3. m \in Least..INT_MAX /\ ToSize(m) = ToSize(n) + 1
  BY <1>1, <1>2 DEF ToSize, Least
<1> HIDE DEF m
<1>4. /\ ToSize(n) \in Nat /\ Slot(n) = (ToSize(n) % size)
      /\ Slot(m) = (ToSize(m) % size)
  BY <1>3, SlotProperties
<1>5. ((ToSize(n) + 1) % size) = IF (ToSize(n) % size) = size - 1 THEN 0 ELSE (ToSize(n) % size) + 1
  BY <1>1, <1>4, ModSucc
<1>6. Slot(m) = Behind(Slot(n))
  BY <1>3, <1>4, <1>5 DEF Behind
<1>7. QED
  BY <1>2, <1>3, <1>6 DEF m

\* Whether worker i has had its turn in a round that began at worker a and
\* has come to worker e, as a number.
HadTurn(a, e, i) ==
  IF IF a <= e THEN a <= i /\ i < e ELSE a <= i \/ i < e THEN 1 ELSE 0

\* Since the last jump of the cursor the workers have been served in turn,
\* beginning with worker a; before that turn they had old connections, whose
\* differences are due to earlier jumps.
Rounds ==
  \E old \in [Index -> Nat], a \in Index :
    /\ \A i, j \in Index : old[i] - old[j] <= jumps
    /\ \A i \in Index : load[i] = old[i] + HadTurn(a, Slot(cursor), i)

\* The inductive invariant.
PoolInv ==
  /\ PoolTypeOK
  /\ IndexInPool
  /\ \A i \in Index : load[i] <= served
  /\ jumps <= served
  /\ Rounds

\* A pool starts with no worker ahead of another.
LEMMA PoolStart == PoolInit => PoolInv
<1> SUFFICES ASSUME PoolInit PROVE PoolInv
  OBVIOUS
<1>1. /\ size \in 1..MaxSize /\ size \in Nat \ {0} /\ INT_MAX \in Nat /\ MaxAlloc \in Nat
      /\ cursor = 0 /\ index = -1 /\ load = [i \in Index |-> 0] /\ served = 0 /\ jumps = 0
  BY PoolAssumption DEF PoolInit
<1>2. cursor \in Least..INT_MAX /\ index \in Least..INT_MAX
  BY <1>1 DEF Least
<1>3. PoolTypeOK /\ IndexInPool /\ jumps <= served /\ \A i \in Index : load[i] = 0 /\ load[i] <= served
  BY <1>1, <1>2 DEF PoolTypeOK, IndexInPool
<1> DEFINE a == Slot(cursor)
<1>4. a \in Index
  BY <1>1, <1>2, SlotProperties
<1> HIDE DEF a
<1>5. \A i \in Index : HadTurn(a, a, i) = 0
  BY <1>4 DEF HadTurn, Index
<1>6. load \in [Index -> Nat] /\ \A i, j \in Index : load[i] - load[j] <= jumps
  BY <1>1
<1>7. \A i \in Index : load[i] = load[i] + HadTurn(a, a, i)
  BY <1>3, <1>5
<1>8. Rounds
  BY <1>4, <1>6, <1>7 DEF Rounds, a
<1>9. QED
  BY <1>3, <1>8 DEF PoolInv

\* What a call does: the index is within the pool, the branch for a negative
\* one is not taken.
LEMMA AllocEffect ==
  ASSUME PoolInv, AllocWorkerIndex
  PROVE  /\ Slot(cursor) \in Index
         /\ cursor' = Increment(cursor)
         /\ index' = Slot(cursor)
         /\ load' = [i \in Index |-> IF i = Slot(cursor) THEN load[i] + 1 ELSE load[i]]
<1>1. size \in 1..MaxSize /\ cursor \in Least..INT_MAX
  BY DEF PoolInv, PoolTypeOK
<1>2. Slot(cursor) \in Index
  BY <1>1, SlotProperties
<1>3. ~(Slot(cursor) < 0)
  BY <1>1, <1>2, PoolAssumption DEF Index
<1>4. QED
  BY <1>2, <1>3 DEF AllocWorkerIndex

\* A call keeps the inductive invariant.
LEMMA PoolStep ==
  ASSUME PoolInv, AllocWorkerIndex
  PROVE  PoolInv'
<1> DEFINE e == Slot(cursor)
           f == Slot(cursor')
<1>1. /\ size \in 1..MaxSize /\ size \in Nat \ {0} /\ INT_MAX \in Nat /\ MaxAlloc \in Nat
      /\ cursor \in Least..INT_MAX /\ load \in [Index -> 0..MaxAlloc]
      /\ served \in 0..MaxAlloc /\ jumps \in 0..MaxAlloc
      /\ (\A i \in Index : load[i] <= served) /\ jumps <= served
  BY PoolAssumption DEF PoolInv, PoolTypeOK
<1>2. /\ e \in Index /\ cursor' = Increment(cursor)
      /\ index' = e
      /\ load' = [i \in Index |-> IF i = e THEN load[i] + 1 ELSE load[i]]
  BY AllocEffect
<1>3. /\ served < MaxAlloc /\ served' = served + 1 /\ size' = size
      /\ jumps' = IF (cursor' < 0) # (cursor < 0) THEN jumps + 1 ELSE jumps
  BY DEF AllocWorkerIndex
<1>4. cursor' \in Least..INT_MAX
  BY <1>1, <1>2 DEF Increment, Least
<1>5. f \in Index
  BY <1>1, <1>4, SlotProperties
<1>6. Index' = Index /\ Least' = Least
  BY <1>3 DEF Index, Least
<1>7. Slot(cursor)' = f
  BY <1>3 DEF Slot, ToSize, ToInt
<1>e. e \in Index
  BY <1>2
<1> HIDE DEF e, f
<1>8. /\ load' \in [Index -> 0..MaxAlloc]
      /\ \A i \in Index : load'[i] <= served'
      /\ \A i \in Index : load'[i] = IF i = e THEN load[i] + 1 ELSE load[i]
  BY <1>1, <1>2, <1>3
<1>9. jumps' \in 0..MaxAlloc /\ jumps' <= served' /\ served' \in 0..MaxAlloc
  BY <1>1, <1>3
<1>10. PoolTypeOK' /\ IndexInPool'
  <2>1. index' \in Least..INT_MAX
    BY <1>1, <1>2, PoolAssumption DEF Index, Least
  <2>2. IndexInPool'
    BY <1>2, <1>6 DEF IndexInPool
  <2>3. QED
    BY <2>1, <2>2, <1>1, <1>3, <1>4, <1>6, <1>8, <1>9 DEF PoolTypeOK
<1>11. PICK old \in [Index -> Nat], a \in Index :
         /\ \A i, j \in Index : old[i] - old[j] <= jumps
         /\ \A i \in Index : load[i] = old[i] + HadTurn(a, e, i)
  BY DEF PoolInv, Rounds, e
<1>12. SUFFICES \E new \in [Index -> Nat], c \in Index :
         /\ \A i, j \in Index : new[i] - new[j] <= jumps'
         /\ \A i \in Index : load'[i] = new[i] + HadTurn(c, f, i)
  <2>1. Rounds'
    BY <1>6, <1>7, <1>12 DEF Rounds, HadTurn
  <2>2. QED
    BY <2>1, <1>6, <1>8, <1>9, <1>10 DEF PoolInv
<1>13. \A i \in Index : old[i] \in Nat /\ i \in Int /\ i >= 0 /\ i <= size - 1
  BY <1>1, <1>11 DEF Index
<1>14. load' \in [Index -> Nat]
  BY <1>1, <1>8
<1>15. \A i \in Index : HadTurn(f, f, i) = 0
  BY <1>5, <1>13 DEF HadTurn
<1>16. ASSUME \A i, j \in Index : load'[i] - load'[j] <= jumps'
       PROVE  \E new \in [Index -> Nat], c \in Index :
                /\ \A i, j \in Index : new[i] - new[j] <= jumps'
                /\ \A i \in Index : load'[i] = new[i] + HadTurn(c, f, i)
  <2>1. \A i \in Index : load'[i] = load'[i] + HadTurn(f, f, i)
    BY <1>8, <1>1, <1>15
  <2>2. QED
    BY <2>1, <1>5, <1>14, <1>16
<1>17. \A i \in Index : load'[i] = old[i] \/ load'[i] = old[i] + 1
  <2>1. HadTurn(a, e, e) = 0
    BY <1>e, <1>11, <1>13 DEF HadTurn
  <2>2. \A i \in Index : HadTurn(a, e, i) \in {0, 1}
    BY DEF HadTurn
  <2>3. QED
    BY <2>1, <2>2, <1>e, <1>8, <1>11, <1>13
<1>18. CASE (cursor' < 0) # (cursor < 0)
  <2>1. jumps' = jumps + 1
    BY <1>3, <1>18
  <2>2. \A i, j \in Index : load'[i] - load'[j] <= jumps'
    BY <2>1, <1>1, <1>11, <1>13, <1>17
  <2>3. QED
    BY <2>2, <1>16
<1>19. CASE ~((cursor' < 0) # (cursor < 0))
  <2>1. jumps' = jumps
    BY <1>3, <1>19
  <2>2. f = Behind(e)
    BY <1>1, <1>2, <1>19, SlotGoesRound DEF e, f
  <2>3. CASE f = a
    <3>1. \A i \in Index : i # e => HadTurn(a, e, i) = 1
      BY <2>2, <2>3, <1>e, <1>11, <1>13 DEF HadTurn, Behind
    <3>2. HadTurn(a, e, e) = 0
      BY <1>e, <1>11, <1>13 DEF HadTurn
    <3>3. \A i \in Index : load'[i] = old[i] + 1
      BY <3>1, <3>2, <1>8, <1>11, <1>13
    <3>4. \A i, j \in Index : load'[i] - load'[j] <= jumps'
      BY <3>3, <2>1, <1>1, <1>11, <1>13
    <3>5. QED
      BY <3>4, <1>16
  <2>4. CASE f # a
    <3>1. \A i \in Index : HadTurn(a, f, i) = IF i = e THEN 1 ELSE HadTurn(a, e, i)
      BY <2>2, <2>4, <1>e, <1>11, <1>13 DEF HadTurn, Behind
    <3>2. HadTurn(a, e, e) = 0
      BY <1>e, <1>11, <1>13 DEF HadTurn
    <3>3. \A i \in Index : load'[i] = old[i] + HadTurn(a, f, i)
      BY <3>1, <3>2, <1>8, <1>11, <1>13, <1>e
    <3>4. QED
      BY <3>3, <2>1, <1>11
  <2>5. QED
    BY <2>3, <2>4
<1>20. QED
  BY <1>18, <1>19

\* The inductive invariant holds always.
THEOREM PoolInductive == PoolSpec => []PoolInv
<1>1. PoolInit => PoolInv
  BY PoolStart
<1>2. PoolInv /\ [PoolNext]_poolVars => PoolInv'
  <2>1. ASSUME PoolInv, UNCHANGED poolVars PROVE PoolInv'
    <3>1. size' = size /\ cursor' = cursor /\ index' = index /\ load' = load /\ served' = served /\ jumps' = jumps
      BY <2>1 DEF poolVars
    <3>2. Index' = Index /\ Slot(cursor)' = Slot(cursor)
      BY <3>1 DEF Index, Slot, ToSize, ToInt
    <3>3. Rounds'
      BY <2>1, <3>1, <3>2 DEF PoolInv, Rounds, HadTurn
    <3>4. QED
      BY <2>1, <3>1, <3>2, <3>3 DEF PoolInv, PoolTypeOK, IndexInPool, Least
  <2>2. QED
    BY <2>1, PoolStep DEF PoolNext
<1>3. QED
  BY <1>1, <1>2, PTL DEF PoolSpec

\* Cursor and index stay an int, for every width of int and of size_t.
THEOREM PoolTypeCorrect == PoolSpec => []PoolTypeOK
<1>1. PoolInv => PoolTypeOK
  BY DEF PoolInv
<1>2. QED
  BY <1>1, PoolInductive, PTL

\* The assertion of allocWorkerIndex holds: every connection goes to a worker
\* of the pool, for every width of int and of size_t and every size of it.
THEOREM IndexAlwaysInPool == PoolSpec => []IndexInPool
<1>1. PoolInv => IndexInPool
  BY DEF PoolInv
<1>2. QED
  BY <1>1, PoolInductive, PTL

\* Workers are used in turn, for every width of int and every size of the
\* pool, but for one connection each time the cursor changes its sign.
THEOREM PoolBalanced == PoolSpec => []Balanced
<1>1. ASSUME PoolInv PROVE Balanced
  <2>1. PICK old \in [Index -> Nat], a \in Index :
          /\ \A i, j \in Index : old[i] - old[j] <= jumps
          /\ \A i \in Index : load[i] = old[i] + HadTurn(a, Slot(cursor), i)
    BY <1>1 DEF PoolInv, Rounds
  <2>2. \A i \in Index : old[i] \in Nat /\ HadTurn(a, Slot(cursor), i) \in {0, 1}
    BY <2>1 DEF HadTurn
  <2>3. jumps \in Nat
    BY <1>1, PoolAssumption DEF PoolInv, PoolTypeOK
  <2>4. \A i \in Index : load[i] \in Nat /\ (load[i] = old[i] \/ load[i] = old[i] + 1)
    BY <2>1, <2>2
  <2>5. QED
    BY <2>1, <2>2, <2>3, <2>4 DEF Balanced
<1>2. QED
  BY <1>1, PoolInductive, PTL

\* The branch of allocWorkerIndex that restarts the cursor is never taken:
\* every call leaves nextPool_ one further on, modulo the width of int.
THEOREM NeverRestarted == PoolSpec => [][cursor' = Increment(cursor)]_poolVars
<1>1. PoolInv /\ [PoolNext]_poolVars => [cursor' = Increment(cursor)]_poolVars
  BY AllocEffect DEF PoolNext
<1>2. QED
  BY <1>1, PoolInductive, PTL DEF PoolSpec
=============================================================================
