------------------------- MODULE GateSessionsProofs -------------------------
(***************************************************************************)
(* The session maps are correct for all users, connections, overloads and  *)
(* login orders.  The inductive invariant adds to the checked properties   *)
(* who owns an entry of map[userid] (Owner), how far an offline handler    *)
(* can be given the state of its connection (OfflineOrder), what that      *)
(* handler has already removed (Removed), and that a handler that carries  *)
(* its connection keeps it from expiring (Held).                           *)
(***************************************************************************)
EXTENDS GateSessions, TLAPS

\* An entry of map[userid] belongs to a connection that logged in as userid.
Owner ==
  \A u \in Users : peers[u] # NoConn => user[peers[u]] = u

\* Offline handlers run only for disconnected connections, logins only for
\* accepted ones.
OfflineOrder ==
  \A c \in Conns : /\ conn[c] \in {"fresh", "up"} => offline[c] = "no"
                   /\ conn[c] = "fresh" => user[c] = NoUser

\* What the two halves of the offline handler have removed stays removed.
Removed ==
  \A c \in Conns :
    /\ offline[c] # "no" => c \notin entities
    /\ ~lateLogin /\ offline[c] = "done" => \A u \in Users : peers[u] # c

\* A handler that calls remove(userid, conn) holds its connection.
Held ==
  "session" \notin removals =>
     \A c \in Conns : conn[c] = "gone" => offline[c] = "done"

IInv == TypeOK /\ Owner /\ OfflineOrder /\ Removed /\ Held /\ Reachable

-----------------------------------------------------------------------------

USE NoUserAssumption, NoConnAssumption DEF handlers

\* The invariant holds before any client connects.
LEMMA InitIInv == Init => IInv
BY DEF Init, IInv, TypeOK, Owner, OfflineOrder, Removed, Held, Reachable

\* A new connection.
LEMMA OnConnectedIInv == ASSUME IInv, NEW c \in Conns, OnConnected(c) PROVE IInv'
BY DEF IInv, TypeOK, Owner, OfflineOrder, Removed, Held, Reachable,
       OnConnected, EntitiesAdd

\* A login: the connection it displaces goes to kick.
LEMMA OnUserLoginIInv ==
  ASSUME IInv, NEW c \in Conns, NEW u \in Users, OnUserLogin(c, u) PROVE IInv'
<1> USE DEF IInv, OnUserLogin, SessionsAdd
<1>1. TypeOK'
  BY DEF TypeOK
<1>2. Owner'
  BY DEF TypeOK, Owner
<1>3. OfflineOrder' /\ Held'
  BY DEF TypeOK, OfflineOrder, Held, Alive
<1>4. Removed'
  BY DEF TypeOK, Removed
<1>5. Reachable'
  BY DEF TypeOK, Reachable, Owner
<1> QED BY <1>1, <1>2, <1>3, <1>4, <1>5

\* A login at another gate only adds to kick.
LEMMA OnUserLoginNotifyIInv ==
  ASSUME IInv, NEW u \in Users, OnUserLoginNotify(u) PROVE IInv'
BY DEF IInv, TypeOK, Owner, OfflineOrder, Removed, Held, Reachable,
       OnUserLoginNotify, SessionsGet, Alive

\* A kick leaves nothing open behind it.
LEMMA KickIInv == ASSUME IInv, NEW c \in Conns, Kick(c) PROVE IInv'
BY DEF IInv, TypeOK, Owner, OfflineOrder, Removed, Held, Reachable, Kick

\* A disconnection.
LEMMA DisconnectIInv == ASSUME IInv, NEW c \in Conns, Disconnect(c) PROVE IInv'
BY DEF IInv, TypeOK, Owner, OfflineOrder, Removed, Held, Reachable, Disconnect

\* The first half of the offline handler.
LEMMA OfflineEntitiesIInv ==
  ASSUME IInv, NEW c \in Conns, OfflineEntities(c) PROVE IInv'
BY DEF IInv, TypeOK, Owner, OfflineOrder, Removed, Held, Reachable,
       OfflineEntities, EntitiesRemove

\* The second half removes the entry of its own connection, or an expired
\* one, or nothing.
LEMMA OfflineRemoves ==
  ASSUME IInv, NEW c \in Conns, NEW how \in removals, OfflineSessions(c, how)
  PROVE  /\ conn[c] \in {"closing", "gone"}
         /\ \A u \in Users : peers[u] = c => peers'[u] = NoConn
         /\ \A u \in Users : \/ peers'[u] = peers[u]
                             \/ peers'[u] = NoConn /\ (peers[u] = c \/ ~Alive(peers[u]))
         /\ peers' \in [Users -> Conns \cup {NoConn}]
<1> USE DEF IInv, OfflineSessions
<1>1. conn[c] \in {"closing", "gone"}
  BY DEF TypeOK, OfflineOrder
<1>2. CASE user[c] = NoUser /\ UNCHANGED peers
  BY <1>1, <1>2 DEF TypeOK, Owner
<1>3. CASE user[c] # NoUser /\ RemoveByConn(user[c], c)
  BY <1>1, <1>3 DEF TypeOK, Owner, RemoveByConn
<1>4. CASE user[c] # NoUser /\ RemoveBySession(user[c], c)
  BY <1>1, <1>4 DEF TypeOK, Owner, RemoveBySession
<1> QED BY <1>2, <1>3, <1>4

\* The second half of the offline handler.
LEMMA OfflineSessionsIInv ==
  ASSUME IInv, NEW c \in Conns, NEW how \in removals, OfflineSessions(c, how)
  PROVE  IInv'
<1>1. /\ offline' = [offline EXCEPT ![c] = "done"]
      /\ UNCHANGED <<conn, user, entities, kick, handlers>>
      /\ offline[c] = "half"
  BY DEF OfflineSessions
<1>2. TypeOK'
  BY <1>1, OfflineRemoves DEF IInv, TypeOK
<1>3. Owner'
  BY <1>1, OfflineRemoves DEF IInv, TypeOK, Owner
<1>4. OfflineOrder' /\ Held'
  BY <1>1, OfflineRemoves DEF IInv, TypeOK, OfflineOrder, Held
<1>5. Removed'
  BY <1>1, OfflineRemoves DEF IInv, TypeOK, Removed
<1>6. Reachable'
  <2> SUFFICES ASSUME NEW d \in Conns, conn[d] = "up", user[d] # NoUser
               PROVE  peers'[user[d]] = d \/ d \in kick
    BY <1>1 DEF Reachable
  <2>1. peers[user[d]] = d \/ d \in kick
    BY DEF IInv, Reachable
  <2>2. CASE peers[user[d]] = d
    <3>1. user[d] \in Users /\ d # c /\ Alive(d)
      BY OfflineRemoves DEF IInv, TypeOK, Alive
    <3> QED BY <2>2, <3>1, OfflineRemoves
  <2> QED BY <2>1, <2>2
<1> QED BY <1>2, <1>3, <1>4, <1>5, <1>6 DEF IInv

\* The connection object expires.
LEMMA DestroyIInv == ASSUME IInv, NEW c \in Conns, Destroy(c) PROVE IInv'
BY DEF IInv, TypeOK, Owner, OfflineOrder, Removed, Held, Reachable, Destroy

\* Every step preserves the invariant.
LEMMA NextIInv == IInv /\ [Next]_vars => IInv'
<1> SUFFICES ASSUME IInv, [Next]_vars PROVE IInv'
  OBVIOUS
<1>1. CASE UNCHANGED vars
  BY <1>1 DEF vars, IInv, TypeOK, Owner, OfflineOrder, Removed, Held, Reachable
<1>2. CASE Next
  BY <1>2, OnConnectedIInv, OnUserLoginIInv, OnUserLoginNotifyIInv, KickIInv,
     DisconnectIInv, OfflineEntitiesIInv, OfflineSessionsIInv, DestroyIInv DEF Next
<1> QED BY <1>1, <1>2

\* The inductive invariant of the session maps.
THEOREM Invariance == Spec => []IInv
BY InitIInv, NextIInv, PTL DEF Spec

\* Type correctness.
THEOREM TypeCorrect == Spec => []TypeOK
<1>1. IInv => TypeOK
  BY DEF IInv
<1> QED BY <1>1, Invariance, PTL

\* A logged-in open connection stays reachable through map[userid] until a
\* newer login has scheduled its closing, in whatever order logins,
\* disconnections and offline handlers run.
THEOREM NewestStaysReachable == Spec => []Reachable
<1>1. IInv => Reachable
  BY DEF IInv
<1> QED BY <1>1, Invariance, PTL

\* A finished offline handler leaves no entry of its connection behind.
THEOREM OfflineLeavesNothing == Spec => []NoLeak
<1>1. IInv => NoLeak
  BY DEF IInv, NoLeak, Removed, TypeOK
<1> QED BY <1>1, Invariance, PTL

\* assert(peer) of remove(userid, conn) cannot fail when logins precede the
\* offline handler and handlers hold their connection.
THEOREM PeerAssertHolds == Spec => []PeerAlive
<1>1. IInv => PeerAlive
  <2> SUFFICES ASSUME IInv, ~lateLogin, "session" \notin removals,
                      NEW u \in Users, peers[u] # NoConn
               PROVE  Alive(peers[u])
    BY DEF PeerAlive
  <2>1. peers[u] \in Conns /\ user[peers[u]] = u
    BY DEF IInv, TypeOK, Owner
  <2>2. conn[peers[u]] # "gone"
    BY <2>1 DEF IInv, Held, Removed
  <2>3. conn[peers[u]] # "fresh"
    BY <2>1 DEF IInv, OfflineOrder
  <2> QED BY <2>1, <2>2, <2>3 DEF IInv, TypeOK, Alive
<1> QED BY <1>1, Invariance, PTL

\* No step takes an open connection out of map[userid].
THEOREM RemovalSparesOpen == Spec => NeverUnregistersOpen
<1>1. ASSUME IInv, Next, NEW u \in Users, peers[u] # NoConn, peers'[u] = NoConn
      PROVE  conn[peers[u]] # "up"
  <2>1. CASE UNCHANGED peers
    BY <1>1, <2>1
  <2>2. ASSUME NEW c \in Conns, NEW v \in Users, OnUserLogin(c, v) PROVE FALSE
    BY <1>1, <2>2 DEF OnUserLogin, SessionsAdd, IInv, TypeOK
  <2>3. ASSUME NEW c \in Conns, NEW how \in removals, OfflineSessions(c, how)
        PROVE  conn[peers[u]] # "up"
    BY <1>1, <2>3, OfflineRemoves DEF Alive, IInv, TypeOK
  <2> QED
    BY <1>1, <2>1, <2>2, <2>3
    DEF Next, OnConnected, OnUserLoginNotify, Kick, Disconnect, OfflineEntities, Destroy
<1>2. IInv /\ [Next]_vars =>
        [\A u \in Users : peers[u] # NoConn /\ peers'[u] = NoConn => conn[peers[u]] # "up"]_vars
  BY <1>1
<1> QED BY <1>2, Invariance, PTL DEF Spec, NeverUnregistersOpen
=============================================================================
