---------------------------- MODULE GateSessions ----------------------------
(***************************************************************************)
(* Who is online at a gate: STR::Entities (map[session] = weakConn) and    *)
(* INT::Entities (map[userid] = weakConn) of                               *)
(* Framework/game_gate/Entities.h, the members entities_ and sessions_ of  *)
(* GateServ, under the handlers that call them.                            *)
(*                                                                         *)
(* Each method takes the map's lock for its whole body and is one step;    *)
(* the steps of a handler, and the handlers of different connections (each *)
(* connection is pinned to a worker thread by Context::setWorker), run in  *)
(* any order.  The bodies of the handlers are not in the repository: they  *)
(* are modelled from their declarations in Gate.h.  What those leave open, *)
(* which remove() overloads an offline handler calls and whether a login   *)
(* reply may be handled after it, is fixed in the initial state.  A        *)
(* session string is unique to its connection, so it is identified with    *)
(* it.                                                                     *)
(***************************************************************************)
EXTENDS Naturals

CONSTANTS Users, Conns,
          NoUser, \* Context::userid_ before login
          NoConn  \* no entry in map[userid]

ASSUME NoUserAssumption == NoUser \notin Users
ASSUME NoConnAssumption == NoConn \notin Conns

VARIABLES conn,     \* conn[c]: fresh, up, closing (disconnected), gone (weak_ptr expired)
          user,     \* user[c]: userid_ of the connection's Context
          entities, \* entities_.peers_: connections whose session is registered
          peers,    \* sessions_.peers_: peers[u] is the connection of u, or NoConn
          kick,     \* connections a handler holds weakly and is about to close
          offline,  \* progress of asyncOfflineHandler of a connection
          removals, \* the remove() overloads offline handlers call
          lateLogin \* a login reply may be handled after the offline handler

handlers == <<removals, lateLogin>>
vars == <<conn, user, entities, peers, kick, offline, handlers>>

TypeOK ==
  /\ conn \in [Conns -> {"fresh", "up", "closing", "gone"}]
  /\ user \in [Conns -> Users \cup {NoUser}]
  /\ entities \in SUBSET Conns
  /\ peers \in [Users -> Conns \cup {NoConn}]
  /\ kick \in SUBSET Conns
  /\ offline \in [Conns -> {"no", "half", "done"}]
  /\ removals \in SUBSET {"conn", "session"}
  /\ lateLogin \in BOOLEAN

\* weakConn.lock() yields a connection.
Alive(c) == c \in Conns /\ conn[c] \in {"up", "closing"}

-----------------------------------------------------------------------------
(* Entities.h, method by method *)

\* STR::Entities::add
EntitiesAdd(c) == entities' = entities \cup {c}

\* Mutant of EntitiesRemove: the session stays.
EntitiesKeep(c) == entities' = entities /\ c \in Conns

\* STR::Entities::remove
EntitiesRemove(c) == entities' = entities \ {c}

\* INT::Entities::get
SessionsGet(u) == peers[u]

\* Mutant of SessionsAdd: it->second is read without the check for end().
SessionsAddReturnsEnd(u, c) ==
  /\ peers' = [peers EXCEPT ![u] = c]
  /\ kick' = kick \cup {peers[u]}

\* Mutant of SessionsAdd: the displaced connection is not returned.
SessionsAddForgetsOld(u, c) ==
  /\ peers' = [peers EXCEPT ![u] = c]
  /\ kick' = kick

\* INT::Entities::add: registers c; the connection it displaced, if any, is
\* returned to the caller, which closes it.
SessionsAdd(u, c) ==
  /\ peers' = [peers EXCEPT ![u] = c]
  /\ kick' = kick \cup ({peers[u]} \ {NoConn, c})

\* Mutant of RemoveByConn and RemoveBySession: no check before remove.
RemoveUnchecked(u, c) == peers' = [peers EXCEPT ![u] = NoConn] /\ c \in Conns

\* Mutant of RemoveByConn: a disconnected peer stays in the map.
RemoveOnlyUp(u, c) ==
  peers' = IF peers[u] = c /\ conn[c] = "up" THEN [peers EXCEPT ![u] = NoConn] ELSE peers

\* INT::Entities::remove(userid, conn): check before remove.
RemoveByConn(u, c) ==
  peers' = IF peers[u] = c THEN [peers EXCEPT ![u] = NoConn] ELSE peers

\* INT::Entities::remove(userid, session): check the session of a live peer
\* before removing it; an expired peer goes in any case.
RemoveBySession(u, c) ==
  peers' = IF peers[u] = c \/ ~Alive(peers[u])
           THEN [peers EXCEPT ![u] = NoConn] ELSE peers

-----------------------------------------------------------------------------
(* Handlers of GateServ (bodies external) *)

Init ==
  /\ conn = [c \in Conns |-> "fresh"]
  /\ user = [c \in Conns |-> NoUser]
  /\ entities = {}
  /\ peers = [u \in Users |-> NoConn]
  /\ kick = {}
  /\ offline = [c \in Conns |-> "no"]
  /\ removals \in {{"conn"}, {"conn", "session"}}
  /\ lateLogin \in BOOLEAN

\* onConnected: the handshake is complete.
OnConnected(c) ==
  /\ conn[c] = "fresh"
  /\ conn' = [conn EXCEPT ![c] = "up"]
  /\ EntitiesAdd(c)
  /\ UNCHANGED <<user, peers, kick, offline, handlers>>

\* asyncHallHandler, login reply: the reply carries a weak connection.
OnUserLogin(c, u) ==
  /\ Alive(c)
  /\ user[c] = NoUser
  /\ lateLogin \/ offline[c] = "no"
  /\ user' = [user EXCEPT ![c] = u]
  /\ SessionsAdd(u, c)
  /\ UNCHANGED <<conn, entities, offline, handlers>>

\* onUserLoginNotify: the user logged in at another gate.
OnUserLoginNotify(u) ==
  /\ Alive(SessionsGet(u))
  /\ kick' = kick \cup {SessionsGet(u)}
  /\ UNCHANGED <<conn, user, entities, peers, offline, handlers>>

\* The handler that got a displaced connection closes it if it still exists.
Kick(c) ==
  /\ c \in kick
  /\ kick' = kick \ {c}
  /\ conn' = IF conn[c] = "up" THEN [conn EXCEPT ![c] = "closing"] ELSE conn
  /\ UNCHANGED <<user, entities, peers, offline, handlers>>

\* The peer or the time wheel closes the connection.
Disconnect(c) ==
  /\ conn[c] = "up"
  /\ conn' = [conn EXCEPT ![c] = "closing"]
  /\ UNCHANGED <<user, entities, peers, kick, offline, handlers>>

\* asyncOfflineHandler, first half: the session leaves entities_.
OfflineEntities(c) ==
  /\ conn[c] \in {"closing", "gone"}
  /\ offline[c] = "no"
  /\ EntitiesRemove(c)
  /\ offline' = [offline EXCEPT ![c] = "half"]
  /\ UNCHANGED <<conn, user, peers, kick, handlers>>

\* asyncOfflineHandler, second half: the user leaves sessions_.
OfflineSessions(c, how) ==
  /\ offline[c] = "half"
  /\ \/ user[c] = NoUser /\ UNCHANGED peers
     \/ user[c] # NoUser /\ how = "conn" /\ Alive(c) /\ RemoveByConn(user[c], c)
     \/ user[c] # NoUser /\ how = "session" /\ RemoveBySession(user[c], c)
  /\ offline' = [offline EXCEPT ![c] = "done"]
  /\ UNCHANGED <<conn, user, entities, kick, handlers>>

\* The last TcpConnectionPtr goes.  A handler that will call
\* remove(userid, conn) holds one until it has run.
Destroy(c) ==
  /\ conn[c] = "closing"
  /\ "session" \notin removals => offline[c] = "done"
  /\ conn' = [conn EXCEPT ![c] = "gone"]
  /\ UNCHANGED <<user, entities, peers, kick, offline, handlers>>

Next ==
  \E c \in Conns :
    \/ OnConnected(c)
    \/ \E u \in Users : OnUserLogin(c, u)
    \/ \E u \in Users : OnUserLoginNotify(u)
    \/ Kick(c)
    \/ Disconnect(c)
    \/ OfflineEntities(c)
    \/ \E how \in removals : OfflineSessions(c, how)
    \/ Destroy(c)

Spec == Init /\ [][Next]_vars

\* Worker threads run the tasks they were given.
FairSpec ==
  /\ Spec
  /\ \A c \in Conns :
       /\ WF_vars(Kick(c))
       /\ WF_vars(OfflineEntities(c))
       /\ WF_vars(\E how \in removals : OfflineSessions(c, how))

-----------------------------------------------------------------------------
(* Properties *)

\* A logged-in open connection is the one map[userid] names, or is about
\* to be closed: an old connection's offline handler never makes the new
\* one unreachable, and nobody keeps two live sessions unnoticed.
Reachable ==
  \A c \in Conns : conn[c] = "up" /\ user[c] # NoUser =>
                     peers[user[c]] = c \/ c \in kick

\* remove() never takes an open connection out of map[userid].
NeverUnregistersOpen ==
  [][\A u \in Users : peers[u] # NoConn /\ peers'[u] = NoConn =>
                        conn[peers[u]] # "up"]_vars

\* When logins never trail their offline handler, a connection whose
\* offline handler is done is in neither map.
NoLeak ==
  ~lateLogin => \A c \in Conns : offline[c] = "done" =>
                  c \notin entities /\ \A u \in Users : peers[u] # c

\* assert(peer) in remove(userid, conn): handlers that hold their
\* connection never find an expired one in map[userid].
PeerAlive ==
  ~lateLogin /\ "session" \notin removals =>
     \A u \in Users : peers[u] # NoConn => Alive(peers[u])

\* A connection displaced by a newer login of its user is closed.
DisplacedIsClosed ==
  \A c \in Conns : \A u \in Users :
     (user[c] = u /\ peers[u] # c) ~> (conn[c] # "up")

\* When logins never trail their offline handler, a closed connection
\* leaves both maps for good.
ClosedIsForgotten ==
  \A c \in Conns :
     (~lateLogin /\ conn[c] \in {"closing", "gone"}) ~>
        [](c \notin entities /\ \A u \in Users : peers[u] # c)
=============================================================================
