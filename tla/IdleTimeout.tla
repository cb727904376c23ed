---------------------------- MODULE IdleTimeout ----------------------------
(***************************************************************************)
(* What the gate promises about idle client connections, without buckets   *)
(* or reference counts: every open connection has a clock that counts the  *)
(* timer ticks since its last traffic; traffic resets it, and the tick     *)
(* that brings it to Limit closes the connection, unless a message of that *)
(* connection is still waiting to be handled by the event loop.            *)
(***************************************************************************)
EXTENDS Naturals

CONSTANTS Conns,   \* the connection objects
          Limit    \* ticks without traffic after which a connection is closed

VARIABLES conn,    \* conn[c]: fresh, up, closing (disconnected), gone (destroyed)
          pending, \* connections with traffic queued for the event loop
          idle,    \* idle[c]: ticks since the last traffic of c was handled
          reaped   \* connections closed because they were idle

vars == <<conn, pending, idle, reaped>>

\* The connections the next tick closes.
Expiring == {c \in Conns : idle[c] = Limit - 1 /\ c \notin pending /\ conn[c] = "up"}

Init ==
  /\ conn = [c \in Conns |-> "fresh"]
  /\ pending = {}
  /\ idle = [c \in Conns |-> Limit]
  /\ reaped = {}

Open(c) ==
  /\ conn[c] = "fresh"
  /\ conn' = [conn EXCEPT ![c] = "up"]
  /\ idle' = [idle EXCEPT ![c] = 0]
  /\ UNCHANGED <<pending, reaped>>

\* Traffic arrives; it is handled by the event loop later.
Arrive(c) ==
  /\ conn[c] # "fresh"
  /\ idle[c] < Limit \/ c \in pending
  /\ pending' = pending \cup {c}
  /\ UNCHANGED <<conn, idle, reaped>>

\* The event loop handles the traffic: the clock restarts if the
\* connection object still exists.
Handle(c) ==
  /\ c \in pending
  /\ pending' = pending \ {c}
  /\ idle' = IF conn[c] = "gone" THEN idle ELSE [idle EXCEPT ![c] = 0]
  /\ UNCHANGED <<conn, reaped>>

Tick ==
  /\ idle' = [c \in Conns |-> IF idle[c] < Limit THEN idle[c] + 1 ELSE Limit]
  /\ conn' = [c \in Conns |-> IF c \in Expiring THEN "closing" ELSE conn[c]]
  /\ reaped' = reaped \cup Expiring
  /\ UNCHANGED pending

Disconnect(c) ==
  /\ conn[c] = "up"
  /\ conn' = [conn EXCEPT ![c] = "closing"]
  /\ UNCHANGED <<pending, idle, reaped>>

Destroy(c) ==
  /\ conn[c] = "closing"
  /\ conn' = [conn EXCEPT ![c] = "gone"]
  /\ UNCHANGED <<pending, idle, reaped>>

Next ==
  \/ \E c \in Conns : Open(c) \/ Arrive(c) \/ Handle(c) \/ Disconnect(c) \/ Destroy(c)
  \/ Tick

Spec == Init /\ [][Next]_vars

\* The timer keeps ticking and the event loop keeps draining its queue.
FairSpec ==
  /\ Spec
  /\ WF_vars(Tick)
  /\ \A c \in Conns : WF_vars(Handle(c))
=============================================================================
