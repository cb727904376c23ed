--------------------------- MODULE NodeContainer ----------------------------
(***************************************************************************)
(* The backend nodes of one kind as a gate sees them: struct Container and *)
(* struct Repair (Framework/game_gate/clients/Container.h), in a build     *)
(* without assertions.  The map of connected nodes is kept by Connector,   *)
(* which is external; it and Repair have a lock each, so remaining(),      *)
(* which needs both counts, takes one after the other, in the order the    *)
(* compiler chooses.                                                       *)
(***************************************************************************)
EXTENDS Integers, FiniteSets

CONSTANTS Nodes,    \* names of nodes
          Callers   \* threads that call remaining()

ASSUME NodesAssumption == IsFiniteSet(Nodes)

VARIABLES
  clients,   \* clients_: the nodes connected
  names_,    \* repair_.names_: the nodes under maintenance
  call       \* call[t]: the call of remaining() in thread t, with history

nodeVars == <<clients, names_, call>>

\* A call knows the counts it has taken; -1 stands for one it has not.  seen
\* and moved are history: the number of nodes in service when each count was
\* taken, and which of the two maps have changed between the two.
NoCall == [clients |-> -1, repairing |-> -1, seen |-> {}, moved |-> {}]

InCall(t) == call[t] # NoCall

\* Both counts are there: the call can return their difference.
Counted(t) == call[t].clients # -1 /\ call[t].repairing # -1

InService == Cardinality(clients) - Cardinality(names_)

NodeInit ==
  /\ clients = {} /\ names_ = {}
  /\ call = [t \in Callers |-> NoCall]

\* The history of the calls under way, when the given map changes.
Record(map) ==
  call' = [t \in Callers |->
            IF InCall(t) /\ ~Counted(t) THEN [call[t] EXCEPT !.moved = @ \cup {map}]
                                        ELSE call[t]]

\* External: Connector gains or loses a node.
Connect(n) ==
  /\ n \notin clients
  /\ clients' = clients \cup {n} /\ names_' = names_
  /\ Record("clients")

Disconnect(n) ==
  /\ n \in clients
  /\ clients' = clients \ {n} /\ names_' = names_
  /\ Record("clients")

\* repair(name) and recover(name), with names under repair or not, connected
\* or not.
Repair(n) ==
  /\ names_' = names_ \cup {n} /\ clients' = clients
  /\ Record("names_")

Recover(n) ==
  /\ names_' = names_ \ {n} /\ clients' = clients
  /\ Record("names_")

\* clients_->count()
CountClients(t) ==
  /\ call[t].clients = -1
  /\ call' = [call EXCEPT ![t].clients = Cardinality(clients),
                          ![t].seen = @ \cup {InService}]
  /\ UNCHANGED <<clients, names_>>

\* Mutant of CountRepairing: counts only the nodes that are connected.
CountRepairingConnected(t) ==
  /\ call[t].repairing = -1
  /\ call' = [call EXCEPT ![t].repairing = Cardinality(names_ \cap clients),
                          ![t].seen = @ \cup {InService}]
  /\ UNCHANGED <<clients, names_>>

\* repair_.count()
CountRepairing(t) ==
  /\ call[t].repairing = -1
  /\ call' = [call EXCEPT ![t].repairing = Cardinality(names_),
                          ![t].seen = @ \cup {InService}]
  /\ UNCHANGED <<clients, names_>>

\* The difference is returned.
EndRemaining(t) ==
  /\ Counted(t)
  /\ call' = [call EXCEPT ![t] = NoCall]
  /\ UNCHANGED <<clients, names_>>

RemainingStep(t) == CountClients(t) \/ CountRepairing(t) \/ EndRemaining(t)

NodeStep == \E n \in Nodes : Connect(n) \/ Disconnect(n) \/ Repair(n) \/ Recover(n)

-----------------------------------------------------------------------------
Calls ==
  [clients : -1..Cardinality(Nodes), repairing : -1..Cardinality(Nodes),
   seen : SUBSET (-Cardinality(Nodes)..Cardinality(Nodes)),
   moved : SUBSET {"clients", "names_"}]

NodeTypeOK ==
  /\ clients \subseteq Nodes /\ names_ \subseteq Nodes
  /\ call \in [Callers -> Calls]

\* What remaining() returns, the number of nodes in service, was the true
\* number when one of its two counts was taken, as long as only nodes joined
\* and left between them, or only maintenance began and ended, whichever
\* count the compiler has put first.
RemainingWasTrue ==
  \A t \in Callers :
    Counted(t) /\ Cardinality(call[t].moved) <= 1 =>
      call[t].clients - call[t].repairing \in call[t].seen
=============================================================================
