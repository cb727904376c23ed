--------------------------- MODULE WorkerThreads ----------------------------
(***************************************************************************)
(* The worker threads of a server process: each does one thing at a time   *)
(* with its lock client or asks for the number of backend nodes, while     *)
(* nodes come and go and locks expire.                                     *)
(***************************************************************************)
EXTENDS ThreadLocalSingleton, NodeContainer

ASSUME CallersAssumption == Callers \subseteq Threads

vars == <<holderVars, nodeVars>>

Init == HolderInit /\ NodeInit

Next ==
  \/ \E t \in Threads :
       /\ t \in Callers => ~InCall(t)
       /\ HolderStep(t)
       /\ UNCHANGED nodeVars
  \/ \E t \in Callers :
       /\ t \in running
       /\ RemainingStep(t)
       /\ UNCHANGED holderVars
  \/ Expire /\ UNCHANGED nodeVars
  \/ NodeStep /\ UNCHANGED holderVars

Spec == Init /\ [][Next]_vars

\* The types of the variables of both components.
TypeOK == HolderTypeOK /\ NodeTypeOK
=============================================================================
