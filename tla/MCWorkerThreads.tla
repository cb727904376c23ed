-------------------------- MODULE MCWorkerThreads ---------------------------
(***************************************************************************)
(* An instance of WorkerThreads for TLC: objects are interchangeable, and  *)
(* so are nodes.                                                           *)
(***************************************************************************)
EXTENDS WorkerThreads, TLC

Symmetry == Permutations(Objects) \cup Permutations(Nodes)
=============================================================================
