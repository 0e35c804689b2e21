---------------------------- MODULE MCSupervisor ----------------------------
(* The supervisor on a small instance.                                     *)
EXTENDS SupervisorRefinement, TLC

Symmetry == Permutations(Bots) \cup Permutations(Pids)
=============================================================================
