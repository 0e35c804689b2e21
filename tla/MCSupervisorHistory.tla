------------------------- MODULE MCSupervisorHistory ------------------------
(* The supervisor and its observer on a small instance.                    *)
EXTENDS SupervisorHistory, TLC

Symmetry == Permutations(Bots) \cup Permutations(Pids)
=============================================================================
