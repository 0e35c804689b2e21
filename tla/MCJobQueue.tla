------------------------------ MODULE MCJobQueue ------------------------------
(* Jobs, workers and strategies on a small instance.                       *)
EXTENDS JobQueue, TLC

Symmetry == Permutations(Jobs) \cup Permutations(Workers) \cup Permutations(Strategies)
=============================================================================
