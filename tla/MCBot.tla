-------------------------------- MODULE MCBot --------------------------------
(* One bot on a small instance.                                            *)
EXTENDS Bot, TLC

Symmetry == Permutations(Lots)
=============================================================================
