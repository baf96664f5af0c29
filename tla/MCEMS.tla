------------------------------- MODULE MCEMS --------------------------------
(* EMS for TLC: goroutines and orders are model values; goroutines are       *)
(* interchangeable, which is sound for the runs without liveness.            *)
EXTENDS EMSRefinement, TLC

Symmetry == Permutations(Procs)
=============================================================================
