-------------------------------- MODULE Sums --------------------------------
(* The sum of the values of a finite set of arguments of a function.         *)
EXTENDS Integers, FiniteSetsExt

Total(v, S) == LET Value(x) == v[x] IN MapThenSumSet(Value, S)
=============================================================================
