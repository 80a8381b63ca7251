-------------------------------- MODULE Sums --------------------------------
(* The sum of a function's values over a finite set, as the number of its  *)
(* units: one pair <<x, k>> for each k in 1..f[x].  Stated with functions  *)
(* and cardinalities, so that Counting can prove how a sum changes.        *)
EXTENDS Integers, FiniteSets

Units(S, f) == UNION {{x} \X (1..f[x]) : x \in S}

SumOver(S, f) == Cardinality(Units(S, f))
=============================================================================
