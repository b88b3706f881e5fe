-------------------------------- MODULE Totals --------------------------------
(***************************************************************************)
(* The sum of a function's values.                                         *)
(***************************************************************************)
EXTENDS Integers, FiniteSets

(* As the number of pairs <<x, n>>, n in 1..h[x]: what is proved of a sum  *)
(* follows from facts on finite sets.  The values are not negative.        *)
Total(h) == Cardinality(UNION {{x} \X (1 .. h[x]) : x \in DOMAIN h})
=============================================================================
