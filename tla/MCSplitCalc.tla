----------------------------- MODULE MCSplitCalc -----------------------------
(***************************************************************************)
(* Every split request over small totals, ratios and amounts.              *)
(***************************************************************************)
EXTENDS SplitRequest

\* Float64 arithmetic loses some of the ties.
SomeTies(n, d) == n % 3 = 0
=============================================================================
