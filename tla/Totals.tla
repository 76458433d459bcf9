------------------------------- MODULE Totals -------------------------------
(***************************************************************************)
(* Sums over the objects of an index: what the loops over balances, votes  *)
(* and blocks add up.                                                      *)
(***************************************************************************)
EXTENDS FiniteSetsExt

\* The sum of f over S.
Total(f, S) == MapThenSumSet(LAMBDA x : f[x], S)
=============================================================================
