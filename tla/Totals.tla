------------------------------- MODULE Totals -------------------------------
(* Sums of balances over a set of accounts. *)
EXTENDS FiniteSetsExt

\* The sum of the values of f on S.
Total(f, S) == MapThenSumSet(LAMBDA k : f[k], S)
=============================================================================
