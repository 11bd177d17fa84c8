------------------------------- MODULE Totals -------------------------------
(* The sum of the amounts of a set's elements *)
EXTENDS Integers, FiniteSetsExt

Total(amount, S) == MapThenSumSet(LAMBDA x : amount[x], S)
=============================================================================
