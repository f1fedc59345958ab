-------------------------------- MODULE Totals --------------------------------
(***************************************************************************)
(* Sums of numbers, as the ledgers of the system keep them in running      *)
(* counters and as the accounting check of the transaction store takes     *)
(* them (iter().sum(), SELECT SUM).                                        *)
(***************************************************************************)
EXTENDS Integers, FiniteSets, FiniteSetsExt

\* The total of a function with number values over a finite part of its domain.
Total(f, S) == MapThenSumSet(LAMBDA x : f[x], S)

===============================================================================
