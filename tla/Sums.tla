------------------------------- MODULE Sums --------------------------------
(***************************************************************************)
(* The sum of a table's column over its rows 1..n, as SQL's SUM computes   *)
(* it.  A recursive function, so that it can be proved about as well as    *)
(* evaluated.                                                              *)
(***************************************************************************)
EXTENDS Integers

(* PrefixSums(w, n)[k] = w[1] + ... + w[k], for k in 0..n. *)
PrefixSums(w, n) ==
    LET sum[k \in 0..n] == IF k = 0 THEN 0 ELSE sum[k - 1] + w[k]
    IN  sum

SumOf(w, n) == PrefixSums(w, n)[n]
=============================================================================
