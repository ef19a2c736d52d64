-------------------------------- MODULE Sums --------------------------------
(* Sums of the values of a function on 0..n. *)
EXTENDS Naturals

SumTo(f, n) ==
    LET sum[i \in 0..n] == f[i] + (IF i = 0 THEN 0 ELSE sum[i - 1])
    IN  sum[n]

=============================================================================
