-------------------------------- MODULE Sums --------------------------------
(***************************************************************************)
(* The sum of the first numbers of a sequence: of the lengths of chunks,   *)
(* and of the amounts of vesting steps.                                    *)
(***************************************************************************)
EXTENDS Integers

\* d[1] + ... + d[n]
SumTo(d, n) ==
  LET sum[k \in 0..n] == IF k = 0 THEN 0 ELSE sum[k - 1] + d[k] IN sum[n]
=============================================================================
