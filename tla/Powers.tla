------------------------------- MODULE Powers -------------------------------
(***************************************************************************)
(* Powers of two (math/math.h), by which all sizes of domains, layers and  *)
(* cosets are given, sums of their logarithms, and the reversal of the     *)
(* bits of an index (utils/bit_reversal.h).                                *)
(***************************************************************************)
EXTENDS Naturals, Sequences

Pow2[n \in Nat] == IF n = 0 THEN 1 ELSE 2 * Pow2[n - 1]

(* BitReverse[bits][n], of a number n of so many bits. *)
BitReverse[bits \in Nat] ==
  [n \in Nat |-> IF bits = 0 THEN 0 ELSE (n % 2) * Pow2[bits - 1] + BitReverse[bits - 1][n \div 2]]

(* The sum of the first n elements of a sequence of numbers. *)
SumOfFirst(s, n) ==
  LET sum[k \in 0..n] == IF k = 0 THEN 0 ELSE sum[k - 1] + s[k]
  IN  sum[n]

SumOf(s) == SumOfFirst(s, Len(s))
=============================================================================
