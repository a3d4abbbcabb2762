------------------------------- MODULE Words -------------------------------
(***************************************************************************)
(* The integers of Go: those of a width, in two's complement.              *)
(***************************************************************************)
EXTENDS Integers

Pow2[n \in Nat] == IF n = 0 THEN 1 ELSE 2 * Pow2[n - 1]

MaxInt(width) == Pow2[width - 1] - 1
MinInt(width) == -Pow2[width - 1]

\* What is left of n in an integer of this width.
Wrapped(n, width) == ((n - MinInt(width)) % Pow2[width]) + MinInt(width)
=============================================================================
