-------------------------------- MODULE Bits --------------------------------
(***************************************************************************)
(* The shifts and masks of unsigned numbers that src/sim/bitstream.cpp is  *)
(* written with, on naturals of any size.                                  *)
(***************************************************************************)
EXTENDS Naturals

\* 1 << n, as a function that a proof can unfold.
Pow2[n \in Nat] == IF n = 0 THEN 1 ELSE 2 * Pow2[n - 1]

\* x << k, x >> k, and x & ((1 << k) - 1).
Shifted(x, k) == x * Pow2[k]
High(x, k) == x \div Pow2[k]
Low(x, k) == x % Pow2[k]
=============================================================================
