------------------------------- MODULE Powers --------------------------------
(* The powers that say how wide a word is and what a digit is worth, as a  *)
(* recursive function: the proofs can unfold it.                           *)
EXTENDS Integers

power(base, n) ==
  LET p[k \in Nat] == IF k = 0 THEN 1 ELSE base * p[k - 1] IN p[n]
=============================================================================
