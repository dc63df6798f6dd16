---------------------------------- MODULE Powers ---------------------------------
(* Powers of natural numbers, as a recursive function rather than with `^`, *)
(* of which the provers know nothing; and lengths in bits.                  *)
EXTENDS Integers

Power(b, n) == LET power[k \in Nat] == IF k = 0 THEN 1 ELSE b * power[k - 1] IN power[n]

BitLength(n) == LET length[m \in Nat] == IF m = 0 THEN 0 ELSE length[m \div 2] + 1 IN length[n]
=============================================================================
