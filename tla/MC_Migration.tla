----------------------------- MODULE MC_Migration -----------------------------
(* A small instance of Migration: one pair, two claims.                     *)
EXTENDS Migration, TLC

CONSTANTS j1, j2, v1a, v2a, c1, c2

OneDeal == v1a :> {c1, c2}
OnePair == {<<v1a, v2a>>}
OneRequest == v2a :> 2

(* Every kind of disturbance once, and two of them in one behaviour.         *)
EveryFault == [kind \in FaultKinds |-> IF kind = "all" THEN 2 ELSE 1]
=============================================================================
