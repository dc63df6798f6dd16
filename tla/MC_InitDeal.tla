----------------------------- MODULE MC_InitDeal -----------------------------
(* A small instance of InitDeal.                                            *)
EXTENDS InitDeal, TLC

CONSTANTS s1, s2, d1, d2

(* Any disturbance, one in a behaviour.                                     *)
AnyFault == [kind \in FaultKinds |-> 1]
OnlyDeclines == [kind \in FaultKinds |-> IF kind \in {"all", "decline"} THEN 1 ELSE 0]
=============================================================================
