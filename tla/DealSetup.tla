------------------------------- MODULE DealSetup -------------------------------
(***************************************************************************)
(* What initializing a deal promises: the deal gets its validator, then    *)
(* the deposit of its first month together with the approval of the        *)
(* validator as an operator, then its rail, each of them once.             *)
(***************************************************************************)
EXTENDS Naturals

CONSTANT Deals

VARIABLES
  stage,     \* how far the deal is: "new", "deployed", "funded" or "ready"
  deposits   \* how many first months were deposited for the deal

Init ==
  /\ stage = [d \in Deals |-> "new"]
  /\ deposits = [d \in Deals |-> 0]

Advance(d, from, to) == stage[d] = from /\ stage' = [stage EXCEPT ![d] = to]

Deploy(d) == Advance(d, "new", "deployed") /\ UNCHANGED deposits

Fund(d) ==
  /\ Advance(d, "deployed", "funded")
  /\ deposits[d] = 0
  /\ deposits' = [deposits EXCEPT ![d] = 1]

OpenRail(d) == Advance(d, "funded", "ready") /\ UNCHANGED deposits

Next == \E d \in Deals : Deploy(d) \/ Fund(d) \/ OpenRail(d)

Spec == Init /\ [][Next]_<<stage, deposits>>
=============================================================================
