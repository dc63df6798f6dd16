----------------------------- MODULE MC_ClientDeals -----------------------------
(* Three adapters, of which one is not connected; a manifest of one sector  *)
(* and a half and one that has no dag piece; an offer at the highest price  *)
(* that is confirmed and one above it.                                      *)
EXTENDS ClientDeals

CONSTANTS a1, a2, a3

Manifest == [size |-> 3, data |-> 1, dag |-> 1, other |-> 0, dagSize |-> 1,
             onePreparation |-> TRUE, oneAttachment |-> TRUE]

MCManifests == {Manifest, [Manifest EXCEPT !.dag = 0]}
(* Two deals with one disturbance, or one deal with two different ones.     *)
Bound(d, n) == [k \in FaultKinds |-> CASE k = "deals" -> d [] k = "all" -> n [] OTHER -> 1]
MCBounds == {Bound(2, 1), Bound(1, 2)}
=============================================================================
