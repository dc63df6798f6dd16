--------------------------- MODULE MC_ClaimAdoption ---------------------------
(* A small instance of ClaimAdoption: two V1 deals, three claims.            *)
EXTENDS ClaimAdoption, TLC

CONSTANTS r1, r2, v1a, v1b, v2a, v2b, c1, c2, c3

(* One V1 deal of two claims and one of a single claim.                     *)
TwoDealClaims == (v1a :> {c1, c2}) @@ (v1b :> {c3})
(* Each V1 deal has its own V2 deal.                                        *)
PairList == {<<v1a, v2a>>, <<v1b, v2b>>}
(* Both are given for one V2 deal.                                          *)
MixedPairs == {<<v1a, v2a>>, <<v1b, v2a>>}
=============================================================================
