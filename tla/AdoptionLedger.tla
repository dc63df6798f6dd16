----------------------------- MODULE AdoptionLedger -----------------------------
(***************************************************************************)
(* What adoption promises, whatever runs of the command, crashes and       *)
(* transactions it is made of: a ledger of claims under V2 deals that only *)
(* grows, by batches of claims nobody holds yet, each of one V1 deal and   *)
(* under the V2 deal it is paired with; and a report of completion that is *)
(* made for a pair only when its V2 deal holds exactly the V1 claims.      *)
(***************************************************************************)
EXTENDS Integers, FiniteSets

CONSTANTS Sources, Targets, Claims, ClaimsOf, Pairs, BatchSize

VARIABLES
  held,      \* V2 deal -> claim ids under it
  reported   \* pairs reported complete

Init ==
  /\ held = [d \in Targets |-> {}]
  /\ reported = {}

(* One batch joins the claims of a V2 deal.                                 *)
Adopt(s, d, batch) ==
  /\ batch # {} /\ batch \subseteq ClaimsOf[s]
  /\ Cardinality(batch) <= BatchSize
  /\ \A other \in Targets : held[other] \cap batch = {}
  /\ held[d] \subseteq ClaimsOf[s]
  /\ held' = [held EXCEPT ![d] = @ \cup batch]
  /\ UNCHANGED reported

(* The pair is reported complete, once or, by a later run, again.           *)
Report(s, d) ==
  /\ held[d] = ClaimsOf[s]
  /\ reported' = reported \cup {<<s, d>>}
  /\ UNCHANGED held

Next ==
  \E p \in Pairs : \/ \E batch \in SUBSET ClaimsOf[p[1]] : Adopt(p[1], p[2], batch)
                   \/ Report(p[1], p[2])

Spec == Init /\ [][Next]_<<held, reported>>
=============================================================================
