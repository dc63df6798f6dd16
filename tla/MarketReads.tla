------------------------------- MODULE MarketReads -----------------------------
(***************************************************************************)
(* get_all_deals: the deals of the market, read with                       *)
(* call_contract_paginated.                                                *)
(*                                                                         *)
(* All deals come from a list in creation order, which only grows.  The    *)
(* deals of an organization come from a list for each state, read one      *)
(* after the other in the order of the states' codes, while deals move     *)
(* from list to list.  A deal of the market only ever moves to a state of  *)
(* a higher code (PROPOSED 10, ACCEPTED 20, ACTIVE 30, the ends above).    *)
(* Nothing is checked after the read.  A deal may come back twice, in two  *)
(* states; and when one leaves a list of several pages between two of them,*)
(* those behind it move up and the next page begins one too late.  The     *)
(* module asks when deals can be missing, and how many.                    *)
(***************************************************************************)
EXTENDS Integers, Sequences, FiniteSets

CONSTANTS
  Deals,
  Own,     \* the deals of the organization that is asked for
  States,  \* number of states
  Limit    \* deals of a page: 100 in the code

ReadsAssumption ==
  /\ States \in Nat \ {0} /\ Limit \in Nat \ {0}
  /\ Own \subseteq Deals /\ IsFiniteSet(Own)

VARIABLES
  created, \* all deals, in creation order
  lists,   \* those of the organization in each state, in the order of the codes
  call     \* local variables of the read, and the deals it should find

vars == <<created, lists, call>>

(* organization tells which of the two reads it is; at counts the selected  *)
(* states, offset and count belong to the list that is read (count is       *)
(* len(all_results)), found is the result, known the deals there were at    *)
(* the beginning.  shifted is no variable of the code: it counts the deals  *)
(* that left pages that were read while the rest of the list was not.       *)
Call == [pc : {"none", "reading", "done"}, organization : BOOLEAN, at : 1 .. States, offset : Nat,
         count : Nat, found : SUBSET Deals, known : SUBSET Deals, shifted : Nat]

Elements(list) == {list[k] : k \in 1 .. Len(list)}
Created == Elements(created)

Init ==
  /\ created = <<>>
  /\ lists = [s \in 1 .. States |-> <<>>]
  /\ call = [pc |-> "none", organization |-> FALSE, at |-> 1, offset |-> 0, count |-> 0, found |-> {}, known |-> {},
             shifted |-> 0]

-----------------------------------------------------------------------------
(* The market.                                                              *)

Create(d) ==
  /\ d \notin Created
  /\ created' = Append(created, d)
  /\ lists' = IF d \in Own THEN [lists EXCEPT ![1] = Append(@, d)] ELSE lists
  /\ UNCHANGED call

(* Mutated form: the lists are read from the last state to the first.       *)
LatestFirst == [k \in 1 .. States |-> States + 1 - k]

(* selected_states = list(PoRepMarketDealState)                             *)
SelectedStates == [k \in 1 .. States |-> k]

(* A deal leaves the list of its state, and the last one takes its place or *)
(* those behind it move up.                                                 *)
SwapOut(list, i) == [k \in 1 .. Len(list) - 1 |-> IF k = i THEN list[Len(list)] ELSE list[k]]
CloseUp(list, i) == [k \in 1 .. Len(list) - 1 |-> IF k < i THEN list[k] ELSE list[k + 1]]

(* Its place is on a page that was read, and pages behind it are not.       *)
Shifts(s, i) ==
  /\ call.pc = "reading" /\ call.organization /\ s = SelectedStates[call.at]
  /\ i <= call.offset /\ call.offset < Len(lists[s])

Advance(s, t, i) ==
  /\ s < t
  /\ \E rest \in {SwapOut(lists[s], i), CloseUp(lists[s], i)} :
       lists' = [lists EXCEPT ![s] = rest, ![t] = Append(@, lists[s][i])]
  /\ call' = IF Shifts(s, i) THEN [call EXCEPT !.shifted = @ + 1] ELSE call
  /\ UNCHANGED created

-----------------------------------------------------------------------------
(* The reader.                                                              *)

Begin(organization) ==
  /\ call.pc # "reading"
  /\ call' = [pc |-> "reading", organization |-> organization, at |-> 1, offset |-> 0, count |-> 0,
               found |-> {}, known |-> IF organization THEN Created \intersect Own ELSE Created,
               shifted |-> 0]
  /\ UNCHANGED <<created, lists>>

(* not result or len(all_results) >= total                                  *)
LastPage(size, total) == size = 0 \/ call.count + size >= total
NextOffset == call.offset + Limit

ReadPage ==
  /\ call.pc = "reading"
  /\ LET list == IF call.organization THEN lists[SelectedStates[call.at]] ELSE created
         last == ~call.organization \/ call.at = States
         rows == {k \in 1 .. Len(list) : k > call.offset /\ k <= call.offset + Limit}
         size == Cardinality(rows)
         now  == [call EXCEPT !.found = @ \union {list[k] : k \in rows}]
     IN call' = CASE ~LastPage(size, Len(list)) ->
                       [now EXCEPT !.offset = NextOffset, !.count = @ + size]
                  [] LastPage(size, Len(list)) /\ ~last ->
                       [now EXCEPT !.at = @ + 1, !.offset = 0, !.count = 0]
                  [] OTHER -> [now EXCEPT !.pc = "done"]
  /\ UNCHANGED <<created, lists>>

Next ==
  \/ \E d \in Deals : Create(d)
  \/ \E s, t \in 1 .. States : \E i \in 1 .. Len(lists[s]) : Advance(s, t, i)
  \/ \E organization \in BOOLEAN : Begin(organization)
  \/ ReadPage

Spec == Init /\ [][Next]_vars

-----------------------------------------------------------------------------
(* Properties.                                                              *)

TypeOK ==
  /\ created \in Seq(Deals)
  /\ lists \in [1 .. States -> Seq(Own)]
  /\ call \in Call

(* A read that is through lacks no more deals that existed when it began    *)
(* than left, while it was between two pages of a list, the pages of that   *)
(* list it had read.  So the list in creation order can be read page by     *)
(* page while it grows; a list that fits on a page is read whole; and a deal*)
(* that changes its state during the read of the other lists is met in one  *)
(* of them, since it moves with the reader and never against it.            *)
MissedOnlyByShifts == call.pc = "done" => Cardinality(call.known \ call.found) <= call.shifted

-----------------------------------------------------------------------------
(* The inductive invariant.  Every deal of the organization is in one place *)
(* of one list.  Of all deals the reader has the first ones, and its offset *)
(* is its count.  Of the lists of states it comes to what is behind its     *)
(* offset and to the later lists; what is known and neither found nor there *)
(* has been shifted past it.                                                *)

Distinct(list) == \A k, j \in 1 .. Len(list) : list[k] = list[j] => k = j

OwnListed ==
  /\ \A s \in 1 .. States : Distinct(lists[s])
  /\ \A s, t \in 1 .. States : s # t => Elements(lists[s]) \intersect Elements(lists[t]) = {}
  /\ UNION {Elements(lists[s]) : s \in 1 .. States} = Created \intersect Own

InOrder ==
  /\ call.count = call.offset /\ call.offset <= Len(created)
  /\ \A k \in 1 .. call.offset : created[k] \in call.found
  /\ call.known \subseteq Created

Behind(list, offset) == {list[k] : k \in offset + 1 .. Len(list)}

StillComes(d) == \/ d \in Behind(lists[call.at], call.offset)
                 \/ \E s \in call.at + 1 .. States : d \in Elements(lists[s])

Passed == {d \in call.known \ call.found : ~StillComes(d)}

Ahead ==
  /\ call.count = call.offset
  /\ call.known \subseteq Created \intersect Own
  /\ Cardinality(Passed) <= call.shifted

ReadSound ==
  /\ TypeOK
  /\ OwnListed
  /\ call.pc = "reading" => IF call.organization THEN Ahead ELSE InOrder
  /\ MissedOnlyByShifts
=============================================================================
