------------------------------ MODULE AdapterReads -----------------------------
(***************************************************************************)
(* adapter_claim_ids: the claims an evidence adapter holds for a V2 deal,  *)
(* read page by page from two lists.                                       *)
(*                                                                         *)
(* The adapter keeps the ids it tracks as pending until the claim is       *)
(* confirmed; then the id leaves the pending list, whose order changes     *)
(* under the reader, and is appended to the confirmed list.  Adoption      *)
(* registers new ids at the end of the pending list.  Every page is an     *)
(* eth_call of its own, so all of this happens between two pages.          *)
(* ClaimAdoption and Migration read the adapter in one step; this module   *)
(* is what that rests on.                                                  *)
(***************************************************************************)
EXTENDS Integers, Sequences

CONSTANTS
  Ids,        \* claim ids that may be registered for the deal
  PageSize    \* ids a call returns at most: 500 in the code

ASSUME PageAssumption == PageSize \in Nat \ {0}

VARIABLES
  pending,    \* getAllocationIdsPerDeal of the deal
  confirmed,  \* getClaimIds of the deal
  call        \* the local variables of adapter_claim_ids, and what it should find

vars == <<pending, confirmed, call>>

Elements(list) == {list[k] : k \in 1 .. Len(list)}

(* ids and claims are the two results of _all_adapter_ids so far, offset its*)
(* local variable.  known is not in the code: the ids of the adapter when   *)
(* the last page of the pending list was read.                              *)
Call == [pc : {"none", "pending", "confirmed", "done", "failed"}, offset : Nat,
         ids : SUBSET Ids, claims : SUBSET Ids, known : SUBSET Ids]

At(step) == call.pc = step

Init ==
  /\ pending = <<>>
  /\ confirmed = <<>>
  /\ call = [pc |-> "none", offset |-> 0, ids |-> {}, claims |-> {}, known |-> {}]

-----------------------------------------------------------------------------
(* The adapter.                                                             *)

Held == Elements(pending) \union Elements(confirmed)

Register(id) ==
  /\ id \notin Held
  /\ pending' = Append(pending, id)
  /\ UNCHANGED <<confirmed, call>>

(* The list without its i-th element: the last one takes its place, or all  *)
(* behind it move up.  The code in src/ relies on neither.                  *)
SwapOut(list, i) == [k \in 1 .. Len(list) - 1 |-> IF k = i THEN list[Len(list)] ELSE list[k]]
CloseUp(list, i) == [k \in 1 .. Len(list) - 1 |-> IF k < i THEN list[k] ELSE list[k + 1]]

Confirm(i) ==
  /\ confirmed' = Append(confirmed, pending[i])
  /\ pending' \in {SwapOut(pending, i), CloseUp(pending, i)}
  /\ UNCHANGED call

-----------------------------------------------------------------------------
(* The reader.                                                              *)

Begin ==
  /\ call.pc \in {"none", "done", "failed"}
  /\ call' = [pc |-> "pending", offset |-> 0, ids |-> {}, claims |-> {}, known |-> {}]
  /\ UNCHANGED <<pending, confirmed>>

(* offset += len(page): a page ends with the list or with the page size.    *)
PageEnd(list) ==
  CASE Len(list) <= call.offset -> call.offset
    [] Len(list) > call.offset + PageSize -> call.offset + PageSize
    [] OTHER -> Len(list)

Page(list) == {list[k] : k \in call.offset + 1 .. PageEnd(list)}

(* Mutated form: stop only behind the end of the list.                      *)
BehindTheEnd(list) == PageEnd(list) > Len(list)

(* not page or offset >= total                                              *)
LastPage(list) == PageEnd(list) = call.offset \/ PageEnd(list) >= Len(list)

ReadPending ==
  /\ At("pending")
  /\ call' = [call EXCEPT !.pc = IF LastPage(pending) THEN "confirmed" ELSE "pending",
                          !.offset = IF LastPage(pending) THEN 0 ELSE PageEnd(pending),
                          !.ids = call.ids \union Page(pending),
                          !.known = Held]
  /\ UNCHANGED <<pending, confirmed>>

(* Mutated form: the two lists are joined as they are.                      *)
NeverOverlap(ids, claims) == FALSE

Overlap(ids, claims) == ids \intersect claims # {}

ReadConfirmed ==
  /\ At("confirmed")
  /\ LET claims == call.claims \union Page(confirmed) IN
       call' = [call EXCEPT !.pc = IF ~LastPage(confirmed) THEN "confirmed"
                                   ELSE IF Overlap(call.ids, claims) THEN "failed"
                                   ELSE "done",
                            !.offset = PageEnd(confirmed),
                            !.claims = claims]
  /\ UNCHANGED <<pending, confirmed>>

Reader == ReadPending \/ ReadConfirmed

Next ==
  \/ \E id \in Ids : Register(id)
  \/ \E i \in 1 .. Len(pending) : Confirm(i)
  \/ Begin
  \/ Reader

Spec == Init /\ [][Next]_vars

(* The function goes on to its end.                                         *)
FairSpec == Spec /\ WF_vars(Reader)

-----------------------------------------------------------------------------
(* Properties.                                                              *)

TypeOK ==
  /\ pending \in Seq(Ids) /\ confirmed \in Seq(Ids)
  /\ call \in Call

(* The result of adapter_claim_ids lacks no claim that the adapter held     *)
(* when its pending list was read to the end, however ids moved between the *)
(* lists and within the pending list from page to page: a read that may     *)
(* have skipped one has an id in both lists and is refused.                 *)
ReadComplete == At("done") => call.known \subseteq call.ids \union call.claims

(* The function comes to an end, with a result or the error.                *)
ReadEnds == At("pending") ~> At("done") \/ At("failed")

-----------------------------------------------------------------------------
(* The inductive invariant.  What was read of the pending list is still its *)
(* prefix, or an id that was read has moved to the confirmed list since.    *)

Moved == \E k \in 1 .. Len(confirmed) : confirmed[k] \in call.ids

PrefixRead(list, read) ==
  call.offset <= Len(list) /\ \A k \in 1 .. call.offset : list[k] \in read

ReadSound ==
  /\ TypeOK
  /\ At("pending") => Moved \/ PrefixRead(pending, call.ids)
  /\ At("confirmed") =>
       /\ Moved \/ call.known \subseteq call.ids \union Elements(confirmed)
       /\ PrefixRead(confirmed, call.claims)
  /\ ReadComplete
=============================================================================
