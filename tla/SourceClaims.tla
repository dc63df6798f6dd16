------------------------------ MODULE SourceClaims ------------------------------
(***************************************************************************)
(* The claims of a V1 deal, as adopt-v1-claims reads them for its plan.    *)
(*                                                                         *)
(* They are in three places: the ids and their bytes in the V1 client      *)
(* contract, the claims in the registry of the chain, and the marks of     *)
(* those that are terminated, again in the contract.  One call after the   *)
(* other, and the marks by four threads, takes minutes for a large deal,   *)
(* while claims go, are marked, and are dropped by a settlement of V1.     *)
(***************************************************************************)
EXTENDS Naturals, FiniteSets, Functions

CONSTANTS
  Allocations,   \* claim ids the V1 deal was completed with
  SizeOf,        \* their sizes, all positive
  Capacity,      \* bytes that V2 deals may have requested
  Padding        \* get_deal_activation_padding, in per cent

SizesAssumption == IsFiniteSet(Allocations) /\ SizeOf \in [Allocations -> Nat \ {0}]

VARIABLES
  listed,      \* V1 client contract: ids of the deal, whose bytes it records
  registry,    \* claims the chain has
  marked,      \* V1 client contract: claims marked terminated
  sound,       \* claims with the client, provider, piece and sector to be expected
  requested,   \* bytes the V2 deal requests
  reading      \* local variables of the command

vars == <<listed, registry, marked, sound, requested, reading>>
chain == <<listed, registry, marked, sound, requested>>

(* terminated: of the marks read so far; unread: those still to be read.    *)
(* Not in the code are before, the marks when the command began, and then,  *)
(* what was listed when it ended.                                           *)
Idle == [pc |-> "idle", tipset |-> {}, ids |-> {}, unread |-> {}, terminated |-> {},
         before |-> {}, then |-> {}]

Init ==
  /\ listed = Allocations /\ registry = Allocations /\ marked = {}
  /\ sound \in SUBSET Allocations
  /\ requested \in Capacity
  /\ reading = Idle

At(step) == reading.pc = step
Reads(next) == reading' = next /\ UNCHANGED chain

-----------------------------------------------------------------------------
(* The chain: a claim goes with its sector or its term; V1 marks it; and a  *)
(* settlement drops it, when it is gone or marked, with its bytes.          *)

Goes(c) ==
  /\ registry' = registry \ {c} /\ c \in registry
  /\ UNCHANGED <<listed, marked, sound, requested, reading>>

Mark(c) ==
  /\ marked' = marked \union {c} /\ c \notin marked
  /\ UNCHANGED <<listed, registry, sound, requested, reading>>

DropClaim(c) ==
  /\ c \in listed /\ (c \in marked \/ c \notin registry)
  /\ listed' = listed \ {c}
  /\ UNCHANGED <<registry, marked, sound, requested, reading>>

Bytes(claims) == SumFunctionOnSet(SizeOf, claims)

-----------------------------------------------------------------------------
(* The command.                                                             *)

(* get_tipset_key: the claims will be those of this tipset.                 *)
Begin ==
  /\ At("idle")
  /\ Reads([Idle EXCEPT !.pc = "ids", !.tipset = registry, !.before = marked])

(* Each id must have a claim at the tipset: of the V1 client, with the      *)
(* provider of the deal, and with a piece, a size and a sector.             *)
Healthy(ids) == ids # {} /\ ids \subseteq reading.tipset /\ ids \subseteq sound

ReadIds ==
  /\ At("ids")
  /\ IF Healthy(listed)
       THEN Reads([reading EXCEPT !.pc = "marks", !.ids = listed, !.unread = listed])
       ELSE Reads(Idle)

(* _terminated_claim_ids: the threads take the ids in any order.            *)
ReadMark(c) ==
  /\ At("marks") /\ c \in reading.unread
  /\ Reads([reading EXCEPT !.unread = @ \ {c}, !.terminated = @ \union ({c} \intersect marked)])

EndMarks ==
  /\ At("marks") /\ reading.unread = {}
  /\ IF reading.terminated = {} THEN Reads([reading EXCEPT !.pc = "size"]) ELSE Reads(Idle)

(* Mutated form: the size the deal was proposed with.                       *)
ProposedBytes == Bytes(reading.ids) = Bytes(Allocations)

(* allocated_size: the bytes V1 records for what it lists by then.          *)
RecordedBytes == Bytes(reading.ids) = Bytes(listed)

(* check_target_size: the deal can be activated with these claims.          *)
TargetSize ==
  LET bytes == Bytes(reading.ids)
  IN  /\ requested * (100 - Padding) <= bytes * 100
      /\ bytes * 100 <= requested * (100 + Padding)

ReadSize ==
  /\ At("size")
  /\ IF RecordedBytes /\ TargetSize
       THEN Reads([reading EXCEPT !.pc = "done", !.then = listed])
       ELSE Reads(Idle)

Again == At("done") /\ Reads(Idle)

Next ==
  \/ \E c \in Allocations : Goes(c) \/ Mark(c) \/ DropClaim(c) \/ ReadMark(c)
  \/ Begin \/ ReadIds \/ EndMarks \/ ReadSize \/ Again

Spec == Init /\ [][Next]_vars

-----------------------------------------------------------------------------
(* Properties.                                                              *)

(* A plan is of the claims V1 lists when it is made, no more and no less,   *)
(* although the ids were read first and only bytes were compared in the end *)
(* ("claim bytes do not equal the bytes recorded"); and of none that was    *)
(* marked terminated when the command began.                                *)
PlanWhole ==
  At("done") => reading.ids = reading.then /\ reading.ids \intersect reading.before = {}

-----------------------------------------------------------------------------
(* The inductive invariant.  The contract only drops ids, and marks stay:   *)
(* what is listed is a part of what was read, and of what was marked from   *)
(* the beginning nothing gets past the threads.                             *)

Reading ==
  [pc : {"idle", "ids", "marks", "size", "done"}, tipset : SUBSET Allocations, ids : SUBSET Allocations,
   unread : SUBSET Allocations, terminated : SUBSET Allocations, before : SUBSET Allocations,
   then : SUBSET Allocations]

TypeOK ==
  /\ listed \subseteq Allocations /\ registry \subseteq Allocations /\ marked \subseteq Allocations
  /\ sound \subseteq Allocations /\ requested \in Capacity
  /\ reading \in Reading

PlanSound ==
  /\ TypeOK
  /\ reading.before \subseteq marked
  /\ At("marks") \/ At("size") => listed \subseteq reading.ids
  /\ At("marks") => reading.ids \intersect reading.before \subseteq reading.unread \union reading.terminated
  /\ At("size") => reading.ids \intersect reading.before = {}
  /\ PlanWhole
=============================================================================
