----------------------------- MODULE MigrationStatus ----------------------------
(***************************************************************************)
(* migration-status: which V1 deals still pay, which V2 deal replaces each,*)
(* and which can no longer be replaced.                                    *)
(*                                                                         *)
(* The command only reads, one call after the other, while claims are      *)
(* adopted, deals begin and end, and settlements of V1 drop claims: the    *)
(* epoch, the rail of each V1 deal, the list of V2 deals, the claims of    *)
(* each V1 deal, those each V2 deal holds, and both again for each line it *)
(* prints.  A V2 deal is found by the claims it holds.                     *)
(* ClaimAdoption and Migration have the commands that change all this;     *)
(* here any claim may be adopted that the adapter would take.              *)
(***************************************************************************)
EXTENDS Naturals

CONSTANTS
  Sources,    \* ids of V1 deals that are Completed or Terminated and have a rail
  ClaimsOf,   \* the claims they were completed with
  Targets,    \* ids of V2 deals there may be
  Others      \* those of another evidence adapter, which holds no claims

AllClaims == UNION {ClaimsOf[s] : s \in Sources}

(* Deals have numbers; an allocation, and the claim it becomes, belongs to  *)
(* one V1 deal.                                                             *)
IdsAssumption ==
  /\ Sources \union Targets \subseteq Nat
  /\ \A s1, s2 \in Sources : s1 # s2 => ClaimsOf[s1] \intersect ClaimsOf[s2] = {}

VARIABLES
  rail,    \* V1 deal -> how far its rail is
  state,   \* V2 deal -> its state
  listed,  \* V1 deal -> those of its claims the V1 client contract still lists
  held,    \* V2 deal -> the claims its adapter holds
  call     \* local variables of the command, and what it printed

vars == <<rail, state, listed, held, call>>

(* Open, terminated with an end to come, past that end, settled and deleted,*)
(* or with a rate that the shutdown of V1 cut to zero.                      *)
Rails == {"open", "ending", "ended", "gone", "cut"}
States == {"none", "ACCEPTED", "ACTIVE", "over"}
Lines == {"lost", "no claims", "adopting", "close", "wait", "settle"}

(* past: the V1 deals whose rail had ended when current_epoch was read;     *)
(* pairs: V2 deal -> V1 deal; todo: what the loop still has before it.      *)
Call == [pc : {"none", "rails", "ids", "pairs", "lines", "done"},
         past : SUBSET Sources, rails : [Sources -> Rails \union {"unread"}], targets : [Targets -> States],
         ids : [Sources -> SUBSET AllClaims], todo : SUBSET (Sources \union Targets), pairs : [Targets -> SUBSET Sources],
         lines : [Sources -> SUBSET Lines], adopted : [Sources -> SUBSET AllClaims], candidates : SUBSET Targets]

Nothing == [pc |-> "none", past |-> {}, rails |-> [s \in Sources |-> "unread"], targets |-> [t \in Targets |-> "none"],
            ids |-> [s \in Sources |-> {}], todo |-> {}, pairs |-> [t \in Targets |-> {}],
            lines |-> [s \in Sources |-> {}], adopted |-> [s \in Sources |-> {}], candidates |-> {}]

Init ==
  /\ rail = [s \in Sources |-> "open"]
  /\ state = [t \in Targets |-> "none"]
  /\ listed = [s \in Sources |-> ClaimsOf[s]]
  /\ held = [t \in Targets |-> {}]
  /\ call = Nothing

At(step) == call.pc = step

First(ids) == CHOOSE i \in ids : \A j \in ids : i <= j
Last(ids) == CHOOSE i \in ids : \A j \in ids : j <= i

-----------------------------------------------------------------------------
(* The deals.                                                               *)

(* The adapter takes a claim for a deal that is ACCEPTED, while its V1 deal *)
(* is not terminated and no V2 deal holds it.                               *)
Adopt(s, t, c) ==
  /\ state[t] = "ACCEPTED" /\ t \notin Others
  /\ rail[s] \in {"open", "cut"} /\ c \in ClaimsOf[s]
  /\ \A other \in Targets : c \notin held[other]
  /\ held' = [held EXCEPT ![t] = @ \union {c}]
  /\ UNCHANGED <<rail, state, listed, call>>

RailSteps == {<<"open", "ending">>, <<"open", "cut">>, <<"ending", "ended">>, <<"ended", "gone">>}
StateSteps == {<<"none", "ACCEPTED">>, <<"ACCEPTED", "ACTIVE">>, <<"ACCEPTED", "over">>, <<"ACTIVE", "over">>}

RailMoves(s, to) ==
  /\ <<rail[s], to>> \in RailSteps
  /\ rail' = [rail EXCEPT ![s] = to]
  /\ UNCHANGED <<state, listed, held, call>>

DealMoves(t, to) ==
  /\ <<state[t], to>> \in StateSteps
  /\ \A u \in Targets : u < t => state[u] # "none"
  /\ state' = [state EXCEPT ![t] = to]
  /\ UNCHANGED <<rail, listed, held, call>>

(* A settlement of V1 drops a claim that is over or marked terminated.      *)
DropClaim(s, c) ==
  /\ c \in listed[s]
  /\ listed' = [listed EXCEPT ![s] = @ \ {c}]
  /\ UNCHANGED <<rail, state, held, call>>

-----------------------------------------------------------------------------
(* The command.                                                             *)

Reads(next) == call' = next /\ UNCHANGED <<rail, state, listed, held>>

(* The epoch, then the list of V1 deals.                                    *)
Begin ==
  /\ call.pc \in {"none", "done"}
  /\ Reads([Nothing EXCEPT !.pc = "rails", !.todo = Sources,
                           !.past = {s \in Sources : rail[s] \in {"ended", "gone"}}])

(* source_rail, for one V1 deal after the other.                            *)
ReadRail ==
  /\ At("rails") /\ call.todo # {}
  /\ LET s == First(call.todo) IN
     Reads([call EXCEPT !.rails[s] = rail[s], !.todo = @ \ {s}])

(* open_source_deals: those whose rail exists and has a rate.               *)
Open == {s \in Sources : call.rails[s] \in {"open", "ending", "ended"}}

(* _MIGRATION_STATES                                                        *)
MigrationStates == {"ACCEPTED", "ACTIVE"}

ReadTargets ==
  /\ At("rails") /\ call.todo = {}
  /\ LET found == {t \in Targets : state[t] \in MigrationStates} IN
     Reads([call EXCEPT !.pc = "ids", !.targets = [t \in Targets |-> IF t \in found THEN state[t] ELSE "none"],
                        !.todo = Open])

Found == {t \in Targets : call.targets[t] # "none"}

(* pair_by_claims: the claims of each V1 deal ...                           *)
ReadIds ==
  /\ At("ids") /\ call.todo # {}
  /\ LET s == First(call.todo) IN
     Reads([call EXCEPT !.ids[s] = listed[s], !.todo = @ \ {s}])

EndOfIds ==
  /\ At("ids") /\ call.todo = {}
  /\ Reads([call EXCEPT !.pc = "pairs", !.todo = Found])

(* ... and the first V1 deal of which the adapter holds a claim.            *)
PairTarget ==
  /\ At("pairs") /\ call.todo # {}
  /\ LET t == First(call.todo)
         own == {s \in Open : t \notin Others /\ held[t] \intersect call.ids[s] # {}}
     IN Reads([call EXCEPT !.pairs[t] = IF own = {} THEN {} ELSE {First(own)}, !.todo = @ \ {t}])

Paired ==
  /\ At("pairs") /\ call.todo = {}
  /\ Reads([call EXCEPT !.pc = "lines", !.todo = Open])

(* The V2 deals of a V1 deal, of which target_by_source keeps the last.     *)
Replacements(s) == {t \in Targets : s \in call.pairs[t]}

(* Mutated form: the rail is read again for the line.                       *)
RailOfNow(s) == IF rail[s] = "open" THEN "no claims" ELSE "lost"

(* No V2 deal is known to hold its claims: "not proposed, or run client     *)
(* adopt-v1-claims", or "its claims cannot be migrated any more".           *)
NoReplacement(s) == IF call.rails[s] = "open" THEN "no claims" ELSE "lost"

(* _target_line: the claims are counted anew; the state of the V2 deal and  *)
(* the rail are those that were read before.                                *)
Adopted(s, t) == held[t] \intersect listed[s]

Overlap(s) ==
  CASE call.rails[s] = "open" -> "close"
    [] call.rails[s] # "open" /\ s \notin call.past -> "wait"
    [] OTHER -> "settle"
TargetLine(s, t) == IF call.targets[t] = "ACCEPTED" THEN "adopting" ELSE Overlap(s)

Line ==
  /\ At("lines") /\ call.todo # {}
  /\ LET s == First(call.todo)
         t == Last(Replacements(s))
         now == [call EXCEPT !.todo = @ \ {s}]
     IN  IF Replacements(s) = {}
           THEN Reads([now EXCEPT !.lines[s] = {NoReplacement(s)}])
           ELSE Reads([now EXCEPT !.lines[s] = {TargetLine(s, t)}, !.adopted[s] = Adopted(s, t)])

(* "ACCEPTED V2 deals without adopted V1 claims"                            *)
Candidates == {t \in Targets : call.targets[t] = "ACCEPTED" /\ call.pairs[t] = {}}

Finish ==
  /\ At("lines") /\ call.todo = {}
  /\ Reads([call EXCEPT !.pc = "done", !.candidates = Candidates])

Next ==
  \/ \E s \in Sources, t \in Targets : \E c \in ClaimsOf[s] : Adopt(s, t, c)
  \/ \E s \in Sources, to \in Rails : RailMoves(s, to)
  \/ \E s \in Sources : \E c \in ClaimsOf[s] : DropClaim(s, c)
  \/ \E t \in Targets, to \in States : DealMoves(t, to)
  \/ Begin \/ ReadRail \/ ReadTargets \/ ReadIds \/ EndOfIds \/ PairTarget \/ Paired \/ Line \/ Finish

Spec == Init /\ [][Next]_vars

-----------------------------------------------------------------------------
(* Properties.                                                              *)

TypeOK ==
  /\ rail \in [Sources -> Rails]
  /\ state \in [Targets -> States]
  /\ listed \in [Sources -> SUBSET AllClaims] /\ \A s \in Sources : listed[s] \subseteq ClaimsOf[s]
  /\ held \in [Targets -> SUBSET AllClaims]
  /\ call \in Call

(* A V1 deal reported as lost, "terminated without a V2 replacement holding *)
(* its claims", is lost: it stays terminated, and no V2 deal that is alive  *)
(* holds a claim it lists or ever will, however much happened between the   *)
(* reads.  Except for a V2 deal that holds claims of two V1 deals: it is    *)
(* found under one of them.                                                 *)
LostForGood ==
  \A s \in Sources : "lost" \in call.lines[s] =>
    /\ rail[s] # "open"
    /\ \A t \in Targets : state[t] \in MigrationStates /\ held[t] \intersect listed[s] # {} => call.pairs[t] # {}

(* Its inductive invariant: from the read of an ended rail on, the claims of*)
(* its V1 deal stay where they are, with V2 deals that the list contained   *)
(* if they are alive, and that were paired unless it is still to be done,   *)
(* by ids of which some may have been dropped since.                        *)
EndedRead == {s \in Sources : call.rails[s] \in {"ending", "ended"}}

Followed(s) ==
  /\ rail[s] \in {"ending", "ended", "gone"}
  /\ \A t \in Targets : state[t] \in MigrationStates /\ held[t] \intersect listed[s] # {} =>
       /\ At("ids") => t \in Found
       /\ call.pc \in {"pairs", "lines", "done"} => (At("pairs") /\ t \in call.todo) \/ call.pairs[t] # {}

IdsRead(s) ==
  (At("ids") /\ s \notin call.todo) \/ At("pairs") => listed[s] \subseteq call.ids[s]

Loops ==
  /\ At("rails") => call.todo \subseteq Sources
  /\ At("ids") => call.todo \subseteq Open
  /\ At("pairs") => call.todo \subseteq Targets
  /\ At("lines") => call.todo \subseteq Open

StatusSound ==
  /\ TypeOK
  /\ Loops
  /\ \A t \in Targets : t \in Others \/ state[t] = "none" => held[t] = {}
  /\ \A s \in EndedRead : Followed(s)
  /\ \A s \in Open : IdsRead(s)
  /\ \A s \in Sources : "lost" \in call.lines[s] => s \in EndedRead /\ call.pc \in {"lines", "done"}
=============================================================================
