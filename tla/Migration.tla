------------------------------- MODULE Migration -------------------------------
(***************************************************************************)
(* The migration of V1 deals to V2 after adoption: `client finish-migration`*)
(* closes the posting of a V2 deal, the service activates it, and          *)
(* `client close-v1-deal` stops the payments of the V1 deal.  Adoption is  *)
(* its ledger (module AdoptionLedger, which ClaimAdoption implements).     *)
(*                                                                         *)
(* Both commands look at the chain in several reads, ask the client, and   *)
(* send: when the transaction lands, minutes or hours later, the state the *)
(* checks saw is old.  Time is what is left until the end epoch of a       *)
(* terminated V1 rail is past.  Nonces are left out: any set of            *)
(* transactions may wait for a block and they land in any order.           *)
(***************************************************************************)
EXTENDS Integers, FiniteSets

CONSTANTS
  Jobs,        \* processes that may run one of the two commands
  Sources,     \* V1 deals
  Targets,     \* V2 deals
  Claims,      \* claim ids, of one size
  ClaimsOf,    \* V1 deal -> the claim ids of the deal
  Pairs,       \* <<V1 deal, V2 deal>>
  BatchSize,   \* of adoption
  Requested,   \* V2 deal -> requested size
  Padding,     \* the deal activation padding
  Lockups,     \* lockup periods of V1 rails
  MaxNotice,   \* MAX_V1_NOTICE_EPOCHS
  SameRun,     \* SAME_RUN_SETTLEMENT_EPOCHS
  MaxFaults,   \* kind of disturbance -> how often it may happen ("all": together)
  NoDeal

FaultKinds == {"all", "crash", "evict", "expire", "end_v1", "end_v2"}

ASSUME ConstantsAssumption ==
  /\ IsFiniteSet(Claims)
  /\ ClaimsOf \in [Sources -> SUBSET Claims]
  /\ Pairs \subseteq Sources \X Targets
  /\ Requested \in [Targets -> Nat]
  /\ Lockups \subseteq Nat
  /\ Padding \in Nat /\ MaxNotice \in Nat /\ SameRun \in Nat /\ BatchSize \in Nat
  /\ MaxFaults \in [FaultKinds -> Nat]
  /\ NoDeal \notin Sources \cup Targets

VARIABLES
  held,      \* V2 deal -> claim ids its adapter holds
  listed,    \* V1 deal -> claim ids its client contract lists
  v1,        \* V1 deal -> its rail: "open", "ended" (has an end epoch), "settled"
  lockup,    \* V1 deal -> lockup period of its rail
  left,      \* V1 deal -> epochs until the end epoch is past
  v2,        \* V2 deal -> "accepted", "posted" (posting over), "active", "over"
  prepared,  \* V2 deals that have a rail
  job,       \* what each process knows
  txs,       \* transactions that wait for a block
  faults     \* kind of disturbance -> how often it may still happen ("all": together)

v1vars == <<listed, v1, lockup, left>>
v2vars == <<held, v2, prepared>>
vars == <<v1vars, v2vars, job, txs, faults>>

Ledger == INSTANCE AdoptionLedger WITH reported <- {}

Actions == {"none", "finish", "terminate", "settle"}
States == {"accepted", "posted", "active", "over"}
Steps == {"idle", "loaded", "checked", "preflighted", "waiting", "landed", "timed", "due"}
Idle == [pc |-> "idle", src |-> NoDeal, dst |-> NoDeal, action |-> "none", force |-> FALSE,
         notice |-> 0, state |-> "over", outcome |-> "none"]
Job == [pc : Steps, src : Sources \cup {NoDeal}, dst : Targets \cup {NoDeal},
        action : Actions, force : BOOLEAN,
        notice : Nat, state : States,   \* the snapshot: lockup of V1, state of V2
        outcome : {"none", "ok", "reverted"}]
Tx == [by : Jobs, src : Sources, dst : Targets, action : Actions \ {"none"}, force : BOOLEAN]

Init ==
  /\ held = [d \in Targets |-> {}]
  /\ listed = ClaimsOf
  /\ v1 = [s \in Sources |-> "open"]
  /\ lockup \in [Sources -> Lockups]
  /\ left = [s \in Sources |-> 0]
  /\ v2 = [d \in Targets |-> "accepted"]
  /\ prepared = {}
  /\ job = [j \in Jobs |-> Idle]
  /\ txs = {}
  /\ faults = MaxFaults

-----------------------------------------------------------------------------
(* What the commands read and compare.                                      *)

At(j, step) == job[j].pc = step
TxOf(j) == [by |-> j, src |-> job[j].src, dst |-> job[j].dst, action |-> job[j].action,
            force |-> job[j].force]
Stop(j) == job' = [job EXCEPT ![j] = Idle]

(* adoption_progress: "missing = source_ids - registered"                   *)
Missing(s, d) == listed[s] \ held[d]

(* size_within_padding(allocated, requested, padding)                       *)
SizeOK(d) ==
  /\ Cardinality(held[d]) <= Requested[d] + Padding
  /\ Requested[d] <= Cardinality(held[d]) + Padding

(* "current_epoch <= rail.end_epoch" is false.                              *)
PastEnd(epochs) == epochs = 0

(* What the contracts take, in a call, a gas estimate and a block: an open  *)
(* posting, a rail that is not terminated, a terminated rail past its end.  *)
Accepts(t) ==
  CASE t.action = "finish" -> v2[t.dst] = "accepted"
    [] t.action = "terminate" -> v1[t.src] = "open"
    [] t.action = "settle" -> v1[t.src] = "ended" /\ left[t.src] = 0

-----------------------------------------------------------------------------
(* finish-migration: the pair, the state of V2, its posting and its rail.   *)
LoadFinish(j, s, d) ==
  /\ At(j, "idle")
  /\ v2[d] = "accepted"
  /\ d \in prepared
  /\ job' = [job EXCEPT ![j] = [Idle EXCEPT !.pc = "loaded", !.src = s, !.dst = d,
                                            !.action = "finish"]]
  /\ UNCHANGED <<v1vars, v2vars, txs, faults>>

(* Mutated form: the bytes are not compared with the request.               *)
CheckFinishAnySize(j) ==
  /\ At(j, "loaded")
  /\ job[j].action = "finish"
  /\ Missing(job[j].src, job[j].dst) = {}
  /\ job' = [job EXCEPT ![j].pc = "preflighted"]
  /\ UNCHANGED <<v1vars, v2vars, txs, faults>>

(* Every claim V1 lists is registered, and the bytes fit the request.       *)
CheckFinish(j) ==
  /\ At(j, "loaded")
  /\ job[j].action = "finish"
  /\ Missing(job[j].src, job[j].dst) = {}
  /\ SizeOK(job[j].dst)
  /\ job' = [job EXCEPT ![j].pc = "preflighted"]
  /\ UNCHANGED <<v1vars, v2vars, txs, faults>>

(* close-v1-deal: the snapshot of the pair.  A settled rail is nothing to   *)
(* do; the operation follows from the end epoch.                            *)
LoadClose(j, s, d, force) ==
  /\ At(j, "idle")
  /\ v1[s] # "settled"
  /\ job' = [job EXCEPT ![j] = [Idle EXCEPT !.pc = "loaded", !.src = s, !.dst = d,
                                            !.force = force,
                                            !.notice = lockup[s], !.state = v2[d],
                                            !.action = IF v1[s] = "open" THEN "terminate"
                                                                         ELSE "settle"]]
  /\ UNCHANGED <<v1vars, v2vars, txs, faults>>

(* Mutated forms: --force skips the checks; a rail that is already          *)
(* terminated is checked as well.                                           *)
UnlessForced(j) == job[j].action = "terminate" /\ ~job[j].force
AlwaysReplaced(j) == job[j].action \in {"terminate", "settle"}

(* "a rail that is already terminated is settled without these checks"      *)
MustBeReplaced(j) == job[j].action = "terminate"

(* _require_v2_replaces_v1 on a fresh read of the claims and the V2 state   *)
(* of the snapshot; the notice of the snapshot; the end epoch.              *)
CheckClose(j) ==
  /\ At(j, "loaded")
  /\ job[j].action \in {"terminate", "settle"}
  /\ MustBeReplaced(j) => /\ Missing(job[j].src, job[j].dst) = {}
                          /\ job[j].state = "active"
  /\ job[j].action = "terminate" => job[j].notice <= MaxNotice \/ job[j].force
  /\ job[j].action = "settle" => PastEnd(left[job[j].src])
  /\ job' = [job EXCEPT ![j].pc = "checked"]
  /\ UNCHANGED <<v1vars, v2vars, txs, faults>>

(* The operation is tried with eth_call before the prompt.                  *)
Preflight(j) ==
  /\ At(j, "checked")
  /\ Accepts(TxOf(j))
  /\ job' = [job EXCEPT ![j].pc = "preflighted"]
  /\ UNCHANGED <<v1vars, v2vars, txs, faults>>

(* The prompts are answered, the gas is estimated, the transaction is sent. *)
(* A settlement in the run that terminated comes here without a preflight.  *)
Send(j) ==
  /\ job[j].pc \in {"preflighted", "due"}
  /\ Accepts(TxOf(j))
  /\ txs' = txs \cup {TxOf(j)}
  /\ job' = [job EXCEPT ![j].pc = "waiting"]
  /\ UNCHANGED <<v1vars, v2vars, faults>>

(* The receipt has status 1.                                                *)
Receipt(j) ==
  /\ At(j, "waiting")
  /\ job[j].outcome = "ok"
  /\ IF job[j].action = "terminate"
       THEN job' = [job EXCEPT ![j].pc = "landed", ![j].outcome = "none"]
       ELSE Stop(j)
  /\ UNCHANGED <<v1vars, v2vars, txs, faults>>

(* Mutated form: the same run settles without waiting.                      *)
SettleAtOnce(j) ==
  /\ At(j, "landed")
  /\ v1[job[j].src] = "ended"
  /\ left[job[j].src] - 1 <= SameRun
  /\ job' = [job EXCEPT ![j].pc = "due", ![j].action = "settle"]
  /\ UNCHANGED <<v1vars, v2vars, txs, faults>>

(* After the termination the rail is read again: settled in this run when   *)
(* its end epoch is close.                                                  *)
SettleSoon(j) ==
  /\ At(j, "landed")
  /\ v1[job[j].src] = "ended"
  /\ left[job[j].src] - 1 <= SameRun
  /\ job' = [job EXCEPT ![j].pc = "timed", ![j].action = "settle"]
  /\ UNCHANGED <<v1vars, v2vars, txs, faults>>

(* _wait_past_epoch                                                         *)
WaitPast(j) ==
  /\ At(j, "timed")
  /\ PastEnd(left[job[j].src])
  /\ job' = [job EXCEPT ![j].pc = "due"]
  /\ UNCHANGED <<v1vars, v2vars, txs, faults>>

(* A check failed, or there is nothing to do yet: the command says so.      *)
Ends(j) ==
  LET me == job[j] IN
  \/ me.pc = "loaded" /\ me.action = "finish"
       /\ (Missing(me.src, me.dst) # {} \/ ~SizeOK(me.dst))
  \/ me.pc = "loaded" /\ MustBeReplaced(j)
       /\ (Missing(me.src, me.dst) # {} \/ me.state # "active")
  \/ me.pc = "loaded" /\ me.action = "terminate" /\ me.notice > MaxNotice /\ ~me.force
  \/ me.pc = "loaded" /\ me.action = "settle" /\ ~PastEnd(left[me.src])
  \/ me.pc \in {"checked", "preflighted", "due"} /\ ~Accepts(TxOf(j))
  \/ me.pc = "waiting" /\ me.outcome = "reverted"
  \/ me.pc = "waiting" /\ me.outcome = "none" /\ TxOf(j) \notin txs
  \/ me.pc = "landed" /\ (v1[me.src] # "ended" \/ left[me.src] - 1 > SameRun)

End(j) ==
  /\ Ends(j)
  /\ Stop(j)
  /\ UNCHANGED <<v1vars, v2vars, txs, faults>>

Step(j) ==
  \/ CheckFinish(j) \/ CheckClose(j) \/ Preflight(j) \/ Send(j) \/ Receipt(j)
  \/ SettleSoon(j) \/ WaitPast(j) \/ End(j)

-----------------------------------------------------------------------------
(* The chain and the other parties.                                         *)

(* A block takes a transaction; a terminated rail pays on for its lockup.   *)
Land(t) ==
  LET ok == Accepts(t)
      does(action) == ok /\ t.action = action
  IN  /\ txs' = txs \ {t}
      /\ v1' = [s \in Sources |-> IF s # t.src THEN v1[s]
                                  ELSE IF does("terminate") THEN "ended"
                                  ELSE IF does("settle") THEN "settled"
                                  ELSE v1[s]]
      /\ left' = [s \in Sources |-> IF s = t.src /\ does("terminate") THEN lockup[s] + 1
                                                                      ELSE left[s]]
      /\ v2' = [d \in Targets |-> IF d = t.dst /\ does("finish") THEN "posted" ELSE v2[d]]
      /\ job' = [j \in Jobs |-> IF At(j, "waiting") /\ t = TxOf(j)
                                  THEN [job[j] EXCEPT !.outcome = IF ok THEN "ok" ELSE "reverted"]
                                  ELSE job[j]]
      /\ UNCHANGED <<listed, lockup, held, prepared, faults>>

(* A batch of adoption, while V1 pays and the posting of V2 is open.        *)
Adopt(s, d, batch) ==
  /\ v1[s] = "open" /\ v2[d] = "accepted" /\ d \in prepared
  /\ batch \subseteq listed[s]
  /\ Ledger!Adopt(s, d, batch)
  /\ UNCHANGED <<v1vars, v2, prepared, job, txs, faults>>

(* `client init-deal`                                                       *)
Prepare(d) ==
  /\ d \notin prepared
  /\ prepared' = prepared \cup {d}
  /\ UNCHANGED <<v1vars, held, v2, job, txs, faults>>

(* The PoRep Market service activates what is posted.                       *)
Activate(d) ==
  /\ v2[d] = "posted"
  /\ v2' = [v2 EXCEPT ![d] = "active"]
  /\ UNCHANGED <<v1vars, held, prepared, job, txs, faults>>

(* The admin shortens the lockup period of a V1 rail.                       *)
Shorten(s) ==
  /\ v1[s] = "open"
  /\ lockup[s] > MaxNotice
  /\ \E period \in Lockups : period < lockup[s] /\ lockup' = [lockup EXCEPT ![s] = period]
  /\ UNCHANGED <<listed, v1, left, v2vars, job, txs, faults>>

(* An epoch passes.                                                         *)
Tick ==
  /\ \E s \in Sources : left[s] > 0
  /\ left' = [s \in Sources |-> IF left[s] > 0 THEN left[s] - 1 ELSE 0]
  /\ UNCHANGED <<listed, v1, lockup, v2vars, job, txs, faults>>

Fault(kind) ==
  /\ faults[kind] > 0 /\ faults["all"] > 0
  /\ faults' = [faults EXCEPT ![kind] = @ - 1, !["all"] = @ - 1]

(* Ctrl-C, a prompt answered no, an RPC error, a receipt that does not come.*)
Crash(j) ==
  /\ Fault("crash")
  /\ ~At(j, "idle")
  /\ Stop(j)
  /\ UNCHANGED <<v1vars, v2vars, txs>>

Evict(t) ==
  /\ Fault("evict")
  /\ txs' = txs \ {t}
  /\ UNCHANGED <<v1vars, v2vars, job>>

(* A V1 settlement drops an expired or terminated claim from the V1 deal.   *)
Expire(s, claim) ==
  /\ Fault("expire")
  /\ claim \in listed[s]
  /\ listed' = [listed EXCEPT ![s] = @ \ {claim}]
  /\ UNCHANGED <<v1, lockup, left, v2vars, job, txs>>

(* The admin terminates the V1 rail.                                        *)
EndV1(s) ==
  /\ Fault("end_v1")
  /\ v1[s] = "open"
  /\ v1' = [v1 EXCEPT ![s] = "ended"]
  /\ left' = [left EXCEPT ![s] = lockup[s] + 1]
  /\ UNCHANGED <<listed, lockup, v2vars, job, txs>>

(* The V2 deal is rejected, expires, is terminated early or finalized.      *)
EndV2(d) ==
  /\ Fault("end_v2")
  /\ v2[d] # "over"
  /\ v2' = [v2 EXCEPT ![d] = "over"]
  /\ UNCHANGED <<v1vars, held, prepared, job, txs>>

Next ==
  \/ \E j \in Jobs : Step(j) \/ Crash(j)
  \/ \E j \in Jobs, p \in Pairs :
       \/ LoadFinish(j, p[1], p[2])
       \/ \E force \in BOOLEAN : LoadClose(j, p[1], p[2], force)
  \/ \E t \in txs : Land(t) \/ Evict(t)
  \/ \E p \in Pairs, batch \in SUBSET Claims : Adopt(p[1], p[2], batch)
  \/ \E d \in Targets : Prepare(d) \/ Activate(d) \/ EndV2(d)
  \/ \E s \in Sources : Shorten(s) \/ EndV1(s) \/ \E claim \in Claims : Expire(s, claim)
  \/ Tick

Spec == Init /\ [][Next]_vars

(* Both commands are run again as their messages say, the service and the   *)
(* admin do their part, init-deal and adoption finish (ClaimAdoption shows  *)
(* that they do), blocks and epochs come.                                   *)
Fairness ==
  /\ \A j \in Jobs : WF_vars(Step(j))
  /\ \A p \in Pairs : /\ SF_vars(\E j \in Jobs : LoadFinish(j, p[1], p[2]))
                      /\ SF_vars(\E j \in Jobs : LoadClose(j, p[1], p[2], FALSE))
                      /\ WF_vars(\E batch \in SUBSET Claims : Adopt(p[1], p[2], batch))
  /\ \A d \in Targets : WF_vars(Prepare(d)) /\ WF_vars(Activate(d))
  /\ \A s \in Sources : WF_vars(Shorten(s))
  /\ WF_vars(\E t \in txs : Land(t))
  /\ WF_vars(Tick)

FairSpec == Spec /\ Fairness

-----------------------------------------------------------------------------
(* Properties.                                                              *)

TypeOK ==
  /\ held \in [Targets -> SUBSET Claims]
  /\ listed \in [Sources -> SUBSET Claims]
  /\ v1 \in [Sources -> {"open", "ended", "settled"}]
  /\ lockup \in [Sources -> Nat]
  /\ left \in [Sources -> Nat]
  /\ v2 \in [Targets -> States]
  /\ prepared \subseteq Targets
  /\ job \in [Jobs -> Job]
  /\ txs \subseteq Tx
  /\ faults \in [FaultKinds -> Nat]

(* V1 may go: V2 holds every claim V1 still lists, and was activated.       *)
Replaced(s, d) == Missing(s, d) = {} /\ v2[d] \in {"active", "over"}

(* A transaction of close-v1-deal terminates the rail of its V1 deal.       *)
Terminates(t) == t.action = "terminate" /\ v1[t.src] = "open" /\ v1'[t.src] = "ended"

(* "must be ACTIVE and hold the claims of the V1 deal before the V1 rail is *)
(* closed": when the termination of close-v1-deal lands, however old its    *)
(* checks are, no claim is stranded and the V2 deal was activated; and V1   *)
(* pays on for no longer than the allowed notice, unless forced.            *)
ReplacedBeforeClosed ==
  [][\A t \in txs : t \notin txs' /\ Terminates(t)
       => /\ Replaced(t.src, t.dst)
          /\ t.force \/ left'[t.src] <= MaxNotice + 1]_vars

(* A posting is finished only for a V2 deal that is whole: every claim V1   *)
(* lists, and as many bytes as were requested.  Nothing can be added later. *)
FinishedWhole ==
  \A p \in Pairs : v2[p[2]] \in {"posted", "active"} => Missing(p[1], p[2]) = {} /\ SizeOK(p[2])

(* A settlement was found due, by the checks of a later run or by the wait  *)
(* of the one that terminated, and was refused: by the eth_call, the gas    *)
(* estimate after the prompts, or a block.                                  *)
RefusedSettlement(j) ==
  /\ job[j].action = "settle"
  /\ \/ job[j].pc \in {"checked", "preflighted", "due"}
     \/ job[j].pc = "waiting" /\ job[j].outcome = "reverted"
  /\ End(j)

(* A run that goes on to settle is told no only when the rail was settled   *)
(* already, by another run or a transaction of a dead one: it is not early, *)
(* whichever way it came there and whatever the other runs and the admin    *)
(* did since it read the end epoch.                                         *)
RefusedOnlyIfSettled ==
  [][\A j \in Jobs : RefusedSettlement(j) => v1[job[j].src] = "settled"]_vars

(* The inductive invariant: what a transaction relies on, from the check on *)
(* and in flight.                                                           *)
Sound(action, s, d, force) ==
  /\ <<s, d>> \in Pairs
  /\ action = "terminate" => Replaced(s, d) /\ (force \/ lockup[s] <= MaxNotice)
  /\ action = "finish" => Missing(s, d) = {} /\ SizeOK(d)
  /\ action = "settle" => v1[s] # "open" /\ left[s] = 0

JobSound(x) ==
  /\ <<x.src, x.dst>> \in Pairs /\ x.action # "none"
  /\ x.pc = "loaded" /\ x.action = "terminate" =>
       /\ lockup[x.src] <= x.notice
       /\ x.state = "active" => v2[x.dst] \in {"active", "over"}
  /\ x.pc \in {"checked", "preflighted", "due", "waiting"}
       => Sound(x.action, x.src, x.dst, x.force)
  /\ x.pc \in {"timed", "due"} => x.action = "settle"
  /\ x.action = "settle" => v1[x.src] # "open"
  /\ x.outcome # "none" => x.pc = "waiting"
  /\ x.action = "settle" /\ x.outcome = "reverted" => v1[x.src] = "settled"

MigrationInv ==
  /\ TypeOK
  /\ \A j \in Jobs : ~At(j, "idle") => JobSound(job[j])
  /\ \A t \in txs : Sound(t.action, t.src, t.dst, t.force)
  /\ FinishedWhole

(* Adoption has done what it can: what V1 lists and V2 holds is not what    *)
(* was requested.                                                           *)
WrongSize(s, d) ==
  LET size == Cardinality(held[d] \cup listed[s])
  IN  size > Requested[d] + Padding \/ Requested[d] > size + Padding

(* The wait for a wallet with nothing pending may not end after an eviction *)
(* (see NonceReads).                                                        *)
NothingEvicted == faults["evict"] = MaxFaults["evict"]

(* V1 is settled and finalized in the end, if V2 is not lost on the way and *)
(* its size was right, however runs die in between.                         *)
EventuallySettled ==
  []NothingEvicted => \A p \in Pairs : <>(v1[p[1]] = "settled" \/ v2[p[2]] = "over" \/ WrongSize(p[1], p[2]))
=============================================================================
