----------------------------- MODULE ClaimAdoption -----------------------------
(***************************************************************************)
(* `client adopt-v1-claims`: the command that moves the DataCap claims of  *)
(* a V1 deal under a V2 deal, batch by batch, with one wallet.             *)
(*                                                                         *)
(* A run of the command is a process.  It holds no state that survives it: *)
(* everything it knows was read from the chain, a step at a time, while    *)
(* other runs, the transactions of runs that died, and the operators of    *)
(* the two markets keep changing that chain.  The steps of a run are in    *)
(* the order of the code; the chain (the wallet's nonce, the transactions  *)
(* waiting for a block, the V2 adapter's list of claims, the states of the *)
(* two deals) is modelled from how the code uses it.                       *)
(***************************************************************************)
EXTENDS Integers, FiniteSets

CONSTANTS
  Runs,             \* processes that may be running the command, one wallet
  Sources,          \* V1 deals
  Targets,          \* V2 deals
  Claims,           \* claim ids
  ClaimsOf,         \* V1 deal -> the claim ids its client contract lists
  Pairs,            \* the <<V1 deal, V2 deal>> arguments an operator may give
  BatchSize,        \* --batch-size
  MaxFaults,        \* bound on crashes, drops and outside interference
  AcceptsRepeats,   \* would the adapter take a claim it already holds again?
  OneAdoptPerDeal,  \* the runbook's rule: one run per V2 deal at a time
  NoRun, NoDeal     \* not a run, not a deal

Size(S) == Cardinality(S)

ASSUME ConstantsAssumption ==
  /\ ClaimsOf \in [Sources -> SUBSET Claims]
  /\ IsFiniteSet(Claims)
  /\ \A s \in Sources : ClaimsOf[s] # {}
  /\ \A s1, s2 \in Sources : s1 # s2 => ClaimsOf[s1] \cap ClaimsOf[s2] = {}
  /\ Pairs \subseteq Sources \X Targets
  /\ BatchSize \in Nat \ {0}
  /\ MaxFaults \in Nat
  /\ AcceptsRepeats \in BOOLEAN
  /\ OneAdoptPerDeal \in BOOLEAN
  /\ NoRun \notin Runs
  /\ NoDeal \notin Sources \cup Targets

VARIABLES
  run,       \* what each process knows
  mempool,   \* transactions of the wallet that are broadcast and not in a block
  count,     \* the wallet's "latest" transaction count
  held,      \* V2 deal -> claim ids its adapter holds
  doubled,   \* V2 deal -> claim ids its adapter was given, and counted, twice
  status,    \* V2 deal: norail, ready, shut (posting over), gone (not ACCEPTED)
  paying,    \* V1 deals that are Completed with an open rail
  term,      \* claim: running, extended (as a batch asked) or gone (expired)
  reported,  \* pairs for which a run printed "All V1 claims are registered"
  faults     \* disturbances left

vars == <<run, mempool, count, held, doubled, status, paying, term, reported, faults>>
chain == <<held, doubled, status, paying, term>>

Steps == {"idle", "loaded", "planned", "preflighted", "looping", "guarded",
          "clear", "signed", "waiting", "landed", "validated"}
Idle == [pc |-> "idle", src |-> NoDeal, dst |-> NoDeal, rail |-> FALSE,
         todo |-> {}, batch |-> {}, nonce |-> 0, outcome |-> "none"]

Run == [pc : Steps, src : Sources \cup {NoDeal}, dst : Targets \cup {NoDeal},
        rail : BOOLEAN, todo : SUBSET Claims, batch : SUBSET Claims,
        nonce : Nat, outcome : {"none", "ok", "reverted"}]
Busy == {x \in Run : x.pc # "idle" /\ <<x.src, x.dst>> \in Pairs}
Tx == [nonce : Nat, by : Runs \cup {NoRun}, dst : Targets \cup {NoDeal},
       claims : SUBSET Claims]

(* The transaction a run has signed.                                        *)
TxOf(r) == [nonce |-> run[r].nonce, by |-> r, dst |-> run[r].dst,
            claims |-> run[r].batch]

Init ==
  /\ run = [r \in Runs |-> Idle]
  /\ mempool = {}
  /\ count = 0
  /\ held = [d \in Targets |-> {}]
  /\ doubled = [d \in Targets |-> {}]
  /\ status \in [Targets -> {"norail", "ready"}]
  /\ paying = Sources
  /\ term = [c \in Claims |-> "running"]
  /\ reported = {}
  /\ faults = MaxFaults

-----------------------------------------------------------------------------
(* What the adapter answers to submitDataCapBatch, in a call, in a gas      *)
(* estimate and in a block: a batch is taken while the V2 deal is ACCEPTED, *)
(* has its rail and its posting is open, the V1 deals of its claims are not *)
(* terminated, none of its claims has expired and no other V2 deal holds    *)
(* one of them.  Whether it refuses a claim the same deal already holds is  *)
(* not visible from this repository.                                        *)
Accepts(d, batch) ==
  /\ status[d] = "ready"
  /\ \A c \in batch : term[c] # "gone"
  /\ \A s \in Sources \ paying : ClaimsOf[s] \cap batch = {}
  /\ \A other \in Targets \ {d} : held[other] \cap batch = {}
  /\ AcceptsRepeats \/ held[d] \cap batch = {}

(* Mutated form: the two counts are never found different.                  *)
NeverPending == FALSE

(* The wallet has a transaction that is not in a block yet.  What the code  *)
(* compares are the "pending" and the "latest" count.                       *)
Pending == \E t \in mempool : t.nonce = count

(* The sum of the sizes of the claims the adapter lists equals the bytes it *)
(* recorded exactly when it counted none of them twice: sizes are positive. *)
BytesMatch(d) == doubled[d] = {}

-----------------------------------------------------------------------------
(* The steps of a run.                                                      *)

At(r, step) == run[r].pc = step
Goto(r, step) == run' = [run EXCEPT ![r].pc = step]
Stop(r) == run' = [run EXCEPT ![r] = Idle]

(* qualify_source: V1 is Completed, with a rail that is not terminated and  *)
(* has a rate.                                                              *)
QualifySource(s) == s \in paying

(* load_pair: the snapshot of both deals.  V1 must be paying; the V2 state  *)
(* and rail the plan tests come from this snapshot.                         *)
LoadPair(r, s, d) ==
  /\ At(r, "idle")
  /\ OneAdoptPerDeal => \A other \in Runs : run[other].dst # d
  /\ QualifySource(s)
  /\ status[d] # "gone"
  /\ run' = [run EXCEPT ![r] = [Idle EXCEPT !.pc = "loaded", !.src = s, !.dst = d,
                                            !.rail = (status[d] # "norail")]]
  /\ UNCHANGED <<mempool, count, chain, reported, faults>>

(* Mutated form: the comparison the wrong way round.                        *)
CompleteIfWithin(s, registered) == registered \subseteq ClaimsOf[s]

(* AdoptionPlan.complete                                                    *)
Complete(s, registered) == registered = ClaimsOf[s]

(* Mutated form: a deal that already holds claims is not planned again.     *)
PlanOnlyFresh(r) ==
  /\ status[run[r].dst] # "shut"
  /\ \A c \in ClaimsOf[run[r].src] : term[c] # "gone"
  /\ held[run[r].dst] = {}

(* adoption_plan, source_claims and build_adoption_plan: posting open, every*)
(* V1 claim still there, no id of another deal on the adapter, no id twice. *)
PlanOK(r) ==
  /\ status[run[r].dst] # "shut"
  /\ \A c \in ClaimsOf[run[r].src] : term[c] # "gone"
  /\ held[run[r].dst] \subseteq ClaimsOf[run[r].src]
  /\ BytesMatch(run[r].dst)

(* Nothing left to extend: the command says so and returns.                 *)
ReportComplete(r) ==
  /\ At(r, "loaded")
  /\ PlanOK(r)
  /\ Complete(run[r].src, held[run[r].dst])
  /\ reported' = reported \cup {<<run[r].src, run[r].dst>>}
  /\ Stop(r)
  /\ UNCHANGED <<mempool, count, chain, faults>>

Plan(r) ==
  /\ At(r, "loaded")
  /\ PlanOK(r)
  /\ ~Complete(run[r].src, held[run[r].dst])
  /\ run[r].rail
  /\ run' = [run EXCEPT ![r].pc = "planned",
                        ![r].todo = ClaimsOf[run[r].src] \ held[run[r].dst]]
  /\ UNCHANGED <<mempool, count, chain, reported, faults>>

(* Every batch is tried with eth_call and estimate_gas before the prompt.   *)
Preflight(r) ==
  /\ At(r, "planned")
  /\ Accepts(run[r].dst, run[r].todo)
  /\ Goto(r, "preflighted")
  /\ UNCHANGED <<mempool, count, chain, reported, faults>>

(* The operator confirmed; ensure_no_pending_transactions before the loop.  *)
EnterLoop(r) ==
  /\ At(r, "preflighted")
  /\ ~Pending
  /\ Goto(r, "looping")
  /\ UNCHANGED <<mempool, count, chain, reported, faults>>

(* Mutated form: --batch-size is ignored.                                   *)
WholePlan(todo) == {todo}

(* The next batch of the plan.  The code cuts the list of claims in order;  *)
(* here any set of that size may be next.                                   *)
Batches(todo) ==
  {b \in SUBSET todo : Size(b) = BatchSize \/ (b = todo /\ Size(b) < BatchSize)}

(* Mutated form: the plan is trusted, nothing is read again.                *)
TrustThePlan(r, batch) == TRUE

(* ensure_unregistered: no claim of the batch reached the adapter meanwhile *)
Unregistered(r, batch) == batch \cap held[run[r].dst] = {}

NextBatch(r) ==
  /\ At(r, "looping")
  /\ \E batch \in Batches(run[r].todo) :
       /\ Unregistered(r, batch)
       /\ run' = [run EXCEPT ![r].pc = "guarded", ![r].batch = batch]
  /\ UNCHANGED <<mempool, count, chain, reported, faults>>

(* sign_and_send_tx inside batch_confirmation: refuse to queue behind       *)
(* another transaction of the wallet ...                                    *)
EnsureNoPending(r) ==
  /\ At(r, "guarded")
  /\ ~Pending
  /\ Goto(r, "clear")
  /\ UNCHANGED <<mempool, count, chain, reported, faults>>

(* Mutated form: queue behind what is pending.                              *)
NonceBehindPending == IF Pending THEN count + 1 ELSE count

(* ... take the "latest" count, read again, as the nonce, and build the     *)
(* transaction, which estimates its gas and fails where it would revert.    *)
NonceToUse == count

Sign(r) ==
  /\ At(r, "clear")
  /\ Accepts(run[r].dst, run[r].batch)
  /\ run' = [run EXCEPT ![r].pc = "signed", ![r].nonce = NonceToUse]
  /\ UNCHANGED <<mempool, count, chain, reported, faults>>

(* send_raw_transaction.  The node refuses a used nonce; of two             *)
(* transactions with one nonce it keeps one: it refuses the second (see     *)
(* Refused) or lets it replace the first.                                   *)
Send(r) ==
  /\ At(r, "signed")
  /\ run[r].nonce >= count
  /\ mempool' = {t \in mempool : t.nonce # run[r].nonce} \cup {TxOf(r)}
  /\ Goto(r, "waiting")
  /\ UNCHANGED <<count, chain, reported, faults>>

(* wait_for_transaction_receipt returned a receipt with status 1.           *)
Receipt(r) ==
  /\ At(r, "waiting")
  /\ run[r].outcome = "ok"
  /\ run' = [run EXCEPT ![r].pc = "landed", ![r].outcome = "none"]
  /\ UNCHANGED <<mempool, count, chain, reported, faults>>

(* Mutated form: what else the V2 deal holds is not looked at.              *)
ReadbackBatchOnly(r) ==
  /\ run[r].batch \subseteq held[run[r].dst]
  /\ BytesMatch(run[r].dst)
  /\ \A c \in run[r].batch : term[c] = "extended"

(* validate_batch_receipt: the readback of what the batch changed, in the   *)
(* adapter (the ids and their bytes) and in the registry of claims (each    *)
(* claim of the batch is still there and was extended).                     *)
ReadbackOK(r) ==
  /\ run[r].batch \subseteq held[run[r].dst]
  /\ held[run[r].dst] \subseteq ClaimsOf[run[r].src]
  /\ BytesMatch(run[r].dst)
  /\ \A c \in run[r].batch : term[c] = "extended"

Validate(r) ==
  /\ At(r, "landed")
  /\ ReadbackOK(r)
  /\ LET rest == run[r].todo \ run[r].batch IN
       run' = [run EXCEPT ![r].pc = IF rest = {} THEN "validated" ELSE "looping",
                          ![r].todo = rest, ![r].batch = {}, ![r].nonce = 0]
  /\ UNCHANGED <<mempool, count, chain, reported, faults>>

(* adoption_progress: the last check, on a fresh read of both lists.        *)
Progress(r) ==
  /\ At(r, "validated")
  /\ ClaimsOf[run[r].src] \subseteq held[run[r].dst]
  /\ reported' = reported \cup {<<run[r].src, run[r].dst>>}
  /\ Stop(r)
  /\ UNCHANGED <<mempool, count, chain, faults>>

(* A check of the command failed: it prints why and ends.  A transaction it *)
(* sent stays where it is.                                                  *)
Fails(r) ==
  LET me == run[r]
      replaceable == \E t \in mempool : t.nonce = me.nonce
  IN  \/ me.pc = "loaded" /\ ~PlanOK(r)
      \/ me.pc = "loaded" /\ ~Complete(me.src, held[me.dst]) /\ ~me.rail
      \/ me.pc = "planned" /\ ~Accepts(me.dst, me.todo)
      \/ me.pc \in {"preflighted", "guarded"} /\ Pending
      \/ me.pc = "looping" /\ \E b \in Batches(me.todo) : ~Unregistered(r, b)
      \/ me.pc = "clear" /\ ~Accepts(me.dst, me.batch)
      \/ me.pc = "signed" /\ (me.nonce < count \/ replaceable)
      \/ me.pc = "waiting" /\ me.outcome = "reverted"
      \/ me.pc = "waiting" /\ me.outcome = "none" /\ TxOf(r) \notin mempool
      \/ me.pc = "landed" /\ ~ReadbackOK(r)
      \/ me.pc = "validated" /\ ~(ClaimsOf[me.src] \subseteq held[me.dst])

Refused(r) ==
  /\ Fails(r)
  /\ Stop(r)
  /\ UNCHANGED <<mempool, count, chain, reported, faults>>

Step(r) ==
  \/ ReportComplete(r) \/ Plan(r) \/ Preflight(r) \/ EnterLoop(r) \/ NextBatch(r)
  \/ EnsureNoPending(r) \/ Sign(r) \/ Send(r) \/ Receipt(r) \/ Validate(r)
  \/ Progress(r) \/ Refused(r)

-----------------------------------------------------------------------------
(* The chain, and what disturbs a run.                                      *)

(* A block takes the wallet's next transaction, which succeeds or reverts;  *)
(* every other transaction with its nonce is dead.  A batch that succeeds   *)
(* registers its claims and extends them, both or neither; the registry     *)
(* takes no extension that shortens a term.                                 *)
Land(t) ==
  LET ok == t.by \in Runs /\ Accepts(t.dst, t.claims)
  IN  /\ t \in mempool
      /\ t.nonce = count
      /\ count' = count + 1
      /\ mempool' = {u \in mempool : u.nonce # count}
      /\ held' = [d \in Targets |-> IF ok /\ d = t.dst THEN held[d] \cup t.claims
                                                       ELSE held[d]]
      /\ doubled' = [d \in Targets |-> IF ok /\ d = t.dst
                                         THEN doubled[d] \cup (held[d] \cap t.claims)
                                         ELSE doubled[d]]
      /\ term' = [c \in Claims |-> IF ok /\ c \in t.claims THEN "extended" ELSE term[c]]
      /\ run' = [r \in Runs |-> IF At(r, "waiting") /\ t = TxOf(r)
                                  THEN [run[r] EXCEPT !.outcome = IF ok THEN "ok" ELSE "reverted"]
                                  ELSE run[r]]
      /\ UNCHANGED <<status, paying, reported, faults>>

(* `client init-deal` gave the V2 deal its rail.                            *)
RailCreated(d) ==
  /\ status[d] = "norail"
  /\ status' = [status EXCEPT ![d] = "ready"]
  /\ UNCHANGED <<run, mempool, count, held, doubled, paying, term, reported, faults>>

Fault == faults > 0 /\ faults' = faults - 1

(* Ctrl-C, a lost connection, an RPC error or the 15 minutes of the receipt *)
(* wait: the run is gone, what it broadcast is not.                         *)
Crash(r) ==
  /\ Fault
  /\ ~At(r, "idle")
  /\ Stop(r)
  /\ UNCHANGED <<mempool, count, chain, reported>>

(* The node evicts a transaction.                                           *)
Drop(t) ==
  /\ Fault
  /\ mempool' = mempool \ {t}
  /\ UNCHANGED <<run, count, chain, reported>>

(* Another program sends from the same wallet, behind what is pending.      *)
OtherTx ==
  /\ Fault
  /\ \E n \in {count} \cup {t.nonce + 1 : t \in mempool} :
       /\ \A t \in mempool : t.nonce # n
       /\ \A m \in count .. n - 1 : \E t \in mempool : t.nonce = m
       /\ mempool' = mempool \cup {[nonce |-> n, by |-> NoRun, dst |-> NoDeal, claims |-> {}]}
  /\ UNCHANGED <<run, count, chain, reported>>

(* The V2 deal is rejected, expires or is terminated; or its posting is     *)
(* finished or its adapter switched off.                                    *)
CloseTarget(d) ==
  /\ Fault
  /\ \/ status[d] \in {"norail", "ready"} /\ status' = [status EXCEPT ![d] = "shut"]
     \/ status[d] # "gone" /\ status' = [status EXCEPT ![d] = "gone"]
  /\ UNCHANGED <<run, mempool, count, held, doubled, paying, term, reported>>

(* The V1 rail is terminated by somebody else.                              *)
TerminateSource(s) ==
  /\ Fault
  /\ s \in paying
  /\ paying' = paying \ {s}
  /\ UNCHANGED <<run, mempool, count, held, doubled, status, term, reported>>

(* A claim reaches the end of its term, and may be removed from the registry*)
(* from then on; an extended one has years left.                            *)
Expire(c) ==
  /\ Fault
  /\ term[c] = "running"
  /\ term' = [term EXCEPT ![c] = "gone"]
  /\ UNCHANGED <<run, mempool, count, held, doubled, status, paying, reported>>

Next ==
  \/ \E r \in Runs : Step(r) \/ Crash(r)
  \/ \E r \in Runs, p \in Pairs : LoadPair(r, p[1], p[2])
  \/ \E t \in mempool : Land(t) \/ Drop(t)
  \/ OtherTx
  \/ \E d \in Targets : RailCreated(d) \/ CloseTarget(d)
  \/ \E s \in Sources : TerminateSource(s)
  \/ \E c \in Claims : Expire(c)

Spec == Init /\ [][Next]_vars

(* A started run keeps going, the chain includes what it can, init-deal is  *)
(* run for every deal, and the operator re-runs the command for every pair  *)
(* as its messages say.  Nothing is assumed of the disturbances.            *)
Fairness ==
  /\ \A r \in Runs : WF_vars(Step(r))
  /\ \A p \in Pairs : SF_vars(\E r \in Runs : LoadPair(r, p[1], p[2]))
  /\ WF_vars(\E t \in mempool : Land(t))
  /\ \A d \in Targets : WF_vars(RailCreated(d))

FairSpec == Spec /\ Fairness

-----------------------------------------------------------------------------
(* Properties.                                                              *)

TypeOK ==
  /\ run \in [Runs -> {Idle} \cup Busy]
  /\ mempool \subseteq Tx
  /\ count \in Nat
  /\ held \in [Targets -> SUBSET Claims]
  /\ doubled \in [Targets -> SUBSET Claims]
  /\ status \in [Targets -> {"norail", "ready", "shut", "gone"}]
  /\ paying \subseteq Sources
  /\ term \in [Claims -> {"running", "extended", "gone"}]
  /\ reported \subseteq Pairs
  /\ faults \in Nat

(* "Safe to re-run; already registered claims are skipped" (client.py):     *)
(* however runs die and are started again, no claim reaches the adapter     *)
(* twice, although the adapter itself would take it.                        *)
NoDoubleRegistration == \A d \in Targets : doubled[d] = {}

(* A batch never waits behind another transaction of the wallet: what a run *)
(* broadcasts is the next transaction a block can take, so an eviction of   *)
(* some other transaction cannot leave it behind a hole in the nonces.      *)
BatchExecutable == \A t \in mempool : t.by \in Runs => t.nonce = count

(* A pair that was reported complete is complete: no claim of the V1 deal   *)
(* is left behind, from the report on.                                      *)
ReportTruthful == \A p \in reported : held[p[2]] = ClaimsOf[p[1]]

(* While the runbook's rule is kept, "landed but the chain readback does    *)
(* not match" cannot be printed, whichever of its checks would say it: with *)
(* a receipt of status 1 the adapter lists the batch, nothing of another V1 *)
(* deal and nothing twice, and every claim of the batch is in the registry  *)
(* with its new term, although claims expire between the plan and the block.*)
ReadbackMatches == \A r \in Runs : At(r, "landed") => ReadbackOK(r)

(* Without that rule, and with two V1 deals for one V2 deal, runs can mix   *)
(* the claims of both: ids of another V1 deal are looked for when the plan  *)
(* is built and after each batch, not before it (ensure_unregistered).  But *)
(* never unnoticed: at most one of the V1 deals is reported as adopted, so  *)
(* "Adapter registered claims outside the V1 deal" was printed for another. *)
OneReportPerDeal == \A p, q \in reported : p[2] = q[2] => p = q

(* Its inductive invariant: a pair is confirmed once the last batch was read*)
(* back, and from then on no run of another V1 deal reads back its own.     *)
Confirmed ==
  reported \cup {<<run[r].src, run[r].dst>> : r \in {q \in Runs : At(q, "validated")}}

(* What a run plans and sends: claims of its V1 deal.                       *)
OwnClaims(x) ==
  /\ x.batch \subseteq x.todo
  /\ x.pc # "idle" => x.todo \subseteq ClaimsOf[x.src]
  /\ x.pc \in {"planned", "preflighted", "looping"} => x.todo # {}
  /\ x.pc \in {"loaded", "planned", "preflighted", "looping"} => x.batch = {}
  /\ x.pc \in {"guarded", "clear", "signed", "waiting", "landed"} => x.batch # {}

MixInv ==
  /\ TypeOK
  /\ \A r \in Runs : OwnClaims(run[r])
  /\ \A p \in Confirmed : held[p[2]] \cap ClaimsOf[p[1]] # {}
  /\ \A p, q \in Confirmed : p[2] = q[2] => p = q

(* The inductive invariant behind the safety properties, with the runbook's *)
(* rule in force.                                                           *)

InLoop == {"looping", "guarded", "clear", "signed", "waiting", "landed", "validated"}

(* No two runs work on one V2 deal.                                         *)
RunsApart ==
  \A q, r \in Runs : q # r /\ run[q].dst = run[r].dst => At(r, "idle")

(* What a run means to send: claims of its V1 deal that, once the guard has *)
(* looked, the V2 deal does not hold; under a nonce that is not ahead.      *)
RunFresh(x) ==
  /\ OwnClaims(x)
  /\ x.pc \in {"guarded", "clear", "signed", "waiting", "landed"} => Size(x.batch) <= BatchSize
  /\ x.pc \in {"guarded", "clear", "signed"} => x.batch \cap held[x.dst] = {}
  /\ x.pc = "signed" => x.nonce <= count
  /\ x.outcome # "none" => x.pc = "waiting"
  /\ (x.pc = "landed" \/ x.outcome = "ok") => x.batch \subseteq held[x.dst]

BatchFresh == \A r \in Runs : RunFresh(run[r])

(* What is broadcast: fresh, next in line, of one pair ...                  *)
TxFresh(t) ==
  /\ t.nonce = count
  /\ t.claims # {} /\ Size(t.claims) <= BatchSize
  /\ \E p \in Pairs : t.dst = p[2] /\ t.claims \subseteq ClaimsOf[p[1]] \ held[p[2]]

MempoolFresh == \A t \in mempool : t.by \in Runs => TxFresh(t)

(* ... and while a run is in its loop, nothing is broadcast for its V2 deal *)
(* but what it waits for itself.                                            *)
LoopAlone ==
  \A t \in mempool, r \in Runs :
    t.by \in Runs /\ run[r].pc \in InLoop /\ run[r].dst = t.dst
    => At(r, "waiting") /\ t = TxOf(r)

HeldByPair ==
  /\ \A p \in Pairs : held[p[2]] \subseteq ClaimsOf[p[1]]
  /\ NoDoubleRegistration
  /\ ReportTruthful

(* What an adapter holds was extended when it was registered.               *)
HeldExtended == \A d \in Targets : \A c \in held[d] : term[c] = "extended"

AdoptionInv ==
  /\ TypeOK /\ RunsApart /\ BatchFresh /\ MempoolFresh /\ LoopAlone
  /\ HeldByPair /\ HeldExtended

(* The module's promise: the command implements the ledger.                 *)
Ledger == INSTANCE AdoptionLedger
ImplementsLedger == Ledger!Spec

Lost(s, d) ==
  \/ status[d] \in {"shut", "gone"}
  \/ s \notin paying
  \/ \E c \in ClaimsOf[s] : term[c] = "gone"

(* Re-running finishes the job: a pair that stays adoptable is at last      *)
(* reported complete.                                                       *)
EventuallyReported ==
  \A p \in Pairs : <>(p \in reported \/ Lost(p[1], p[2]))
=============================================================================
