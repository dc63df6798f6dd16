------------------------- MODULE ClaimAdoption_proofs -------------------------
(***************************************************************************)
(* ClaimAdoption, for every number of runs, deals and claims, every batch  *)
(* size and every number of disturbances: type correctness without further *)
(* assumption; and, when the runbook's rule of one run per V2 deal is kept *)
(* and the pair list gives each V2 deal one V1 deal, the inductive         *)
(* invariant AdoptionInv and what follows from it.  At the end, without    *)
(* either of these: what mixed V1 deals are told.                          *)
(***************************************************************************)
EXTENDS ClaimAdoption, FiniteSetTheorems, TLAPS

(* The pair list names one V1 deal for each V2 deal.                        *)
OneSourceEach == \A p, q \in Pairs : p[2] = q[2] => p = q

-----------------------------------------------------------------------------
(* Type correctness.                                                        *)

LEMMA BatchesWithin == ASSUME NEW todo, NEW b \in Batches(todo) PROVE b \subseteq todo
BY DEF Batches

LEMMA Working == ASSUME TypeOK, NEW r \in Runs, ~At(r, "idle") PROVE run[r] \in Busy
BY DEF TypeOK, At, Idle

(* A run that moves to another step is still a run at work.                 *)
LEMMA StepType ==
  ASSUME TypeOK, NEW r \in Runs, ~At(r, "idle"), NEW step \in Steps \ {"idle"}
  PROVE  [run[r] EXCEPT !.pc = step] \in Busy
BY Working DEF Busy, Run

LEMMA RunType ==
  ASSUME TypeOK, NEW r \in Runs, Step(r)
  PROVE  run' \in [Runs -> {Idle} \cup Busy]
<1> USE DEF TypeOK, At
<1>1. CASE ReportComplete(r) \/ Progress(r) \/ Refused(r)
  BY <1>1 DEF ReportComplete, Progress, Refused, Stop
<1>2. CASE Preflight(r) \/ EnterLoop(r) \/ EnsureNoPending(r) \/ Send(r)
  <2>1. \E step \in Steps \ {"idle"} : run' = [run EXCEPT ![r].pc = step]
    BY <1>2 DEF Preflight, EnterLoop, EnsureNoPending, Send, Goto, Steps
  <2>2. ~At(r, "idle")
    BY <1>2 DEF Preflight, EnterLoop, EnsureNoPending, Send
  <2> QED BY <2>1, <2>2, StepType
<1>3. CASE Plan(r)
  <2>1. run[r] \in Busy /\ run[r].src \in Sources
    BY <1>3, Working, ConstantsAssumption DEF Plan, Busy
  <2>2. [run[r] EXCEPT !.pc = "planned", !.todo = ClaimsOf[run[r].src] \ held[run[r].dst]] \in Busy
    BY <2>1, ConstantsAssumption DEF Busy, Run, Steps
  <2> QED BY <1>3, <2>2 DEF Plan
<1>4. CASE NextBatch(r)
  <2>1. PICK b \in Batches(run[r].todo) : run' = [run EXCEPT ![r].pc = "guarded", ![r].batch = b]
    BY <1>4 DEF NextBatch
  <2>2. run[r] \in Busy
    BY <1>4, Working DEF NextBatch
  <2>3. [run[r] EXCEPT !.pc = "guarded", !.batch = b] \in Busy
    BY <2>2, BatchesWithin DEF Busy, Run, Steps
  <2> QED BY <2>1, <2>3
<1>5. CASE Sign(r)
  <2>1. run[r] \in Busy
    BY <1>5, Working DEF Sign
  <2>2. [run[r] EXCEPT !.pc = "signed", !.nonce = count] \in Busy
    BY <2>1 DEF Busy, Run, Steps
  <2> QED BY <1>5, <2>2 DEF Sign, NonceToUse
<1>6. CASE Validate(r)
  <2> DEFINE rest == run[r].todo \ run[r].batch
             next == IF rest = {} THEN "validated" ELSE "looping"
  <2>1. run[r] \in Busy
    BY <1>6, Working DEF Validate
  <2>2. [run[r] EXCEPT !.pc = next, !.todo = rest, !.batch = {}, !.nonce = 0] \in Busy
    BY <2>1 DEF Busy, Run, Steps
  <2> QED BY <1>6, <2>2 DEF Validate
<1>7. CASE Receipt(r)
  <2>1. run[r] \in Busy
    BY <1>7, Working DEF Receipt
  <2>2. [run[r] EXCEPT !.pc = "landed", !.outcome = "none"] \in Busy
    BY <2>1 DEF Busy, Run, Steps
  <2> QED BY <1>7, <2>2 DEF Receipt
<1> QED BY <1>1, <1>2, <1>3, <1>4, <1>5, <1>6, <1>7 DEF Step

LEMMA TypeInit == Init => TypeOK
BY ConstantsAssumption DEF Init, TypeOK

LEMMA TypeStep == TypeOK /\ [Next]_vars => TypeOK'
<1>2. ASSUME TypeOK, [Next]_vars PROVE TypeOK'
  <2> USE <1>2 DEF TypeOK, chain, Stop
  <2>1. ASSUME NEW r \in Runs, Step(r) PROVE TypeOK'
    <3>1. run' \in [Runs -> {Idle} \cup Busy]
      BY <2>1, RunType
    <3>2. CASE ReportComplete(r) \/ Progress(r)
      <4>1. ~At(r, "idle")
        BY <3>2 DEF ReportComplete, Progress, At
      <4>2. <<run[r].src, run[r].dst>> \in Pairs
        BY <4>1, Working DEF Busy
      <4> QED BY <3>1, <3>2, <4>2 DEF ReportComplete, Progress
    <3>3. CASE Send(r)
      <4>1. ~At(r, "idle")
        BY <3>3 DEF Send, At
      <4>2. TxOf(r) \in Tx
        BY <4>1, Working DEF TxOf, Tx, Busy, Run
      <4> QED BY <3>1, <3>3, <4>2 DEF Send
    <3>4. CASE Plan(r) \/ Preflight(r) \/ EnterLoop(r) \/ NextBatch(r) \/ EnsureNoPending(r)
               \/ Sign(r) \/ Receipt(r) \/ Validate(r) \/ Refused(r)
      BY <3>1, <3>4 DEF Plan, Preflight, EnterLoop, NextBatch, EnsureNoPending, Sign,
                        Receipt, Validate, Refused
    <3> QED BY <2>1, <3>2, <3>3, <3>4 DEF Step
  <2>2. ASSUME NEW r \in Runs, Crash(r) PROVE TypeOK'
    BY <2>2 DEF Crash, Fault
  <2>3. ASSUME NEW s \in Sources, NEW d \in Targets, <<s, d>> \in Pairs, NEW r \in Runs,
               LoadPair(r, s, d)
        PROVE  TypeOK'
    <3>1. [Idle EXCEPT !.pc = "loaded", !.src = s, !.dst = d, !.rail = (status[d] # "norail")] \in Busy
      BY <2>3 DEF Idle, Busy, Run, Steps
    <3> QED BY <2>3, <3>1 DEF LoadPair
  <2>4. ASSUME NEW t \in mempool, Land(t) PROVE TypeOK'
    <3>1. ASSUME NEW r \in Runs, At(r, "waiting"), NEW o \in {"ok", "reverted"}
          PROVE  [run[r] EXCEPT !.outcome = o] \in Busy
      BY <3>1, Working DEF Busy, Run, At
    <3>2. run' \in [Runs -> {Idle} \cup Busy]
      BY <2>4, <3>1 DEF Land
    <3>3. /\ held' \in [Targets -> SUBSET Claims]
          /\ doubled' \in [Targets -> SUBSET Claims]
          /\ term' \in [Claims -> {"running", "extended", "gone"}]
      BY <2>4 DEF Land, Tx
    <3> QED BY <2>4, <3>2, <3>3 DEF Land
  <2>5. ASSUME NEW t \in mempool, Drop(t) PROVE TypeOK'
    BY <2>5 DEF Drop, Fault
  <2>6. CASE OtherTx
    BY <2>6 DEF OtherTx, Fault, Tx
  <2>7. ASSUME NEW d \in Targets, RailCreated(d) \/ CloseTarget(d) PROVE TypeOK'
    BY <2>7 DEF RailCreated, CloseTarget, Fault
  <2>8. ASSUME NEW s \in Sources, TerminateSource(s) PROVE TypeOK'
    BY <2>8 DEF TerminateSource, Fault
  <2>9. CASE UNCHANGED vars
    BY <2>9 DEF vars
  <2>11. ASSUME NEW c \in Claims, Expire(c) PROVE TypeOK'
    BY <2>11 DEF Expire, Fault
  <2>10. ASSUME NEW p \in Pairs, NEW r \in Runs, LoadPair(r, p[1], p[2]) PROVE TypeOK'
    <3>1. p[1] \in Sources /\ p[2] \in Targets /\ <<p[1], p[2]>> \in Pairs
      BY ConstantsAssumption
    <3> QED BY <2>3, <2>10, <3>1
  <2> QED BY <2>1, <2>2, <2>4, <2>5, <2>6, <2>7, <2>8, <2>9, <2>10, <2>11 DEF Next
<1> QED BY <1>2

(* The sets, records and counters of the module are what the comments at    *)
(* the VARIABLES say, in every reachable state.                             *)
THEOREM TypeCorrect == Spec => []TypeOK
BY TypeInit, TypeStep, PTL DEF Spec

-----------------------------------------------------------------------------
(* The inductive invariant.                                                 *)

LEMMA InvInit == Init => AdoptionInv
<1> SUFFICES ASSUME Init PROVE AdoptionInv
  OBVIOUS
<1>1. TypeOK
  BY TypeInit
<1>2. RunsApart /\ BatchFresh
  BY DEF Init, RunsApart, BatchFresh, RunFresh, OwnClaims, At, Idle
<1>3. MempoolFresh /\ LoopAlone
  BY DEF Init, MempoolFresh, LoopAlone
<1>4. HeldByPair
  BY ConstantsAssumption DEF Init, HeldByPair, NoDoubleRegistration, ReportTruthful
<1>5. HeldExtended
  BY DEF Init, HeldExtended
<1> QED BY <1>1, <1>2, <1>3, <1>4, <1>5 DEF AdoptionInv

(* Under the gate of ensure_no_pending_transactions no transaction of a run *)
(* is broadcast: the ones of dead runs would be next in line.               *)
LEMMA GateClears ==
  ASSUME MempoolFresh, ~Pending
  PROVE  \A t \in mempool : t.by \notin Runs
BY DEF MempoolFresh, TxFresh, Pending

(* A run at work has a V2 deal, an idle one has none.                       *)
LEMMA DealOfRun ==
  ASSUME NEW x \in {Idle} \cup Busy
  PROVE  /\ x.pc = "idle" <=> x = Idle
         /\ x = Idle <=> x.dst = NoDeal
         /\ x # Idle => x.dst \in Targets /\ x.src \in Sources /\ <<x.src, x.dst>> \in Pairs
BY ConstantsAssumption DEF Busy, Idle

(* A step that changes nothing but what run r knows keeps the run parts of  *)
(* the invariant if what r knows now is fresh and, in its loop, it is alone.*)
LEMMA QuietStep ==
  ASSUME AdoptionInv, NEW r \in Runs, NEW x \in {Idle} \cup Busy,
         run' = [run EXCEPT ![r] = x],
         UNCHANGED <<mempool, count, held, doubled>>,
         x # Idle => x.dst = run[r].dst,
         RunFresh(x),
         x.pc \in InLoop => \A t \in mempool : t.by \in Runs => t.dst # x.dst
  PROVE  RunsApart' /\ BatchFresh' /\ MempoolFresh' /\ LoopAlone'
<1> USE DEF AdoptionInv
<1>1. RunsApart'
  <2> SUFFICES ASSUME NEW p \in Runs, NEW q \in Runs, p # q, run'[p].dst = run'[q].dst
               PROVE  run'[q].pc = "idle"
    BY DEF RunsApart, At
  <2>1. \A s \in Runs : run[s] \in {Idle} \cup Busy /\ run'[s] = IF s = r THEN x ELSE run[s]
    BY DEF TypeOK
  <2>2. \A y \in {Idle} \cup Busy : /\ y.pc = "idle" <=> y = Idle
                                    /\ y = Idle <=> y.dst = NoDeal
    BY DealOfRun
  <2>3. run[p].dst = run[q].dst => run[q].pc = "idle" /\ run[p].pc = "idle"
    BY DEF RunsApart, At
  <2>4. CASE p = r
    BY <2>1, <2>2, <2>3, <2>4
  <2>5. CASE q = r
    BY <2>1, <2>2, <2>3, <2>5
  <2>6. CASE p # r /\ q # r
    BY <2>1, <2>3, <2>6
  <2> QED BY <2>4, <2>5, <2>6
<1>2. BatchFresh'
  BY DEF BatchFresh, RunFresh, OwnClaims, TypeOK
<1>3. MempoolFresh'
  BY DEF MempoolFresh, TxFresh
<1>4. LoopAlone'
  BY DEF LoopAlone, TypeOK, At, TxOf
<1> QED BY <1>1, <1>2, <1>3, <1>4

(* A batch is a non-empty part of the plan, within the batch size.          *)
LEMMA BatchSizes ==
  ASSUME NEW todo \in SUBSET Claims, todo # {}, NEW b \in Batches(todo)
  PROVE  b # {} /\ b \subseteq todo /\ Size(b) <= BatchSize
<1>1. b \subseteq todo
  BY BatchesWithin
<1>2. IsFiniteSet(b)
  BY <1>1, FS_Subset, ConstantsAssumption
<1>3. Size(b) \in Nat /\ (Size(b) = 0 <=> b = {})
  BY <1>2, FS_CardinalityType, FS_EmptySet DEF Size
<1> QED BY <1>1, <1>3, ConstantsAssumption DEF Batches

(* Every step of a run but the broadcast keeps the run parts.               *)
LEMMA QuietRun ==
  ASSUME AdoptionInv, NEW r \in Runs, Step(r), ~Send(r)
  PROVE  RunsApart' /\ BatchFresh' /\ MempoolFresh' /\ LoopAlone'
<1> DEFINE me == run[r]
           Alone(x) == \A t \in mempool : t.by \in Runs => t.dst # x.dst
<1>1. me \in {Idle} \cup Busy /\ RunFresh(me) /\ TypeOK
  BY DEF AdoptionInv, TypeOK, BatchFresh
<1>2. RunFresh(Idle) /\ Idle.pc \notin InLoop /\ Idle \in {Idle} \cup Busy
  BY DEF RunFresh, OwnClaims, Idle, InLoop
<1>3. me.pc \in InLoop \ {"waiting"} => Alone(me)
  BY DEF AdoptionInv, LoopAlone, At
<1>4. me.pc \notin {"idle"} => me \in Busy /\ me.dst \in Targets /\ me.src \in Sources
  BY <1>1, DealOfRun
<1> DEFINE Result == RunsApart' /\ BatchFresh' /\ MempoolFresh' /\ LoopAlone'
<1> USE DEF chain
<1>5. CASE ReportComplete(r) \/ Progress(r) \/ Refused(r)
  <2>1. run' = [run EXCEPT ![r] = Idle] /\ UNCHANGED <<mempool, count, held, doubled>>
    BY <1>5 DEF ReportComplete, Progress, Refused, Stop
  <2> QED BY <1>2, <2>1, QuietStep
<1>6. CASE Plan(r)
  <2> DEFINE x == [me EXCEPT !.pc = "planned", !.todo = ClaimsOf[me.src] \ held[me.dst]]
  <2>1. me.pc = "loaded" /\ me \in Busy
    BY <1>4, <1>6 DEF Plan, At
  <2>2. x \in Busy
    BY <2>1, <1>4, ConstantsAssumption DEF Busy, Run, Steps
  <2>3. ClaimsOf[me.src] \ held[me.dst] # {}
    BY <1>6 DEF Plan, PlanOK, Complete
  <2>4. RunFresh(x)
    BY <1>1, <2>1, <2>3 DEF RunFresh, OwnClaims, Busy, Run
  <2>5. run' = [run EXCEPT ![r] = x] /\ x.dst = me.dst /\ x.pc \notin InLoop
    BY <1>6, <2>1 DEF Plan, Busy, Run, InLoop
  <2> QED BY <1>6, <2>2, <2>4, <2>5, QuietStep DEF Plan
<1>7. CASE Preflight(r)
  <2> DEFINE x == [me EXCEPT !.pc = "preflighted"]
  <2>1. me.pc = "planned" /\ x \in Busy
    BY <1>1, <1>7, StepType DEF Preflight, At, Steps
  <2>2. RunFresh(x) /\ x.dst = me.dst /\ x.pc \notin InLoop
    BY <1>1, <1>4, <2>1 DEF RunFresh, OwnClaims, Busy, Run, InLoop
  <2> QED BY <1>7, <2>1, <2>2, QuietStep DEF Preflight, Goto
<1>8. CASE EnterLoop(r)
  <2> DEFINE x == [me EXCEPT !.pc = "looping"]
  <2>1. me.pc = "preflighted" /\ x \in Busy
    BY <1>1, <1>8, StepType DEF EnterLoop, At, Steps
  <2>2. RunFresh(x) /\ x.dst = me.dst
    BY <1>1, <1>4, <2>1 DEF RunFresh, OwnClaims, Busy, Run
  <2>3. Alone(x)
    BY <1>8, GateClears DEF EnterLoop, AdoptionInv
  <2> QED BY <1>8, <2>1, <2>2, <2>3, QuietStep DEF EnterLoop, Goto
<1>9. CASE NextBatch(r)
  <2>1. PICK b \in Batches(me.todo) :
               Unregistered(r, b) /\ run' = [run EXCEPT ![r].pc = "guarded", ![r].batch = b]
    BY <1>9 DEF NextBatch
  <2> DEFINE x == [me EXCEPT !.pc = "guarded", !.batch = b]
  <2>2. me.pc = "looping" /\ me \in Busy /\ me.todo \in SUBSET Claims /\ me.todo # {}
    BY <1>1, <1>4, <1>9 DEF NextBatch, At, Busy, Run, RunFresh, OwnClaims
  <2>3. b # {} /\ b \subseteq me.todo /\ Size(b) <= BatchSize
    BY <2>2, BatchSizes
  <2>4. x \in Busy
    BY <2>2, <2>3 DEF Busy, Run, Steps
  <2>5. RunFresh(x) /\ x.dst = me.dst
    BY <1>1, <2>1, <2>2, <2>3 DEF RunFresh, OwnClaims, Busy, Run, Unregistered
  <2>6. Alone(x)
    BY <1>3, <2>2, <2>5 DEF InLoop
  <2>7. run' = [run EXCEPT ![r] = x] /\ UNCHANGED <<mempool, count, held, doubled>>
    BY <1>9, <2>1 DEF NextBatch
  <2> HIDE DEF x
  <2> QED BY <2>4, <2>5, <2>6, <2>7, QuietStep
<1>10. CASE EnsureNoPending(r)
  <2> DEFINE x == [me EXCEPT !.pc = "clear"]
  <2>1. me.pc = "guarded" /\ x \in Busy
    BY <1>1, <1>10, StepType DEF EnsureNoPending, At, Steps
  <2>2. RunFresh(x) /\ x.dst = me.dst
    BY <1>1, <1>4, <2>1 DEF RunFresh, OwnClaims, Busy, Run
  <2>3. Alone(x)
    BY <1>3, <2>1, <2>2 DEF InLoop
  <2> QED BY <1>10, <2>1, <2>2, <2>3, QuietStep DEF EnsureNoPending, Goto
<1>11. CASE Sign(r)
  <2> DEFINE x == [me EXCEPT !.pc = "signed", !.nonce = count]
  <2>1. me.pc = "clear" /\ me \in Busy /\ x \in Busy
    BY <1>1, <1>4, <1>11 DEF Sign, At, Busy, Run, Steps, TypeOK
  <2>2. RunFresh(x) /\ x.dst = me.dst
    BY <1>1, <2>1 DEF RunFresh, OwnClaims, Busy, Run, TypeOK
  <2>3. Alone(x)
    BY <1>3, <2>1, <2>2 DEF InLoop
  <2> QED BY <1>11, <2>1, <2>2, <2>3, QuietStep DEF Sign, NonceToUse
<1>12. CASE Receipt(r)
  <2> DEFINE x == [me EXCEPT !.pc = "landed", !.outcome = "none"]
  <2>1. me.pc = "waiting" /\ me.outcome = "ok" /\ me \in Busy /\ x \in Busy
    BY <1>1, <1>4, <1>12 DEF Receipt, At, Busy, Run, Steps
  <2>2. RunFresh(x) /\ x.dst = me.dst
    BY <1>1, <2>1 DEF RunFresh, OwnClaims, Busy, Run
  <2>3. Alone(x)
    \* the transaction it waited for is fresh while broadcast, its batch is held
    <3> SUFFICES ASSUME NEW t \in mempool, t.by \in Runs, t.dst = me.dst PROVE FALSE
      BY <2>2
    <3>1. t = TxOf(r)
      BY <2>1 DEF AdoptionInv, LoopAlone, InLoop
    <3>2. t.claims = me.batch /\ t.claims # {} /\ t.claims \cap held[me.dst] = {}
      BY <3>1 DEF AdoptionInv, MempoolFresh, TxFresh, TxOf
    <3>3. me.batch \subseteq held[me.dst]
      BY <1>1, <2>1 DEF RunFresh, OwnClaims
    <3> QED BY <3>2, <3>3
  <2> QED BY <1>12, <2>1, <2>2, <2>3, QuietStep DEF Receipt
<1>13. CASE Validate(r)
  <2> DEFINE rest == me.todo \ me.batch
             next == IF rest = {} THEN "validated" ELSE "looping"
             x == [me EXCEPT !.pc = next, !.todo = rest, !.batch = {}, !.nonce = 0]
  <2>1. me.pc = "landed" /\ me \in Busy /\ x \in Busy
    BY <1>1, <1>4, <1>13 DEF Validate, At, Busy, Run, Steps
  <2>2. RunFresh(x) /\ x.dst = me.dst
    BY <1>1, <2>1 DEF RunFresh, OwnClaims, Busy, Run
  <2>3. Alone(x)
    BY <1>3, <2>1, <2>2 DEF InLoop
  <2>4. run' = [run EXCEPT ![r] = x] /\ UNCHANGED <<mempool, count, held, doubled>>
    BY <1>13 DEF Validate
  <2> HIDE DEF x
  <2> QED BY <2>1, <2>2, <2>3, <2>4, QuietStep
<1> QED
  BY <1>5, <1>6, <1>7, <1>8, <1>9, <1>10, <1>11, <1>12, <1>13 DEF Step

(* The broadcast: what is sent is fresh because nothing was broadcast for   *)
(* this V2 deal since the guard looked, and next in line because the nonce  *)
(* was not ahead when it was read and is not behind now.                    *)
LEMMA SendRun ==
  ASSUME AdoptionInv, NEW r \in Runs, Send(r)
  PROVE  RunsApart' /\ BatchFresh' /\ MempoolFresh' /\ LoopAlone'
<1> DEFINE me == run[r]
           x == [me EXCEPT !.pc = "waiting"]
<1>1. me \in Busy /\ RunFresh(me) /\ me.pc = "signed" /\ x \in Busy
  BY Working DEF AdoptionInv, TypeOK, BatchFresh, Send, At, Busy, Run, Steps
<1>2. me.nonce = count /\ <<me.src, me.dst>> \in Pairs /\ r # NoRun
  <2>1. me.nonce \in Nat /\ count \in Nat /\ <<me.src, me.dst>> \in Pairs
    BY <1>1 DEF Busy, Run, AdoptionInv, TypeOK
  <2>2. me.nonce >= count /\ me.nonce <= count
    BY <1>1 DEF Send, RunFresh
  <2> QED BY <2>1, <2>2, ConstantsAssumption
<1>3. /\ run' = [run EXCEPT ![r] = x]
      /\ mempool' = {t \in mempool : t.nonce # count} \cup {TxOf(r)}
      /\ UNCHANGED <<count, held, doubled>>
  BY <1>2 DEF Send, Goto, chain
<1>4. \A t \in mempool' : t.by \in Runs => t = TxOf(r)
  BY <1>3 DEF AdoptionInv, MempoolFresh, TxFresh
<1>5. ASSUME NEW t, t = TxOf(r) PROVE TxFresh(t)'
  <2>2. <<me.src, me.dst>>[1] = me.src /\ <<me.src, me.dst>>[2] = me.dst
    OBVIOUS
  <2>3. TxFresh(t)
    BY <1>1, <1>2, <1>5, <2>2 DEF TxFresh, TxOf, RunFresh, OwnClaims
  <2> QED BY <1>3, <2>3 DEF TxFresh
<1>6. \A q \in Runs : run'[q] = IF q = r THEN x ELSE run[q]
  BY <1>3 DEF AdoptionInv, TypeOK
<1>7. RunsApart'
  BY <1>1, <1>6 DEF AdoptionInv, RunsApart, At, Busy, Run
<1>8. BatchFresh'
  <2>1. RunFresh(x)
    BY <1>1 DEF RunFresh, OwnClaims, Busy, Run
  <2> QED BY <1>3, <1>6, <2>1 DEF AdoptionInv, BatchFresh, RunFresh, OwnClaims
<1>9. MempoolFresh'
  BY <1>4, <1>5 DEF MempoolFresh
<1>10. LoopAlone'
  <2> SUFFICES ASSUME NEW t \in mempool', NEW q \in Runs, t.by \in Runs,
                      run'[q].pc \in InLoop, run'[q].dst = t.dst
               PROVE  run'[q].pc = "waiting" /\ t = TxOf(q)'
    BY DEF LoopAlone, At
  <2>1. t = TxOf(r) /\ TxOf(r)' = TxOf(r) /\ t.dst = me.dst
    BY <1>3, <1>4 DEF TxOf, AdoptionInv, TypeOK
  <2>2. q = r
    BY <1>1, <1>6, <2>1 DEF AdoptionInv, RunsApart, At, InLoop
  <2> QED BY <1>6, <2>1, <2>2, <1>1 DEF Busy, Run
<1> QED BY <1>7, <1>8, <1>9, <1>10

(* A block: whatever it takes of a run is a fresh batch; no transaction of  *)
(* a run is left, since all of them carried the nonce it used up.           *)
LEMMA LandRun ==
  ASSUME AdoptionInv, OneSourceEach, NEW t \in mempool, Land(t)
  PROVE  RunsApart' /\ BatchFresh' /\ MempoolFresh' /\ LoopAlone' /\ HeldByPair'
<1> DEFINE ok == t.by \in Runs /\ Accepts(t.dst, t.claims)
<1> USE DEF AdoptionInv
<1>1. \A u \in mempool' : u.by \notin Runs
  BY DEF Land, MempoolFresh, TxFresh
<1>2. MempoolFresh' /\ LoopAlone'
  BY <1>1 DEF MempoolFresh, LoopAlone
<1>3. \A q \in Runs : run'[q] = IF At(q, "waiting") /\ t = TxOf(q)
                                  THEN [run[q] EXCEPT !.outcome = IF ok THEN "ok" ELSE "reverted"]
                                  ELSE run[q]
  BY DEF Land
<1>4. \A q \in Runs : run[q] \in {Idle} \cup Busy
  BY DEF TypeOK
<1>5. RunsApart'
  <2>1. \A q \in Runs : run'[q].pc = run[q].pc /\ run'[q].dst = run[q].dst
    BY <1>3, <1>4 DEF Busy, Run, Idle
  <2> QED BY <2>1 DEF RunsApart, At
<1>6. ASSUME ok
      PROVE  /\ t.dst \in Targets /\ t.claims \cap held[t.dst] = {}
             /\ \A p \in Pairs : p[2] = t.dst => t.claims \subseteq ClaimsOf[p[1]]
  <2>1. PICK p \in Pairs : t.dst = p[2] /\ t.claims \subseteq ClaimsOf[p[1]] \ held[p[2]]
    BY <1>6 DEF MempoolFresh, TxFresh
  <2> QED BY <2>1, ConstantsAssumption DEF OneSourceEach
<1>7. \A d \in Targets : held'[d] = IF ok /\ d = t.dst THEN held[d] \cup t.claims ELSE held[d]
  BY DEF Land
<1>8. doubled' = doubled
  <2>1. \A d \in Targets : doubled'[d] = doubled[d]
    BY <1>6 DEF Land
  <2>2. doubled' = [d \in Targets |-> doubled'[d]] /\ doubled = [d \in Targets |-> doubled[d]]
    BY DEF Land, TypeOK
  <2> QED BY <2>1, <2>2
<1>9. HeldByPair'
  <2>1. \A p \in Pairs : p[1] \in Sources /\ p[2] \in Targets
    BY ConstantsAssumption
  <2>2. \A p \in Pairs : held[p[2]] \subseteq held'[p[2]] /\ held'[p[2]] \subseteq ClaimsOf[p[1]]
    BY <1>6, <1>7, <2>1 DEF HeldByPair
  <2>3. reported' = reported /\ reported \subseteq Pairs
    BY DEF Land, TypeOK
  <2>4. NoDoubleRegistration'
    BY <1>8 DEF HeldByPair, NoDoubleRegistration
  <2>5. ReportTruthful'
    BY <2>2, <2>3 DEF HeldByPair, ReportTruthful
  <2> QED BY <2>2, <2>4, <2>5 DEF HeldByPair
<1>10. BatchFresh'
  <2> SUFFICES ASSUME NEW q \in Runs PROVE RunFresh(run[q])'
    BY DEF BatchFresh
  <2>1. RunFresh(run[q]) /\ count' = count + 1 /\ count \in Nat
    BY DEF BatchFresh, Land, TypeOK
  <2>2. run[q] # Idle => run[q].dst \in Targets /\ run[q].nonce \in Nat
    BY <1>4, DealOfRun DEF Busy, Run
  <2>3. CASE At(q, "waiting") /\ t = TxOf(q)
    <3>1. run[q] \in Busy /\ run[q].pc = "waiting"
      BY <1>4, <2>3 DEF Idle, At
    <3>2. t.claims = run[q].batch /\ t.dst = run[q].dst
      BY <2>3 DEF TxOf
    <3>3. ok => run[q].batch \subseteq held'[run[q].dst]
      BY <1>6, <1>7, <3>2
    <3>4. PICK o \in {"ok", "reverted"} : /\ run'[q] = [run[q] EXCEPT !.outcome = o]
                                          /\ o = "ok" => ok
      BY <1>3, <2>3
    <3>5. /\ run'[q].pc = "waiting" /\ run'[q].outcome = o
          /\ run'[q].src = run[q].src /\ run'[q].dst = run[q].dst
          /\ run'[q].todo = run[q].todo /\ run'[q].batch = run[q].batch
      BY <3>1, <3>4 DEF Busy, Run
    <3> QED BY <2>1, <3>1, <3>3, <3>4, <3>5 DEF RunFresh, OwnClaims
  <2>4. CASE ~(At(q, "waiting") /\ t = TxOf(q))
    <3>1. run'[q] = run[q]
      BY <1>3, <2>4
    <3>2. CASE run[q] = Idle
      BY <3>1, <3>2 DEF RunFresh, OwnClaims, Idle
    <3>3. CASE run[q] # Idle
      <4>1. ok /\ run[q].dst = t.dst => run[q].pc \notin InLoop
        BY <2>4 DEF LoopAlone
      <4>2. held[run[q].dst] \subseteq held'[run[q].dst]
        BY <1>7, <2>2, <3>3
      <4>3. run[q].pc \in InLoop => held'[run[q].dst] = held[run[q].dst]
        BY <1>7, <2>2, <3>3, <4>1
      <4> QED BY <2>1, <2>2, <3>1, <3>3, <4>2, <4>3 DEF RunFresh, OwnClaims, InLoop
    <3> QED BY <3>2, <3>3
  <2> QED BY <2>3, <2>4
<1> QED BY <1>2, <1>5, <1>9, <1>10

(* A run reports a pair only when its V2 deal holds all the V1 claims.      *)
LEMMA StepHeld ==
  ASSUME AdoptionInv, NEW r \in Runs, Step(r)
  PROVE  HeldByPair'
<1> USE DEF AdoptionInv, chain
<1>1. UNCHANGED <<held, doubled>>
  BY DEF Step, ReportComplete, Plan, Preflight, EnterLoop, NextBatch, EnsureNoPending,
         Sign, Send, Receipt, Validate, Progress, Refused
<1>2. ReportTruthful'
  <2>1. CASE ReportComplete(r) \/ Progress(r)
    <3>1. run[r] \in Busy
      BY <2>1, Working DEF ReportComplete, Progress, At
    <3>2. <<run[r].src, run[r].dst>> \in Pairs
      BY <3>1 DEF Busy
    <3>3. held[run[r].dst] \subseteq ClaimsOf[run[r].src]
      BY <3>2 DEF HeldByPair
    <3>4. held[run[r].dst] = ClaimsOf[run[r].src]
      BY <2>1, <3>3 DEF ReportComplete, Complete, Progress
    <3>5. reported' = reported \cup {<<run[r].src, run[r].dst>>}
      BY <2>1 DEF ReportComplete, Progress
    <3> QED BY <1>1, <3>4, <3>5 DEF HeldByPair, ReportTruthful
  <2>2. CASE ~(ReportComplete(r) \/ Progress(r))
    <3>1. reported' = reported
      BY <2>2 DEF Step, Plan, Preflight, EnterLoop, NextBatch, EnsureNoPending,
                  Sign, Send, Receipt, Validate, Refused
    <3> QED BY <1>1, <3>1 DEF HeldByPair, ReportTruthful
  <2> QED BY <2>1, <2>2
<1> QED BY <1>1, <1>2 DEF HeldByPair, NoDoubleRegistration

(* A block registers and extends a batch in one; nothing shortens a term    *)
(* but its end, and what is extended has not reached it.                    *)
LEMMA ExtendedStep ==
  ASSUME AdoptionInv, [Next]_vars
  PROVE  HeldExtended'
<1> USE DEF AdoptionInv, TypeOK, HeldExtended, chain
<1>1. ASSUME UNCHANGED <<held, term>> PROVE HeldExtended'
  BY <1>1
<1>2. ASSUME NEW t \in mempool, Land(t) PROVE HeldExtended'
  <2>1. \A d \in Targets : held[d] \subseteq Claims
    OBVIOUS
  <2>2. t.claims \subseteq Claims
    BY DEF Tx
  <2>3. \E ok \in BOOLEAN :
          /\ held' = [d \in Targets |-> IF ok /\ d = t.dst THEN held[d] \cup t.claims ELSE held[d]]
          /\ term' = [c \in Claims |-> IF ok /\ c \in t.claims THEN "extended" ELSE term[c]]
    BY <1>2 DEF Land
  <2> QED BY <2>1, <2>2, <2>3
<1>3. ASSUME NEW c \in Claims, Expire(c) PROVE HeldExtended'
  BY <1>3 DEF Expire
<1>4. ASSUME NEW r \in Runs, Step(r) PROVE UNCHANGED <<held, term>>
  BY <1>4 DEF Step, ReportComplete, Plan, Preflight, EnterLoop, NextBatch, EnsureNoPending,
              Sign, Send, Receipt, Validate, Progress, Refused
<1>5. CASE \/ \E r \in Runs : Crash(r)
           \/ \E r \in Runs, p \in Pairs : LoadPair(r, p[1], p[2])
           \/ \E t \in mempool : Drop(t)
           \/ OtherTx
           \/ \E d \in Targets : RailCreated(d) \/ CloseTarget(d)
           \/ \E s \in Sources : TerminateSource(s)
           \/ UNCHANGED vars
  <2>1. UNCHANGED <<held, term>>
    BY <1>5 DEF Crash, LoadPair, Drop, OtherTx, RailCreated, CloseTarget, TerminateSource, vars
  <2> QED BY <1>1, <2>1
<1> QED BY <1>1, <1>2, <1>3, <1>4, <1>5 DEF Next

LEMMA InvStep ==
  ASSUME OneAdoptPerDeal, OneSourceEach
  PROVE  AdoptionInv /\ [Next]_vars => AdoptionInv'
<1> SUFFICES ASSUME AdoptionInv, [Next]_vars PROVE AdoptionInv'
  OBVIOUS
<1> DEFINE Rest == RunsApart /\ BatchFresh /\ MempoolFresh /\ LoopAlone /\ HeldByPair
<1>1. TypeOK'
  BY TypeStep DEF AdoptionInv
<1>2. ASSUME NEW r \in Runs, Step(r) PROVE Rest'
  BY <1>2, QuietRun, SendRun, StepHeld
<1>3. ASSUME NEW r \in Runs, Crash(r) PROVE Rest'
  <2>1. run' = [run EXCEPT ![r] = Idle] /\ UNCHANGED <<mempool, count, held, doubled, reported>>
    BY <1>3 DEF Crash, Stop, chain
  <2>2. RunFresh(Idle) /\ Idle.pc \notin InLoop
    BY DEF RunFresh, OwnClaims, Idle, InLoop
  <2>3. RunsApart' /\ BatchFresh' /\ MempoolFresh' /\ LoopAlone'
    BY <2>1, <2>2, QuietStep
  <2>4. HeldByPair'
    BY <2>1 DEF AdoptionInv, HeldByPair, NoDoubleRegistration, ReportTruthful
  <2> QED BY <2>3, <2>4
<1>4. ASSUME NEW p \in Pairs, NEW r \in Runs, LoadPair(r, p[1], p[2]) PROVE Rest'
  <2> DEFINE x == [Idle EXCEPT !.pc = "loaded", !.src = p[1], !.dst = p[2],
                               !.rail = (status[p[2]] # "norail")]
  <2>1. /\ run' = [run EXCEPT ![r] = x] /\ UNCHANGED <<mempool, count, held, doubled, reported>>
        /\ \A other \in Runs : run[other].dst # p[2]
    BY <1>4 DEF LoadPair, chain
  <2>2. /\ RunFresh(x) /\ x.pc = "loaded" /\ x.dst = p[2]
        /\ p[2] # NoDeal
    BY ConstantsAssumption DEF RunFresh, OwnClaims, Idle
  <2> HIDE DEF x
  <2>3. \A q \in Runs : run'[q] = IF q = r THEN x ELSE run[q]
    BY <2>1 DEF AdoptionInv, TypeOK
  <2>4. RunsApart'
    BY <2>1, <2>2, <2>3 DEF AdoptionInv, RunsApart, At
  <2>5. BatchFresh'
    BY <2>1, <2>2, <2>3 DEF AdoptionInv, BatchFresh, RunFresh, OwnClaims
  <2>6. MempoolFresh'
    BY <2>1 DEF AdoptionInv, MempoolFresh, TxFresh
  <2>7. LoopAlone'
    BY <2>1, <2>2, <2>3 DEF AdoptionInv, LoopAlone, At, TxOf, InLoop
  <2>8. HeldByPair'
    BY <2>1 DEF AdoptionInv, HeldByPair, NoDoubleRegistration, ReportTruthful
  <2> QED BY <2>4, <2>5, <2>6, <2>7, <2>8
<1>5. ASSUME NEW t \in mempool, Land(t) PROVE Rest'
  BY <1>5, LandRun
<1>6. ASSUME UNCHANGED <<run, count, held, doubled, reported>>,
             \A t \in mempool' : t.by \in Runs => t \in mempool
      PROVE  Rest'
  <2>1. RunsApart'
    BY <1>6 DEF AdoptionInv, RunsApart, At
  <2>2. BatchFresh'
    BY <1>6 DEF AdoptionInv, BatchFresh, RunFresh, OwnClaims
  <2>3. MempoolFresh'
    BY <1>6 DEF AdoptionInv, MempoolFresh, TxFresh
  <2>4. LoopAlone'
    BY <1>6 DEF AdoptionInv, LoopAlone, At, TxOf
  <2>5. HeldByPair'
    BY <1>6 DEF AdoptionInv, HeldByPair, NoDoubleRegistration, ReportTruthful
  <2> QED BY <2>1, <2>2, <2>3, <2>4, <2>5
<1> HIDE DEF Rest
<1>7. ASSUME NEW t \in mempool, Drop(t) PROVE Rest'
  BY <1>6, <1>7 DEF Drop, chain
<1>8. ASSUME OtherTx PROVE Rest'
  <2>1. \A t \in mempool' : t.by \in Runs => t \in mempool
    BY <1>8, ConstantsAssumption DEF OtherTx
  <2> QED BY <1>6, <1>8, <2>1 DEF OtherTx, chain
<1>9. ASSUME NEW d \in Targets, RailCreated(d) \/ CloseTarget(d) PROVE Rest'
  <2>1. UNCHANGED <<run, mempool, count, held, doubled, reported>>
    BY <1>9 DEF RailCreated, CloseTarget
  <2> QED BY <1>6, <2>1
<1>10. ASSUME NEW s \in Sources, TerminateSource(s) PROVE Rest'
  <2>1. UNCHANGED <<run, mempool, count, held, doubled, reported>>
    BY <1>10 DEF TerminateSource
  <2> QED BY <1>6, <2>1
<1>11. ASSUME UNCHANGED vars PROVE Rest'
  <2>1. UNCHANGED <<run, mempool, count, held, doubled, reported>>
    BY <1>11 DEF vars, chain
  <2> QED BY <1>6, <2>1
<1>12. ASSUME NEW c \in Claims, Expire(c) PROVE Rest'
  <2>1. UNCHANGED <<run, mempool, count, held, doubled, reported>>
    BY <1>12 DEF Expire
  <2> QED BY <1>6, <2>1
<1>13. Rest'
  BY <1>2, <1>3, <1>4, <1>5, <1>7, <1>8, <1>9, <1>10, <1>11, <1>12 DEF Next
<1> QED BY <1>1, <1>13, ExtendedStep DEF AdoptionInv, Rest

(* The inductive invariant holds while the runbook's rule is kept.          *)
THEOREM AdoptionInvariant ==
  ASSUME OneAdoptPerDeal, OneSourceEach
  PROVE  Spec => []AdoptionInv
BY InvInit, InvStep, PTL DEF Spec

(* No claim is ever given to the adapter twice, whatever crashes, drops and *)
(* re-runs there are (client.py: "Safe to re-run; already registered claims *)
(* are skipped").                                                           *)
THEOREM NoClaimTwice ==
  ASSUME OneAdoptPerDeal, OneSourceEach
  PROVE  Spec => []NoDoubleRegistration
<1>1. AdoptionInv => NoDoubleRegistration
  BY DEF AdoptionInv, HeldByPair
<1> QED BY <1>1, AdoptionInvariant, PTL

(* A transaction of a run is always the next one of the wallet.             *)
THEOREM NeverStuck ==
  ASSUME OneAdoptPerDeal, OneSourceEach
  PROVE  Spec => []BatchExecutable
<1>1. AdoptionInv => BatchExecutable
  BY DEF AdoptionInv, MempoolFresh, TxFresh, BatchExecutable
<1> QED BY <1>1, AdoptionInvariant, PTL

(* A pair reported complete is complete, and stays so.                      *)
THEOREM ReportsTrue ==
  ASSUME OneAdoptPerDeal, OneSourceEach
  PROVE  Spec => []ReportTruthful
<1>1. AdoptionInv => ReportTruthful
  BY DEF AdoptionInv, HeldByPair
<1> QED BY <1>1, AdoptionInvariant, PTL

(* The readback after a receipt never finds anything but what was sent, in  *)
(* the adapter and in the registry of claims.                               *)
THEOREM ReadbackNeverFails ==
  ASSUME OneAdoptPerDeal, OneSourceEach
  PROVE  Spec => []ReadbackMatches
<1>1. AdoptionInv => ReadbackMatches
  <2> SUFFICES ASSUME AdoptionInv, NEW r \in Runs, At(r, "landed") PROVE ReadbackOK(r)
    BY DEF ReadbackMatches
  <2>1. run[r] \in Busy
    BY Working DEF AdoptionInv, At
  <2>2. <<run[r].src, run[r].dst>> \in Pairs /\ run[r].dst \in Targets
    BY <2>1, DealOfRun DEF Busy, At, Idle
  <2>3. held[run[r].dst] \subseteq ClaimsOf[run[r].src]
    BY <2>2 DEF AdoptionInv, HeldByPair
  <2>4. run[r].batch \subseteq held[run[r].dst]
    BY DEF AdoptionInv, BatchFresh, RunFresh, At
  <2>5. \A c \in run[r].batch : term[c] = "extended"
    BY <2>2, <2>4 DEF AdoptionInv, HeldExtended
  <2> QED BY <2>2, <2>3, <2>4, <2>5 DEF AdoptionInv, HeldByPair, NoDoubleRegistration,
                                        ReadbackOK, BytesMatch
<1> QED BY <1>1, AdoptionInvariant, PTL

-----------------------------------------------------------------------------
(* The command implements the ledger: a block that takes a fresh batch is   *)
(* an Adopt, a report is a Report, everything else is unseen.               *)

LEMMA LandIsAdopt ==
  ASSUME AdoptionInv, OneSourceEach, NEW t \in mempool, Land(t)
  PROVE  Ledger!Next \/ UNCHANGED <<held, reported>>
<1> DEFINE ok == t.by \in Runs /\ Accepts(t.dst, t.claims)
<1> USE DEF AdoptionInv
<1>1. reported' = reported
  BY DEF Land
<1>2. held = [d \in Targets |-> held[d]]
  BY DEF TypeOK
<1>3. held' = [d \in Targets |-> IF ok /\ d = t.dst THEN held[d] \cup t.claims ELSE held[d]]
  BY DEF Land
<1>4. CASE ~ok
  BY <1>1, <1>2, <1>3, <1>4
<1>5. CASE ok
  <2>1. PICK p \in Pairs : t.dst = p[2] /\ t.claims \subseteq ClaimsOf[p[1]] \ held[p[2]]
    BY <1>5 DEF MempoolFresh, TxFresh
  <2>2. t.claims # {} /\ Cardinality(t.claims) <= BatchSize
    BY <1>5 DEF MempoolFresh, TxFresh, Size
  <2>3. \A other \in Targets : held[other] \cap t.claims = {}
    BY <1>5, <2>1 DEF Accepts
  <2>4. held[p[2]] \subseteq ClaimsOf[p[1]]
    BY DEF HeldByPair
  <2>5. held' = [held EXCEPT ![p[2]] = @ \cup t.claims]
    BY <1>2, <1>3, <1>5, <2>1
  <2>6. t.claims \subseteq ClaimsOf[p[1]]
    BY <2>1
  <2>7. Ledger!Adopt(p[1], p[2], t.claims)
    BY <1>1, <2>2, <2>3, <2>4, <2>5, <2>6
       DEF Ledger!Adopt, Cardinality, Ledger!Cardinality
  <2> QED BY <2>6, <2>7 DEF Ledger!Next
<1> QED BY <1>4, <1>5

LEMMA StepIsReport ==
  ASSUME AdoptionInv, NEW r \in Runs, Step(r)
  PROVE  Ledger!Next \/ UNCHANGED <<held, reported>>
<1>1. UNCHANGED held
  BY DEF Step, ReportComplete, Plan, Preflight, EnterLoop, NextBatch, EnsureNoPending,
         Sign, Send, Receipt, Validate, Progress, Refused, chain
<1>2. CASE ReportComplete(r) \/ Progress(r)
  <2>1. <<run[r].src, run[r].dst>> \in Pairs
    BY <1>2, Working DEF ReportComplete, Progress, At, AdoptionInv, Busy
  <2>2. held[run[r].dst] = ClaimsOf[run[r].src]
    BY <1>2, <2>1 DEF ReportComplete, Complete, Progress, AdoptionInv, HeldByPair
  <2>3. Ledger!Report(run[r].src, run[r].dst)
    BY <1>1, <1>2, <2>2 DEF ReportComplete, Progress, Ledger!Report
  <2>4. \E p \in Pairs : Ledger!Report(p[1], p[2])
    BY <2>1, <2>3
  <2> QED BY <2>4 DEF Ledger!Next
<1>3. CASE ~(ReportComplete(r) \/ Progress(r))
  BY <1>1, <1>3 DEF Step, Plan, Preflight, EnterLoop, NextBatch, EnsureNoPending,
                    Sign, Send, Receipt, Validate, Refused
<1> QED BY <1>2, <1>3

LEMMA LedgerStep ==
  ASSUME OneSourceEach
  PROVE  AdoptionInv /\ [Next]_vars => [Ledger!Next]_<<held, reported>>
<1> SUFFICES ASSUME AdoptionInv, [Next]_vars
             PROVE  Ledger!Next \/ UNCHANGED <<held, reported>>
  OBVIOUS
<1>1. CASE \E r \in Runs : Step(r)
  BY <1>1, StepIsReport
<1>2. CASE \E t \in mempool : Land(t)
  BY <1>2, LandIsAdopt
<1>3. CASE ~(\E r \in Runs : Step(r)) /\ ~(\E t \in mempool : Land(t))
  BY <1>3 DEF Next, Crash, LoadPair, Drop, OtherTx, RailCreated, CloseTarget,
              TerminateSource, Expire, chain, vars
<1> QED BY <1>1, <1>2, <1>3

(* Whatever runs, crashes and transactions there are, what can be seen of   *)
(* them on the chain and in the reports is a behaviour of the ledger.       *)
THEOREM CommandImplementsLedger ==
  ASSUME OneAdoptPerDeal, OneSourceEach
  PROVE  Spec => ImplementsLedger
<1>1. Init => Ledger!Init
  BY DEF Init, Ledger!Init
<1> QED BY <1>1, LedgerStep, AdoptionInvariant, PTL DEF Spec, ImplementsLedger, Ledger!Spec

-----------------------------------------------------------------------------
(* Two V1 deals for one V2 deal.                                            *)

(* What makes a pair confirmed: it was read back as the only one.           *)
ReadAlone(p) ==
  /\ p \in Pairs
  /\ held[p[2]] \subseteq ClaimsOf[p[1]]
  /\ held[p[2]] \cap ClaimsOf[p[1]] # {}

LEMMA MixInit == Init => MixInv
<1> SUFFICES ASSUME Init PROVE MixInv
  OBVIOUS
<1>1. TypeOK
  BY TypeInit
<1>2. \A r \in Runs : OwnClaims(run[r])
  BY DEF Init, OwnClaims, Idle
<1>3. Confirmed = {}
  BY DEF Init, Confirmed, At, Idle
<1> QED BY <1>1, <1>2, <1>3 DEF MixInv

(* A pair that was read back alone joins the confirmed ones only as the     *)
(* first of its V2 deal: what the others saw there it would have seen.      *)
LEMMA ConfirmedKept ==
  ASSUME MixInv,
         \A d \in Targets : held[d] \subseteq held'[d],
         NEW p, ReadAlone(p) \/ p \in Confirmed,
         Confirmed' \subseteq Confirmed \cup {p}
  PROVE  /\ \A q \in Confirmed' : held'[q[2]] \cap ClaimsOf[q[1]] # {}
         /\ \A q, s \in Confirmed' : q[2] = s[2] => q = s
<1>1. Confirmed \subseteq Pairs
  <2>1. \A r \in Runs : At(r, "validated") => <<run[r].src, run[r].dst>> \in Pairs
    BY Working DEF MixInv, At, Busy
  <2> QED BY <2>1 DEF Confirmed, MixInv, TypeOK
<1>2. p \in Pairs
  BY <1>1 DEF ReadAlone
<1>3. \A q \in Pairs : /\ q = <<q[1], q[2]>> /\ q[1] \in Sources /\ q[2] \in Targets
  BY ConstantsAssumption
<1>4. \A q \in Confirmed \cup {p} : held[q[2]] \cap ClaimsOf[q[1]] # {}
  BY DEF MixInv, ReadAlone
<1>5. \A q \in Confirmed : q[2] = p[2] => q = p
  <2>1. CASE p \in Confirmed
    BY <2>1 DEF MixInv
  <2>2. CASE ReadAlone(p)
    <3> SUFFICES ASSUME NEW q \in Confirmed, q[2] = p[2] PROVE q = p
      OBVIOUS
    <3>1. ClaimsOf[q[1]] \cap ClaimsOf[p[1]] # {}
      BY <1>4, <2>2 DEF ReadAlone
    <3>2. q[1] = p[1]
      BY <1>1, <1>2, <1>3, <3>1, ConstantsAssumption
    <3> QED BY <1>1, <1>2, <1>3, <3>2
  <2> QED BY <2>1, <2>2
<1>6. \A q \in Confirmed' : held'[q[2]] \cap ClaimsOf[q[1]] # {}
  BY <1>1, <1>2, <1>3, <1>4
<1>7. \A q, s \in Confirmed' : q[2] = s[2] => q = s
  BY <1>5 DEF MixInv
<1> QED BY <1>6, <1>7

(* What a run plans and sends stays its own.                                *)
LEMMA OwnKept ==
  ASSUME MixInv, NEW r \in Runs, Step(r)
  PROVE  \A q \in Runs : OwnClaims(run'[q])
<1> DEFINE me == run[r]
<1>1. OwnClaims(me) /\ TypeOK
  BY DEF MixInv
<1>2. ~At(r, "idle") => me \in Busy
  BY <1>1, Working
<1>3. OwnClaims(Idle)
  BY DEF OwnClaims, Idle
<1> SUFFICES OwnClaims(run'[r]) /\ \A q \in Runs \ {r} : run'[q] = run[q]
  BY DEF MixInv
<1>4. CASE ReportComplete(r) \/ Progress(r) \/ Refused(r)
  BY <1>1, <1>3, <1>4 DEF ReportComplete, Progress, Refused, Stop, TypeOK
<1>5. CASE Plan(r)
  <2> DEFINE x == [me EXCEPT !.pc = "planned", !.todo = ClaimsOf[me.src] \ held[me.dst]]
  <2>1. me \in Busy /\ me.pc = "loaded"
    BY <1>2, <1>5 DEF Plan, At
  <2>2. ClaimsOf[me.src] \ held[me.dst] # {}
    BY <1>5 DEF Plan, PlanOK, Complete
  <2>3. me.batch = {}
    BY <1>1, <2>1 DEF OwnClaims
  <2> QED BY <1>1, <1>5, <2>1, <2>2, <2>3 DEF Plan, OwnClaims, Busy, Run, TypeOK
<1>6. CASE Preflight(r) \/ EnterLoop(r) \/ EnsureNoPending(r) \/ Send(r)
  BY <1>1, <1>2, <1>6 DEF Preflight, EnterLoop, EnsureNoPending, Send, Goto, At, OwnClaims, Busy, Run, TypeOK
<1>7. CASE NextBatch(r)
  <2>1. PICK b \in Batches(me.todo) : run' = [run EXCEPT ![r].pc = "guarded", ![r].batch = b]
    BY <1>7 DEF NextBatch
  <2>2. me \in Busy /\ me.pc = "looping" /\ me.todo # {} /\ me.todo \in SUBSET Claims
    BY <1>1, <1>2, <1>7 DEF NextBatch, At, OwnClaims, Busy, Run
  <2>3. b # {} /\ b \subseteq me.todo
    BY <2>2, BatchSizes
  <2> QED BY <1>1, <2>1, <2>2, <2>3 DEF OwnClaims, Busy, Run, TypeOK
<1>8. CASE Sign(r) \/ Receipt(r)
  BY <1>1, <1>2, <1>8 DEF Sign, Receipt, At, OwnClaims, Busy, Run, TypeOK
<1>9. CASE Validate(r)
  BY <1>1, <1>2, <1>9 DEF Validate, At, OwnClaims, Busy, Run, TypeOK
<1> QED BY <1>4, <1>5, <1>6, <1>7, <1>8, <1>9 DEF Step

(* A step of a run confirms at most one pair, read back alone.              *)
LEMMA RunConfirms ==
  ASSUME MixInv, NEW r \in Runs, Step(r)
  PROVE  \/ Confirmed' \subseteq Confirmed
         \/ \E p : ReadAlone(p) /\ Confirmed' \subseteq Confirmed \cup {p}
<1> DEFINE me == run[r]
           p == <<me.src, me.dst>>
<1>1. OwnClaims(me) /\ TypeOK
  BY DEF MixInv
<1>2. ~At(r, "idle") => me \in Busy /\ p \in Pairs /\ me.src \in Sources /\ me.dst \in Targets
  BY <1>1, Working, ConstantsAssumption DEF Busy
<1>3. CASE ReportComplete(r)
  <2>1. p \in Pairs /\ me.src \in Sources
    BY <1>2, <1>3 DEF ReportComplete, At
  <2>2. ReadAlone(p)
    BY <1>3, <2>1, ConstantsAssumption DEF ReportComplete, Complete, ReadAlone
  <2>3. Confirmed' \subseteq Confirmed \cup {p}
    BY <1>1, <1>3 DEF ReportComplete, Confirmed, Stop, At, Idle, TypeOK
  <2> QED BY <2>2, <2>3
<1>4. CASE Progress(r)
  <2>1. p \in Confirmed
    BY <1>4 DEF Progress, Confirmed
  <2> QED BY <1>1, <1>4, <2>1 DEF Progress, Confirmed, Stop, At, Idle, TypeOK
<1>5. CASE Validate(r)
  <2>1. p \in Pairs /\ me \in Busy /\ me.pc = "landed"
    BY <1>2, <1>5 DEF Validate, At
  <2>2. ReadAlone(p)
    BY <1>1, <1>5, <2>1 DEF Validate, ReadbackOK, OwnClaims, ReadAlone
  <2>3. run'[r].src = me.src /\ run'[r].dst = me.dst /\ reported' = reported
        /\ \A q \in Runs \ {r} : run'[q] = run[q]
    BY <1>1, <1>5, <2>1 DEF Validate, Busy, Run, TypeOK
  <2>4. Confirmed' \subseteq Confirmed \cup {p}
    BY <2>3 DEF Confirmed, At
  <2> QED BY <2>2, <2>4
<1>6. CASE Refused(r)
  BY <1>1, <1>6 DEF Refused, Confirmed, Stop, At, Idle, TypeOK
<1>7. CASE Plan(r) \/ Preflight(r) \/ EnterLoop(r) \/ NextBatch(r) \/ EnsureNoPending(r)
           \/ Sign(r) \/ Send(r) \/ Receipt(r)
  <2>1. run'[r].pc # "validated" /\ reported' = reported /\ \A q \in Runs \ {r} : run'[q] = run[q]
    BY <1>1, <1>2, <1>7 DEF Plan, Preflight, EnterLoop, NextBatch, EnsureNoPending, Sign, Send, Receipt,
                      Goto, At, Busy, Run, TypeOK
  <2>2. Confirmed' \subseteq Confirmed
    BY <2>1 DEF Confirmed, At
  <2> QED BY <2>2
<1> QED BY <1>3, <1>4, <1>5, <1>6, <1>7 DEF Step

LEMMA MixStep == MixInv /\ [Next]_vars => MixInv'
<1> SUFFICES ASSUME MixInv, [Next]_vars PROVE MixInv'
  OBVIOUS
<1>1. TypeOK'
  BY TypeStep DEF MixInv
<1> DEFINE Mono == \A d \in Targets : held[d] \subseteq held'[d]
           Kept == /\ \A q \in Confirmed' : held'[q[2]] \cap ClaimsOf[q[1]] # {}
                   /\ \A q, s \in Confirmed' : q[2] = s[2] => q = s
           Own == \A q \in Runs : OwnClaims(run'[q])
<1>2. ASSUME Mono, Confirmed' \subseteq Confirmed PROVE Kept
  <2>1. CASE Confirmed' = {}
    BY <2>1
  <2>2. CASE Confirmed' # {}
    <3>1. PICK p \in Confirmed : p \in Confirmed'
      BY <1>2, <2>2
    <3> QED BY <1>2, <3>1, ConfirmedKept
  <2> QED BY <2>1, <2>2
<1>3. ASSUME NEW r \in Runs, Step(r) PROVE Own /\ Kept
  <2>1. Mono
    BY <1>3 DEF Step, ReportComplete, Plan, Preflight, EnterLoop, NextBatch, EnsureNoPending, Sign,
                Send, Receipt, Validate, Progress, Refused, chain
  <2>2. Kept
    BY <1>2, <1>3, <2>1, RunConfirms, ConfirmedKept
  <2> QED BY <1>3, <2>2, OwnKept
<1>4. ASSUME NEW s \in Sources, NEW d \in Targets, NEW r \in Runs, LoadPair(r, s, d)
      PROVE  Own /\ Kept
  <2>1. \A q \in Runs : run'[q] = run[q] \/ (run'[q].pc = "loaded" /\ OwnClaims(run'[q]))
    BY <1>4 DEF LoadPair, MixInv, TypeOK, OwnClaims, Idle
  <2>2. Confirmed' \subseteq Confirmed /\ Mono
    BY <1>4, <2>1 DEF LoadPair, Confirmed, At, chain
  <2> QED BY <1>2, <2>1, <2>2 DEF MixInv
<1>5. ASSUME NEW r \in Runs, Crash(r) PROVE Own /\ Kept
  <2>1. \A q \in Runs : run'[q] = run[q] \/ (run'[q].pc = "idle" /\ OwnClaims(run'[q]))
    BY <1>5 DEF Crash, Stop, MixInv, TypeOK, OwnClaims, Idle
  <2>2. Confirmed' \subseteq Confirmed /\ Mono
    BY <1>5, <2>1 DEF Crash, Confirmed, At, chain
  <2> QED BY <1>2, <2>1, <2>2 DEF MixInv
<1>6. ASSUME NEW t \in mempool, Land(t) PROVE Own /\ Kept
  <2>1. Mono
    BY <1>6 DEF Land, MixInv, TypeOK
  <2>2. \A q \in Runs : run[q] \in {Idle} \cup Busy
    BY DEF MixInv, TypeOK
  <2>3. \A q \in Runs : /\ run'[q].pc = run[q].pc /\ run'[q].src = run[q].src
                        /\ run'[q].dst = run[q].dst /\ run'[q].todo = run[q].todo
                        /\ run'[q].batch = run[q].batch
    BY <1>6, <2>2 DEF Land, At, Busy, Run
  <2>4. Confirmed' \subseteq Confirmed
    BY <1>6, <2>3 DEF Land, Confirmed, At
  <2> QED BY <1>2, <2>1, <2>3, <2>4 DEF MixInv, OwnClaims
<1>7. ASSUME UNCHANGED <<run, held, reported>> PROVE Own /\ Kept
  <2>1. run' = run /\ held' = held /\ reported' = reported
    BY <1>7
  <2>2. Confirmed' = Confirmed
    BY <2>1 DEF Confirmed, At
  <2> QED BY <1>2, <2>1, <2>2 DEF MixInv
<1> HIDE DEF Own, Kept
<1>8. Own /\ Kept
  <2>1. \A p \in Pairs : p[1] \in Sources /\ p[2] \in Targets
    BY ConstantsAssumption
  <2>2. CASE \/ \E t \in mempool : Drop(t)
             \/ OtherTx
             \/ \E d \in Targets : RailCreated(d) \/ CloseTarget(d)
             \/ \E s \in Sources : TerminateSource(s)
             \/ \E c \in Claims : Expire(c)
    <3>1. UNCHANGED <<run, held, reported>>
      BY <2>2 DEF Drop, OtherTx, RailCreated, CloseTarget, TerminateSource, Expire, chain
    <3> QED BY <1>7, <3>1
  <2>3. CASE \E r \in Runs, p \in Pairs : LoadPair(r, p[1], p[2])
    BY <1>4, <2>1, <2>3
  <2>4. CASE \E r \in Runs : Step(r) \/ Crash(r)
    BY <1>3, <1>5, <2>4
  <2>5. CASE \E t \in mempool : Land(t)
    BY <1>6, <2>5
  <2>6. CASE UNCHANGED vars
    BY <1>7, <2>6 DEF vars, chain
  <2> QED BY <2>2, <2>3, <2>4, <2>5, <2>6 DEF Next
<1> QED BY <1>1, <1>8 DEF MixInv, Own, Kept

(* Whatever pairs are given and however many runs there are for a V2 deal:  *)
(* two V1 deals that are mixed into it are never both reported as adopted.  *)
THEOREM MixIsTold == Spec => []OneReportPerDeal
<1>1. MixInv => OneReportPerDeal
  BY DEF MixInv, Confirmed, OneReportPerDeal
<1> QED BY <1>1, MixInit, MixStep, PTL DEF Spec
=============================================================================
