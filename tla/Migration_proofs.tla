--------------------------- MODULE Migration_proofs ---------------------------
(***************************************************************************)
(* Why old checks are good enough: everything finish-migration and         *)
(* close-v1-deal rely on, once true, stays true.  The claims V1 lists only *)
(* get fewer, the claims V2 holds only more (and no more once it holds all *)
(* that V1 lists), an activated deal was activated, a notice only gets     *)
(* shorter, a terminated rail stays terminated.                            *)
(***************************************************************************)
EXTENDS Migration, TLAPS

(* No V2 deal is paired with two V1 deals.                                  *)
OneSourceEach == \A p, q \in Pairs : p[2] = q[2] => p[1] = q[1]

LEMMA PairTypes == ASSUME NEW p \in Pairs PROVE p[1] \in Sources /\ p[2] \in Targets
BY ConstantsAssumption

-----------------------------------------------------------------------------
(* Types.                                                                   *)

LEMMA TypeInit == Init => TypeOK
<1> SUFFICES ASSUME Init PROVE TypeOK
  OBVIOUS
<1>1. Idle \in Job
  BY DEF Job, Idle, Steps, Actions, States
<1>2. job \in [Jobs -> Job] /\ txs \subseteq Tx
  BY <1>1 DEF Init
<1>3. lockup \in [Sources -> Nat]
  BY ConstantsAssumption DEF Init
<1> QED BY <1>2, <1>3, ConstantsAssumption DEF Init, TypeOK, States

LEMMA JobType ==
  ASSUME TypeOK, NEW j \in Jobs, NEW x \in Job, job' = [job EXCEPT ![j] = x]
  PROVE  job' \in [Jobs -> Job]
BY DEF TypeOK

LEMMA StepType == ASSUME TypeOK, NEW j \in Jobs, Step(j) PROVE job' \in [Jobs -> Job]
<1> DEFINE me == job[j]
<1>1. me \in Job
  BY DEF TypeOK
<1>2. Idle \in Job
  BY DEF Job, Idle, Steps, Actions, States
<1>3. CASE CheckFinish(j) \/ CheckClose(j) \/ Preflight(j) \/ Send(j) \/ WaitPast(j)
  <2>1. PICK pc \in Steps : job' = [job EXCEPT ![j].pc = pc]
    BY <1>3 DEF CheckFinish, CheckClose, Preflight, Send, WaitPast, Steps
  <2> DEFINE x == [me EXCEPT !.pc = pc]
  <2>2. x \in Job
    BY <1>1, <2>1 DEF Job
  <2>3. job' = [job EXCEPT ![j] = x]
    BY <2>1
  <2> HIDE DEF x
  <2> QED BY <2>2, <2>3, JobType
<1>4. CASE Receipt(j)
  <2> DEFINE x == [me EXCEPT !.pc = "landed", !.outcome = "none"]
  <2>1. x \in Job
    BY <1>1 DEF Job, Steps
  <2>2. job' = [job EXCEPT ![j] = x] \/ job' = [job EXCEPT ![j] = Idle]
    BY <1>4 DEF Receipt, Stop
  <2> HIDE DEF x
  <2> QED BY <1>2, <2>1, <2>2, JobType
<1>5. CASE SettleSoon(j)
  <2> DEFINE x == [me EXCEPT !.pc = "timed", !.action = "settle"]
  <2>1. x \in Job
    BY <1>1 DEF Job, Steps, Actions
  <2>2. job' = [job EXCEPT ![j] = x]
    BY <1>5 DEF SettleSoon
  <2> HIDE DEF x
  <2> QED BY <2>1, <2>2, JobType
<1>6. CASE End(j)
  BY <1>2, <1>6, JobType DEF End, Stop
<1> QED BY <1>3, <1>4, <1>5, <1>6 DEF Step

LEMMA TxType ==
  ASSUME TypeOK, NEW j \in Jobs, <<job[j].src, job[j].dst>> \in Pairs, job[j].action # "none"
  PROVE  TxOf(j) \in Tx
<1>1. job[j].src \in Sources /\ job[j].dst \in Targets
  BY ConstantsAssumption
<1> QED BY <1>1 DEF TypeOK, Job, TxOf, Tx

(* A step of a job changes its local state and, when it sends, txs.         *)
LEMMA StepChain ==
  ASSUME NEW j \in Jobs, Step(j)
  PROVE  /\ UNCHANGED <<v1vars, v2vars, faults>>
         /\ txs' = txs \/ (Send(j) /\ txs' = txs \cup {TxOf(j)})
BY DEF Step, CheckFinish, CheckClose, Preflight, Send, Receipt, SettleSoon, WaitPast, End

(* What a job is about to send is of a pair and does something.             *)
JobsPaired == \A j \in Jobs : ~At(j, "idle") => <<job[j].src, job[j].dst>> \in Pairs
                                               /\ job[j].action # "none"

LEMMA PairedStep == ASSUME TypeOK, JobsPaired, [Next]_vars PROVE JobsPaired'
<1>1. ASSUME NEW j \in Jobs, job' = [job EXCEPT ![j] = Idle] PROVE JobsPaired'
  BY <1>1 DEF TypeOK, JobsPaired, At, Idle
<1>2. ASSUME NEW j \in Jobs, Step(j) PROVE JobsPaired'
  <2>1. CASE job' = [job EXCEPT ![j] = Idle]
    BY <1>1, <2>1
  <2>2. CASE job' # [job EXCEPT ![j] = Idle]
    <3>1. ~At(j, "idle")
      BY <1>2, <2>2 DEF Step, CheckFinish, CheckClose, Preflight, Send, Receipt, SettleSoon,
                        WaitPast, End, Ends, Stop, At
    <3>2. /\ job'[j].src = job[j].src /\ job'[j].dst = job[j].dst
          /\ job'[j].action \in {job[j].action, "settle"}
          /\ \A i \in Jobs \ {j} : job'[i] = job[i]
      BY <1>2, <2>2 DEF Step, CheckFinish, CheckClose, Preflight, Send, Receipt, SettleSoon,
                        WaitPast, End, Stop, TypeOK, Job
    <3> QED BY <3>1, <3>2 DEF JobsPaired, At
  <2> QED BY <2>1, <2>2
<1>3. ASSUME NEW j \in Jobs, NEW p \in Pairs, NEW force \in BOOLEAN,
             LoadFinish(j, p[1], p[2]) \/ LoadClose(j, p[1], p[2], force)
      PROVE  JobsPaired'
  <2> DEFINE action == IF v1[p[1]] = "open" THEN "terminate" ELSE "settle"
             x == [Idle EXCEPT !.pc = "loaded", !.src = p[1], !.dst = p[2], !.force = force,
                               !.notice = lockup[p[1]], !.state = v2[p[2]], !.action = action]
             y == [Idle EXCEPT !.pc = "loaded", !.src = p[1], !.dst = p[2], !.action = "finish"]
  <2>0. /\ x.src = p[1] /\ x.dst = p[2] /\ x.action # "none"
        /\ y.src = p[1] /\ y.dst = p[2] /\ y.action # "none"
    BY DEF Idle
  <2>3. job' = [job EXCEPT ![j] = x] \/ job' = [job EXCEPT ![j] = y]
    BY <1>3 DEF LoadFinish, LoadClose
  <2> HIDE DEF x, y
  <2>1. /\ job'[j].src = p[1] /\ job'[j].dst = p[2] /\ job'[j].action # "none"
        /\ \A i \in Jobs \ {j} : job'[i] = job[i]
    BY <2>0, <2>3 DEF TypeOK
  <2>2. <<p[1], p[2]>> \in Pairs
    BY ConstantsAssumption
  <2> QED BY <2>1, <2>2 DEF JobsPaired, At
<1>4. ASSUME NEW t \in txs, Land(t) PROVE JobsPaired'
  <2>1. \A i \in Jobs : /\ job'[i].src = job[i].src /\ job'[i].dst = job[i].dst
                         /\ job'[i].action = job[i].action /\ job'[i].pc = job[i].pc
    BY <1>4 DEF Land, TypeOK, Job
  <2> QED BY <2>1 DEF JobsPaired, At
<1>5. CASE job' = job
  BY <1>5 DEF JobsPaired, At
<1>6. ASSUME NEW j \in Jobs, Crash(j) PROVE JobsPaired'
  BY <1>1, <1>6 DEF Crash, Stop
<1> QED
  BY <1>2, <1>3, <1>4, <1>5, <1>6
     DEF Next, vars, Evict, Adopt, Prepare, Activate, EndV2, Shorten, EndV1, Expire, Tick

LEMMA TypeStep == ASSUME TypeOK, JobsPaired, [Next]_vars PROVE TypeOK'
<1> USE DEF TypeOK, v1vars, v2vars
<1>1. ASSUME NEW j \in Jobs, Step(j) PROVE TypeOK'
  <2>1. txs' \subseteq Tx
    BY <1>1, StepChain, TxType DEF Send, JobsPaired, At
  <2> QED BY <1>1, <2>1, StepChain, StepType
<1>2. ASSUME NEW j \in Jobs, Crash(j) PROVE TypeOK'
  <2>1. Idle \in Job
    BY DEF Job, Idle, Steps, Actions, States
  <2>2. faults' \in [FaultKinds -> Nat]
    BY <1>2 DEF Crash, Fault, FaultKinds
  <2> QED BY <1>2, <2>1, <2>2 DEF Crash, Stop
<1>3. ASSUME NEW j \in Jobs, NEW p \in Pairs, LoadFinish(j, p[1], p[2]) PROVE TypeOK'
  <2> DEFINE x == [Idle EXCEPT !.pc = "loaded", !.src = p[1], !.dst = p[2], !.action = "finish"]
  <2>1. x \in Job
    BY PairTypes DEF Job, Idle, Steps, Actions, States
  <2>2. job' = [job EXCEPT ![j] = x] /\ UNCHANGED <<v1vars, v2vars, txs, faults>>
    BY <1>3 DEF LoadFinish
  <2> HIDE DEF x
  <2> QED BY <2>1, <2>2, JobType
<1>4. ASSUME NEW j \in Jobs, NEW p \in Pairs, NEW force \in BOOLEAN,
             LoadClose(j, p[1], p[2], force)
      PROVE  TypeOK'
  <2> DEFINE action == IF v1[p[1]] = "open" THEN "terminate" ELSE "settle"
             x == [Idle EXCEPT !.pc = "loaded", !.src = p[1], !.dst = p[2], !.force = force,
                               !.notice = lockup[p[1]], !.state = v2[p[2]], !.action = action]
  <2>1. x \in Job
    BY PairTypes DEF Job, Idle, Steps, Actions, States
  <2>2. job' = [job EXCEPT ![j] = x] /\ UNCHANGED <<v1vars, v2vars, txs, faults>>
    BY <1>4 DEF LoadClose
  <2> HIDE DEF x
  <2> QED BY <2>1, <2>2, JobType
<1>5. ASSUME NEW t \in txs, Land(t) PROVE TypeOK'
  <2>1. job' \in [Jobs -> Job]
    <3> SUFFICES ASSUME NEW i \in Jobs PROVE job'[i] \in Job
      BY <1>5 DEF Land
    <3>1. job'[i] = job[i] \/ \E o \in {"ok", "reverted"} : job'[i] = [job[i] EXCEPT !.outcome = o]
      BY <1>5 DEF Land
    <3> QED BY <3>1 DEF Job
  <2>2. left' \in [Sources -> Nat]
    BY <1>5 DEF Land
  <2>3. v1' \in [Sources -> {"open", "ended", "settled"}] /\ v2' \in [Targets -> States]
    BY <1>5 DEF Land, States
  <2> QED BY <1>5, <2>1, <2>2, <2>3 DEF Land
<1>6. ASSUME NEW t \in txs, Evict(t) PROVE TypeOK'
  <2>1. faults' \in [FaultKinds -> Nat]
    BY <1>6 DEF Evict, Fault, FaultKinds
  <2> QED BY <1>6, <2>1 DEF Evict
<1>7. ASSUME NEW p \in Pairs, NEW batch \in SUBSET Claims, Adopt(p[1], p[2], batch) PROVE TypeOK'
  <2>1. held' \in [Targets -> SUBSET Claims]
    BY <1>7, PairTypes DEF Adopt, Ledger!Adopt
  <2> QED BY <1>7, <2>1 DEF Adopt
<1>8. ASSUME NEW d \in Targets, Prepare(d) \/ Activate(d) \/ EndV2(d) PROVE TypeOK'
  <2>1. faults' \in [FaultKinds -> Nat]
    BY <1>8 DEF Prepare, Activate, EndV2, Fault, FaultKinds
  <2> QED BY <1>8, <2>1 DEF Prepare, Activate, EndV2, States
<1>9. ASSUME NEW s \in Sources, Shorten(s) PROVE TypeOK'
  <2>1. lockup' \in [Sources -> Nat]
    BY <1>9, ConstantsAssumption DEF Shorten
  <2> QED BY <1>9, <2>1 DEF Shorten
<1>10. ASSUME NEW s \in Sources, NEW claim \in Claims, EndV1(s) \/ Expire(s, claim) PROVE TypeOK'
  <2>1. faults' \in [FaultKinds -> Nat]
    BY <1>10 DEF EndV1, Expire, Fault, FaultKinds
  <2> QED BY <1>10, <2>1 DEF EndV1, Expire
<1>11. CASE Tick
  <2>1. left' \in [Sources -> Nat]
    BY <1>11 DEF Tick
  <2> QED BY <1>11, <2>1 DEF Tick
<1>12. CASE UNCHANGED vars
  BY <1>12 DEF vars
<1>13. CASE \E s \in Sources : EndV1(s)
  <2>1. PICK s \in Sources : EndV1(s)
    BY <1>13
  <2>2. faults' \in [FaultKinds -> Nat]
    BY <2>1 DEF EndV1, Fault, FaultKinds
  <2> QED BY <2>1, <2>2 DEF EndV1
<1> QED
  BY <1>1, <1>2, <1>3, <1>4, <1>5, <1>6, <1>7, <1>8, <1>9, <1>10, <1>11, <1>12, <1>13 DEF Next

(* The variables keep their types.                                          *)
THEOREM MigrationTypes == Spec => []TypeOK
<1>1. Init => JobsPaired
  BY DEF Init, JobsPaired, At, Idle
<1> QED BY <1>1, TypeInit, PairedStep, TypeStep, PTL DEF Spec

-----------------------------------------------------------------------------
(* What stays true.                                                         *)

LEMMA V1Drift ==
  ASSUME TypeOK, [Next]_vars, NEW s \in Sources
  PROVE  /\ listed'[s] \subseteq listed[s]
         /\ lockup'[s] <= lockup[s]
         /\ v1[s] # "open" => v1'[s] # "open"
         /\ v1[s] = "settled" => v1'[s] = "settled"
         /\ v1[s] # "open" /\ left[s] = 0 => left'[s] = 0
<1> USE DEF TypeOK, v1vars, v2vars
<1>1. ASSUME NEW j \in Jobs, Step(j) PROVE UNCHANGED v1vars
  BY <1>1, StepChain
<1>2. ASSUME NEW t \in txs, Land(t)
      PROVE  /\ UNCHANGED <<listed, lockup>>
             /\ v1[s] # "open" => v1'[s] # "open"
             /\ v1[s] = "settled" => v1'[s] = "settled"
             /\ v1[s] # "open" /\ left[s] = 0 => left'[s] = 0
  BY <1>2 DEF Land, Accepts
<1>3. ASSUME NEW q \in Sources, Shorten(q) PROVE UNCHANGED <<listed, v1, left>> /\ lockup'[s] <= lockup[s]
  <2>1. \A period \in Lockups : period \in Nat
    BY ConstantsAssumption
  <2> QED BY <1>3, <2>1 DEF Shorten
<1>4. ASSUME NEW q \in Sources, EndV1(q)
      PROVE  /\ UNCHANGED <<listed, lockup>>
             /\ v1[s] # "open" => v1'[s] = v1[s] /\ left'[s] = left[s]
  BY <1>4 DEF EndV1
<1>5. ASSUME NEW q \in Sources, NEW claim \in Claims, Expire(q, claim)
      PROVE  UNCHANGED <<v1, lockup, left>> /\ listed'[s] \subseteq listed[s]
  BY <1>5 DEF Expire
<1>6. CASE Tick
  BY <1>6 DEF Tick
<1>7. CASE UNCHANGED v1vars
  BY <1>7
<1>8. CASE \E t \in txs : Land(t)
  BY <1>2, <1>8
<1>9. CASE \E q \in Sources : Shorten(q) \/ EndV1(q) \/ \E claim \in Claims : Expire(q, claim)
  BY <1>3, <1>4, <1>5, <1>9
<1> QED
  BY <1>1, <1>6, <1>7, <1>8, <1>9
     DEF Next, vars, Crash, LoadFinish, LoadClose, Evict, Adopt, Prepare, Activate, EndV2

LEMMA V2Drift ==
  ASSUME TypeOK, [Next]_vars, NEW d \in Targets
  PROVE  /\ held[d] \subseteq held'[d]
         /\ v2[d] # "accepted" => v2'[d] # "accepted" /\ held'[d] = held[d]
         /\ v2[d] \in {"active", "over"} => v2'[d] \in {"active", "over"}
<1> USE DEF TypeOK, v1vars, v2vars
<1>1. ASSUME NEW j \in Jobs, Step(j) PROVE UNCHANGED v2vars
  BY <1>1, StepChain
<1>2. ASSUME NEW t \in txs, Land(t)
      PROVE  UNCHANGED held /\ (v2'[d] = v2[d] \/ (v2[d] = "accepted" /\ v2'[d] = "posted"))
  BY <1>2 DEF Land, Accepts
<1>3. ASSUME NEW p \in Pairs, NEW batch \in SUBSET Claims, Adopt(p[1], p[2], batch)
      PROVE  /\ held[d] \subseteq held'[d] /\ UNCHANGED v2
             /\ v2[d] # "accepted" => held'[d] = held[d]
  BY <1>3, PairTypes DEF Adopt, Ledger!Adopt
<1>4. ASSUME NEW q \in Targets, Activate(q) \/ EndV2(q)
      PROVE  /\ UNCHANGED held
             /\ v2[d] # "accepted" => v2'[d] # "accepted"
             /\ v2[d] \in {"active", "over"} => v2'[d] \in {"active", "over"}
  BY <1>4 DEF Activate, EndV2
<1>5. CASE UNCHANGED <<held, v2>>
  BY <1>5
<1>6. CASE \E p \in Pairs, batch \in SUBSET Claims : Adopt(p[1], p[2], batch)
  BY <1>3, <1>6
<1>7. CASE \E t \in txs : Land(t)
  BY <1>2, <1>7
<1>8. CASE \E q \in Targets : Activate(q) \/ EndV2(q)
  BY <1>4, <1>8
<1> QED
  BY <1>1, <1>5, <1>6, <1>7, <1>8
     DEF Next, vars, Crash, LoadFinish, LoadClose, Evict, Prepare, Shorten, EndV1, Expire, Tick

(* Adoption has nothing left to add to a V2 deal that holds all V1 lists.   *)
LEMMA WholeStays ==
  ASSUME TypeOK, OneSourceEach, [Next]_vars, NEW p \in Pairs, Missing(p[1], p[2]) = {}
  PROVE  held'[p[2]] = held[p[2]]
<1> USE DEF TypeOK, v1vars, v2vars
<1>1. ASSUME NEW q \in Pairs, NEW batch \in SUBSET Claims, Adopt(q[1], q[2], batch)
      PROVE  held'[p[2]] = held[p[2]]
  <2>1. /\ batch # {} /\ batch \subseteq listed[q[1]] /\ held[q[2]] \cap batch = {}
        /\ held' = [held EXCEPT ![q[2]] = @ \cup batch]
    BY <1>1, PairTypes DEF Adopt, Ledger!Adopt
  <2>2. q[2] # p[2]
    BY <2>1 DEF OneSourceEach, Missing
  <2> QED BY <2>1, <2>2, PairTypes
<1>2. ASSUME NEW j \in Jobs, Step(j) PROVE UNCHANGED held
  BY <1>2, StepChain
<1>3. CASE UNCHANGED held
  BY <1>3
<1> QED
  BY <1>1, <1>2, <1>3
     DEF Next, vars, Crash, LoadFinish, LoadClose, Land, Evict, Prepare, Activate, EndV2,
         Shorten, EndV1, Expire, Tick

LEMMA SoundStays ==
  ASSUME TypeOK, JobsPaired, OneSourceEach, [Next]_vars, NEW action, NEW s, NEW d, NEW force,
         Sound(action, s, d, force)
  PROVE  Sound(action, s, d, force)'
<1>1. PICK p \in Pairs : p = <<s, d>>
  BY DEF Sound
<1>2. p[1] = s /\ p[2] = d /\ s \in Sources /\ d \in Targets
  BY <1>1, PairTypes
<1>3. Missing(s, d) = {} => Missing(s, d)' = {} /\ held'[d] = held[d]
  BY <1>2, V1Drift, WholeStays DEF Missing
<1>4. Missing(s, d) = {} /\ SizeOK(d) => SizeOK(d)'
  BY <1>3 DEF SizeOK
<1>5. Replaced(s, d) => Replaced(s, d)'
  BY <1>2, <1>3, V2Drift DEF Replaced
<1>6. lockup[s] <= MaxNotice => lockup'[s] <= MaxNotice
  <2>1. lockup[s] \in Nat /\ lockup'[s] <= lockup[s]
    BY <1>2, V1Drift DEF TypeOK
  <2>2. lockup'[s] \in Nat
    BY <1>2, TypeStep DEF TypeOK
  <2> QED BY <2>1, <2>2, ConstantsAssumption
<1>7. v1[s] # "open" /\ left[s] = 0 => v1'[s] # "open" /\ left'[s] = 0
  BY <1>2, V1Drift
<1> QED BY <1>3, <1>4, <1>5, <1>6, <1>7 DEF Sound

(* A job that does nothing meanwhile keeps what it relies on.               *)
LEMMA JobStays ==
  ASSUME TypeOK, JobsPaired, OneSourceEach, [Next]_vars, NEW x \in Job, JobSound(x)
  PROVE  JobSound(x)'
<1>1. <<x.src, x.dst>> \in Pairs /\ x.src \in Sources /\ x.dst \in Targets /\ x.notice \in Nat
  BY ConstantsAssumption DEF JobSound, Job
<1>2. x.pc = "loaded" /\ x.action = "terminate" => lockup'[x.src] <= x.notice
  <2>1. lockup[x.src] \in Nat /\ lockup'[x.src] \in Nat /\ lockup'[x.src] <= lockup[x.src]
    BY <1>1, V1Drift, TypeStep DEF TypeOK
  <2> QED BY <1>1, <2>1 DEF JobSound
<1>3. v2[x.dst] \in {"active", "over"} => v2'[x.dst] \in {"active", "over"}
  BY <1>1, V2Drift
<1>4. Sound(x.action, x.src, x.dst, x.force) => Sound(x.action, x.src, x.dst, x.force)'
  BY SoundStays
<1>5. /\ v1[x.src] # "open" => v1'[x.src] # "open"
      /\ v1[x.src] = "settled" => v1'[x.src] = "settled"
  BY <1>1, V1Drift
<1> QED BY <1>1, <1>2, <1>3, <1>4, <1>5 DEF JobSound

-----------------------------------------------------------------------------
(* The invariant.                                                           *)

LEMMA InvInit == Init => MigrationInv
<1> SUFFICES ASSUME Init PROVE MigrationInv
  OBVIOUS
<1>1. FinishedWhole
  <2>1. \A p \in Pairs : v2[p[2]] = "accepted"
    BY PairTypes DEF Init
  <2> QED BY <2>1 DEF FinishedWhole
<1> QED BY <1>1, TypeInit DEF Init, MigrationInv, At, Idle

(* The checks of a command establish what its transaction relies on.        *)
LEMMA StepSound ==
  ASSUME MigrationInv, NEW j \in Jobs, Step(j), NEW x, x = job'[j], x.pc # "idle"
  PROVE  JobSound(x)
<1> DEFINE me == job[j]
<1>1. /\ me \in Job /\ me.pc # "idle" /\ JobSound(me)
      /\ <<me.src, me.dst>> \in Pairs /\ me.src \in Sources /\ me.dst \in Targets
  <2>1. me \in Job
    BY DEF MigrationInv, TypeOK
  <2>2. me.pc # "idle"
    BY DEF Step, CheckFinish, CheckClose, Preflight, Send, Receipt, SettleSoon, WaitPast,
           End, Stop, At, Idle, MigrationInv, TypeOK
  <2> QED BY <2>1, <2>2, ConstantsAssumption DEF MigrationInv, At, JobSound
<1>3. job' # [job EXCEPT ![j] = Idle]
  BY DEF Idle, MigrationInv, TypeOK
<1>4. CASE CheckFinish(j)
  <2>1. x = [me EXCEPT !.pc = "preflighted"]
    BY <1>4 DEF CheckFinish, MigrationInv, TypeOK
  <2>2. x.pc = "preflighted" /\ x.action = me.action /\ x.src = me.src /\ x.dst = me.dst
        /\ x.force = me.force /\ x.outcome = "none"
    BY <1>1, <1>4, <2>1 DEF CheckFinish, At, JobSound, Job
  <2>3. Sound(me.action, me.src, me.dst, me.force)
    BY <1>1, <1>4 DEF CheckFinish, Sound
  <2> QED BY <1>1, <2>2, <2>3 DEF JobSound
<1>5. CASE CheckClose(j)
  <2>1. x = [me EXCEPT !.pc = "checked"]
    BY <1>5 DEF CheckClose, MigrationInv, TypeOK
  <2>2. x.pc = "checked" /\ x.action = me.action /\ x.src = me.src /\ x.dst = me.dst
        /\ x.force = me.force /\ x.outcome = "none"
    BY <1>1, <1>5, <2>1 DEF CheckClose, At, JobSound, Job
  <2>3. lockup[me.src] \in Nat /\ me.notice \in Nat
    BY <1>1 DEF MigrationInv, TypeOK, Job
  <2>4. Sound(me.action, me.src, me.dst, me.force)
    BY <1>1, <1>5, <2>3, ConstantsAssumption
       DEF CheckClose, MustBeReplaced, PastEnd, Sound, JobSound, Replaced, At
  <2> QED BY <1>1, <2>2, <2>4 DEF JobSound
<1>6. CASE Preflight(j) \/ Send(j)
  <2>1. PICK pc \in {"preflighted", "waiting"} : x = [me EXCEPT !.pc = pc]
    BY <1>6 DEF Preflight, Send, MigrationInv, TypeOK
  <2>2. x.pc \in {"preflighted", "waiting"} /\ x.action = me.action
        /\ x.src = me.src /\ x.dst = me.dst /\ x.force = me.force /\ x.outcome = "none"
    BY <1>1, <1>6, <2>1 DEF Preflight, Send, At, JobSound, Job
  <2>3. Sound(me.action, me.src, me.dst, me.force)
    BY <1>1, <1>6 DEF Preflight, Send, At, JobSound
  <2> QED BY <1>1, <2>2, <2>3 DEF JobSound
<1>7. CASE Receipt(j)
  <2>1. x = [me EXCEPT !.pc = "landed", !.outcome = "none"]
    BY <1>3, <1>7 DEF Receipt, Stop, MigrationInv, TypeOK
  <2> QED BY <1>1, <2>1 DEF JobSound, Job
<1>8. CASE SettleSoon(j)
  <2>1. x = [me EXCEPT !.pc = "timed", !.action = "settle"] /\ v1[me.src] = "ended"
    BY <1>8 DEF SettleSoon, MigrationInv, TypeOK
  <2>2. me.outcome = "none"
    BY <1>1, <1>8 DEF SettleSoon, At, JobSound
  <2> QED BY <1>1, <2>1, <2>2 DEF JobSound, Job
<1>9. CASE WaitPast(j)
  <2>1. x = [me EXCEPT !.pc = "due"] /\ me.pc = "timed" /\ left[me.src] = 0
    BY <1>9 DEF WaitPast, PastEnd, At, MigrationInv, TypeOK
  <2> QED BY <1>1, <2>1 DEF JobSound, Sound, Job
<1>10. ~End(j)
  BY <1>3 DEF End, Stop
<1> QED BY <1>4, <1>5, <1>6, <1>7, <1>8, <1>9, <1>10 DEF Step

(* A command that starts relies on the pair it was given and its snapshot.  *)
LEMMA LoadSound ==
  ASSUME MigrationInv, NEW j \in Jobs, NEW p \in Pairs, NEW force \in BOOLEAN,
         LoadFinish(j, p[1], p[2]) \/ LoadClose(j, p[1], p[2], force), NEW x, x = job'[j]
  PROVE  JobSound(x)
<1>1. <<p[1], p[2]>> \in Pairs /\ lockup[p[1]] \in Nat
  BY PairTypes, ConstantsAssumption DEF MigrationInv, TypeOK
<1>2. CASE LoadFinish(j, p[1], p[2])
  <2>1. x = [Idle EXCEPT !.pc = "loaded", !.src = p[1], !.dst = p[2], !.action = "finish"]
    BY <1>2 DEF LoadFinish, MigrationInv, TypeOK
  <2> QED BY <1>1, <2>1 DEF JobSound, Idle
<1>3. CASE LoadClose(j, p[1], p[2], force)
  <2>1. PICK action \in {"terminate", "settle"} :
          /\ x = [Idle EXCEPT !.pc = "loaded", !.src = p[1], !.dst = p[2], !.force = force,
                              !.notice = lockup[p[1]], !.state = v2[p[2]], !.action = action]
          /\ action = "settle" => v1[p[1]] # "open"
    BY <1>3 DEF LoadClose, MigrationInv, TypeOK
  <2> QED BY <1>1, <2>1 DEF JobSound, Idle
<1> QED BY <1>2, <1>3

(* What a job relies on has little to do with the outcome it is told: a     *)
(* settlement that reverts does so because the rail is settled.             *)
LEMMA OutcomeSound ==
  ASSUME NEW x \in Job, NEW o \in {"ok", "reverted"}, JobSound(x), x.pc = "waiting",
         x.action = "settle" /\ o = "reverted" => v1[x.src] = "settled"
  PROVE  JobSound([x EXCEPT !.outcome = o])
<1> DEFINE y == [x EXCEPT !.outcome = o]
<1>1. /\ y.pc = "waiting" /\ y.src = x.src /\ y.dst = x.dst /\ y.action = x.action
      /\ y.force = x.force /\ y.outcome = o
  BY DEF Job
<1> HIDE DEF y
<1>2. JobSound(y)
  BY <1>1 DEF JobSound
<1> QED BY <1>2 DEF y

(* A settlement that reverts finds the rail settled.                        *)
LEMMA RevertSettled ==
  ASSUME TypeOK, NEW t \in Tx, Sound(t.action, t.src, t.dst, t.force), t.action = "settle",
         ~Accepts(t)
  PROVE  v1[t.src] = "settled"
<1>1. t.src \in Sources /\ v1[t.src] \in {"open", "ended", "settled"}
  BY DEF Tx, TypeOK
<1> QED BY <1>1 DEF Sound, Accepts

LEMMA JobsStep ==
  ASSUME MigrationInv, OneSourceEach, [Next]_vars
  PROVE  (\A j \in Jobs : ~At(j, "idle") => JobSound(job[j]))'
<1> SUFFICES ASSUME NEW j \in Jobs, NEW x, x = job'[j], x.pc # "idle" PROVE JobSound(x)'
  BY DEF At
<1>1. TypeOK /\ JobsPaired /\ job[j] \in Job
  BY DEF MigrationInv, JobsPaired, JobSound, TypeOK
<1>2. x \in Job
  BY <1>1, TypeStep DEF TypeOK
<1>3. ASSUME x = job[j] PROVE JobSound(x)
  BY <1>3 DEF MigrationInv, At
<1>4. ASSUME NEW i \in Jobs, Step(i) PROVE JobSound(x)
  <2>1. CASE i = j
    BY <1>4, <2>1, StepSound
  <2>2. CASE i # j
    <3>1. \E y : job' = [job EXCEPT ![i] = y]
      BY <1>4 DEF Step, CheckFinish, CheckClose, Preflight, Send, Receipt, SettleSoon,
                  WaitPast, End, Stop
    <3> QED BY <1>1, <1>3, <2>2, <3>1 DEF TypeOK
  <2> QED BY <2>1, <2>2
<1>5. ASSUME NEW i \in Jobs, Crash(i) PROVE JobSound(x)
  <2>1. i # j /\ job'[j] = job[j]
    BY <1>1, <1>5 DEF Crash, Stop, TypeOK, Idle
  <2> QED BY <1>3, <2>1
<1>6. ASSUME NEW i \in Jobs, NEW p \in Pairs, NEW force \in BOOLEAN,
             LoadFinish(i, p[1], p[2]) \/ LoadClose(i, p[1], p[2], force)
      PROVE  JobSound(x)
  <2>1. CASE i = j
    BY <1>6, <2>1, LoadSound
  <2>2. CASE i # j
    <3>1. \E y : job' = [job EXCEPT ![i] = y]
      BY <1>6 DEF LoadFinish, LoadClose
    <3> QED BY <1>1, <1>3, <2>2, <3>1 DEF TypeOK
  <2> QED BY <2>1, <2>2
<1>7. ASSUME NEW t \in txs, Land(t) PROVE JobSound(x)
  <2>1. \/ x = job[j]
        \/ \E o \in {"ok", "reverted"} :
             /\ x = [job[j] EXCEPT !.outcome = o] /\ At(j, "waiting") /\ t = TxOf(j)
             /\ o = "reverted" => ~Accepts(t)
    BY <1>7 DEF Land
  <2>2. CASE x = job[j]
    BY <1>3, <2>2
  <2>3. CASE x # job[j]
    <3>1. PICK o \in {"ok", "reverted"} :
             /\ x = [job[j] EXCEPT !.outcome = o] /\ At(j, "waiting") /\ t = TxOf(j)
             /\ o = "reverted" => ~Accepts(t)
      BY <2>1, <2>3
    <3>2. job[j].pc = "waiting"
      BY <3>1 DEF At
    <3>3. JobSound(job[j])
      BY <3>2 DEF MigrationInv, At
    <3>5. t.action = job[j].action /\ t.src = job[j].src
      BY <3>1 DEF TxOf
    <3>6. job[j].action = "settle" /\ o = "reverted" => v1[job[j].src] = "settled"
      BY <1>1, <3>1, <3>5, RevertSettled DEF MigrationInv, TypeOK
    <3>4. JobSound([job[j] EXCEPT !.outcome = o])
      BY <1>1, <3>2, <3>3, <3>6, OutcomeSound
    <3> QED BY <3>1, <3>4
  <2> QED BY <2>2, <2>3
<1>8. JobSound(x)
  <2>1. CASE job' = job
    BY <1>3, <2>1
  <2> QED
    BY <1>4, <1>5, <1>6, <1>7, <2>1
       DEF Next, vars, Evict, Adopt, Prepare, Activate, EndV2, Shorten, EndV1, Expire, Tick
<1> QED BY <1>1, <1>2, <1>8, JobStays

LEMMA TxsStep ==
  ASSUME MigrationInv, OneSourceEach, [Next]_vars
  PROVE  (\A t \in txs : Sound(t.action, t.src, t.dst, t.force))'
<1> SUFFICES ASSUME NEW t \in txs' PROVE Sound(t.action, t.src, t.dst, t.force)'
  OBVIOUS
<1>1. TypeOK /\ JobsPaired
  BY DEF MigrationInv, JobsPaired, JobSound
<1>2. ASSUME NEW j \in Jobs, Send(j), t = TxOf(j) PROVE Sound(t.action, t.src, t.dst, t.force)
  <2>1. JobSound(job[j])
    BY <1>2 DEF MigrationInv, Send, At
  <2>2. /\ t.action = job[j].action /\ t.src = job[j].src /\ t.dst = job[j].dst
        /\ t.force = job[j].force
    BY <1>2 DEF TxOf
  <2>3. Sound(job[j].action, job[j].src, job[j].dst, job[j].force)
    BY <1>2, <2>1 DEF Send, JobSound, Sound
  <2> QED BY <2>2, <2>3
<1>3. t \in txs \/ \E j \in Jobs : Send(j) /\ t = TxOf(j)
  BY StepChain DEF Next, vars, LoadFinish, LoadClose, Crash, Land, Evict, Adopt, Prepare,
                   Activate, EndV2, Shorten, EndV1, Expire, Tick
<1>4. Sound(t.action, t.src, t.dst, t.force)
  BY <1>2, <1>3 DEF MigrationInv
<1> QED BY <1>1, <1>4, SoundStays

LEMMA WholeStep ==
  ASSUME MigrationInv, OneSourceEach, [Next]_vars
  PROVE  FinishedWhole'
<1> SUFFICES ASSUME NEW p \in Pairs, v2'[p[2]] \in {"posted", "active"}
             PROVE  (Missing(p[1], p[2]) = {} /\ SizeOK(p[2]))'
  BY DEF FinishedWhole
<1>1. TypeOK /\ JobsPaired
  BY DEF MigrationInv, JobsPaired, JobSound
<1>2. p[1] \in Sources /\ p[2] \in Targets /\ <<p[1], p[2]>> \in Pairs
  BY PairTypes, ConstantsAssumption
<1>3. Missing(p[1], p[2]) = {} /\ SizeOK(p[2])
  <2>1. CASE v2[p[2]] \in {"posted", "active"}
    BY <2>1 DEF MigrationInv, FinishedWhole
  <2>2. CASE v2[p[2]] \notin {"posted", "active"}
    <3>1. PICK t \in txs : Land(t) /\ t.dst = p[2] /\ t.action = "finish"
      BY <1>1, <1>2, <2>2, StepChain
         DEF Next, vars, v2vars, LoadFinish, LoadClose, Crash, Land, Evict, Adopt, Prepare,
             Activate, EndV2, Shorten, EndV1, Expire, Tick, TypeOK
    <3>2. Sound("finish", t.src, p[2], t.force)
      BY <3>1 DEF MigrationInv
    <3>3. t.src = p[1]
      BY <1>2, <3>2 DEF Sound, OneSourceEach
    <3> QED BY <3>2, <3>3 DEF Sound
  <2> QED BY <2>1, <2>2
<1>4. Sound("finish", p[1], p[2], TRUE)
  BY <1>2, <1>3 DEF Sound
<1>5. Sound("finish", p[1], p[2], TRUE)'
  BY <1>1, <1>4, SoundStays
<1> QED BY <1>5 DEF Sound

LEMMA InvStep == ASSUME MigrationInv, OneSourceEach, [Next]_vars PROVE MigrationInv'
<1>1. TypeOK /\ JobsPaired
  BY DEF MigrationInv, JobsPaired, JobSound
<1>2. TypeOK'
  BY <1>1, TypeStep
<1> QED BY <1>2, JobsStep, TxsStep, WholeStep DEF MigrationInv

LEMMA Invariant == ASSUME OneSourceEach PROVE Spec => []MigrationInv
BY InvInit, InvStep, PTL DEF Spec

(* However long finish-migration waited for its answer and its block, the   *)
(* deal whose posting it closes holds every claim V1 lists and the          *)
(* requested bytes, when no V2 deal is paired with two V1 deals.            *)
THEOREM PostingsAreWhole == ASSUME OneSourceEach PROVE Spec => []FinishedWhole
<1>1. MigrationInv => FinishedWhole
  BY DEF MigrationInv
<1> QED BY <1>1, Invariant, PTL

LEMMA RefusedSound ==
  MigrationInv /\ [Next]_vars
  => [\A j \in Jobs : RefusedSettlement(j) => v1[job[j].src] = "settled"]_vars
<1> SUFFICES ASSUME MigrationInv, NEW j \in Jobs, RefusedSettlement(j)
             PROVE  v1[job[j].src] = "settled"
  OBVIOUS
<1> DEFINE me == job[j]
<1>1. me.action = "settle" /\ me.pc \in {"checked", "preflighted", "due", "waiting"} /\ JobSound(me)
  BY DEF RefusedSettlement, MigrationInv, At
<1>2. me \in Job /\ TypeOK
  BY DEF MigrationInv, TypeOK
<1>3. CASE me.pc = "waiting"
  BY <1>1, <1>3 DEF RefusedSettlement, JobSound
<1>4. CASE me.pc # "waiting"
  <2>1. ~Accepts(TxOf(j))
    BY <1>1, <1>4 DEF RefusedSettlement, End, Ends
  <2>2. <<me.src, me.dst>> \in Pairs /\ Sound(me.action, me.src, me.dst, me.force)
    BY <1>1, <1>4 DEF JobSound
  <2>3. TxOf(j) \in Tx
    BY <1>1, <1>2, <2>2, TxType
  <2>4. TxOf(j).action = me.action /\ TxOf(j).src = me.src /\ TxOf(j).dst = me.dst
        /\ TxOf(j).force = me.force
    BY DEF TxOf
  <2> QED BY <1>1, <1>2, <2>1, <2>2, <2>3, <2>4, RevertSettled
<1> QED BY <1>3, <1>4

(* Whichever way a run came to settle, and whatever happened while it asked *)
(* and waited, it is told no only when the rail is settled.                 *)
THEOREM SettlementNotEarly == ASSUME OneSourceEach PROVE Spec => RefusedOnlyIfSettled
BY Invariant, RefusedSound, PTL DEF Spec, RefusedOnlyIfSettled

(* Only a block or an eviction takes a transaction from the mempool.        *)
LEMMA Leaves ==
  ASSUME Next, NEW t \in txs, t \notin txs'
  PROVE  Land(t) \/ UNCHANGED v1vars
<1>1. ASSUME NEW u \in txs, Land(u) PROVE Land(t)
  BY <1>1 DEF Land
<1>2. ASSUME NEW j \in Jobs, Step(j) PROVE FALSE
  BY <1>2, StepChain
<1>3. CASE \E u \in txs : Evict(u)
  BY <1>3 DEF Evict
<1> QED
  BY <1>1, <1>2, <1>3
     DEF Next, LoadFinish, LoadClose, Crash, Adopt, Prepare, Activate, EndV2, Shorten, EndV1,
         Expire, Tick

LEMMA ClosedSound ==
  MigrationInv /\ [Next]_vars
  => [\A t \in txs : t \notin txs' /\ Terminates(t)
        => /\ Replaced(t.src, t.dst)
           /\ t.force \/ left'[t.src] <= MaxNotice + 1]_vars
<1> SUFFICES ASSUME MigrationInv, Next, NEW t \in txs, t \notin txs', Terminates(t)
             PROVE  Replaced(t.src, t.dst) /\ (t.force \/ left'[t.src] <= MaxNotice + 1)
  OBVIOUS
<1>1. t.src \in Sources
  BY DEF MigrationInv, TypeOK, Tx
<1>2. Land(t)
  BY Leaves DEF v1vars, Terminates
<1>3. left'[t.src] = lockup[t.src] + 1
  BY <1>1, <1>2 DEF Land, Terminates, Accepts
<1>4. Sound("terminate", t.src, t.dst, t.force) /\ lockup[t.src] \in Nat
  BY <1>1 DEF MigrationInv, Terminates, TypeOK
<1> QED BY <1>3, <1>4, ConstantsAssumption DEF Sound

(* The termination close-v1-deal sends strands no claim and ends no rail    *)
(* before V2 was activated, whatever happened since its checks.             *)
THEOREM NoClaimStranded == ASSUME OneSourceEach PROVE Spec => ReplacedBeforeClosed
BY Invariant, ClosedSound, PTL DEF Spec, ReplacedBeforeClosed
=============================================================================
