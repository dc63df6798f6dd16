----------------------------- MODULE Commands_proofs ----------------------------
(***************************************************************************)
(* The parts of Commands, for every value of their constants: the margins  *)
(* of SectorExtension, the words of Switches, the pieces of OnboardData    *)
(* and the branch of SelfUpdate.                                           *)
(***************************************************************************)
EXTENDS Commands, TLAPS

-----------------------------------------------------------------------------
(* SectorExtension.                                                         *)

LEMMA Constants ==
  /\ \A c \in Claims : SectorOf[c] \in Sectors /\ TermStart[c] \in Nat
  /\ Duration \in Nat /\ MaximumTerm \in Nat /\ Reserve \in Nat /\ Drift \in Nat
  /\ ActiveMargin \in Nat /\ AcceptedMargin \in Nat
  /\ Drift <= Reserve /\ ActiveMargin <= AcceptedMargin
BY EpochsAssumption

(* Before anything is read or sent.                                         *)
LEMMA StartTerms ==
  ASSUME now = 0, deal \in Deal, termMax \in [Claims -> Int], expiration \in [Sectors -> Int],
         held = {}, batch = NoBatch, refusal = "none", run = Idle, sent = {},
         reached = [s \in Sectors |-> Never], vouched = [s \in Sectors |-> Never]
  PROVE  TermsInv
<1>1. TypeOK
  <2>1. Idle \in Run
    BY DEF Idle, Run, NoDeal, Deal, Epoch
  <2>2. NoBatch \in Batch
    BY DEF NoBatch, Batch, Epoch
  <2>3. reached \in [Sectors -> Epoch] /\ vouched \in [Sectors -> Epoch]
    BY DEF Epoch
  <2> QED BY <2>1, <2>2, <2>3 DEF TypeOK
<1>2. RunSound /\ BatchSound /\ SentSound /\ ExtensionTaken
  BY DEF RunSound, BatchSound, SentSound, ExtensionTaken, ViewRead, EpochRead, Idle
<1>3. ReachedSound /\ VouchedSound
  BY DEF ReachedSound, VouchedSound
<1> QED BY <1>1, <1>2, <1>3 DEF TermsInv

LEMMA InitTerms == Init => TermsInv
<1> SUFFICES ASSUME Init PROVE TermsInv
  OBVIOUS
<1>1. Terms \subseteq Int /\ Expirations \subseteq Int
  BY EpochsAssumption
<1>2. termMax \in [Claims -> Int] /\ expiration \in [Sectors -> Int]
  BY <1>1 DEF Init
<1>3. deal \in Deal
  BY DEF Init, Deal
<1> QED BY <1>2, <1>3, StartTerms DEF Init

(* What a run computes is an epoch.                                         *)
LEMMA TargetType ==
  ASSUME TypeOK, RunSound, run.pc \in {"sectors", "listed"}
  PROVE  TargetEpoch \in Nat /\ RequiredEpoch \in Nat /\ run.current \in Nat
<1>1. run.current \in Nat /\ run.view \in Deal /\ run.requested \in Epoch
  BY DEF TypeOK, RunSound, EpochRead, Run, Epoch
<1>2. run.view.end \in Nat
  BY <1>1 DEF Deal
<1> QED BY <1>1, <1>2, Constants DEF TargetEpoch, RequiredEpoch, Target, Required, Epoch, Never

(* The target and the required epoch of a run that was given none last.     *)
LEMMA ComputedLasts ==
  ASSUME TypeOK, RunSound, run.pc \in {"sectors", "listed"}, run.requested = Never
  PROVE  /\ Lasts(TargetEpoch, run.current, AcceptedMargin, ActiveMargin)
         /\ Lasts(RequiredEpoch, run.current, ActiveMargin, 0)
<1>1. run.current \in Nat /\ run.view \in Deal /\ deal \in Deal
  BY TargetType DEF TypeOK, Run
<1>2. run.view.end \in Nat /\ deal.end \in Nat
  BY <1>1 DEF Deal
<1>3. CASE run.view.state = "active"
  <2>1. deal.state = "ended" \/ (deal.state = "active" /\ deal.end = run.view.end)
    BY <1>3 DEF RunSound, ViewRead
  <2>2. TargetEpoch = run.view.end + ActiveMargin /\ RequiredEpoch = run.view.end + ActiveMargin
    BY <1>3 DEF TargetEpoch, RequiredEpoch, Target, Required
  <2> QED BY <2>1, <2>2, <1>2, Constants DEF Lasts
<1>4. CASE run.view.state # "active"
  <2>1. /\ TargetEpoch = run.current + Duration + AcceptedMargin
        /\ RequiredEpoch = run.current + Duration + ActiveMargin
    BY <1>4 DEF TargetEpoch, RequiredEpoch, Target, Required
  <2> QED BY <2>1, <1>1, Constants DEF Lasts
<1> QED BY <1>3, <1>4

(* Whatever lasted still lasts while the deal moves on: its end is set once.*)
LEMMA DealMovesOn ==
  ASSUME TypeOK, deal' \in Deal,
         \/ deal' = deal
         \/ deal'.state = "ended"
         \/ deal.state = "accepted",
         NEW epoch \in Int, NEW at \in Nat, NEW margin \in Nat, NEW service \in Nat,
         Lasts(epoch, at, margin, service)
  PROVE  Lasts(epoch, at, margin, service)'
BY DEF Lasts

(* A longer time lasts as well.                                             *)
LEMMA LongerLasts ==
  ASSUME deal \in Deal, NEW epoch \in Int, NEW longer \in Int, longer >= epoch,
         NEW at \in Nat, NEW margin \in Nat, NEW service \in Nat,
         Lasts(epoch, at, margin, service)
  PROVE  Lasts(longer, at, margin, service)
BY Constants DEF Lasts, Deal

LEMMA TypeStep == TermsInv /\ [Next]_vars => TypeOK'
<1> SUFFICES ASSUME TermsInv, [Next]_vars PROVE TypeOK'
  OBVIOUS
<1> USE Constants
<1>0. TypeOK /\ RunSound
  BY DEF TermsInv
<1>1. CASE Tick
  BY <1>0, <1>1 DEF Tick, TypeOK, client
<1>2. CASE Activate
  BY <1>0, <1>2 DEF Activate, TypeOK, Deal, client
<1>3. CASE EndDeal
  BY <1>0, <1>3 DEF EndDeal, TypeOK, Deal, client
<1>4. ASSUME NEW claims \in SUBSET (Claims \ held), NEW current \in Heads, PlanBatch(claims, current)
      PROVE  TypeOK'
  <2>1. current \in Nat
    BY <1>0 DEF TypeOK, Heads
  <2>2. batch' \in Batch
    BY <2>1, <1>4 DEF PlanBatch, Batch, Epoch
  <2> QED BY <1>0, <1>4, <2>2 DEF PlanBatch, TypeOK
<1>5. CASE LandBatch
  <2>1. NoBatch \in Batch
    BY DEF NoBatch, Batch, Epoch
  <2>4. refusal' \in {"none", "over", "limit"}
    BY <1>5 DEF LandBatch, Refusal
  <2>2. CASE UNCHANGED <<termMax, held>>
    BY <1>0, <1>5, <2>1, <2>2, <2>4 DEF LandBatch, TypeOK
  <2>3. CASE /\ termMax' = [c \in Claims |-> IF c \in batch.claims THEN ExtensionTermMax(c, batch.at) ELSE termMax[c]]
             /\ held' = held \union batch.claims
    <3>1. batch.claims \subseteq Claims /\ batch.at \in Int
      BY <1>0 DEF TypeOK, Batch, Epoch, Never
    <3>2. \A c \in Claims : ExtensionTermMax(c, batch.at) \in Int /\ termMax[c] \in Int
      BY <1>0, <3>1 DEF ExtensionTermMax, TypeOK
    <3>3. termMax' \in [Claims -> Int]
      BY <2>3, <3>2
    <3> QED BY <1>0, <1>5, <2>1, <2>3, <2>4, <3>1, <3>3 DEF LandBatch, TypeOK
  <2> QED BY <1>5, <2>2, <2>3 DEF LandBatch
<1>6. ASSUME NEW status \in BOOLEAN, NEW requested \in Requested \union {Never}, Begin(status, requested)
      PROVE  TypeOK'
  <2>1. requested \in Epoch
    BY EpochsAssumption DEF Epoch
  <2>2. Idle \in Run
    BY DEF Idle, Run, NoDeal, Deal, Epoch
  <2>3. run' \in Run
    BY <1>6, <2>1, <2>2 DEF Begin, Run
  <2> QED BY <1>0, <1>6, <2>3 DEF Begin, TypeOK, client
<1>7. CASE View
  <2>1. run' \in Run
    BY <1>0, <1>7 DEF View, TypeOK, Run
  <2> QED BY <1>0, <1>7, <2>1 DEF View, TypeOK, client
<1>8. CASE ReadEpoch
  <2>1. \A h \in Heads : h \in Epoch
    BY <1>0 DEF TypeOK, Heads, Epoch
  <2>2. run' \in Run
    BY <1>0, <1>8, <2>1 DEF ReadEpoch, TypeOK, Run
  <2> QED BY <1>0, <1>8, <2>2 DEF ReadEpoch, TypeOK, client
<1> HIDE DEF Idle
<1>9. Idle \in Run
  BY DEF Idle, Run, NoDeal, Deal, Epoch
<1>10. CASE SayLongEnough
  <2>1. run.current \in Epoch
    BY <1>0 DEF TypeOK, Run
  <2>2. vouched' \in [Sectors -> Epoch]
    BY <1>0, <1>10, <2>1 DEF SayLongEnough, TypeOK
  <2> QED BY <1>0, <1>9, <1>10, <2>2 DEF SayLongEnough, TypeOK, client
<1>11. CASE List
  <2>1. Below \subseteq Sectors
    BY <1>0 DEF Below, HeldSectors, TypeOK
  <2>2. run' \in Run
    BY <1>0, <1>11, <2>1 DEF List, TypeOK, Run
  <2> QED BY <1>0, <1>11, <2>2 DEF List, TypeOK, client
<1>12. CASE Extend
  <2>1. TargetEpoch \in Nat /\ run.current \in Nat
    BY <1>0, <1>12, TargetType DEF Extend
  <2>2. run.below \subseteq Sectors
    BY <1>0 DEF TypeOK, Run
  <2>3. sent' \subseteq Message
    BY <1>0, <1>12, <2>1, <2>2 DEF Extend, TypeOK, Message, Epoch
  <2> QED BY <1>0, <1>9, <1>12, <2>3 DEF Extend, TypeOK, client
<1>13. CASE Stop
  BY <1>0, <1>9, <1>13 DEF Stop, TypeOK, client
<1>14. ASSUME NEW m \in sent, Land(m) PROVE TypeOK'
  <2>1. m.to \in Nat /\ m.at \in Epoch
    BY <1>0 DEF TypeOK, Message
  <2>2. \A c \in Claims : EndEpoch(c) \in Int
    BY <1>0 DEF TypeOK, EndEpoch
  <2>3. PICK new \in [Sectors -> {m.to} \union {EndEpoch(c) : c \in Claims} \union {expiration[s] : s \in Sectors}] :
          /\ expiration' = new
          /\ reached' = [s \in Sectors |->
                           IF s \in m.sectors /\ new[s] >= m.to /\ m.at # Never THEN m.at ELSE reached[s]]
    BY <1>14 DEF Land
  <2>4. {m.to} \union {EndEpoch(c) : c \in Claims} \union {expiration[s] : s \in Sectors} \subseteq Int
    BY <1>0, <2>1, <2>2 DEF TypeOK
  <2>5. expiration' \in [Sectors -> Int]
    BY <2>3, <2>4
  <2>6. reached' \in [Sectors -> Epoch]
    BY <1>0, <2>1, <2>3 DEF TypeOK
  <2> QED BY <1>0, <1>14, <2>5, <2>6 DEF Land, TypeOK, client
<1>15. ASSUME NEW m \in sent, Lose(m) PROVE TypeOK'
  BY <1>0, <1>15 DEF Lose, TypeOK, client
<1>16. CASE UNCHANGED vars
  BY <1>0, <1>16 DEF vars, client, TypeOK
<1> QED BY <1>1, <1>2, <1>3, <1>4, <1>5, <1>6, <1>7, <1>8, <1>10, <1>11, <1>12, <1>13, <1>14, <1>15, <1>16
        DEF Next

(* Every step moves the deal on, or leaves it.                              *)
LEMMA DealStep ==
  ASSUME TermsInv, [Next]_vars
  PROVE  deal' = deal \/ deal'.state = "ended" \/ (deal.state = "accepted" /\ deal'.state = "active")
<1>1. deal \in Deal
  BY DEF TermsInv, TypeOK
<1>2. CASE EndDeal
  BY <1>1, <1>2 DEF EndDeal, Deal
<1>3. CASE Activate
  BY <1>3 DEF Activate
<1>4. CASE ~EndDeal /\ ~Activate
  BY <1>4 DEF Next, vars, Tick, PlanBatch, LandBatch, Begin, View, ReadEpoch, SayLongEnough, List,
              Extend, Stop, Land, Lose
<1> QED BY <1>2, <1>3, <1>4

LEMMA RunStep == TermsInv /\ [Next]_vars => RunSound'
<1> SUFFICES ASSUME TermsInv, [Next]_vars PROVE RunSound'
  OBVIOUS
<1>0. TypeOK /\ RunSound
  BY DEF TermsInv
<1>1. deal' = deal \/ deal'.state = "ended" \/ (deal.state = "accepted" /\ deal'.state = "active")
  BY DealStep
<1>2. ASSUME run' = run PROVE RunSound'
  <2>1. run.view.state \in {"accepted", "active", "ended"}
    BY <1>0 DEF TypeOK, Run, Deal
  <2> QED BY <1>0, <1>1, <1>2, <2>1 DEF RunSound, EpochRead, ViewRead
<1>3. ASSUME run' = Idle PROVE RunSound'
  BY <1>3 DEF RunSound, EpochRead, ViewRead, Idle
<1>4. ASSUME NEW status \in BOOLEAN, NEW requested \in Requested \union {Never}, Begin(status, requested)
      PROVE  RunSound'
  <2>1. run'.status = status /\ run'.pc = IF status THEN "epoch" ELSE "view"
    BY <1>4 DEF Begin, Idle
  <2> QED BY <2>1 DEF RunSound, EpochRead, ViewRead
<1>5. CASE View
  <2>1. /\ run'.view = deal /\ deal' = deal /\ run'.current = run.current /\ run'.status = run.status
        /\ run'.pc = IF run.status THEN "sectors" ELSE "epoch"
    BY <1>0, <1>5 DEF View, TypeOK, Run
  <2>2. run.status => run.current # Never
    BY <1>0, <1>5 DEF View, RunSound, EpochRead
  <2> QED BY <2>1, <2>2 DEF RunSound, EpochRead, ViewRead
<1>6. CASE ReadEpoch
  <2>1. PICK answer \in Heads : run' = [run EXCEPT !.pc = IF run.status THEN "view" ELSE "sectors", !.current = answer]
    BY <1>6 DEF ReadEpoch
  <2>2. answer # Never
    BY <1>0, Constants DEF TypeOK, Heads, Never
  <2>3. /\ run'.view = run.view /\ deal' = deal /\ run'.current = answer /\ run'.status = run.status
        /\ run'.pc = IF run.status THEN "view" ELSE "sectors"
    BY <1>0, <1>6, <2>1 DEF ReadEpoch, TypeOK, Run
  <2>4. ~run.status => ViewRead
    BY <1>6 DEF ReadEpoch, ViewRead
  <2> QED BY <1>0, <2>2, <2>3, <2>4 DEF RunSound, EpochRead, ViewRead
<1>7. CASE List
  <2>1. /\ run'.view = run.view /\ deal' = deal /\ run'.current = run.current /\ run'.status = run.status
        /\ run'.pc = "listed"
    BY <1>0, <1>7 DEF List, TypeOK, Run
  <2> QED BY <1>0, <1>7, <2>1 DEF List, RunSound, EpochRead, ViewRead
<1>8. CASE Tick \/ Activate \/ EndDeal \/ LandBatch
  BY <1>2, <1>8 DEF Tick, Activate, EndDeal, LandBatch
<1>9. CASE SayLongEnough \/ Extend \/ Stop
  BY <1>3, <1>9 DEF SayLongEnough, Extend, Stop
<1>10. ASSUME NEW claims \in SUBSET (Claims \ held), NEW current \in Heads, PlanBatch(claims, current)
       PROVE  RunSound'
  BY <1>2, <1>10 DEF PlanBatch
<1>11. ASSUME NEW m \in sent, Land(m) \/ Lose(m) PROVE RunSound'
  BY <1>2, <1>11 DEF Land, Lose
<1>12. CASE UNCHANGED vars
  BY <1>2, <1>12 DEF vars
<1> QED BY <1>4, <1>5, <1>6, <1>7, <1>8, <1>9, <1>10, <1>11, <1>12 DEF Next

LEMMA BatchStep == TermsInv /\ [Next]_vars => BatchSound' /\ ExtensionTaken'
<1> SUFFICES ASSUME TermsInv, [Next]_vars PROVE BatchSound' /\ ExtensionTaken'
  OBVIOUS
<1>0. TypeOK /\ BatchSound /\ ExtensionTaken
  BY DEF TermsInv
<1>1. now \in Nat /\ batch.at \in Int /\ batch \in Batch
  BY <1>0 DEF TypeOK, Batch, Epoch, Never
<1>2. ASSUME batch' = batch, refusal' = refusal, now' = now \/ now' = now + 1
      PROVE  BatchSound' /\ ExtensionTaken'
  BY <1>0, <1>1, <1>2, Constants DEF BatchSound, ExtensionTaken
<1>3. ASSUME NEW claims \in SUBSET (Claims \ held), NEW current \in Heads, PlanBatch(claims, current)
      PROVE  BatchSound' /\ ExtensionTaken'
  <2>1. batch'.at = current /\ now' = now /\ refusal' = refusal
    BY <1>3 DEF PlanBatch
  <2>2. current <= now + Drift
    BY <1>1, Constants DEF Heads
  <2> QED BY <1>0, <2>1, <2>2 DEF BatchSound, ExtensionTaken
<1>4. CASE LandBatch
  <2>1. batch.at <= now + Drift
    BY <1>0, <1>4 DEF LandBatch, BatchSound
  <2>2. \A c \in batch.claims : WithinLimit(c)
    <3> SUFFICES ASSUME NEW c \in batch.claims PROVE WithinLimit(c)
      OBVIOUS
    <3>1. TermStart[c] \in Nat
      BY <1>1, Constants DEF Batch
    <3> QED BY <2>1, <1>1, <3>1, Constants DEF WithinLimit, ExtensionTermMax
  <2>3. refusal' # "limit"
    BY <1>4, <2>2 DEF LandBatch, Refusal
  <2> QED BY <1>4, <2>3 DEF LandBatch, BatchSound, ExtensionTaken
<1>5. CASE Tick \/ Activate \/ EndDeal \/ View \/ ReadEpoch \/ SayLongEnough \/ List \/ Extend \/ Stop
  BY <1>2, <1>5 DEF Tick, Activate, EndDeal, View, ReadEpoch, SayLongEnough, List, Extend, Stop, client
<1>6. ASSUME NEW status \in BOOLEAN, NEW requested \in Requested \union {Never}, Begin(status, requested)
      PROVE  BatchSound' /\ ExtensionTaken'
  BY <1>2, <1>6 DEF Begin, client
<1>7. ASSUME NEW m \in sent, Land(m) \/ Lose(m) PROVE BatchSound' /\ ExtensionTaken'
  BY <1>2, <1>7 DEF Land, Lose, client
<1>8. CASE UNCHANGED vars
  BY <1>2, <1>8 DEF vars, client
<1> QED BY <1>3, <1>4, <1>5, <1>6, <1>7, <1>8 DEF Next

LEMMA SentStep == TermsInv /\ [Next]_vars => SentSound'
<1> SUFFICES ASSUME TermsInv, [Next]_vars, NEW m \in sent', m.at # Never
             PROVE  Lasts(m.to, m.at, AcceptedMargin, ActiveMargin)'
  BY DEF SentSound
<1>0. TypeOK /\ RunSound /\ SentSound /\ TypeOK'
  BY TypeStep DEF TermsInv
<1>1. deal' \in Deal /\ (deal' = deal \/ deal'.state = "ended" \/ deal.state = "accepted")
  BY <1>0, DealStep DEF TypeOK
<1>2. m.to \in Int /\ m.at \in Nat
  BY <1>0 DEF TypeOK, Message, Epoch
<1>3. CASE m \in sent
  <2>1. Lasts(m.to, m.at, AcceptedMargin, ActiveMargin)
    BY <1>0, <1>3 DEF SentSound
  <2> QED BY <1>0, <1>1, <1>2, <2>1, Constants, DealMovesOn
<1>4. CASE m \notin sent
  <2>1. Extend
    BY <1>4 DEF Next, vars, Tick, Activate, EndDeal, PlanBatch, LandBatch, Begin, View, ReadEpoch,
                SayLongEnough, List, Stop, Land, Lose
  <2>2. m.to = TargetEpoch /\ m.at = (IF run.requested = Never THEN run.current ELSE Never)
    BY <1>4, <2>1 DEF Extend
  <2>3. run.pc = "listed" /\ deal' = deal
    BY <2>1 DEF Extend
  <2>4. Lasts(TargetEpoch, run.current, AcceptedMargin, ActiveMargin)
    BY <1>0, <2>2, <2>3, ComputedLasts
  <2> QED BY <2>2, <2>3, <2>4 DEF Lasts
<1> QED BY <1>3, <1>4

(* No expiration becomes smaller, and one that is said to have reached a    *)
(* target for the first time, or again, did.                                *)
LEMMA ExpirationStep ==
  ASSUME TermsInv, [Next]_vars, NEW s \in Sectors
  PROVE  /\ expiration'[s] >= expiration[s]
         /\ \/ reached'[s] = reached[s]
            \/ \E m \in sent : m.at # Never /\ reached'[s] = m.at /\ expiration'[s] >= m.to
<1>0. TypeOK /\ expiration[s] \in Int
  BY DEF TermsInv, TypeOK
<1>1. CASE \E m \in sent : Land(m)
  <2>1. PICK m \in sent : Land(m)
    BY <1>1
  <2>2. PICK new \in [Sectors -> {m.to} \union {EndEpoch(c) : c \in Claims} \union {expiration[q] : q \in Sectors}] :
          /\ \A q \in Sectors : new[q] = expiration[q] \/ new[q] > expiration[q]
          /\ expiration' = new
          /\ reached' = [q \in Sectors |->
                           IF q \in m.sectors /\ new[q] >= m.to /\ m.at # Never THEN m.at ELSE reached[q]]
    BY <2>1 DEF Land
  <2>3. new[s] = expiration[s] \/ new[s] > expiration[s]
    BY <2>2
  <2>4. expiration'[s] \in Int
    BY TypeStep DEF TypeOK
  <2>5. expiration'[s] >= expiration[s]
    BY <1>0, <2>2, <2>3, <2>4
  <2> QED BY <2>2, <2>5
<1>2. CASE ~\E m \in sent : Land(m)
  <2>1. UNCHANGED <<expiration, reached>>
    BY <1>2 DEF Next, vars, Tick, Activate, EndDeal, PlanBatch, LandBatch, Begin, View, ReadEpoch,
                SayLongEnough, List, Extend, Stop, Lose
  <2> QED BY <1>0, <2>1
<1> QED BY <1>1, <1>2

LEMMA ReachedStep == TermsInv /\ [Next]_vars => ReachedSound'
<1> SUFFICES ASSUME TermsInv, [Next]_vars, NEW s \in Sectors, reached'[s] # Never
             PROVE  Lasts(expiration[s], reached[s], AcceptedMargin, ActiveMargin)'
  BY DEF ReachedSound
<1>0. TypeOK /\ ReachedSound /\ SentSound /\ TypeOK'
  BY TypeStep DEF TermsInv
<1>1. /\ deal \in Deal /\ deal' \in Deal
      /\ deal' = deal \/ deal'.state = "ended" \/ deal.state = "accepted"
  BY <1>0, DealStep DEF TypeOK
<1>2. expiration[s] \in Int /\ expiration'[s] \in Int /\ reached'[s] \in Nat
  BY <1>0 DEF TypeOK, Epoch
<1>3. expiration'[s] >= expiration[s]
  BY ExpirationStep
<1>4. Lasts(expiration'[s], reached'[s], AcceptedMargin, ActiveMargin)
  <2>1. CASE reached'[s] = reached[s]
    <3>1. Lasts(expiration[s], reached'[s], AcceptedMargin, ActiveMargin)
      BY <1>0, <2>1 DEF ReachedSound
    <3> QED BY <1>1, <1>2, <1>3, <3>1, Constants, LongerLasts
  <2>2. CASE \E m \in sent : m.at # Never /\ reached'[s] = m.at /\ expiration'[s] >= m.to
    <3>1. PICK m \in sent : m.at # Never /\ reached'[s] = m.at /\ expiration'[s] >= m.to
      BY <2>2
    <3>2. Lasts(m.to, reached'[s], AcceptedMargin, ActiveMargin)
      BY <1>0, <3>1 DEF SentSound
    <3>3. m.to \in Int
      BY <1>0 DEF TypeOK, Message
    <3> QED BY <1>1, <1>2, <3>1, <3>2, <3>3, Constants, LongerLasts
  <2> QED BY <2>1, <2>2, ExpirationStep
<1> DEFINE epoch == expiration'[s]
           at == reached'[s]
<1>5. epoch \in Int /\ at \in Nat /\ Lasts(epoch, at, AcceptedMargin, ActiveMargin)
  BY <1>2, <1>4
<1> QED BY <1>1, <1>5, Constants DEF Lasts

LEMMA VouchedStep == TermsInv /\ [Next]_vars => VouchedSound'
<1> SUFFICES ASSUME TermsInv, [Next]_vars, NEW s \in Sectors, vouched'[s] # Never
             PROVE  Lasts(expiration[s], vouched[s], ActiveMargin, 0)'
  BY DEF VouchedSound
<1>0. TypeOK /\ RunSound /\ VouchedSound /\ TypeOK'
  BY TypeStep DEF TermsInv
<1>1. /\ deal \in Deal /\ deal' \in Deal
      /\ deal' = deal \/ deal'.state = "ended" \/ deal.state = "accepted"
  BY <1>0, DealStep DEF TypeOK
<1>2. expiration[s] \in Int /\ expiration'[s] \in Int /\ vouched'[s] \in Nat
  BY <1>0 DEF TypeOK, Epoch
<1>3. expiration'[s] >= expiration[s]
  BY ExpirationStep
<1>4. Lasts(expiration[s], vouched'[s], ActiveMargin, 0)
  <2>1. CASE vouched'[s] = vouched[s]
    BY <1>0, <2>1 DEF VouchedSound
  <2>2. CASE vouched'[s] # vouched[s]
    <3>1. SayLongEnough
      BY <2>2 DEF Next, vars, Tick, Activate, EndDeal, PlanBatch, LandBatch, Begin, View, ReadEpoch,
                  List, Extend, Stop, Land, Lose
    <3>2. s \in HeldSectors /\ run.requested = Never /\ vouched'[s] = run.current
      BY <1>0, <2>2, <3>1 DEF SayLongEnough, TypeOK
    <3>3. run.pc = "sectors" /\ Below = {}
      BY <3>1 DEF SayLongEnough
    <3>4. Lasts(RequiredEpoch, run.current, ActiveMargin, 0) /\ RequiredEpoch \in Nat
      BY <1>0, <3>2, <3>3, ComputedLasts, TargetType
    <3>5. ~(expiration[s] < RequiredEpoch)
      BY <3>2, <3>3 DEF Below
    <3>6. expiration[s] >= RequiredEpoch /\ run.current \in Nat
      BY <1>2, <3>2, <3>4, <3>5
    <3> QED BY <1>1, <1>2, <3>2, <3>4, <3>6, Constants, LongerLasts
  <2> QED BY <2>1, <2>2
<1>5. Lasts(expiration'[s], vouched'[s], ActiveMargin, 0)
  BY <1>1, <1>2, <1>3, <1>4, Constants, LongerLasts
<1> QED BY <1>1, <1>2, <1>5, Constants DEF Lasts

(* What a run has read, and asks of sectors and terms, was enough for the   *)
(* deal as it was when it was read.                                         *)
THEOREM TermsInvariant == Spec => []TermsInv
<1>1. TermsInv /\ [Next]_vars => TermsInv'
  BY TypeStep, RunStep, BatchStep, SentStep, ReachedStep, VouchedStep DEF TermsInv
<1> QED BY InitTerms, <1>1, PTL DEF Spec

(* What every variable may hold.                                            *)
THEOREM TermsTypes == Spec => []TypeOK
BY TermsInvariant, PTL DEF TermsInv

(* No batch asks for more than the actor grants, for every maximum term and *)
(* every reserve that covers what the node may be ahead (extension_term_max)*)
THEOREM Taken == Spec => []ExtensionTaken
BY TermsInvariant, PTL DEF TermsInv

(* A sector that a run found long enough outlives the service of a deal     *)
(* activated within the margin (sector_required_epoch).                     *)
THEOREM Outlives == Spec => []OutlivesService
<1>1. TermsInv => OutlivesService
  <2> SUFFICES ASSUME TermsInv, NEW s \in Sectors, vouched[s] # Never, deal.state = "active",
                      ServiceStart <= vouched[s] + ActiveMargin
               PROVE  expiration[s] >= deal.end
    BY DEF OutlivesService
  <2>1. deal.end \in Nat /\ expiration[s] \in Int /\ vouched[s] \in Nat
    BY DEF TermsInv, TypeOK, Deal, Epoch
  <2>2. Lasts(expiration[s], vouched[s], ActiveMargin, 0)
    BY DEF TermsInv, VouchedSound
  <2> QED BY <2>1, <2>2, Constants DEF Lasts, ServiceStart
<1> QED BY <1>1, TermsInvariant, PTL

(* A sector that reached the target of a run is not too short again while   *)
(* the margins differ (sector_target_epoch against sector_required_epoch).  *)
THEOREM Hysteresis == Spec => []NotShortAgain
<1>1. TermsInv => NotShortAgain
  <2> SUFFICES ASSUME TermsInv, NEW s \in Sectors, reached[s] # Never,
                      \/ deal.state = "accepted" /\ now <= reached[s] + (AcceptedMargin - ActiveMargin)
                      \/ deal.state = "active" /\ ServiceStart <= reached[s] + (AcceptedMargin - ActiveMargin)
               PROVE  expiration[s] >= Required(deal, now)
    BY DEF NotShortAgain
  <2>1. deal.end \in Nat /\ expiration[s] \in Int /\ reached[s] \in Nat /\ now \in Nat
    BY DEF TermsInv, TypeOK, Deal, Epoch
  <2>2. Lasts(expiration[s], reached[s], AcceptedMargin, ActiveMargin)
    BY DEF TermsInv, ReachedSound
  <2>3. CASE deal.state = "accepted"
    BY <2>1, <2>2, <2>3, Constants DEF Lasts, Required
  <2>4. CASE deal.state = "active"
    BY <2>1, <2>2, <2>4, Constants DEF Lasts, Required, Target, ServiceStart
  <2> QED BY <2>3, <2>4
<1> QED BY <1>1, TermsInvariant, PTL

-----------------------------------------------------------------------------
(* Switches.  A wallet has one transaction on its way at most, and until it *)
(* is in a block the wallet has said nothing of its flag.                   *)

FlagCommand == [flag : Switches!Flags, value : BOOLEAN]
FlagTx == [by : Switches!Wallets, nonce : Nat, command : FlagCommand]
FlagRun == [pc : {"idle", "wait", "signed", "sent"}, nonce : Nat, command : FlagCommand \union {Switches!None}]

SwitchesTyped ==
  /\ flags \in [Switches!Flags -> BOOLEAN]
  /\ mempool \subseteq FlagTx
  /\ count \in [Switches!Wallets -> Nat]
  /\ switching \in [Switches!Wallets -> FlagRun]
  /\ \A w \in Switches!Wallets : switching[w].pc # "idle" => switching[w].command \in FlagCommand
  /\ word \in [Switches!Flags -> [Switches!Wallets -> SUBSET BOOLEAN]]

OneOnItsWay ==
  /\ \A t, u \in mempool : t.by = u.by => t = u
  /\ \A w \in Switches!Wallets : switching[w].pc = "signed" => \A t \in mempool : t.by # w

NothingSaid ==
  /\ \A t \in mempool : word[t.command.flag][t.by] = {}
  /\ \A w \in Switches!Wallets :
       switching[w].pc \in {"wait", "signed"} => word[switching[w].command.flag][w] = {}

SwitchesSound == SwitchesTyped /\ OneOnItsWay /\ NothingSaid /\ LastWordHolds

LEMMA SwitchesInit == Switches!Init => SwitchesSound
<1> SUFFICES ASSUME Switches!Init PROVE SwitchesSound
  OBVIOUS
<1>1. \A w \in Switches!Wallets : switching[w] = Switches!Idle
  BY DEF Switches!Init
<1>2. Switches!Idle \in FlagRun /\ Switches!Idle.pc = "idle"
  BY DEF Switches!Idle, FlagRun
<1>3. SwitchesTyped
  BY <1>1, <1>2 DEF Switches!Init, SwitchesTyped
<1> QED BY <1>1, <1>2, <1>3
        DEF Switches!Init, SwitchesSound, OneOnItsWay, NothingSaid, LastWordHolds, Switches!LastWordHolds

(* A step of one run that says nothing and sends nothing.                   *)
LEMMA RunMoves ==
  ASSUME SwitchesSound, NEW w \in Switches!Wallets, NEW s \in FlagRun,
         switching' = [switching EXCEPT ![w] = s], UNCHANGED <<flags, mempool, count, word>>,
         s.pc # "idle" => s.command \in FlagCommand,
         s.pc \in {"wait", "signed"} => word[s.command.flag][w] = {},
         s.pc = "signed" => \A t \in mempool : t.by # w
  PROVE  SwitchesSound'
<1>1. switching'[w] = s /\ \A v \in Switches!Wallets \ {w} : switching'[v] = switching[v]
  BY DEF SwitchesSound, SwitchesTyped
<1>2. SwitchesTyped'
  BY <1>1 DEF SwitchesSound, SwitchesTyped
<1>3. OneOnItsWay' /\ NothingSaid'
  BY <1>1 DEF SwitchesSound, OneOnItsWay, NothingSaid
<1> QED BY <1>2, <1>3 DEF SwitchesSound, LastWordHolds, Switches!LastWordHolds

(* A wallet has a word of a flag, or gives it up, when it has no            *)
(* transaction on its way.                                                  *)
LEMMA BeginSwitch ==
  ASSUME SwitchesSound, NEW w \in Switches!Wallets, NEW command \in Switches!Commands(w),
         Switches!Begin(w, command)
  PROVE  SwitchesSound'
<1> DEFINE s == [Switches!Idle EXCEPT !.pc = "wait", !.command = command]
           f == command.flag
<1>1. command \in FlagCommand
  <2>1. \A flag \in Switches!Flags, value \in BOOLEAN : Switches!Switch(flag, value) \in FlagCommand
    BY DEF Switches!Switch, FlagCommand
  <2>2. \A value \in BOOLEAN : /\ Switches!SetOfferActive(value) \in FlagCommand
                               /\ Switches!SetPaymentToken(value) \in FlagCommand
    BY <2>1 DEF Switches!SetOfferActive, Switches!SetPaymentToken, Switches!Flags
  <2>3. {Switches!PauseSp, Switches!UnpauseSp, Switches!BlockSp, Switches!UnblockSp} \subseteq FlagCommand
    BY <2>1 DEF Switches!PauseSp, Switches!UnpauseSp, Switches!BlockSp, Switches!UnblockSp, Switches!Flags
  <2>4. Switches!AdminCommands \subseteq FlagCommand /\ Switches!SpCommands \subseteq FlagCommand
    BY <2>2, <2>3 DEF Switches!AdminCommands, Switches!SpCommands
  <2> QED BY <2>2, <2>4 DEF Switches!Commands
<1>2. s \in FlagRun /\ s.pc = "wait" /\ s.command = command /\ f \in Switches!Flags
  BY <1>1 DEF Switches!Idle, FlagRun, FlagCommand
<1>3. switching' = [switching EXCEPT ![w] = s] /\ UNCHANGED <<flags, mempool, count>>
  BY DEF Switches!Begin
<1>4. word' = [word EXCEPT ![f] = [word[f] EXCEPT ![w] = {}]]
  BY DEF Switches!Begin
<1> HIDE DEF s
<1>5. switching'[w] = s /\ \A v \in Switches!Wallets \ {w} : switching'[v] = switching[v]
  BY <1>3 DEF SwitchesSound, SwitchesTyped
<1>6. \A g \in Switches!Flags, v \in Switches!Wallets :
        word'[g][v] = IF g = f /\ v = w THEN {} ELSE word[g][v]
  BY <1>2, <1>4 DEF SwitchesSound, SwitchesTyped
<1>7. SwitchesTyped'
  <2>1. [word[f] EXCEPT ![w] = {}] \in [Switches!Wallets -> SUBSET BOOLEAN]
    BY <1>2 DEF SwitchesSound, SwitchesTyped
  <2>2. word' \in [Switches!Flags -> [Switches!Wallets -> SUBSET BOOLEAN]]
    BY <1>2, <1>4, <2>1 DEF SwitchesSound, SwitchesTyped
  <2> QED BY <1>1, <1>2, <1>3, <1>5, <2>2 DEF SwitchesSound, SwitchesTyped
<1>8. OneOnItsWay'
  BY <1>2, <1>3, <1>5 DEF SwitchesSound, OneOnItsWay
<1>9. NothingSaid'
  <2>1. ASSUME NEW t \in mempool PROVE word'[t.command.flag][t.by] = {}
    BY <1>6 DEF SwitchesSound, SwitchesTyped, NothingSaid, FlagTx, FlagCommand
  <2>2. ASSUME NEW v \in Switches!Wallets, switching'[v].pc \in {"wait", "signed"}
        PROVE  word'[switching'[v].command.flag][v] = {}
    BY <1>2, <1>5, <1>6, <2>2 DEF SwitchesSound, SwitchesTyped, NothingSaid, FlagCommand
  <2> QED BY <1>3, <2>1, <2>2 DEF NothingSaid
<1>10. LastWordHolds'
  BY <1>3, <1>6 DEF SwitchesSound, LastWordHolds, Switches!LastWordHolds
<1> QED BY <1>7, <1>8, <1>9, <1>10 DEF SwitchesSound

LEMMA AlreadySo ==
  ASSUME SwitchesSound, NEW w \in Switches!Wallets, Switches!Already(w)
  PROVE  SwitchesSound'
<1> DEFINE c == switching[w].command
           f == c.flag
<1>1. c \in FlagCommand /\ f \in Switches!Flags /\ flags[f] = c.value /\ \A t \in mempool : t.by # w
  BY DEF Switches!Already, Switches!At, Switches!NothingToDo, Switches!Asked, Switches!NothingPending,
         Switches!Mine, SwitchesSound, SwitchesTyped, FlagCommand
<1>2. /\ switching' = [switching EXCEPT ![w] = Switches!Idle] /\ UNCHANGED <<flags, mempool, count>>
      /\ word' = [word EXCEPT ![f] = [word[f] EXCEPT ![w] = {c.value}]]
  BY DEF Switches!Already, Switches!Asked
<1>3. Switches!Idle \in FlagRun /\ Switches!Idle.pc = "idle"
  BY DEF Switches!Idle, FlagRun
<1>4. switching'[w] = Switches!Idle /\ \A v \in Switches!Wallets \ {w} : switching'[v] = switching[v]
  BY <1>2 DEF SwitchesSound, SwitchesTyped
<1>5. \A g \in Switches!Flags, v \in Switches!Wallets :
        word'[g][v] = IF g = f /\ v = w THEN {c.value} ELSE word[g][v]
  BY <1>1, <1>2 DEF SwitchesSound, SwitchesTyped
<1>6. SwitchesTyped'
  <2>1. [word[f] EXCEPT ![w] = {c.value}] \in [Switches!Wallets -> SUBSET BOOLEAN]
    BY <1>1 DEF SwitchesSound, SwitchesTyped, FlagCommand
  <2>2. word' \in [Switches!Flags -> [Switches!Wallets -> SUBSET BOOLEAN]]
    BY <1>1, <1>2, <2>1 DEF SwitchesSound, SwitchesTyped
  <2> QED BY <1>2, <1>3, <1>4, <2>2 DEF SwitchesSound, SwitchesTyped
<1>7. OneOnItsWay'
  BY <1>2, <1>3, <1>4 DEF SwitchesSound, OneOnItsWay
<1>8. NothingSaid'
  <2>1. ASSUME NEW t \in mempool PROVE word'[t.command.flag][t.by] = {}
    BY <1>1, <1>5 DEF SwitchesSound, SwitchesTyped, NothingSaid, FlagTx, FlagCommand
  <2>2. ASSUME NEW v \in Switches!Wallets, switching'[v].pc \in {"wait", "signed"}
        PROVE  word'[switching'[v].command.flag][v] = {}
    BY <1>3, <1>4, <1>5, <2>2 DEF SwitchesSound, SwitchesTyped, NothingSaid, FlagCommand
  <2> QED BY <1>2, <2>1, <2>2 DEF NothingSaid
<1>9. LastWordHolds'
  BY <1>1, <1>2, <1>5 DEF SwitchesSound, LastWordHolds, Switches!LastWordHolds
<1> QED BY <1>6, <1>7, <1>8, <1>9 DEF SwitchesSound

LEMMA SignSwitch ==
  ASSUME SwitchesSound, NEW w \in Switches!Wallets, Switches!Sign(w)
  PROVE  SwitchesSound'
<1> DEFINE s == [switching[w] EXCEPT !.pc = "signed", !.nonce = count[w]]
<1>1. switching' = [switching EXCEPT ![w] = s] /\ switching[w].pc = "wait"
  BY DEF Switches!Sign, Switches!At, SwitchesSound, SwitchesTyped
<1>2. s \in FlagRun /\ s.pc = "signed" /\ s.command = switching[w].command
  BY DEF SwitchesSound, SwitchesTyped, FlagRun
<1>3. s.command \in FlagCommand /\ word[s.command.flag][w] = {} /\ \A t \in mempool : t.by # w
  BY <1>1, <1>2 DEF Switches!Sign, Switches!NothingPending, Switches!Mine, SwitchesSound, SwitchesTyped, NothingSaid
<1> HIDE DEF s
<1> QED BY <1>1, <1>2, <1>3, RunMoves DEF Switches!Sign

LEMMA SendSwitch ==
  ASSUME SwitchesSound, NEW w \in Switches!Wallets, Switches!Send(w)
  PROVE  SwitchesSound'
<1> DEFINE t == Switches!TxOf(w)
           s == [switching[w] EXCEPT !.pc = "sent"]
<1>1. /\ mempool' = mempool \union {t} /\ switching' = [switching EXCEPT ![w] = s]
      /\ switching[w].pc = "signed" /\ UNCHANGED <<flags, count, word>>
  BY DEF Switches!Send, Switches!At
<1>2. s \in FlagRun /\ s.pc = "sent" /\ s.command = switching[w].command /\ s.command \in FlagCommand
  BY <1>1 DEF SwitchesSound, SwitchesTyped, FlagRun
<1>3. t \in FlagTx /\ t.by = w /\ t.command = switching[w].command
  BY <1>1, <1>2 DEF SwitchesSound, SwitchesTyped, FlagRun, FlagTx, Switches!TxOf, Switches!Asked
<1> HIDE DEF s, t
<1>4. switching'[w] = s /\ \A v \in Switches!Wallets \ {w} : switching'[v] = switching[v]
  BY <1>1 DEF SwitchesSound, SwitchesTyped
<1>5. SwitchesTyped'
  BY <1>1, <1>2, <1>3, <1>4 DEF SwitchesSound, SwitchesTyped
<1>6. OneOnItsWay'
  <2>1. \A u \in mempool : u.by # w
    BY <1>1 DEF SwitchesSound, OneOnItsWay
  <2> QED BY <1>1, <1>2, <1>3, <1>4, <2>1 DEF SwitchesSound, OneOnItsWay
<1>7. NothingSaid'
  BY <1>1, <1>2, <1>3, <1>4 DEF SwitchesSound, NothingSaid
<1> QED BY <1>1, <1>5, <1>6, <1>7 DEF SwitchesSound, LastWordHolds, Switches!LastWordHolds

(* A run ends, with its receipt or without.                                 *)
LEMMA EndSwitch ==
  ASSUME SwitchesSound, NEW w \in Switches!Wallets, Switches!Receipt(w) \/ Switches!Crash(w)
  PROVE  SwitchesSound'
<1>1. Switches!Idle \in FlagRun /\ Switches!Idle.pc = "idle"
  BY DEF Switches!Idle, FlagRun
<1> QED BY <1>1, RunMoves DEF Switches!Receipt, Switches!Crash

LEMMA LandSwitch ==
  ASSUME SwitchesSound, NEW t \in mempool, Switches!Land(t)
  PROVE  SwitchesSound'
<1> DEFINE f == t.command.flag
           value == t.command.value
           said(w) == IF w # t.by THEN {}
                      ELSE IF switching[w].pc = "sent" /\ t = Switches!TxOf(w) THEN {value} ELSE word[f][w]
<1>1. t \in FlagTx /\ f \in Switches!Flags /\ value \in BOOLEAN /\ t.by \in Switches!Wallets
  BY DEF SwitchesSound, SwitchesTyped, FlagTx, FlagCommand
<1>2. /\ flags' = [flags EXCEPT ![f] = value] /\ count' = [count EXCEPT ![t.by] = @ + 1]
      /\ mempool' = mempool \ {t} /\ switching' = switching
      /\ word' = [word EXCEPT ![f] = [w \in Switches!Wallets |-> said(w)]]
  BY DEF Switches!Land, Switches!At
<1>3. word[f][t.by] = {}
  BY DEF SwitchesSound, NothingSaid
<1>4. \A w \in Switches!Wallets : said(w) \subseteq {value} /\ said(w) \in SUBSET BOOLEAN
  BY <1>1, <1>3
<1>5. \A w \in Switches!Wallets : said(w) # {} => w = t.by /\ switching[w].pc = "sent"
  BY <1>3
<1> HIDE DEF said
<1>6. \A g \in Switches!Flags, w \in Switches!Wallets : word'[g][w] = IF g = f THEN said(w) ELSE word[g][w]
  BY <1>1, <1>2 DEF SwitchesSound, SwitchesTyped
<1>7. SwitchesTyped'
  <2>1. [w \in Switches!Wallets |-> said(w)] \in [Switches!Wallets -> SUBSET BOOLEAN]
    BY <1>4
  <2>2. word' \in [Switches!Flags -> [Switches!Wallets -> SUBSET BOOLEAN]]
    BY <1>1, <1>2, <2>1 DEF SwitchesSound, SwitchesTyped
  <2>3. flags' \in [Switches!Flags -> BOOLEAN] /\ count' \in [Switches!Wallets -> Nat]
    BY <1>1, <1>2 DEF SwitchesSound, SwitchesTyped
  <2> QED BY <1>2, <2>2, <2>3 DEF SwitchesSound, SwitchesTyped
<1>8. OneOnItsWay'
  BY <1>2 DEF SwitchesSound, OneOnItsWay
<1>9. NothingSaid'
  <2>1. ASSUME NEW u \in mempool' PROVE word'[u.command.flag][u.by] = {}
    <3>1. u \in mempool /\ u.by # t.by /\ u \in FlagTx
      BY <1>2 DEF SwitchesSound, SwitchesTyped, OneOnItsWay
    <3>2. u.command.flag \in Switches!Flags /\ u.by \in Switches!Wallets /\ word[u.command.flag][u.by] = {}
      BY <3>1 DEF SwitchesSound, NothingSaid, FlagTx, FlagCommand
    <3> QED BY <1>5, <1>6, <3>1, <3>2
  <2>2. ASSUME NEW w \in Switches!Wallets, switching[w].pc \in {"wait", "signed"}
        PROVE  word'[switching[w].command.flag][w] = {}
    BY <1>5, <1>6, <2>2 DEF SwitchesSound, SwitchesTyped, NothingSaid, FlagCommand
  <2> QED BY <1>2, <2>1, <2>2 DEF NothingSaid
<1>10. LastWordHolds'
  <2>1. \A g \in Switches!Flags : flags'[g] = IF g = f THEN value ELSE flags[g]
    BY <1>1, <1>2 DEF SwitchesSound, SwitchesTyped
  <2> QED BY <1>4, <1>6, <2>1 DEF SwitchesSound, LastWordHolds, Switches!LastWordHolds
<1> QED BY <1>7, <1>8, <1>9, <1>10 DEF SwitchesSound

LEMMA SwitchesStep == ASSUME SwitchesSound, [Switches!Next]_(Switches!vars) PROVE SwitchesSound'
<1>1. ASSUME NEW t \in mempool, Switches!Evict(t) PROVE SwitchesSound'
  BY <1>1 DEF Switches!Evict, SwitchesSound, SwitchesTyped, OneOnItsWay, NothingSaid, LastWordHolds,
              Switches!LastWordHolds
<1>2. CASE UNCHANGED Switches!vars
  BY <1>2 DEF Switches!vars, SwitchesSound, SwitchesTyped, OneOnItsWay, NothingSaid, LastWordHolds,
              Switches!LastWordHolds
<1> QED BY <1>1, <1>2, BeginSwitch, AlreadySo, SignSwitch, SendSwitch, EndSwitch, LandSwitch DEF Switches!Next

(* What a command said of a flag of SPRegistry stays so until another       *)
(* wallet switches it: for any number of commands, nonces, crashes and      *)
(* evictions (pause_sp and the other switches).                             *)
THEOREM LastWord == Switches!Spec => []LastWordHolds
<1>1. SwitchesSound => LastWordHolds
  BY DEF SwitchesSound
<1> QED BY <1>1, SwitchesInit, SwitchesStep, PTL DEF Switches!Spec

-----------------------------------------------------------------------------
(* OnboardData.  What a run found accepted stays accepted, and a file that  *)
(* is whole is deleted only when its piece is accepted.                     *)

OnboardRun == [pc : {"idle", "fetch", "rows", "save", "open", "writing", "aria2c"}, force : BOOLEAN,
               retries : Int, manifest : Good \union {"none"}, unread : SUBSET Pieces,
               done : SUBSET Pieces, queue : SUBSET Pieces]

Placed(p) == p \in accepted \/ disk[p] = "whole"

OnboardTyped ==
  /\ disk \in [Pieces -> {"none", "part", "whole"}]
  /\ onboarding \in [Runs -> OnboardRun]

Gathered(r) ==
  /\ onboarding[r].done \subseteq accepted
  /\ onboarding[r].pc = "aria2c" => \A p \in Pieces : p \in onboarding[r].queue \/ Placed(p)

OnboardSound == OnboardTyped /\ (\A r \in Runs : Gathered(r)) /\ HasAllPieces

LEMMA OnboardIdle == Onboard!Idle \in OnboardRun /\ Onboard!Idle.done = {} /\ Onboard!Idle.pc = "idle"
BY DEF Onboard!Idle, OnboardRun

LEMMA OnboardInit == Onboard!Init => OnboardSound
<1> SUFFICES ASSUME Onboard!Init PROVE OnboardSound
  OBVIOUS
<1>1. OnboardTyped /\ \A r \in Runs : onboarding[r] = Onboard!Idle
  BY OnboardIdle DEF Onboard!Init, OnboardTyped
<1> QED BY <1>1, OnboardIdle DEF Onboard!Init, OnboardSound, Gathered, HasAllPieces, Onboard!HasAllPieces

(* A step of one run, that takes nothing away.                              *)
LEMMA OnboardMoves ==
  ASSUME OnboardSound, NEW r \in Runs, NEW s \in OnboardRun, onboarding' = [onboarding EXCEPT ![r] = s],
         accepted' = accepted, disk' \in [Pieces -> {"none", "part", "whole"}],
         \A p \in Pieces : disk[p] = "whole" => disk'[p] = "whole",
         s.done \subseteq accepted,
         s.pc = "aria2c" => \A p \in Pieces : p \in s.queue \/ Placed(p)',
         told' => told \/ \A p \in Pieces : Placed(p)'
  PROVE  OnboardSound'
<1>1. onboarding'[r] = s /\ \A q \in Runs \ {r} : onboarding'[q] = onboarding[q]
  BY DEF OnboardSound, OnboardTyped
<1>2. OnboardTyped'
  BY DEF OnboardSound, OnboardTyped
<1>3. \A q \in Runs : Gathered(q)'
  BY <1>1 DEF OnboardSound, Gathered, Placed
<1>4. HasAllPieces'
  BY DEF OnboardSound, HasAllPieces, Onboard!HasAllPieces, Placed
<1> QED BY <1>2, <1>3, <1>4 DEF OnboardSound

LEMMA OnboardRuns ==
  ASSUME OnboardSound, NEW r \in Runs, Onboard!Step(r) PROVE OnboardSound'
<1> DEFINE me == onboarding[r]
<1>1. me \in OnboardRun /\ me.done \subseteq accepted /\ disk \in [Pieces -> {"none", "part", "whole"}]
  BY DEF OnboardSound, OnboardTyped, Gathered
<1>2. CASE Onboard!Fetch(r)
  <2> DEFINE s == IF open /\ server \in Good
                  THEN [me EXCEPT !.pc = "rows", !.manifest = server, !.unread = Pieces] ELSE Onboard!Idle
  <2>1. s \in OnboardRun /\ s.done \subseteq me.done /\ s.pc # "aria2c"
    BY <1>1, OnboardIdle DEF OnboardRun
  <2>2. onboarding' = [onboarding EXCEPT ![r] = s] /\ UNCHANGED <<accepted, disk, told>>
    BY <1>2 DEF Onboard!Fetch, Onboard!world, OnboardSound, OnboardTyped
  <2> HIDE DEF s
  <2> QED BY <1>1, <2>1, <2>2, OnboardMoves
<1>3. CASE Onboard!EndOfRows(r)
  <2> DEFINE s == IF me.done = Pieces /\ ~me.force THEN Onboard!Idle ELSE [me EXCEPT !.pc = "save"]
  <2>1. s \in OnboardRun /\ s.done \subseteq me.done /\ s.pc # "aria2c"
    BY <1>1, OnboardIdle DEF OnboardRun
  <2>2. onboarding' = [onboarding EXCEPT ![r] = s] /\ UNCHANGED <<accepted, disk>>
    BY <1>3 DEF Onboard!EndOfRows, Onboard!Goto, Onboard!world, OnboardSound, OnboardTyped
  <2>3. told' => told \/ \A p \in Pieces : Placed(p)'
    BY <1>1, <1>3, <2>2 DEF Onboard!EndOfRows, Placed
  <2> HIDE DEF s
  <2> QED BY <1>1, <2>1, <2>2, <2>3, OnboardMoves
<1>4. CASE Onboard!CheckSaved(r)
  <2> DEFINE s == IF Onboard!Overwritable(r) THEN [me EXCEPT !.pc = "open"] ELSE Onboard!Idle
  <2>1. s \in OnboardRun /\ s.done \subseteq me.done /\ s.pc # "aria2c"
    BY <1>1, OnboardIdle DEF OnboardRun
  <2>2. onboarding' = [onboarding EXCEPT ![r] = s] /\ UNCHANGED <<accepted, disk, told>>
    BY <1>4 DEF Onboard!CheckSaved, Onboard!Goto, Onboard!world, OnboardSound, OnboardTyped
  <2> HIDE DEF s
  <2> QED BY <1>1, <2>1, <2>2, OnboardMoves
<1>5. CASE Onboard!OpenFile(r)
  <2> DEFINE s == [me EXCEPT !.pc = "writing"]
  <2>1. s \in OnboardRun /\ s.done = me.done /\ s.pc # "aria2c"
    BY <1>1 DEF OnboardRun
  <2>2. onboarding' = [onboarding EXCEPT ![r] = s] /\ UNCHANGED <<accepted, disk, told>>
    BY <1>5 DEF Onboard!OpenFile, Onboard!Goto, Onboard!world, OnboardSound, OnboardTyped
  <2> HIDE DEF s
  <2> QED BY <1>1, <2>1, <2>2, OnboardMoves
<1>6. CASE Onboard!WriteFile(r)
  <2> DEFINE s == [me EXCEPT !.pc = "aria2c", !.queue = Onboard!Queue(r)]
  <2>1. Onboard!Queue(r) \in SUBSET Pieces /\ \A p \in Pieces : p \in Onboard!Queue(r) \/ p \in me.done
    BY DEF Onboard!Queue
  <2>2. s \in OnboardRun /\ s.done = me.done /\ s.queue = Onboard!Queue(r)
    BY <1>1, <2>1 DEF OnboardRun
  <2>3. onboarding' = [onboarding EXCEPT ![r] = s] /\ UNCHANGED <<accepted, disk, told>>
    BY <1>6 DEF Onboard!WriteFile, Onboard!world, OnboardSound, OnboardTyped
  <2>4. \A p \in Pieces : p \in s.queue \/ Placed(p)'
    BY <1>1, <2>1, <2>2, <2>3 DEF Placed
  <2> HIDE DEF s
  <2> QED BY <1>1, <2>2, <2>3, <2>4, OnboardMoves
<1>7. CASE Onboard!Finish(r)
  <2>1. /\ onboarding' = [onboarding EXCEPT ![r] = Onboard!Idle] /\ UNCHANGED <<accepted, disk>>
        /\ me.pc = "aria2c" /\ me.queue = {}
    BY <1>7 DEF Onboard!Finish, Onboard!At, Onboard!world
  <2>2. \A p \in Pieces : Placed(p)'
    BY <2>1 DEF OnboardSound, Gathered, Placed
  <2> QED BY <1>1, <2>1, <2>2, OnboardIdle, OnboardMoves
<1>8. ASSUME NEW p \in Pieces, Onboard!ReadRow(r, p) PROVE OnboardSound'
  <2> DEFINE s == [me EXCEPT !.unread = @ \ {p}, !.done = IF p \in accepted THEN @ \union {p} ELSE @]
  <2>1. s \in OnboardRun /\ s.done \subseteq accepted /\ s.pc = "rows"
    BY <1>1, <1>8 DEF OnboardRun, Onboard!ReadRow, Onboard!At
  <2>2. onboarding' = [onboarding EXCEPT ![r] = s] /\ UNCHANGED <<accepted, disk, told>>
    BY <1>8 DEF Onboard!ReadRow, Onboard!world, OnboardSound, OnboardTyped
  <2> HIDE DEF s
  <2> QED BY <1>1, <2>1, <2>2, OnboardMoves
<1>9. ASSUME NEW p \in Pieces, Onboard!Download(r, p) PROVE OnboardSound'
  <2> DEFINE s == IF Onboard!Downloaded(p) THEN [me EXCEPT !.queue = @ \ {p}] ELSE me
  <2>1. s \in OnboardRun /\ s.done = me.done /\ s.pc = "aria2c"
        /\ s.queue = IF disk[p] = "whole" THEN me.queue \ {p} ELSE me.queue
    BY <1>1, <1>9 DEF OnboardRun, Onboard!Download, Onboard!At, Onboard!Downloaded
  <2>2. onboarding' = [onboarding EXCEPT ![r] = s] /\ UNCHANGED <<accepted, told>>
    BY <1>9 DEF Onboard!Download, Onboard!world, OnboardSound, OnboardTyped
  <2>3. /\ disk' \in [Pieces -> {"none", "part", "whole"}]
        /\ \A q \in Pieces : disk[q] = "whole" => disk'[q] = "whole"
    BY <1>1, <1>9 DEF Onboard!Download, Onboard!Downloaded
  <2>4. \A q \in Pieces : q \in s.queue \/ Placed(q)'
    BY <1>1, <2>1, <2>2, <2>3 DEF OnboardSound, Gathered, Placed
  <2> HIDE DEF s
  <2> QED BY <1>1, <2>1, <2>2, <2>3, <2>4, OnboardMoves
<1> QED BY <1>2, <1>3, <1>4, <1>5, <1>6, <1>7, <1>8, <1>9 DEF Onboard!Step

LEMMA OnboardDisturbed ==
  ASSUME OnboardSound, NEW r \in Runs,
         \/ Onboard!FetchFails(r) \/ Onboard!Crash(r)
         \/ \E force \in BOOLEAN : Onboard!Begin(r, force)
  PROVE  OnboardSound'
<1> DEFINE me == onboarding[r]
<1>1. me \in OnboardRun /\ me.done \subseteq accepted /\ disk \in [Pieces -> {"none", "part", "whole"}]
  BY DEF OnboardSound, OnboardTyped, Gathered
<1>2. CASE Onboard!FetchFails(r)
  <2> DEFINE s == IF me.retries = 0 THEN Onboard!Idle ELSE [me EXCEPT !.retries = @ - 1]
  <2>1. s \in OnboardRun /\ s.done \subseteq me.done /\ s.pc # "aria2c"
    BY <1>1, <1>2, OnboardIdle DEF OnboardRun, Onboard!FetchFails, Onboard!At
  <2>2. onboarding' = [onboarding EXCEPT ![r] = s] /\ UNCHANGED <<accepted, disk, told>>
    BY <1>2 DEF Onboard!FetchFails, Onboard!world, OnboardSound, OnboardTyped
  <2> HIDE DEF s
  <2> QED BY <1>1, <2>1, <2>2, OnboardMoves
<1>3. CASE Onboard!Crash(r)
  <2>1. onboarding' = [onboarding EXCEPT ![r] = Onboard!Idle] /\ UNCHANGED <<accepted, disk, told>>
    BY <1>3 DEF Onboard!Crash, Onboard!world
  <2> QED BY <1>1, <2>1, OnboardIdle, OnboardMoves
<1>4. ASSUME NEW force \in BOOLEAN, Onboard!Begin(r, force) PROVE OnboardSound'
  <2> DEFINE s == [Onboard!Idle EXCEPT !.pc = "fetch", !.force = force, !.retries = Retries]
  <2>1. Retries \in Int
    BY RetriesAssumption DEF RetriesAssumption
  <2>2. s \in OnboardRun /\ s.done = {} /\ s.pc # "aria2c"
    BY <2>1 DEF OnboardRun, Onboard!Idle
  <2>3. onboarding' = [onboarding EXCEPT ![r] = s] /\ UNCHANGED <<accepted, disk, told>>
    BY <1>4 DEF Onboard!Begin, Onboard!world
  <2> HIDE DEF s
  <2> QED BY <1>1, <2>2, <2>3, OnboardMoves
<1> QED BY <1>2, <1>3, <1>4

(* The SP and the client: what was placed stays placed.                     *)
LEMMA OnboardOthers ==
  ASSUME OnboardSound, onboarding' = onboarding, told' = told,
         disk' \in [Pieces -> {"none", "part", "whole"}], accepted \subseteq accepted',
         \A p \in Pieces : Placed(p) => Placed(p)'
  PROVE  OnboardSound'
BY DEF OnboardSound, OnboardTyped, Gathered, HasAllPieces, Onboard!HasAllPieces, Placed

LEMMA OnboardStep == ASSUME OnboardSound, [Onboard!Next]_(Onboard!vars) PROVE OnboardSound'
<1>1. disk \in [Pieces -> {"none", "part", "whole"}]
  BY DEF OnboardSound, OnboardTyped
<1>2. ASSUME NEW p \in Pieces, Onboard!Place(p) \/ Onboard!Delete(p) PROVE OnboardSound'
  BY <1>1, <1>2, OnboardOthers DEF Onboard!Place, Onboard!Delete, Onboard!world, Placed
<1>3. ASSUME NEW m, Onboard!Publish(m) PROVE OnboardSound'
  BY <1>1, <1>3, OnboardOthers DEF Onboard!Publish, Placed
<1>4. CASE Onboard!EndDeal
  BY <1>1, <1>4, OnboardOthers DEF Onboard!EndDeal, Placed
<1>5. CASE UNCHANGED Onboard!vars
  BY <1>1, <1>5, OnboardOthers DEF Onboard!vars, Onboard!world, Placed
<1> QED BY <1>2, <1>3, <1>4, <1>5, OnboardRuns, OnboardDisturbed DEF Onboard!Next

(* When onboard-data has ended well the SP has every piece, on disk or      *)
(* placed: for any number of pieces, runs, retries and disturbances.        *)
THEOREM AllPieces == Onboard!Spec => []HasAllPieces
<1>1. OnboardSound => HasAllPieces
  BY DEF OnboardSound
<1> QED BY <1>1, OnboardInit, OnboardStep, PTL DEF Onboard!Spec

-----------------------------------------------------------------------------
(* SelfUpdate.  From the check on, the branch that is checked out is the    *)
(* one that was fetched, unless the user changes it.                        *)

Compared ==
  call.pc \in {"fetch", "local", "safe", "prompt", "merge"} =>
    /\ call.branch \in Update!Remote
    /\ call.manual \/ call.branch \in Released
    /\ call.pc \in {"prompt", "merge"} /\ ~call.moved => head = call.branch

UpdateSound ==
  /\ upstream \in [Update!Remote -> Nat] /\ ref \in [Update!Remote -> Nat]
  /\ has \in [Update!Heads -> Nat] /\ own \in [Update!Heads -> Nat]
  /\ head \in Update!Heads
  /\ call \in Update!Call
  /\ Compared

LEMMA UpdateInit == Update!Init => UpdateSound
<1> SUFFICES ASSUME Update!Init PROVE UpdateSound
  OBVIOUS
<1>1. Update!NoCall \in Update!Call /\ Update!NoCall.pc = "none"
  BY DEF Update!NoCall, Update!Call, Update!Name
<1> QED BY <1>1 DEF Update!Init, UpdateSound, Compared

LEMMA UpdateCalls ==
  /\ Update!Command \in Update!Call /\ Update!Command.pc = "command"
  /\ Update!Exit \in Update!Call /\ Update!Exit.pc = "exit"
BY DEF Update!NoCall, Update!Call, Update!Name, Update!Command, Update!Exit

LEMMA BeginUpdate ==
  ASSUME UpdateSound, NEW manual \in BOOLEAN, NEW skip \in BOOLEAN, Update!Begin(manual, skip)
  PROVE  UpdateSound'
<1> DEFINE branch == IF head = Update!Detached THEN Update!Detached ELSE Tracking[head]
           s == [Update!NoCall EXCEPT !.pc = "fetch", !.manual = manual, !.branch = branch]
<1>1. UNCHANGED <<upstream, ref, has, own, head, dirty>>
  BY DEF Update!Begin, Update!world
<1>2. \/ call' = Update!Command
      \/ call' = s /\ branch # Update!Detached /\ (manual \/ branch \in Released)
  BY DEF Update!Begin
<1>3. CASE call' = Update!Command
  BY <1>1, <1>3, UpdateCalls DEF UpdateSound, Compared
<1>4. CASE call' = s /\ branch # Update!Detached /\ (manual \/ branch \in Released)
  <2>1. branch \in Update!Remote
    BY <1>4 DEF UpdateSound, Update!Heads, Update!Local, Update!Remote
  <2>2. s \in Update!Call /\ s.pc = "fetch" /\ s.manual = manual /\ s.branch = branch
    BY <2>1 DEF Update!NoCall, Update!Call, Update!Name
  <2> HIDE DEF s, branch
  <2> QED BY <1>1, <1>4, <2>1, <2>2 DEF UpdateSound, Compared
<1> QED BY <1>2, <1>3, <1>4

(* A step of the run that leaves the user's choice of branch alone.         *)
LEMMA CallGoesOn ==
  ASSUME UpdateSound, NEW s \in Update!Call, call' = s, UNCHANGED <<upstream, own, head>>,
         ref' \in [Update!Remote -> Nat], has' \in [Update!Heads -> Nat],
         s.pc \in {"command", "exit"} \/
           /\ s.branch = call.branch /\ s.manual = call.manual
           /\ call.pc \in {"fetch", "local", "safe", "prompt", "merge"}
           /\ s.pc \in {"prompt", "merge"} /\ ~s.moved => head = call.branch
  PROVE  UpdateSound'
BY DEF UpdateSound, Compared

LEMMA UpdateRuns ==
  ASSUME UpdateSound, Update!Fetch \/ Update!Count \/ Update!CheckSafe \/ Update!Prompt \/ Update!Merge
  PROVE  UpdateSound'
<1>1. /\ call \in Update!Call /\ ref \in [Update!Remote -> Nat] /\ has \in [Update!Heads -> Nat]
      /\ upstream \in [Update!Remote -> Nat] /\ head \in Update!Heads
  BY DEF UpdateSound
<1>2. CASE Update!Fetch
  <2>1. call.pc = "fetch" /\ call.branch \in Update!Remote /\ UNCHANGED <<upstream, has, own, head>>
    BY <1>2 DEF Update!Fetch, Update!At, UpdateSound, Compared
  <2>2. CASE ref' = [ref EXCEPT ![call.branch] = upstream[call.branch]]
             /\ call' = [call EXCEPT !.pc = "local", !.sha = upstream[call.branch]]
    <3> DEFINE s == [call EXCEPT !.pc = "local", !.sha = upstream[call.branch]]
    <3>1. upstream[call.branch] \in Nat
      BY <1>1, <2>1
    <3>2. s \in Update!Call /\ s.pc = "local" /\ s.branch = call.branch /\ s.manual = call.manual
      BY <1>1, <3>1 DEF Update!Call
    <3>3. ref' \in [Update!Remote -> Nat]
      BY <1>1, <2>1, <2>2, <3>1
    <3>4. call' = s
      BY <2>2
    <3> HIDE DEF s
    <3> QED BY <1>1, <2>1, <3>2, <3>3, <3>4, CallGoesOn
  <2>3. CASE UNCHANGED ref /\ call' = Update!Command
    BY <1>1, <2>1, <2>3, UpdateCalls, CallGoesOn
  <2> QED BY <1>2, <2>2, <2>3 DEF Update!Fetch
<1>3. CASE Update!Count
  <2>1. call.pc = "local" /\ UNCHANGED <<upstream, ref, has, own, head>>
    BY <1>3 DEF Update!Count, Update!At, Update!world
  <2>2. CASE has[head] < call.sha
    <3> DEFINE ahead == own[head] > 0
               s == [call EXCEPT !.pc = "safe", !.ahead = ahead]
    <3>1. call' = s
      BY <1>3, <2>2 DEF Update!Count
    <3>2. ahead \in BOOLEAN
      OBVIOUS
    <3> HIDE DEF ahead
    <3>3. s \in Update!Call /\ s.pc = "safe" /\ s.branch = call.branch /\ s.manual = call.manual
      BY <1>1, <3>2 DEF Update!Call
    <3> HIDE DEF s
    <3> QED BY <1>1, <2>1, <3>1, <3>3, CallGoesOn
  <2>3. CASE ~(has[head] < call.sha)
    <3>1. call' = Update!Command
      BY <1>3, <2>3 DEF Update!Count
    <3> QED BY <1>1, <2>1, <3>1, UpdateCalls, CallGoesOn
  <2> QED BY <2>2, <2>3
<1>4. CASE Update!CheckSafe
  <2>1. call.pc = "safe" /\ UNCHANGED <<upstream, ref, has, own, head>>
    BY <1>4 DEF Update!CheckSafe, Update!At, Update!world
  <2>2. CASE Update!UnsafeReason
    <3>1. call' = Update!Command
      BY <1>4, <2>2 DEF Update!CheckSafe
    <3> QED BY <1>1, <2>1, <3>1, UpdateCalls, CallGoesOn
  <2>3. CASE ~Update!UnsafeReason
    <3> DEFINE s == [call EXCEPT !.pc = "prompt"]
    <3>1. call' = s /\ head = call.branch
      BY <1>4, <2>3 DEF Update!CheckSafe, Update!UnsafeReason
    <3>2. s \in Update!Call /\ s.pc = "prompt" /\ s.branch = call.branch /\ s.manual = call.manual
      BY <1>1 DEF Update!Call
    <3> HIDE DEF s
    <3> QED BY <1>1, <2>1, <3>1, <3>2, CallGoesOn
  <2> QED BY <2>2, <2>3
<1>5. CASE Update!Prompt
  <2>1. call.pc = "prompt" /\ UNCHANGED <<upstream, ref, has, own, head>>
    BY <1>5 DEF Update!Prompt, Update!At, Update!world
  <2>2. CASE call' = [call EXCEPT !.pc = "merge"]
    <3> DEFINE s == [call EXCEPT !.pc = "merge"]
    <3>1. s \in Update!Call /\ s.pc = "merge" /\ s.branch = call.branch /\ s.manual = call.manual
          /\ s.moved = call.moved /\ call' = s
      BY <1>1, <2>2 DEF Update!Call
    <3>2. ~s.moved => head = call.branch
      BY <2>1, <3>1 DEF UpdateSound, Compared
    <3> HIDE DEF s
    <3> QED BY <1>1, <2>1, <3>1, <3>2, CallGoesOn
  <2>3. CASE call' = Update!Command
    BY <1>1, <2>1, <2>3, UpdateCalls, CallGoesOn
  <2> QED BY <1>5, <2>2, <2>3 DEF Update!Prompt
<1>6. CASE Update!Merge
  <2>1. call.pc = "merge" /\ call' = Update!Exit /\ UNCHANGED <<upstream, ref, own, head>>
    BY <1>6 DEF Update!Merge, Update!At
  <2>2. call.branch \in Update!Remote
    BY <2>1 DEF UpdateSound, Compared
  <2>3. has' \in [Update!Heads -> Nat]
    BY <1>1, <1>6, <2>2 DEF Update!Merge
  <2> QED BY <1>1, <2>1, <2>3, UpdateCalls, CallGoesOn
<1> QED BY <1>2, <1>3, <1>4, <1>5, <1>6

(* The user at the other terminal.                                          *)
LEMMA SwitchBranch ==
  ASSUME UpdateSound, NEW h \in Update!Heads \ {head}, Update!Switch(h)
  PROVE  UpdateSound'
<1>1. has' \in [Update!Heads -> Nat] /\ own' \in [Update!Heads -> Nat]
  <2>1. has[head] \in Nat /\ own[head] \in Nat
    BY DEF UpdateSound
  <2> QED BY <2>1 DEF UpdateSound, Update!Switch, Update!Carried
<1>2. /\ call' \in Update!Call /\ call'.pc = call.pc /\ call'.branch = call.branch /\ call'.manual = call.manual
      /\ call.pc \in {"prompt", "merge"} => call'.moved
  <2> DEFINE moved == Update!At("prompt") \/ Update!At("merge")
  <2>1. moved \in BOOLEAN /\ (call.pc \in {"prompt", "merge"} => moved = TRUE)
    BY DEF Update!At
  <2>2. call' = [call EXCEPT !.moved = moved]
    BY DEF Update!Switch
  <2> HIDE DEF moved
  <2> QED BY <2>1, <2>2 DEF UpdateSound, Update!Call
<1>3. head' \in Update!Heads /\ UNCHANGED <<upstream, ref>>
  BY DEF Update!Switch
<1> QED BY <1>1, <1>2, <1>3 DEF UpdateSound, Compared

LEMMA UpdateOthers ==
  ASSUME UpdateSound,
         \/ \E b \in Update!Remote : Update!Push(b) \/ Update!OtherFetch(b)
         \/ Update!Edit \/ Update!Commit
         \/ UNCHANGED Update!vars
  PROVE  UpdateSound'
<1>1. UNCHANGED <<head, call, has>>
  BY DEF Update!Push, Update!OtherFetch, Update!Edit, Update!Commit, Update!vars, Update!world
<1>2. upstream' \in [Update!Remote -> Nat] /\ ref' \in [Update!Remote -> Nat]
  BY DEF UpdateSound, Update!Push, Update!OtherFetch, Update!Edit, Update!Commit, Update!vars, Update!world
<1>3. own' \in [Update!Heads -> Nat]
  BY DEF UpdateSound, Update!Push, Update!OtherFetch, Update!Edit, Update!Commit, Update!vars, Update!world
<1> QED BY <1>1, <1>2, <1>3 DEF UpdateSound, Compared

LEMMA UpdateStep == ASSUME UpdateSound, [Update!Next]_(Update!vars) PROVE UpdateSound'
BY BeginUpdate, UpdateRuns, SwitchBranch, UpdateOthers DEF Update!Next

(* Nothing but a merge changes what a branch has while the run ends.        *)
LEMMA OnlyMergeUpdates ==
  ASSUME UpdateSound, Update!Next, call.pc = "merge", call'.pc = "exit", has' # has
  PROVE  Update!Merge
<1>1. ASSUME NEW h \in Update!Heads, Update!Switch(h) PROVE FALSE
  <2>1. call'.pc = call.pc
    BY <1>1 DEF Update!Switch, UpdateSound, Update!Call
  <2> QED BY <2>1
<1> QED BY <1>1 DEF Update!Next, Update!Begin, Update!Fetch, Update!Count, Update!CheckSafe, Update!Prompt,
       Update!Push, Update!OtherFetch, Update!Edit, Update!Commit, Update!At, Update!world

LEMMA MergeIsSafe ==
  ASSUME UpdateSound, [Update!Next]_(Update!vars)
  PROVE  Update!At("merge") /\ call'.pc = "exit" /\ has' # has
           => /\ own[head] = 0
              /\ ~call.moved => head = call.branch /\ (call.manual \/ head \in Released)
<1> SUFFICES ASSUME call.pc = "merge", call'.pc = "exit", has' # has
             PROVE  own[head] = 0 /\ (~call.moved => head = call.branch /\ (call.manual \/ head \in Released))
  BY DEF Update!At
<1>1. Update!Merge
  BY OnlyMergeUpdates DEF Update!vars, Update!world
<1>2. own[head] = 0
  <2>1. CASE ref[call.branch] <= has[head]
    <3>1. ref[call.branch] \in Nat /\ has[head] \in Nat /\ has = [h \in Update!Heads |-> has[h]]
      BY DEF UpdateSound, Compared
    <3>2. has' = [has EXCEPT ![head] = has[head]]
      BY <1>1, <2>1, <3>1 DEF Update!Merge
    <3> QED BY <3>1, <3>2
  <2> QED BY <1>1, <2>1 DEF Update!Merge, Update!FastForward
<1>3. (call.manual \/ call.branch \in Released) /\ (~call.moved => head = call.branch)
  BY DEF UpdateSound, Compared
<1> QED BY <1>2, <1>3

(* An update goes into the branch that was compared and found safe, if the  *)
(* user did not change it since, and never onto commits of its own: for any *)
(* branches, commits and second runs (check_for_update).                    *)
THEOREM UpdatesChecked == Update!Spec => UpdatesWhatWasChecked
<1>1. UpdateSound /\ [Update!Next]_(Update!vars) =>
        [Update!At("merge") /\ call'.pc = "exit" /\ has' # has
           => /\ own[head] = 0
              /\ ~call.moved => head = call.branch /\ (call.manual \/ head \in Released)]_(Update!vars)
  BY MergeIsSafe
<1> QED BY <1>1, UpdateInit, UpdateStep, PTL DEF Update!Spec, UpdatesWhatWasChecked, Update!UpdatesWhatWasChecked

-----------------------------------------------------------------------------
(* The composition takes a step of one part at a time.  The disturbances    *)
(* are counted for two of them together, which none of the invariants       *)
(* mentions.                                                                *)

LEMMA StepOfOne ==
  ASSUME [CommandsNext]_all
  PROVE  /\ [Next]_vars
         /\ [Onboard!Next]_(Onboard!vars) \/ UNCHANGED onboard
         /\ [Update!Next]_(Update!vars)
         /\ [Switches!Next]_(Switches!vars) \/ UNCHANGED switches
<1>1. CASE SectorsNext
  BY <1>1 DEF SectorsNext, onboard, update, switches, Update!vars, Update!world
<1>2. CASE OnboardNext
  BY <1>2 DEF OnboardNext, update, switches, Update!vars, Update!world
<1>3. CASE UpdateNext
  BY <1>3 DEF UpdateNext, onboard, switches
<1>4. CASE SwitchesNext
  BY <1>4 DEF SwitchesNext, onboard, update, Update!vars, Update!world
<1>5. CASE UNCHANGED all
  BY <1>5 DEF all, onboard, update, switches, Update!vars, Update!world
<1> QED BY <1>1, <1>2, <1>3, <1>4, <1>5 DEF CommandsNext

LEMMA CommandsStart == CommandsInit => TermsInv /\ OnboardSound /\ UpdateSound /\ SwitchesSound
<1> SUFFICES ASSUME CommandsInit PROVE TermsInv
  BY OnboardInit, UpdateInit, SwitchesInit DEF CommandsInit
<1>1. CASE part = "sectors"
  BY <1>1, InitTerms DEF CommandsInit
<1>2. CASE part # "sectors"
  <2>1. deal \in Deal /\ termMax \in [Claims -> Int] /\ expiration \in [Sectors -> Int]
    BY <1>2 DEF CommandsInit, NoDeal, Deal
  <2> QED BY <1>2, <2>1, StartTerms DEF CommandsInit
<1> QED BY <1>1, <1>2

LEMMA CommandsStep ==
  ASSUME TermsInv, OnboardSound, UpdateSound, SwitchesSound, [CommandsNext]_all
  PROVE  TermsInv' /\ OnboardSound' /\ UpdateSound' /\ SwitchesSound'
<1>1. TermsInv'
  BY StepOfOne, TypeStep, RunStep, BatchStep, SentStep, ReachedStep, VouchedStep DEF TermsInv
<1>2. UpdateSound'
  BY StepOfOne, UpdateStep
<1>3. OnboardSound'
  <2>1. CASE UNCHANGED onboard
    BY <2>1, OnboardOthers DEF onboard, Placed, OnboardSound, OnboardTyped
  <2> QED BY <2>1, StepOfOne, OnboardStep
<1>4. SwitchesSound'
  <2>1. CASE UNCHANGED switches
    BY <2>1 DEF switches, SwitchesSound, SwitchesTyped, OneOnItsWay, NothingSaid, LastWordHolds, Switches!LastWordHolds
  <2> QED BY <2>1, StepOfOne, SwitchesStep
<1> QED BY <1>1, <1>2, <1>3, <1>4

(* All of it at once, for the specification that TLC checks.                *)
THEOREM CommandsKeepTheirWord ==
  CommandsSpec => /\ [](ExtensionTaken /\ HasAllPieces /\ LastWordHolds)
                  /\ UpdatesWhatWasChecked
<1>1. TermsInv /\ OnboardSound /\ UpdateSound /\ SwitchesSound => ExtensionTaken /\ HasAllPieces /\ LastWordHolds
  BY DEF TermsInv, OnboardSound, SwitchesSound
<1>2. UpdateSound /\ [CommandsNext]_all =>
        [Update!At("merge") /\ call'.pc = "exit" /\ has' # has
           => /\ own[head] = 0
              /\ ~call.moved => head = call.branch /\ (call.manual \/ head \in Released)]_(Update!vars)
  BY StepOfOne, MergeIsSafe
<1>3. /\ TermsInv /\ OnboardSound /\ UpdateSound /\ SwitchesSound /\ [CommandsNext]_all
      => (TermsInv /\ OnboardSound /\ UpdateSound /\ SwitchesSound)'
  BY CommandsStep
<1> QED BY <1>1, <1>2, <1>3, CommandsStart, PTL
        DEF CommandsSpec, UpdatesWhatWasChecked, Update!UpdatesWhatWasChecked
=============================================================================
