---------------------------- MODULE InitDeal_proofs ----------------------------
(***************************************************************************)
(* Why init-deal is safe to interrupt: every transaction of the wallet is  *)
(* built for the nonce the chain takes next, so a block that takes one     *)
(* takes the nonce from all the others, and what a session reads when      *)
(* nothing is pending can only be undone by a transaction it would see.    *)
(***************************************************************************)
EXTENDS InitDeal, TLAPS

LEMMA IdleType == Idle \in Session
BY DEF Idle, Session, Steps, Stages, Kinds

LEMMA FaultTypes ==
  ASSUME TypeOK, NEW kind \in FaultKinds, Fault(kind)
  PROVE  /\ faults' \in [FaultKinds -> Nat]
         /\ faults'["decline"] <= faults["decline"]
         /\ kind = "decline" => faults'["decline"] < faults["decline"]
BY DEF TypeOK, Fault, FaultKinds

(* What a session takes to the next stage.                                  *)
NextStage(s) ==
  [Idle EXCEPT !.pc = "wait", !.deal = session[s].deal, !.stage = Following(session[s].stage)]

(* The session of a step in general: which record it becomes.               *)
LEMMA SessionType ==
  ASSUME TypeOK, NEW s \in Sessions, NEW x \in Session, session' = [session EXCEPT ![s] = x]
  PROVE  session' \in [Sessions -> Session]
BY DEF TypeOK

LEMMA StageType ==
  ASSUME TypeOK, NEW s \in Sessions, session[s].stage # "end"
  PROVE  NextStage(s) \in Session
BY DEF TypeOK, NextStage, Idle, Session, Steps, Stages, Kinds, Following

-----------------------------------------------------------------------------
(* A session that does not act, while nothing lands.                        *)
LEMMA Bystander ==
  ASSUME SetupInv, NEW i \in Sessions, session'[i] = session[i], mempool' \subseteq mempool,
         UNCHANGED <<count, validator, approved, deposits, permits, rail>>,
         NothingDeclined' => NothingDeclined
  PROVE  SessionSound(i)'
<1>1. SessionSound(i)
  BY DEF SetupInv
<1>2. TxOf(i)' = TxOf(i)
  BY DEF TxOf
<1>3. Fits(TxOf(i))' <=> Fits(TxOf(i))
  BY <1>2 DEF Fits
<1> QED BY <1>1, <1>2, <1>3 DEF SessionSound

LEMMA TxsStay ==
  ASSUME SetupInv, mempool' \subseteq mempool, UNCHANGED <<count, validator, approved, permits, rail>>
  PROVE  \A t \in mempool' : TxSound(t)'
BY DEF SetupInv, TxSound, Fits

(* Steps that change what one session knows, and nothing on the chain.      *)
Local(s) ==
  \/ Wait(s) \/ AllDone(s) \/ Skip(s) \/ Ask(s) \/ SignPermit(s) \/ TakeNonce(s) \/ Build(s)
  \/ Decline(s) \/ Receipt(s) \/ Refused(s) \/ Crash(s)
  \/ \E d \in Deals : Begin(s, d)

LEMMA LocalChain ==
  ASSUME SetupInv, NEW s \in Sessions, Local(s)
  PROVE  /\ UNCHANGED <<mempool, count, accepted, validator, approved, deposits, permits, rail>>
         /\ \A i \in Sessions : i # s => session'[i] = session[i]
         /\ faults' \in [FaultKinds -> Nat] /\ faults'["decline"] <= faults["decline"]
         /\ late' \subseteq Sessions
<1>1. TypeOK
  BY DEF SetupInv
<1>2. CASE Decline(s) \/ Crash(s)
  BY <1>1, <1>2, FaultTypes DEF TypeOK, Decline, Crash, Advance, Stop, chain, FaultKinds
<1>3. CASE ~(Decline(s) \/ Crash(s))
  <2>1. faults' = faults
    BY <1>3 DEF Local, Wait, AllDone, Skip, Ask, SignPermit, TakeNonce, Build, Receipt, Refused, Begin
  <2>2. faults["decline"] \in Nat
    BY <1>1 DEF TypeOK, FaultKinds
  <2>3. UNCHANGED <<mempool, count, accepted, validator, approved, deposits, permits, rail>>
    BY <1>3 DEF Local, Wait, AllDone, Skip, Ask, SignPermit, TakeNonce, Build, Receipt, Refused,
                Begin, chain
  <2>4. late' \subseteq Sessions
    BY <1>1, <1>3
       DEF TypeOK, Local, Wait, AllDone, Skip, Ask, SignPermit, TakeNonce, Build, Receipt, Refused,
           Begin, chain
  <2>5. \A i \in Sessions : i # s => session'[i] = session[i]
    <3>1. CASE AllDone(s) \/ Skip(s) \/ Receipt(s) \/ Refused(s)
      BY <1>1, <3>1 DEF TypeOK, AllDone, Skip, Receipt, Refused, Advance, Stop
    <3>2. CASE Wait(s) \/ Ask(s) \/ SignPermit(s) \/ TakeNonce(s) \/ Build(s)
      BY <1>1, <3>2 DEF TypeOK, Wait, Ask, SignPermit, TakeNonce, Build
    <3>3. CASE \E d \in Deals : Begin(s, d)
      BY <1>1, <3>3 DEF TypeOK, Begin
    <3> QED BY <1>3, <3>1, <3>2, <3>3 DEF Local
  <2> QED BY <1>1, <2>1, <2>2, <2>3, <2>4, <2>5 DEF TypeOK
<1> QED BY <1>2, <1>3

LEMMA LocalType ==
  ASSUME SetupInv, NEW s \in Sessions, Local(s)
  PROVE  session' \in [Sessions -> Session]
<1> DEFINE me == session[s]
<1>1. TypeOK /\ me \in Session /\ SessionSound(s)
  BY DEF SetupInv, TypeOK
<1>2. CASE Refused(s) \/ Crash(s) \/ AllDone(s)
  BY <1>1, <1>2, IdleType, SessionType DEF Refused, Crash, AllDone, Stop
<1>3. CASE Skip(s) \/ Decline(s) \/ Receipt(s)
  <2>1. session' = [session EXCEPT ![s] = NextStage(s)]
    BY <1>3 DEF Skip, Decline, Receipt, Advance, NextStage
  <2>2. me.stage # "end"
    BY <1>1, <1>3 DEF Skip, Decline, Receipt, At, SessionSound
  <2> QED BY <1>1, <2>1, <2>2, StageType, SessionType
<1>4. CASE Wait(s) \/ Ask(s) \/ Build(s)
  <2>1. PICK pc \in Steps : session' = [session EXCEPT ![s].pc = pc]
    BY <1>4 DEF Wait, Ask, Build, Steps
  <2> DEFINE x == [me EXCEPT !.pc = pc]
  <2>2. x \in Session /\ session' = [session EXCEPT ![s] = x]
    BY <1>1, <2>1 DEF Session
  <2> HIDE DEF x
  <2> QED BY <1>1, <2>2, SessionType
<1>5. CASE SignPermit(s)
  <2> DEFINE x == [me EXCEPT !.pc = "permitted",
                             !.permit = IF me.stage = "deposit" THEN permits ELSE 0]
  <2>1. x \in Session /\ session' = [session EXCEPT ![s] = x]
    BY <1>1, <1>5 DEF Session, SignPermit, Steps, TypeOK
  <2> HIDE DEF x
  <2> QED BY <1>1, <2>1, SessionType
<1>6. CASE TakeNonce(s)
  <2> DEFINE x == [me EXCEPT !.pc = "numbered", !.nonce = count]
  <2>1. x \in Session /\ session' = [session EXCEPT ![s] = x]
    BY <1>1, <1>6 DEF Session, TakeNonce, Steps, TypeOK
  <2> HIDE DEF x
  <2> QED BY <1>1, <2>1, SessionType
<1>7. ASSUME NEW d \in Deals, Begin(s, d) PROVE session' \in [Sessions -> Session]
  <2> DEFINE x == [Idle EXCEPT !.pc = "look", !.deal = d, !.stage = "validator"]
  <2>1. x \in Session /\ session' = [session EXCEPT ![s] = x]
    BY <1>7 DEF Session, Begin, Idle, Steps, Stages, Kinds
  <2> HIDE DEF x
  <2> QED BY <1>1, <2>1, SessionType
<1> QED BY <1>2, <1>3, <1>4, <1>5, <1>6, <1>7 DEF Local

-----------------------------------------------------------------------------
(* The session that acts: what SessionSound says of it afterwards.          *)

(* A session in the middle of a stage: of its deal nothing is broadcast.    *)
Calm(s) ==
  LET me == session[s] IN
  /\ me.deal # NoDeal /\ me.stage # "end" /\ me.outcome = "none"
  /\ me.deal \in Alone => \A t \in mempool : t.deal # me.deal

LEMMA Declines ==
  ASSUME SetupInv, faults'["decline"] <= faults["decline"], faults' \in [FaultKinds -> Nat]
  PROVE  NothingDeclined' => NothingDeclined
BY ConstantsAssumption DEF SetupInv, TypeOK, NothingDeclined, FaultKinds

LEMMA LocalSound ==
  ASSUME SetupInv, NEW s \in Sessions, Local(s)
  PROVE  SessionSound(s)'
<1> DEFINE me == session[s]
<1>1. TypeOK /\ me \in Session /\ SessionSound(s)
  BY DEF SetupInv, TypeOK
<1>2. UNCHANGED <<mempool, count, accepted, validator, approved, deposits, permits, rail>>
  BY LocalChain
<1>3. count \in Nat /\ \A t \in mempool : t.nonce = count
  BY <1>1 DEF SetupInv, TypeOK, TxSound
<1>4. CASE Refused(s) \/ Crash(s) \/ AllDone(s)
  <2>1. session'[s] = Idle
    BY <1>1, <1>4 DEF Refused, Crash, AllDone, Stop, TypeOK
  <2> QED BY <2>1, ConstantsAssumption DEF SessionSound, Idle
<1>5. CASE Skip(s) \/ Decline(s) \/ Receipt(s)
  <2>1. session'[s] = NextStage(s) /\ me.deal # NoDeal
    BY <1>1, <1>5 DEF Skip, Decline, Receipt, Advance, NextStage, TypeOK, At, SessionSound
  <2>2. me.deal \in Alone => \A t \in mempool : t.deal # me.deal
    BY <1>1, <1>3, <1>5 DEF Skip, Decline, Receipt, At, SessionSound, TxOf
  <2>3. me.stage = "rail" /\ NothingDeclined' => me.deal \in rail
    BY <1>1, <1>5, FaultTypes, ConstantsAssumption
       DEF Skip, Decline, Receipt, At, SessionSound, NothingDeclined, Done, TypeOK, SetupInv, FaultKinds
  <2>4. Following(me.stage) = "end" => me.stage = "rail"
    BY <1>1, <1>5 DEF Following, Session, Stages, Kinds, SessionSound, Skip, Decline, Receipt, At
  <2> QED BY <1>2, <2>1, <2>2, <2>3, <2>4 DEF SessionSound, NextStage, Idle
<1>6. CASE Wait(s)
  <2>1. session'[s] = [me EXCEPT !.pc = "look"] /\ me.stage # "end"
    BY <1>1, <1>6 DEF Wait, TypeOK
  <2>2. mempool = {}
    BY <1>3, <1>6 DEF Wait, Pending
  <2> QED BY <1>1, <1>2, <1>6, <2>1, <2>2 DEF SessionSound, Wait, At, Session
<1>7. CASE Ask(s)
  <2>1. session'[s] = [me EXCEPT !.pc = "asked"]
    BY <1>1, <1>7 DEF Ask, TypeOK
  <2>2. Calm(s)
    BY <1>1, <1>7 DEF Ask, At, SessionSound, Calm
  <2>3. me.stage = "deposit" => me.deal \notin approved
    BY <1>7 DEF Ask, Done
  <2> QED BY <1>1, <1>2, <2>1, <2>2, <2>3 DEF SessionSound, Calm, Session
<1>8. CASE SignPermit(s)
  <2>1. session'[s] = [me EXCEPT !.pc = "permitted",
                                 !.permit = IF me.stage = "deposit" THEN permits ELSE 0]
    BY <1>1, <1>8 DEF SignPermit, TypeOK
  <2>2. Calm(s)
    BY <1>1, <1>8 DEF SignPermit, At, SessionSound, Calm
  <2>3. me.deal \in Alone /\ me.stage = "deposit" => me.deal \notin approved
    BY <1>1, <1>8 DEF SignPermit, At, SessionSound
  <2> QED BY <1>1, <1>2, <2>1, <2>2, <2>3 DEF SessionSound, Calm, Session
<1>9. CASE TakeNonce(s)
  <2>1. session'[s] = [me EXCEPT !.pc = "numbered", !.nonce = count]
    BY <1>1, <1>9 DEF TakeNonce, TypeOK
  <2>2. Calm(s)
    BY <1>1, <1>9 DEF TakeNonce, At, SessionSound, Calm
  <2>3. me.deal \in Alone /\ me.stage = "deposit" => me.deal \notin approved
    BY <1>1, <1>9 DEF TakeNonce, At, SessionSound
  <2> QED BY <1>1, <1>2, <1>3, <2>1, <2>2, <2>3 DEF SessionSound, Calm, Session
<1>10. CASE Build(s)
  <2>1. session'[s] = [me EXCEPT !.pc = "built"]
    BY <1>1, <1>10 DEF Build, TypeOK
  <2>2. TxOf(s)' = TxOf(s)
    BY <1>1, <2>1 DEF TxOf, Session
  <2>3. Fits(TxOf(s))
    <3>1. me.stage \in Kinds
      BY <1>1, <1>10 DEF SessionSound, Build, At, Session, Stages
    <3> QED BY <1>10, <3>1 DEF Build, Accepts, Fits, TxOf, Kinds
  <2>4. Fits(TxOf(s))'
    BY <1>2, <2>2, <2>3 DEF Fits
  <2> QED BY <1>1, <1>2, <1>10, <2>1, <2>4 DEF SessionSound, Build, At, Session
<1>11. ASSUME NEW d \in Deals, Begin(s, d) PROVE SessionSound(s)'
  <2>1. session'[s] = [Idle EXCEPT !.pc = "look", !.deal = d, !.stage = "validator"]
    BY <1>1, <1>11 DEF Begin, TypeOK
  <2>2. mempool = {}
    BY <1>3, <1>11 DEF Begin, Pending
  <2> QED BY <1>2, <2>1, <2>2, ConstantsAssumption DEF SessionSound, Idle
<1> QED BY <1>4, <1>5, <1>6, <1>7, <1>8, <1>9, <1>10, <1>11 DEF Local
(* The broadcast: the transaction is alone in the mempool.                  *)
LEMMA SendStep ==
  ASSUME SetupInv, NEW s \in Sessions, Send(s)
  PROVE  /\ session' = [session EXCEPT ![s].pc = "waiting"]
         /\ mempool' = {TxOf(s)} /\ TxOf(s) \in Tx
         /\ UNCHANGED <<count, chain, told, faults>>
         /\ TxSound(TxOf(s))'
         /\ SessionSound(s)'
<1> DEFINE me == session[s]
<1>1. TypeOK /\ me \in Session /\ SessionSound(s) /\ me.pc = "built"
  BY DEF SetupInv, TypeOK, Send, At
<1>2. me.nonce = count
  BY <1>1 DEF SessionSound, Send, SendNonce, Session, TypeOK
<1>3. \A t \in mempool : t.nonce = count
  BY DEF SetupInv, TxSound
<1>4. me.stage \in Kinds /\ me.deal \in Deals
  BY <1>1 DEF SessionSound, Session, Stages
<1>5. [TxOf(s) EXCEPT !.nonce = me.nonce] = TxOf(s) /\ TxOf(s) \in Tx
  BY <1>1, <1>4 DEF TxOf, Tx, Session
<1>6. mempool' = {TxOf(s)}
  BY <1>2, <1>3, <1>5 DEF Send, SendNonce
<1>7. session' = [session EXCEPT ![s].pc = "waiting"]
  <2>1. [me EXCEPT !.pc = "waiting", !.nonce = me.nonce] = [me EXCEPT !.pc = "waiting"]
    BY <1>1 DEF Session
  <2>2. session' = [session EXCEPT ![s] = [me EXCEPT !.pc = "waiting", !.nonce = me.nonce]]
    BY <1>1 DEF Send, SendNonce, TypeOK
  <2> QED BY <2>1, <2>2
<1>8. TxOf(s)' = TxOf(s)
  BY <1>1, <1>7 DEF TxOf, TypeOK, Session
<1>9. UNCHANGED <<count, chain, told, faults>>
  BY DEF Send
<1>10. TxSound(TxOf(s))'
  <2>1. Fits(TxOf(s)) /\ (me.stage = "deposit" /\ me.deal \in Alone => me.deal \notin approved)
    BY <1>1, <1>2 DEF SessionSound
  <2>2. TxSound(TxOf(s))
    BY <1>2, <2>1 DEF TxSound, TxOf
  <2> QED BY <1>8, <1>9, <2>2 DEF TxSound, Fits, chain
<1>11. SessionSound(s)'
  <2>1. session'[s] = [me EXCEPT !.pc = "waiting"]
    BY <1>1, <1>7 DEF TypeOK
  <2> QED BY <1>1, <1>2, <1>4, <1>6, <1>8, <1>9, <2>1, ConstantsAssumption
          DEF SessionSound, Session, chain, TypeOK
<1> QED BY <1>5, <1>6, <1>7, <1>9, <1>10, <1>11

LEMMA SendBystander ==
  ASSUME SetupInv, NEW s \in Sessions, Send(s), NEW i \in Sessions, i # s
  PROVE  SessionSound(i)'
<1>1. /\ session'[i] = session[i] /\ session[i] \in Session
      /\ mempool' = {TxOf(s)} /\ UNCHANGED <<count, chain, told, faults>>
  BY SendStep DEF SetupInv, TypeOK
<1>2. SessionSound(i) /\ (session[i].deal \in Alone => session[s].deal # session[i].deal)
  BY DEF SetupInv, Apart
<1>3. session[i].deal \in Alone => \A t \in mempool' : t.deal # session[i].deal
  BY <1>1, <1>2 DEF TxOf
<1>4. TxOf(i)' = TxOf(i)
  BY <1>1 DEF TxOf
<1>5. Fits(TxOf(i))' <=> Fits(TxOf(i))
  BY <1>1, <1>4 DEF Fits, chain
<1>6. NothingDeclined' <=> NothingDeclined
  BY <1>1 DEF NothingDeclined
<1> QED BY <1>1, <1>2, <1>3, <1>5, <1>6 DEF SessionSound, chain

-----------------------------------------------------------------------------
(* A block.                                                                 *)

LEMMA LandStep ==
  ASSUME SetupInv, NEW t \in mempool, Land(t)
  PROVE  /\ mempool' = {} /\ count' = count + 1
         /\ ChainSound'
         /\ \A s \in Sessions : SessionSound(s)'
<1>1. TypeOK /\ TxSound(t) /\ ChainSound /\ t \in Tx
  BY DEF SetupInv, TypeOK
<1>2. mempool' = {} /\ count' = count + 1 /\ count \in Nat
  BY <1>1 DEF SetupInv, TxSound, Land, TypeOK
<1>3. ChainSound'
  <2>1. rail' \subseteq approved' /\ approved' \subseteq validator'
    BY <1>1 DEF ChainSound, Land, Accepts
  <2>2. ASSUME NEW d \in Alone PROVE deposits'[d] = IF d \in approved' THEN 1 ELSE 0
    <3>1. d \in Deals
      BY ConstantsAssumption
    <3>2. CASE t.kind = "deposit" /\ t.deal = d
      BY <1>1, <3>1, <3>2 DEF ChainSound, TxSound, Land
    <3>3. CASE ~(t.kind = "deposit" /\ t.deal = d)
      BY <1>1, <3>1, <3>3 DEF ChainSound, Land, TypeOK
    <3> QED BY <3>2, <3>3
  <2> QED BY <2>1, <2>2 DEF ChainSound
<1>4. ASSUME NEW s \in Sessions PROVE SessionSound(s)'
  <2> DEFINE me == session[s]
  <2>1. SessionSound(s) /\ me \in Session
    BY <1>1 DEF SetupInv, TypeOK
  <2>2. \/ session'[s] = me
        \/ /\ me.pc = "waiting" /\ t = TxOf(s)
           /\ \E o \in {"ok", "reverted"} :
                /\ session'[s] = [me EXCEPT !.outcome = o]
                /\ o = "ok" /\ t.kind = "rail" => t.deal \in rail'
    BY DEF Land, At
  <2>3. me.deal \in Alone /\ me.pc # "waiting" /\ me.deal \notin approved => me.deal \notin approved'
    BY <2>1 DEF SessionSound, Land
  <2>4. rail \subseteq rail' /\ (NothingDeclined' <=> NothingDeclined)
    BY DEF Land, NothingDeclined
  <2>5. CASE session'[s] = me
    BY <1>2, <2>1, <2>3, <2>4, <2>5 DEF SessionSound, Session
  <2>6. CASE session'[s] # me
    <3>1. PICK o \in {"ok", "reverted"} :
            session'[s] = [me EXCEPT !.outcome = o] /\ (o = "ok" /\ me.stage = "rail" => me.deal \in rail')
      BY <2>2, <2>6 DEF TxOf
    <3>2. me.pc = "waiting" /\ me.nonce = count
      BY <1>1, <2>2, <2>6 DEF TxOf, TxSound
    <3> QED BY <1>2, <2>1, <3>1, <3>2 DEF SessionSound, Session
  <2> QED BY <2>5, <2>6
<1> QED BY <1>2, <1>3, <1>4
-----------------------------------------------------------------------------
(* The inductive step.                                                      *)

LEMMA SetupInit == Init => SetupInv
<1> SUFFICES ASSUME Init PROVE SetupInv
  OBVIOUS
<1>1. TypeOK
  BY IdleType, ConstantsAssumption DEF Init, TypeOK
<1>2. \A s \in Sessions : SessionSound(s)
  BY ConstantsAssumption DEF Init, SessionSound, Idle
<1>3. ChainSound /\ Apart
  BY ConstantsAssumption DEF Init, ChainSound, Apart, Idle
<1>4. DoneUnlessDeclined /\ faults["decline"] <= MaxFaults["decline"]
  BY ConstantsAssumption DEF Init, DoneUnlessDeclined, AllDoneTruthful, FaultKinds
<1> QED BY <1>1, <1>2, <1>3, <1>4 DEF SetupInv, Init

LEMMA LocalApart ==
  ASSUME SetupInv, NEW s \in Sessions, Local(s)
  PROVE  Apart'
<1>1. TypeOK /\ Apart
  BY DEF SetupInv
<1>2. \A i \in Sessions : i # s => session'[i] = session[i]
  BY LocalChain
<1>3. CASE \E d \in Deals : Begin(s, d)
  <2>1. PICK d \in Deals : Begin(s, d)
    BY <1>3
  <2>2. session'[s].deal = d /\ (d \in Alone => \A i \in Sessions : session[i].deal # d)
    BY <1>1, <2>1 DEF Begin, TypeOK, Idle
  <2> QED BY <1>1, <1>2, <2>2 DEF Apart
<1>4. CASE ~\E d \in Deals : Begin(s, d)
  <2>1. CASE Refused(s) \/ Crash(s) \/ AllDone(s)
    <3>1. session'[s].deal = NoDeal
      BY <1>1, <2>1 DEF Refused, Crash, AllDone, Stop, TypeOK, Idle
    <3> QED BY <1>1, <1>2, <3>1, ConstantsAssumption DEF Apart
  <2>2. CASE ~(Refused(s) \/ Crash(s) \/ AllDone(s))
    <3>1. session'[s].deal = session[s].deal
      <4>1. session[s] \in Session /\ session \in [Sessions -> Session]
        BY <1>1 DEF TypeOK
      <4>2. CASE Skip(s) \/ Decline(s) \/ Receipt(s)
        BY <4>1, <4>2 DEF Skip, Decline, Receipt, Advance, Idle
      <4>3. CASE Wait(s) \/ Ask(s) \/ SignPermit(s) \/ TakeNonce(s) \/ Build(s)
        BY <4>1, <4>3 DEF Wait, Ask, SignPermit, TakeNonce, Build, Session
      <4> QED BY <1>4, <2>2, <4>2, <4>3 DEF Local
    <3> QED BY <1>1, <1>2, <3>1 DEF Apart
  <2> QED BY <2>1, <2>2
<1> QED BY <1>3, <1>4

LEMMA LocalDone ==
  ASSUME SetupInv, NEW s \in Sessions, Local(s)
  PROVE  told' \subseteq Deals /\ DoneUnlessDeclined'
<1>1. TypeOK /\ SessionSound(s) /\ DoneUnlessDeclined
  BY DEF SetupInv
<1>2. UNCHANGED rail /\ (NothingDeclined' => NothingDeclined)
  BY LocalChain, Declines
<1>3. CASE AllDone(s)
  <2>1. told' = told \cup {session[s].deal} /\ session[s].pc = "wait" /\ session[s].stage = "end"
    BY <1>3 DEF AllDone, At
  <2>2. session[s].deal \in Deals /\ (NothingDeclined => session[s].deal \in rail)
    BY <1>1, <2>1 DEF SessionSound, TypeOK, Session
  <2> QED BY <1>1, <1>2, <2>1, <2>2 DEF DoneUnlessDeclined, AllDoneTruthful, TypeOK
<1>4. CASE ~AllDone(s)
  <2>1. told' = told
    BY <1>4 DEF Local, Wait, Skip, Ask, SignPermit, TakeNonce, Build, Decline, Receipt, Refused,
                Crash, Begin
  <2> QED BY <1>1, <1>2, <2>1 DEF DoneUnlessDeclined, AllDoneTruthful, TypeOK
<1> QED BY <1>3, <1>4

LEMMA LocalStep ==
  ASSUME SetupInv, NEW s \in Sessions, Local(s)
  PROVE  SetupInv'
<1>1. /\ UNCHANGED <<mempool, count, accepted, validator, approved, deposits, permits, rail>>
      /\ faults' \in [FaultKinds -> Nat] /\ faults'["decline"] <= faults["decline"]
      /\ late' \subseteq Sessions
      /\ \A i \in Sessions : i # s => session'[i] = session[i]
  BY LocalChain
<1>2. TypeOK'
  BY <1>1, LocalType, LocalDone DEF SetupInv, TypeOK
<1>3. \A t \in mempool' : TxSound(t)'
  BY <1>1, TxsStay
<1>4. \A i \in Sessions : SessionSound(i)'
  BY <1>1, Declines, Bystander, LocalSound
<1>5. ChainSound'
  BY <1>1 DEF SetupInv, ChainSound
<1>6. faults'["decline"] <= MaxFaults["decline"]
  BY <1>1, ConstantsAssumption DEF SetupInv, TypeOK, FaultKinds
<1> QED BY <1>2, <1>3, <1>4, <1>5, <1>6, LocalApart, LocalDone DEF SetupInv

(* Evictions, lost deals, late permits: the chain and the sessions stay.    *)
LEMMA OutsideStep ==
  ASSUME SetupInv,
         (\E t \in mempool : Drop(t)) \/ (\E d \in Deals : Lose(d)) \/ (\E s \in Sessions : Delay(s))
  PROVE  SetupInv'
<1>1. TypeOK
  BY DEF SetupInv
<1>2. /\ UNCHANGED <<session, count, validator, approved, deposits, permits, rail, told>>
      /\ mempool' \subseteq mempool /\ accepted' \subseteq accepted /\ late' \subseteq Sessions
  BY <1>1 DEF Drop, Lose, Delay, chain, TypeOK
<1>3. faults' \in [FaultKinds -> Nat] /\ faults'["decline"] <= faults["decline"]
  BY <1>1, FaultTypes DEF Drop, Lose, Delay, FaultKinds
<1>4. NothingDeclined' => NothingDeclined
  BY <1>3, Declines
<1>5. \A s \in Sessions : SessionSound(s)'
  BY <1>2, <1>4, Bystander
<1>6. \A t \in mempool' : TxSound(t)'
  BY <1>2, TxsStay
<1>7. TypeOK' /\ ChainSound' /\ Apart'
  BY <1>2, <1>3 DEF SetupInv, TypeOK, ChainSound, Apart
<1>8. DoneUnlessDeclined' /\ faults'["decline"] <= MaxFaults["decline"]
  BY <1>1, <1>2, <1>3, <1>4, ConstantsAssumption
     DEF SetupInv, DoneUnlessDeclined, AllDoneTruthful, TypeOK, FaultKinds
<1> QED BY <1>5, <1>6, <1>7, <1>8 DEF SetupInv

LEMMA SetupStep == ASSUME SetupInv, [Next]_vars PROVE SetupInv'
<1>1. TypeOK
  BY DEF SetupInv
<1>2. ASSUME NEW s \in Sessions, Send(s) PROVE SetupInv'
  <2>1. /\ session' = [session EXCEPT ![s].pc = "waiting"]
        /\ mempool' = {TxOf(s)} /\ TxOf(s) \in Tx
        /\ UNCHANGED <<count, chain, told, faults>>
        /\ TxSound(TxOf(s))'
    BY <1>2, SendStep
  <2>2. session' \in [Sessions -> Session] /\ \A i \in Sessions : session'[i].deal = session[i].deal
    BY <1>1, <2>1 DEF TypeOK, Session, Steps
  <2>3. TypeOK' /\ ChainSound' /\ Apart'
    BY <2>1, <2>2 DEF SetupInv, TypeOK, ChainSound, Apart, chain
  <2>4. DoneUnlessDeclined' /\ faults'["decline"] <= MaxFaults["decline"]
    BY <2>1 DEF SetupInv, DoneUnlessDeclined, AllDoneTruthful, NothingDeclined, chain
  <2>5. SessionSound(s)' /\ \A i \in Sessions : i # s => SessionSound(i)'
    BY <1>2, SendStep, SendBystander
  <2>6. \A t \in mempool' : TxSound(t)'
    <3>1. TxOf(s)' = TxOf(s)
      <4>1. session[s] \in Session /\ session'[s] = [session[s] EXCEPT !.pc = "waiting"]
        BY <1>1, <2>1 DEF TypeOK
      <4> QED BY <4>1 DEF TxOf, Session
    <3> SUFFICES ASSUME NEW t \in mempool' PROVE TxSound(t)'
      OBVIOUS
    <3>2. t = TxOf(s) /\ t = TxOf(s)'
      BY <2>1, <3>1
    <3> QED BY <2>1, <3>2
  <2> QED BY <2>3, <2>4, <2>5, <2>6 DEF SetupInv
<1>3. ASSUME NEW t \in mempool, Land(t) PROVE SetupInv'
  <2>1. mempool' = {} /\ count' = count + 1 /\ ChainSound' /\ \A s \in Sessions : SessionSound(s)'
    BY <1>3, LandStep
  <2>2. ASSUME NEW s \in Sessions
        PROVE  session'[s] \in Session /\ session'[s].deal = session[s].deal
    <3>1. session'[s] = session[s] \/ \E o \in {"ok", "reverted"} : session'[s] = [session[s] EXCEPT !.outcome = o]
      BY <1>3 DEF Land
    <3> QED BY <1>1, <3>1 DEF TypeOK, Session
  <2>3. session' \in [Sessions -> Session]
    BY <1>3, <2>2 DEF Land
  <2>4. t \in Tx /\ UNCHANGED <<accepted, late, told, faults>> /\ rail \subseteq rail'
    BY <1>1, <1>3 DEF TypeOK, Land
  <2>5. deposits' \in [Deals -> Nat] /\ permits' \in Nat
    BY <1>1, <1>3 DEF TypeOK, Land
  <2>6. validator' \subseteq Deals /\ approved' \subseteq Deals /\ rail' \subseteq Deals
    BY <1>1, <1>3, <2>4 DEF TypeOK, Land, Tx
  <2>7. TypeOK'
    BY <1>1, <2>1, <2>3, <2>4, <2>5, <2>6 DEF TypeOK
  <2>8. Apart'
    BY <2>2 DEF SetupInv, Apart
  <2>9. DoneUnlessDeclined' /\ faults'["decline"] <= MaxFaults["decline"]
    BY <2>4 DEF SetupInv, DoneUnlessDeclined, AllDoneTruthful, NothingDeclined
  <2> QED BY <2>1, <2>7, <2>8, <2>9 DEF SetupInv
<1>4. CASE UNCHANGED vars
  <2>1. /\ UNCHANGED <<session, mempool, count, accepted, validator, approved, deposits, permits>>
        /\ UNCHANGED <<late, rail, told, faults>>
    BY <1>4 DEF vars, chain
  <2>2. (\A s \in Sessions : SessionSound(s)') /\ \A t \in mempool' : TxSound(t)'
    BY <2>1, Bystander, TxsStay DEF NothingDeclined
  <2> QED BY <2>1, <2>2
          DEF SetupInv, TypeOK, ChainSound, Apart, DoneUnlessDeclined, AllDoneTruthful, NothingDeclined
<1> QED BY <1>2, <1>3, <1>4, LocalStep, OutsideStep DEF Next, Step, Local

LEMMA Invariant == Spec => []SetupInv
BY SetupInit, SetupStep, PTL DEF Spec

-----------------------------------------------------------------------------
(* The variables of init-deal keep their types.                             *)
THEOREM SetupTypes == Spec => []TypeOK
<1>1. SetupInv => TypeOK
  BY DEF SetupInv
<1> QED BY <1>1, Invariant, PTL

(* The first month of a deal is deposited once, if the deal is worked on in *)
(* one terminal at a time, for any number of crashes, evictions and         *)
(* sessions for other deals.                                                *)
THEOREM DepositedOnce == Spec => []DepositOnce
<1>1. SetupInv => DepositOnce
  BY DEF SetupInv, ChainSound, DepositOnce
<1> QED BY <1>1, Invariant, PTL

(* What is broadcast reverts for a lost deal or a late permit only, with    *)
(* any number of sessions of the wallet.                                    *)
THEOREM BroadcastsWork == Spec => []SentWorks
<1>1. SetupInv => SentWorks
  BY DEF SetupInv, TxSound, Fits, SentWorks, Accepts, TypeOK, Tx, Kinds
<1> QED BY <1>1, Invariant, PTL

(* A transaction that is taken moves its deal to the next stage ...         *)
LEMMA LandMoves ==
  ASSUME SetupInv, NEW t \in mempool, Land(t), t.deal \in Alone, Accepts(t)
  PROVE  Setup!Next
<1> DEFINE d == t.deal
<1>1. TypeOK /\ ChainSound /\ TxSound(t) /\ t \in Tx /\ d \in Deals
  BY ConstantsAssumption DEF SetupInv, TypeOK
<1>2. CASE t.kind = "validator"
  <2>1. d \notin validator /\ d \notin approved /\ d \notin rail
    BY <1>1, <1>2 DEF TxSound, Fits, ChainSound
  <2>2. validator' = validator \cup {d} /\ UNCHANGED <<approved, rail>> /\ SetupDeposits' = SetupDeposits
    BY <1>1, <1>2, ConstantsAssumption DEF Land, SetupDeposits, TypeOK
  <2>3. SetupStage[d] = "new" /\ SetupStage' = [SetupStage EXCEPT ![d] = "deployed"]
    BY <2>1, <2>2 DEF SetupStage
  <2>4. Setup!Deploy(d)
    BY <2>2, <2>3 DEF Setup!Deploy, Setup!Advance
  <2> QED BY <2>4 DEF Setup!Next
<1>3. CASE t.kind = "deposit"
  <2>1. d \in validator /\ d \notin approved /\ d \notin rail /\ deposits[d] = 0
    BY <1>1, <1>3 DEF TxSound, Fits, ChainSound
  <2>2. approved' = approved \cup {d} /\ UNCHANGED <<validator, rail>>
    BY <1>1, <1>3 DEF Land
  <2>3. deposits' = [e \in Deals |-> IF e = d THEN 1 ELSE deposits[e]]
    BY <1>1, <1>3, <2>1 DEF Land, TypeOK
  <2>4. SetupDeposits[d] = 0 /\ SetupDeposits' = [SetupDeposits EXCEPT ![d] = 1]
    BY <1>1, <2>1, <2>3, ConstantsAssumption DEF SetupDeposits
  <2>5. SetupStage[d] = "deployed" /\ SetupStage' = [SetupStage EXCEPT ![d] = "funded"]
    BY <2>1, <2>2 DEF SetupStage
  <2>6. Setup!Fund(d)
    BY <2>4, <2>5 DEF Setup!Fund, Setup!Advance
  <2> QED BY <2>6 DEF Setup!Next
<1>4. CASE t.kind = "rail"
  <2>1. d \in approved /\ d \notin rail
    BY <1>1, <1>4 DEF TxSound, Fits
  <2>2. rail' = rail \cup {d} /\ UNCHANGED <<validator, approved>> /\ SetupDeposits' = SetupDeposits
    BY <1>1, <1>4, ConstantsAssumption DEF Land, SetupDeposits, TypeOK
  <2>3. SetupStage[d] = "funded" /\ SetupStage' = [SetupStage EXCEPT ![d] = "ready"]
    BY <2>1, <2>2 DEF SetupStage
  <2>4. Setup!OpenRail(d)
    BY <2>2, <2>3 DEF Setup!OpenRail, Setup!Advance
  <2> QED BY <2>4 DEF Setup!Next
<1> QED BY <1>1, <1>2, <1>3, <1>4 DEF Tx, Kinds

(* ... and nothing else does.                                               *)
LEMMA SetupMoves ==
  SetupInv /\ [Next]_vars => [Setup!Next]_<<SetupStage, SetupDeposits>>
<1> SUFFICES ASSUME SetupInv, [Next]_vars, ~UNCHANGED <<SetupStage, SetupDeposits>>
             PROVE  Setup!Next
  OBVIOUS
<1>1. TypeOK /\ ~UNCHANGED <<validator, approved, rail, deposits>>
  BY DEF SetupInv, SetupStage, SetupDeposits
<1>2. PICK t \in mempool : Land(t)
  <2>1. ASSUME NEW s \in Sessions, Local(s) PROVE FALSE
    BY <1>1, <2>1, LocalChain
  <2>2. ASSUME NEW s \in Sessions, Send(s) PROVE FALSE
    BY <1>1, <2>2 DEF Send, chain
  <2>3. ~UNCHANGED vars
    BY <1>1 DEF vars, chain
  <2> QED BY <1>1, <2>1, <2>2, <2>3 DEF Next, Step, Local, Drop, Lose, Delay, chain
<1>3. t.deal \in Alone /\ Accepts(t)
  <2>1. CASE ~Accepts(t)
    BY <1>1, <1>2, <2>1 DEF Land, TypeOK
  <2>2. CASE t.deal \notin Alone
    BY <1>1, <1>2, <2>2, ConstantsAssumption DEF Land, TypeOK, SetupStage, SetupDeposits
  <2> QED BY <2>1, <2>2
<1> QED BY <1>2, <1>3, LandMoves

(* The sessions implement the setup of a deal: validator, first month with  *)
(* the approval, rail, each once and in this order.                         *)
THEOREM SessionsImplementSetup == Spec => ImplementsSetup
<1>1. Init => Setup!Init
  BY ConstantsAssumption DEF Init, Setup!Init, SetupStage, SetupDeposits
<1> QED BY <1>1, SetupMoves, Invariant, PTL DEF Spec, ImplementsSetup, Setup!Spec

(* "All done!" is true where no transaction was declined.                   *)
THEOREM DoneIsDone == Spec => []DoneUnlessDeclined
<1>1. SetupInv => DoneUnlessDeclined
  BY DEF SetupInv
<1> QED BY <1>1, Invariant, PTL
=============================================================================
