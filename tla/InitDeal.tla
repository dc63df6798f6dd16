-------------------------------- MODULE InitDeal --------------------------------
(***************************************************************************)
(* `client init-deal`: validator, deposit and operator approval, rail; and *)
(* the way every command that asks for each transaction sends it           *)
(* (sign_and_send_tx outside batch_confirmation).                          *)
(*                                                                         *)
(* A session reads the chain, asks, takes a nonce when nothing of the      *)
(* wallet is pending (module NonceReads), builds the transaction, asks     *)
(* again, sends and waits for the receipt.  Between any two of these it    *)
(* may be interrupted for good, and what it broadcast may still land.      *)
(***************************************************************************)
EXTENDS Integers, FiniteSets

CONSTANTS
  Sessions,    \* processes that may run the command, one wallet
  Deals,
  MaxFaults,   \* kind of disturbance -> how often it may happen ("all": together)
  Alone,       \* deals the command is run for in one terminal at a time
  NoDeal

FaultKinds == {"all", "crash", "evict", "decline", "lose", "late"}

ASSUME ConstantsAssumption ==
  /\ MaxFaults \in [FaultKinds -> Nat]
  /\ Alone \subseteq Deals
  /\ NoDeal \notin Deals

VARIABLES
  session,    \* what each process knows
  mempool,    \* transactions of the wallet that wait for a block
  count,      \* the wallet's "latest" transaction count
  accepted,   \* deals in state ACCEPTED
  validator,  \* deals that have a validator
  approved,   \* deals whose validator is an approved operator
  deposits,   \* deal -> first months deposited for it
  permits,    \* the token's permit nonce of the wallet
  late,       \* processes whose permit is past its deadline
  rail,       \* deals that have a rail
  told,       \* deals for which a session said "All done!"
  faults      \* kind of disturbance -> how often it may still happen

chain == <<accepted, validator, approved, deposits, permits, late, rail>>
vars == <<session, mempool, count, chain, told, faults>>

(* The three transactions of the command, in its order.                     *)
Kinds == {"validator", "deposit", "rail"}
Stages == Kinds \cup {"end"}
Following(stage) ==
  CASE stage = "validator" -> "deposit" [] stage = "deposit" -> "rail" [] stage = "rail" -> "end"

Steps == {"idle", "wait", "look", "asked", "permitted", "numbered", "built", "waiting"}
Idle == [pc |-> "idle", deal |-> NoDeal, stage |-> "end", permit |-> 0, nonce |-> 0,
         outcome |-> "none"]
Session == [pc : Steps, deal : Deals \cup {NoDeal}, stage : Stages, permit : Nat, nonce : Nat,
            outcome : {"none", "ok", "reverted"}]
Tx == [nonce : Nat, by : Sessions, deal : Deals, kind : Kinds, permit : Nat]

Init ==
  /\ session = [s \in Sessions |-> Idle]
  /\ mempool = {}
  /\ count = 0
  /\ accepted = Deals
  /\ validator = {} /\ approved = {} /\ rail = {}
  /\ deposits = [d \in Deals |-> 0]
  /\ permits = 0 /\ late = {}
  /\ told = {}
  /\ faults = MaxFaults

-----------------------------------------------------------------------------
(* The contracts, as the wrappers describe them: one validator per deal, a  *)
(* permit is good for one deposit within an hour, a rail needs the approval *)
(* and is created once.  A deposit does not ask whether there was one       *)
(* before.  The wallet has tokens for every deposit.                        *)
Accepts(tx) ==
  /\ tx.kind # "deposit" => tx.deal \in accepted
  /\ CASE tx.kind = "validator" -> tx.deal \notin validator
       [] tx.kind = "deposit" -> /\ tx.deal \in validator
                                 /\ tx.permit = permits /\ tx.by \notin late
       [] tx.kind = "rail" -> tx.deal \in approved \ rail

(* Mutated form: nothing is ever waited for.                                *)
NeverPending == FALSE

Pending == \E t \in mempool : t.nonce = count

At(s, step) == session[s].pc = step
Stop(s) == session' = [session EXCEPT ![s] = Idle]

TxOf(s) == [nonce |-> session[s].nonce, by |-> s, deal |-> session[s].deal,
            kind |-> session[s].stage, permit |-> session[s].permit]

(* The session goes on with the next stage, after the pending transactions. *)
Advance(s) ==
  session' = [session EXCEPT ![s] = [Idle EXCEPT !.pc = "wait", !.deal = session[s].deal,
                                                 !.stage = Following(session[s].stage)]]

-----------------------------------------------------------------------------
(* wait_for_pending_transactions, then the deal must be ACCEPTED.           *)
Begin(s, d) ==
  /\ At(s, "idle")
  /\ d \in Alone => \A other \in Sessions : session[other].deal # d
  /\ ~Pending
  /\ d \in accepted
  /\ session' = [session EXCEPT ![s] = [Idle EXCEPT !.pc = "look", !.deal = d,
                                                    !.stage = "validator"]]
  /\ UNCHANGED <<mempool, count, chain, told, faults>>

(* wait_for_pending_transactions between two stages.                        *)
Wait(s) ==
  /\ At(s, "wait")
  /\ ~Pending
  /\ session[s].stage # "end"
  /\ session' = [session EXCEPT ![s].pc = "look"]
  /\ UNCHANGED <<mempool, count, chain, told, faults>>

(* "All done!": printed when the last wait is over.                         *)
AllDone(s) ==
  /\ At(s, "wait")
  /\ ~Pending
  /\ session[s].stage = "end"
  /\ told' = told \cup {session[s].deal}
  /\ Stop(s)
  /\ UNCHANGED <<mempool, count, chain, faults>>

(* Mutated forms: the deposit is looked for in the rail, the rail in the    *)
(* validator.                                                               *)
DoneIfRail(stage, d) == IF stage = "validator" THEN d \in validator ELSE d \in rail
DoneIfDeployed(stage, d) == IF stage = "deposit" THEN d \in approved ELSE d \in validator

(* What a stage finds done already, on a fresh read of the deal ...         *)
Done(stage, d) == CASE stage = "validator" -> d \in validator
                    [] stage = "deposit" -> d \in approved
                    [] stage = "rail" -> d \in rail

(* Mutated form: a deal that was begun before is refused.                   *)
ReadyIfNew(stage, d) ==
  /\ stage = "validator" => d \notin validator
  /\ stage = "rail" => d \in approved

(* ... and what it must find: the work of the stages before it.             *)
Ready(stage, d) ==
  /\ stage \in {"deposit", "rail"} => d \in validator
  /\ stage = "rail" => d \in approved

Skip(s) ==
  /\ At(s, "look")
  /\ Ready(session[s].stage, session[s].deal)
  /\ Done(session[s].stage, session[s].deal)
  /\ Advance(s)
  /\ UNCHANGED <<mempool, count, chain, told, faults>>

(* The first prompt of the stage, answered yes.                             *)
Ask(s) ==
  /\ At(s, "look")
  /\ Ready(session[s].stage, session[s].deal)
  /\ ~Done(session[s].stage, session[s].deal)
  /\ session' = [session EXCEPT ![s].pc = "asked"]
  /\ UNCHANGED <<mempool, count, chain, told, faults>>

(* sign_filecoinpay_permit, with the token's nonce and an hour from now.    *)
SignPermit(s) ==
  /\ At(s, "asked")
  /\ session' = [session EXCEPT ![s].pc = "permitted",
                                ![s].permit = IF session[s].stage = "deposit" THEN permits ELSE 0]
  /\ late' = late \ {s}
  /\ UNCHANGED <<mempool, count, accepted, validator, approved, deposits, permits, rail, told, faults>>

(* get_address_nonce: waits, then the next nonce.                           *)
TakeNonce(s) ==
  /\ At(s, "permitted")
  /\ ~Pending
  /\ session' = [session EXCEPT ![s].pc = "numbered", ![s].nonce = count]
  /\ UNCHANGED <<mempool, count, chain, told, faults>>

(* build_transaction estimates the gas.                                     *)
Build(s) ==
  /\ At(s, "numbered")
  /\ Accepts(TxOf(s))
  /\ session' = [session EXCEPT ![s].pc = "built"]
  /\ UNCHANGED <<mempool, count, chain, told, faults>>

(* Mutated form: the nonce is read again after the confirmation.            *)
NonceAtSend(s) == count

(* The nonce of the transaction is the one it was built with.               *)
SendNonce(s) == session[s].nonce

(* The final confirmation, answered yes: broadcast.                         *)
Send(s) ==
  /\ At(s, "built")
  /\ SendNonce(s) >= count
  /\ mempool' = {t \in mempool : t.nonce # SendNonce(s)}
                  \cup {[TxOf(s) EXCEPT !.nonce = SendNonce(s)]}
  /\ session' = [session EXCEPT ![s].pc = "waiting", ![s].nonce = SendNonce(s)]
  /\ UNCHANGED <<count, chain, told, faults>>

Fault(kind) ==
  /\ faults[kind] > 0 /\ faults["all"] > 0
  /\ faults' = [faults EXCEPT ![kind] = @ - 1, !["all"] = @ - 1]

(* ... answered no: a dry run, whose result looks like one that was sent.   *)
Decline(s) ==
  /\ Fault("decline")
  /\ At(s, "built")
  /\ Advance(s)
  /\ UNCHANGED <<mempool, count, chain, told>>

Receipt(s) ==
  /\ At(s, "waiting")
  /\ session[s].outcome = "ok"
  /\ Advance(s)
  /\ UNCHANGED <<mempool, count, chain, told, faults>>

(* A check failed: the command prints why and ends.                         *)
Fails(s) ==
  LET me == session[s] IN
  \/ me.pc = "look" /\ ~Ready(me.stage, me.deal)
  \/ me.pc = "numbered" /\ ~Accepts(TxOf(s))
  \/ me.pc = "built" /\ (me.nonce < count \/ \E t \in mempool : t.nonce = me.nonce)
  \/ me.pc = "waiting" /\ me.outcome = "reverted"
  \/ me.pc = "waiting" /\ me.outcome = "none" /\ TxOf(s) \notin mempool

Refused(s) ==
  /\ Fails(s)
  /\ Stop(s)
  /\ UNCHANGED <<mempool, count, chain, told, faults>>

Step(s) ==
  \/ Wait(s) \/ AllDone(s) \/ Skip(s) \/ Ask(s) \/ SignPermit(s) \/ TakeNonce(s)
  \/ Build(s) \/ Send(s) \/ Receipt(s) \/ Refused(s)

-----------------------------------------------------------------------------
(* A block takes the wallet's next transaction.                             *)
Land(t) ==
  LET ok == Accepts(t)
      does(kind) == ok /\ t.kind = kind
  IN  /\ t.nonce = count
      /\ count' = count + 1
      /\ mempool' = {u \in mempool : u.nonce # count}
      /\ validator' = validator \cup {d \in {t.deal} : does("validator")}
      /\ approved' = approved \cup {d \in {t.deal} : does("deposit")}
      /\ rail' = rail \cup {d \in {t.deal} : does("rail")}
      /\ deposits' = [d \in Deals |-> deposits[d] + (IF does("deposit") /\ d = t.deal THEN 1 ELSE 0)]
      /\ permits' = permits + (IF does("deposit") THEN 1 ELSE 0)
      /\ session' = [s \in Sessions |->
                       IF At(s, "waiting") /\ t = TxOf(s)
                         THEN [session[s] EXCEPT !.outcome = IF ok THEN "ok" ELSE "reverted"]
                         ELSE session[s]]
      /\ UNCHANGED <<accepted, late, told, faults>>

(* Ctrl-C, a prompt aborted, an RPC error, a receipt that does not come.    *)
Crash(s) ==
  /\ Fault("crash")
  /\ ~At(s, "idle")
  /\ Stop(s)
  /\ UNCHANGED <<mempool, count, chain, told>>

(* The node evicts a transaction.  (get_address_nonce may then poll for     *)
(* ever, see NonceReads: what is said of the end of a session supposes that *)
(* nothing is evicted.)                                                     *)
Drop(t) ==
  /\ Fault("evict")
  /\ mempool' = mempool \ {t}
  /\ UNCHANGED <<session, count, chain, told>>

(* The admin rejects or terminates the deal, or it expires.                 *)
Lose(d) ==
  /\ Fault("lose")
  /\ d \in accepted
  /\ accepted' = accepted \ {d}
  /\ UNCHANGED <<session, mempool, count, validator, approved, deposits, permits, late, rail, told>>

(* The hour of a permit is over before the final confirmation or the block. *)
Delay(s) ==
  /\ Fault("late")
  /\ \/ session[s].stage = "deposit" /\ session[s].pc \in {"permitted", "numbered", "built"}
     \/ \E t \in mempool : t.by = s /\ t.kind = "deposit"
  /\ late' = late \cup {s}
  /\ UNCHANGED <<session, mempool, count, accepted, validator, approved, deposits, permits, rail, told>>

Next ==
  \/ \E s \in Sessions : Step(s) \/ Decline(s) \/ Crash(s) \/ Delay(s)
  \/ \E s \in Sessions, d \in Deals : Begin(s, d)
  \/ \E t \in mempool : Land(t) \/ Drop(t)
  \/ \E d \in Deals : Lose(d)

Spec == Init /\ [][Next]_vars

(* A session goes on while the client says yes, blocks take what they can,  *)
(* and the client starts the command again for a deal that has no rail.     *)
Fairness ==
  /\ \A s \in Sessions : WF_vars(Step(s))
  /\ \A d \in Deals : SF_vars(\E s \in Sessions : Begin(s, d))
  /\ WF_vars(\E t \in mempool : Land(t))

FairSpec == Spec /\ Fairness

-----------------------------------------------------------------------------
(* Properties.                                                              *)

TypeOK ==
  /\ session \in [Sessions -> Session]
  /\ mempool \subseteq Tx
  /\ count \in Nat /\ permits \in Nat /\ faults \in [FaultKinds -> Nat]
  /\ accepted \subseteq Deals /\ validator \subseteq Deals
  /\ late \subseteq Sessions
  /\ approved \subseteq Deals /\ rail \subseteq Deals /\ told \subseteq Deals
  /\ deposits \in [Deals -> Nat]

(* The first month is deposited at most once for a deal that is worked on   *)
(* in one terminal at a time, however sessions die and are started again:   *)
(* a session looks for the approval only when nothing a dead session sent   *)
(* can still land.  Sessions for other deals of the wallet do no harm.      *)
DepositOnce == \A d \in Alone : deposits[d] <= 1

(* A transaction a session broadcast can do what it is for: a session that  *)
(* was let through its checks is not reverted but by a lost deal or an      *)
(* expired permit, not even by a second session of the wallet.              *)
SentWorks ==
  \A t \in mempool : t.deal \in accepted /\ t.by \notin late /\ t.nonce = count => Accepts(t)

(* What the sessions do to such a deal is the setup of a deal, in its order *)
(* and each part once.                                                      *)
SetupStage == [d \in Alone |-> IF d \in rail THEN "ready"
                               ELSE IF d \in approved THEN "funded"
                               ELSE IF d \in validator THEN "deployed"
                               ELSE "new"]
SetupDeposits == [d \in Alone |-> deposits[d]]
Setup == INSTANCE DealSetup WITH Deals <- Alone, stage <- SetupStage, deposits <- SetupDeposits
ImplementsSetup == Setup!Spec

(* "All done! Run `client submit-ddo`": the deal has its rail.              *)
AllDoneTruthful == told \subseteq rail

(* It has, if the client has not declined to send any transaction.          *)
NothingDeclined == faults["decline"] = MaxFaults["decline"]
DoneUnlessDeclined == NothingDeclined => AllDoneTruthful

(* The wait for a wallet with nothing pending may not end after an eviction *)
(* (see NonceReads).                                                        *)
NothingEvicted == faults["evict"] = MaxFaults["evict"]

(* Re-running the command finishes the setup of every deal that stays.      *)
EventuallyReady == []NothingEvicted => <>(\A d \in Deals : d \in rail \/ d \notin accepted)

-----------------------------------------------------------------------------
(* The inductive invariant behind the safety properties.                    *)

(* A transaction does what it is for, if its deal and its permit last.      *)
Fits(tx) ==
  CASE tx.kind = "validator" -> tx.deal \notin validator
    [] tx.kind = "deposit" -> tx.deal \in validator /\ tx.permit = permits
    [] tx.kind = "rail" -> tx.deal \in approved \ rail

(* What is broadcast fits and is the wallet's next transaction; the first   *)
(* month of a deal in one terminal is still to be deposited.                *)
TxSound(t) ==
  /\ t.nonce = count /\ Fits(t)
  /\ t.kind = "deposit" /\ t.deal \in Alone => t.deal \notin approved

(* A session's own transaction fits unless its nonce is used up; for a deal *)
(* in one terminal, nothing else is broadcast and what was read holds.      *)
SessionSound(s) ==
  LET me == session[s] IN
  /\ me.pc = "idle" <=> me.deal = NoDeal
  /\ me.stage = "end" => me.pc \in {"idle", "wait"}
  /\ me.pc \in {"numbered", "built", "waiting"} => me.nonce <= count
  /\ me.pc = "built" /\ me.nonce = count => Fits(TxOf(s))
  /\ me.outcome # "none" => me.pc = "waiting"
  /\ me.outcome = "ok" => me.nonce < count /\ (me.stage = "rail" => me.deal \in rail)
  /\ me.pc = "wait" /\ me.stage = "end" /\ NothingDeclined => me.deal \in rail
  /\ me.deal \in Alone =>
       /\ \A t \in mempool : t.deal = me.deal => me.pc = "waiting" /\ t = TxOf(s)
       /\ me.stage = "deposit" /\ me.pc \in {"asked", "permitted", "numbered", "built"}
            => me.deal \notin approved

Apart ==
  \A s, o \in Sessions : s # o /\ session[s].deal = session[o].deal => session[s].deal \notin Alone

ChainSound ==
  /\ rail \subseteq approved /\ approved \subseteq validator
  /\ \A d \in Alone : deposits[d] = IF d \in approved THEN 1 ELSE 0

SetupInv ==
  /\ TypeOK
  /\ ChainSound
  /\ \A t \in mempool : TxSound(t)
  /\ \A s \in Sessions : SessionSound(s)
  /\ Apart
  /\ DoneUnlessDeclined /\ faults["decline"] <= MaxFaults["decline"]
=============================================================================
