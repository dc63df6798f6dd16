------------------------------- MODULE ClientDeals ------------------------------
(***************************************************************************)
(* Deals between their proposal and their end, as the commands of the      *)
(* client and the admin see them: propose-deal, propose-deal-for-offer,    *)
(* set-global-evidence-adapter, deposit-for-deals, withdraw, terminate and *)
(* finalize.                                                               *)
(*                                                                         *)
(* Every command reads, asks, sends one transaction and waits for it; what *)
(* it read may be old by then.  A wallet runs one command at a time, and   *)
(* a transaction of a command that died may still land (module InitDeal    *)
(* has the nonces and the setup of a deal in detail).                      *)
(***************************************************************************)
EXTENDS Integers, Sequences, SequencesExt

CONSTANTS
  Adapters,
  Placement,    \* those of type SECTOR_PLACEMENT, the others VERIF_REG_CLAIMS
  Connected,    \* those that belong to the market and are operational
  Manifests,    \* what may be found at a manifest's URL
  Prices,       \* monthly prices of a sector
  Limits,       \* highest prices a client may confirm
  Sector,       \* SECTOR_SIZE, in units of the sizes of pieces
  MinDagSize,   \* 1 MiB
  Months,       \* values of --months
  Withdrawals,  \* amounts of withdraw
  MaxDeals,     \* deals there may be
  Unwanted,     \* deals the admin wants to end
  Bounds        \* kind of disturbance -> how often it may happen ("all":
                \* together), and "deals": how many there may be

FaultKinds == {"all", "stop", "evict", "withdraw", "adapter", "deals"}

ASSUME DealsAssumption ==
  /\ Placement \subseteq Adapters /\ Connected \subseteq Adapters
  /\ Prices \subseteq Nat /\ Limits \subseteq Nat /\ Sector \in Nat \ {0}
  /\ Months \subseteq Nat \ {0} /\ Months # {} /\ IsFiniteSet(Months)
  /\ Withdrawals \subseteq Nat /\ \A m \in Manifests : m.size \in Nat
  /\ MaxDeals \in Nat /\ Bounds \subseteq [FaultKinds -> Nat] /\ \A b \in Bounds : b["deals"] <= MaxDeals

VARIABLES
  adapter,   \* the global evidence adapter
  deals,     \* PoRepMarket's deals in creation order
  account,   \* the client's FileCoinPay account: funds, lockup_current, and
             \* what its rails have locked since that was last settled
  session,   \* wallet -> the command that runs with it
  sent,      \* wallet -> its transaction that waits for a block
  told,      \* deals for which a command reported the wrong adapter
  faults

vars == <<adapter, deals, account, session, sent, told, faults>>

Wallets == {"client", "admin"}

Type(a) == IF a \in Placement THEN "SECTOR_PLACEMENT" ELSE "VERIF_REG_CLAIMS"
Types == {"SECTOR_PLACEMENT", "VERIF_REG_CLAIMS"}

(* hash: the evidence type the manifest hash was computed for.  dearest: the*)
(* highest price the client confirmed.  watched is not in the code: a       *)
(* command still is to look at the new deal, or has looked.                 *)
Deal == [hash : Types, adapter : Adapters, size : Nat, price : Prices, dearest : Limits,
         state : {"ACCEPTED", "ACTIVE", "FINALIZED", "REJECTED", "EARLY_TERMINATED"},
         rail : BOOLEAN, posted : BOOLEAN, watched : BOOLEAN]

Indices == 1 .. MaxDeals
Known == DOMAIN deals

Pcs == {"idle", "adapter", "proposal", "created", "set", "account",
        "deposit", "end", "waiting", "done"}
Kinds == {"set", "propose", "deposit", "reject", "terminate", "finalize"}
Session == [pc : Pcs, size : Nat, max : Limits \cup {0}, adapter : Adapters \cup {"none"},
            deal : 0 .. MaxDeals, kind : Kinds \cup {"none"},
            covers : SUBSET Indices, months : Months \cup {0}, missing : Nat, clean : BOOLEAN]
Idle == [pc |-> "idle", size |-> 0, max |-> 0, adapter |-> "none", deal |-> 0,
         kind |-> "none", covers |-> {}, months |-> 0, missing |-> 0, clean |-> TRUE]

Init ==
  /\ adapter \in Connected
  /\ deals = <<>>
  /\ account = [funds |-> 0, lockup |-> 0, owed |-> 0]
  /\ session = [w \in Wallets |-> Idle]
  /\ sent = [w \in Wallets |-> <<>>]
  /\ told = {}
  /\ faults \in Bounds

At(w, pc) == session[w].pc = pc
Running(w) == session[w].pc \notin {"idle", "done"}
Becomes(w, s) == session' = [session EXCEPT ![w] = s]
(* The command ends, with an error or with nothing to say of its effect.    *)
Stops(w) == Becomes(w, Idle)
(* What a command that is done was about.                                   *)
Done(w) ==
  LET me == session[w] IN
  Becomes(w, [Idle EXCEPT !.pc = "done", !.kind = me.kind, !.deal = me.deal, !.covers = me.covers,
                          !.months = me.months, !.clean = me.clean])
Fault(kind) ==
  /\ faults[kind] > 0 /\ faults["all"] > 0
  /\ faults' = [faults EXCEPT ![kind] = @ - 1, !["all"] = @ - 1]

chain == <<adapter, deals, account>>

-----------------------------------------------------------------------------
(* Amounts.                                                                 *)

Ceil(a, b) == (a + b - 1) \div b

(* calculate_deposit_amount: whole sectors are not rounded, the amount is.  *)
DepositAmount(size, price, months) == Ceil(size * price * months, Sector)

MonthlyCost(d) == DepositAmount(deals[d].size, deals[d].price, 1)
Required(covers, months) ==
  SumFunction([d \in covers |-> DepositAmount(deals[d].size, deals[d].price, months)])

Available == account.funds - account.lockup

-----------------------------------------------------------------------------
(* The contracts.                                                           *)

Accepts(tx) ==
  LET open(states) == tx.deal \in Known /\ deals[tx.deal].state \in states IN
  CASE tx.kind = "set" -> TRUE
    [] tx.kind = "propose" -> Len(deals) < faults["deals"]
    [] tx.kind = "deposit" -> TRUE
    [] tx.kind = "reject" -> open({"ACCEPTED"}) /\ ~deals[tx.deal].rail
    [] tx.kind = "terminate" -> open({"ACCEPTED", "ACTIVE"}) /\ deals[tx.deal].rail
    [] tx.kind = "finalize" -> open({"ACTIVE"})

(* A new deal gets the global adapter of the moment and an offer's price    *)
(* that is not above the highest one of the request.                        *)
NewDeal(tx, price, watched) ==
  [hash |-> Type(tx.adapter), adapter |-> adapter, size |-> tx.size, price |-> price, dearest |-> tx.max,
   state |-> "ACCEPTED", rail |-> FALSE, posted |-> FALSE, watched |-> watched]

(* What a rail has locked is paid out when its deal ends, not given back.   *)
Ends(d, state) == deals' = [deals EXCEPT ![d].state = state]

Effect(tx, watched) ==
  CASE tx.kind = "set" -> adapter' = tx.adapter /\ UNCHANGED <<deals, account>>
    [] tx.kind = "propose" ->
         /\ \E price \in {p \in Prices : p <= tx.max} : deals' = Append(deals, NewDeal(tx, price, watched))
         /\ UNCHANGED <<adapter, account>>
    [] tx.kind = "deposit" -> account' = [account EXCEPT !.funds = @ + tx.missing] /\ UNCHANGED <<adapter, deals>>
    [] tx.kind = "reject" -> Ends(tx.deal, "REJECTED") /\ UNCHANGED <<adapter, account>>
    [] tx.kind = "terminate" -> Ends(tx.deal, "EARLY_TERMINATED") /\ UNCHANGED <<adapter, account>>
    [] tx.kind = "finalize" -> Ends(tx.deal, "FINALIZED") /\ UNCHANGED <<adapter, account>>

(* Whoever works on the deals otherwise: init-deal deposits a month,        *)
(* whatever the account has, and sets the rail; posting ends; the payment   *)
(* is activated if it can be locked.                                        *)
Progress(d) ==
  /\ deals[d].state = "ACCEPTED"
  /\ \/ /\ ~deals[d].rail
        /\ deals' = [deals EXCEPT ![d].rail = TRUE]
        /\ account' = [account EXCEPT !.funds = @ + MonthlyCost(d)]
        /\ UNCHANGED session
     \/ /\ ~deals[d].posted /\ deals[d].adapter \notin Placement
        /\ deals' = [deals EXCEPT ![d].posted = TRUE]
        /\ UNCHANGED <<account, session>>
     \/ /\ deals[d].rail /\ (deals[d].posted \/ deals[d].adapter \in Placement)
        /\ Available - account.owed >= MonthlyCost(d)
        /\ deals' = [deals EXCEPT ![d].state = "ACTIVE"]
        /\ account' = [account EXCEPT !.lockup = @ + account.owed + MonthlyCost(d), !.owed = 0]
        /\ session' = [session EXCEPT !["client"].clean = FALSE]
  /\ UNCHANGED <<adapter, sent, told, faults>>

(* Time passes for an active rail: the lockup that get_account returns is   *)
(* that of the last settlement.                                             *)
Accrue ==
  /\ \E d \in Known : deals[d].state = "ACTIVE"
  /\ account.owed = 0 /\ Available > 0
  /\ account' = [account EXCEPT !.owed = 1]
  /\ UNCHANGED <<adapter, deals, session, sent, told, faults>>

(* withdraw_to, from another terminal.                                      *)
Withdraw(amount) ==
  /\ Fault("withdraw")
  /\ amount <= Available - account.owed
  /\ account' = [account EXCEPT !.funds = @ - amount]
  /\ session' = [session EXCEPT !["client"].clean = FALSE]
  /\ UNCHANGED <<adapter, deals, sent, told>>

-----------------------------------------------------------------------------
(* sign_and_send_tx, after get_address_nonce has waited.                    *)

Transaction == [kind : Kinds, adapter : Adapters \cup {"none"}, size : Nat, max : Limits \cup {0},
                deal : 0 .. MaxDeals, missing : Nat]
Tx(s) == [kind |-> s.kind, adapter |-> s.adapter, size |-> s.size, max |-> s.max, deal |-> s.deal,
          missing |-> s.missing]

Transact(w) ==
  /\ sent[w] = <<>>
  /\ IF Accepts(session[w])
       THEN /\ sent' = [sent EXCEPT ![w] = Tx(session[w])]
            /\ Becomes(w, [session[w] EXCEPT !.pc = "waiting"])
       ELSE Stops(w) /\ UNCHANGED sent

(* Mutated form: the commands do not wait for what is pending.              *)
NoWait(w) == TRUE

(* wait_for_pending_transactions                                            *)
Clear(w) == sent[w] = <<>>

(* find_deal_id, from the events of the receipt; the newest deal is its own.*)
Land(w) ==
  LET tx == sent[w]
      ok == Accepts(tx)
      mine == At(w, "waiting")
  IN  /\ tx # <<>>
      /\ IF ok THEN Effect(tx, mine) ELSE UNCHANGED chain
      /\ sent' = [sent EXCEPT ![w] = <<>>]
      /\ IF ~mine THEN UNCHANGED session
         ELSE CASE ok /\ tx.kind = "propose" ->
                     Becomes(w, [session[w] EXCEPT !.pc = "created", !.deal = Len(deals) + 1])
                [] ok /\ tx.kind = "deposit" -> Done(w)
                [] OTHER -> Stops(w)
      /\ UNCHANGED <<told, faults>>

-----------------------------------------------------------------------------
(* propose_deal                                                             *)

(* _validate_manifest: one preparation, its pieces with exactly one dag     *)
(* piece that is not too small.                                             *)
ValidManifest(m) ==
  /\ m.size > 0
  /\ m.data >= 1 /\ m.dag = 1 /\ m.other = 0
  /\ m.onePreparation /\ m.oneAttachment
  /\ m.dagSize >= MinDagSize

(* fetch_manifest: an answer that is refused, not JSON or not valid ends    *)
(* the command, and so does a network error that is not retried.            *)
FetchManifest(w, m, next) == IF ValidManifest(m) THEN Becomes(w, next) ELSE Stops(w)

(* What the deal asks for: its size, and the highest price.                 *)
BeginPropose(w, max, m) ==
  /\ ~Running(w)
  /\ FetchManifest(w, m, [Idle EXCEPT !.pc = "adapter", !.max = max, !.size = m.size, !.kind = "propose"])
  /\ UNCHANGED <<chain, sent, told, faults>>

(* client propose-deal; admin propose-deal-for-offer, by which the admin    *)
(* becomes the client of the deal.                                          *)
ProposeDeal(max, m) == BeginPropose("client", max, m)
ProposeDealForOffer(max, m) == BeginPropose("admin", max, m)

(* The global adapter and its type; the manifest hash is made for it.       *)
ReadAdapter(w) ==
  /\ At(w, "adapter")
  /\ Becomes(w, [session[w] EXCEPT !.pc = "proposal", !.adapter = adapter])
  /\ UNCHANGED <<chain, sent, told, faults>>

(* wait_for_pending_transactions, the confirmation and the transaction.     *)
SendProposal(w) ==
  /\ At(w, "proposal")
  /\ Clear(w)
  /\ Transact(w)
  /\ UNCHANGED <<chain, told, faults>>

(* Mutated form: the new deal has the global adapter of now.                *)
AdapterIsGlobal(w) == deals[session[w].deal].adapter = adapter

(* deal_view.deal.evidence_adapter_address != evidence_adapter_address      *)
AdapterAsRead(w) == deals[session[w].deal].adapter = session[w].adapter

CheckAdapter(w) ==
  LET d == session[w].deal IN
  /\ At(w, "created")
  /\ IF AdapterAsRead(w)
       THEN Done(w) /\ UNCHANGED told
       ELSE Stops(w) /\ told' = told \cup {d}
  /\ UNCHANGED <<chain, sent, faults>>

-----------------------------------------------------------------------------
(* The admin's other commands.                                              *)

BeginSetAdapter(a) ==
  /\ Fault("adapter")
  /\ ~Running("admin") /\ Clear("admin")
  /\ a \in Connected
  /\ Becomes("admin", [Idle EXCEPT !.pc = "set", !.adapter = a, !.kind = "set"])
  /\ UNCHANGED <<chain, sent, told>>

SetAdapter ==
  /\ At("admin", "set")
  /\ Transact("admin")
  /\ UNCHANGED <<chain, told, faults>>

(* Mutated form: an accepted deal is rejected.                              *)
EndByState(d) == IF deals[d].state = "ACCEPTED" THEN "reject" ELSE "terminate"

(* terminate-deal: what is to be called for the deal as it was read.        *)
EndWith(d) == IF deals[d].state = "ACCEPTED" /\ ~deals[d].rail THEN "reject" ELSE "terminate"

BeginEnd(d, states, kind) ==
  /\ ~Running("admin") /\ Clear("admin")
  /\ deals[d].state \in states
  /\ Becomes("admin", [Idle EXCEPT !.pc = "end", !.deal = d, !.kind = kind])
  /\ UNCHANGED <<chain, sent, told, faults>>

TerminateDeal(d) == d \in Unwanted /\ BeginEnd(d, {"ACCEPTED", "ACTIVE"}, EndWith(d))
FinalizeDeal(d) == BeginEnd(d, {"ACTIVE"}, "finalize")

EndDeal ==
  /\ At("admin", "end")
  /\ Transact("admin")
  /\ UNCHANGED <<chain, told, faults>>

-----------------------------------------------------------------------------
(* deposit-for-deals                                                        *)

(* _validate_deal: the deal has its rail, and it is active or, unless the   *)
(* posting of its DataCap is still to be finished, accepted.                *)
Eligible(d) ==
  /\ deals[d].rail
  /\ \/ deals[d].state = "ACTIVE"
     \/ deals[d].state = "ACCEPTED" /\ (deals[d].adapter \in Placement \/ deals[d].posted)

EligibleDeals == {d \in Known : Eligible(d)}

(* One deal, if DEAL_ID is given, or all of them.                           *)
BeginDeposit(covers, months) ==
  /\ ~Running("client") /\ Clear("client")
  /\ covers # {} /\ covers \subseteq EligibleDeals
  /\ Cardinality(covers) = 1 \/ covers = EligibleDeals
  /\ Becomes("client", [Idle EXCEPT !.pc = "account", !.covers = covers, !.months = months, !.kind = "deposit"])
  /\ UNCHANGED <<chain, sent, told, faults>>

(* Mutated form: locked funds count.                                        *)
AllFunds == account.funds

(* filecoinpay_account.funds - filecoinpay_account.lockup_current           *)
AvailableFunds == account.funds - account.lockup

(* deposit_amount <= 0: "Existing FileCoinPay funds is sufficient"          *)
Sufficient(missing) == missing <= 0

(* What the account lacks of the required amount is deposited, after a      *)
(* confirmation and with a permit.                                          *)
ReadAccount ==
  LET me == session["client"]
      missing == Required(me.covers, me.months) - AvailableFunds
  IN  /\ At("client", "account")
      /\ IF Sufficient(missing)
           THEN Becomes("client", [me EXCEPT !.pc = "done", !.clean = TRUE])
           ELSE Becomes("client", [me EXCEPT !.pc = "deposit", !.missing = missing, !.clean = TRUE])
      /\ UNCHANGED <<chain, sent, told, faults>>

SendDeposit ==
  /\ At("client", "deposit")
  /\ Transact("client")
  /\ UNCHANGED <<chain, told, faults>>

-----------------------------------------------------------------------------

Step(w) ==
  \/ ReadAdapter(w) \/ SendProposal(w) \/ CheckAdapter(w)

AdminStep == SetAdapter \/ EndDeal
ClientStep == ReadAccount \/ SendDeposit

(* A confirmation is refused and the command ends; propose_deal also when  *)
(* the final one is, for then it finds no event.  deposit-for-deals goes on.*)
Decline(w) ==
  /\ Fault("stop")
  /\ session[w].pc \in {"proposal", "set", "deposit", "end"}
  /\ \/ Stops(w)
     \/ At(w, "deposit") /\ Becomes(w, [session[w] EXCEPT !.pc = "done", !.missing = 0, !.clean = FALSE])
  /\ UNCHANGED <<chain, sent, told>>

(* Nobody looks at a new deal whose command is gone, or whose event was not *)
(* decoded.                                                                 *)
Unwatched(w) == IF At(w, "created") THEN [deals EXCEPT ![session[w].deal].watched = FALSE] ELSE deals

NoEvent(w) ==
  /\ Fault("stop")
  /\ At(w, "created")
  /\ deals' = Unwatched(w)
  /\ Stops(w)
  /\ UNCHANGED <<adapter, account, sent, told>>

Crash(w) ==
  /\ Fault("stop")
  /\ Running(w)
  /\ deals' = Unwatched(w)
  /\ Stops(w)
  /\ UNCHANGED <<adapter, account, sent, told>>

Drop(w) ==
  /\ Fault("evict")
  /\ sent[w] # <<>>
  /\ sent' = [sent EXCEPT ![w] = <<>>]
  /\ IF At(w, "waiting") THEN Stops(w) ELSE UNCHANGED session
  /\ UNCHANGED <<chain, told>>

Next ==
  \/ \E w \in Wallets :
       \/ Step(w) \/ Decline(w) \/ NoEvent(w) \/ Crash(w) \/ Land(w) \/ Drop(w)
  \/ \E max \in Limits, m \in Manifests : ProposeDeal(max, m) \/ ProposeDealForOffer(max, m)
  \/ AdminStep \/ ClientStep
  \/ \E a \in Adapters : BeginSetAdapter(a)
  \/ \E d \in Known : Progress(d) \/ TerminateDeal(d) \/ FinalizeDeal(d)
  \/ \E covers \in SUBSET Indices, months \in Months : BeginDeposit(covers, months)
  \/ Accrue
  \/ \E amount \in Withdrawals : Withdraw(amount)

Spec == Init /\ [][Next]_vars

(* Commands go on, blocks are made, the admin comes back to the deals to be *)
(* ended.                                                                   *)
Fairness ==
  /\ \A w \in Wallets : WF_vars(Step(w)) /\ WF_vars(Land(w))
  /\ WF_vars(AdminStep) /\ WF_vars(ClientStep)
  /\ \A d \in Indices : SF_vars(d \in Known /\ TerminateDeal(d))

FairSpec == Spec /\ Fairness

-----------------------------------------------------------------------------
(* Properties.                                                              *)

TypeOK ==
  /\ adapter \in Adapters
  /\ deals \in Seq(Deal) /\ Len(deals) <= MaxDeals
  /\ account \in [funds : Nat, lockup : Nat, owed : Nat]
  /\ session \in [Wallets -> Session]
  /\ sent \in [Wallets -> Transaction \cup {<<>>}]
  /\ told \subseteq Known
  /\ faults \in [FaultKinds -> Nat]

(* A deal whose manifest hash its adapter will not accept does not go       *)
(* unnoticed, whenever the global adapter was changed, unless its command   *)
(* died or its event was not decoded: no "All done!" is printed for it.     *)
MismatchTold ==
  \A d \in Known : deals[d].watched /\ deals[d].hash # Type(deals[d].adapter) =>
    d \in told \/ \E w \in Wallets : At(w, "created") /\ session[w].deal = d

(* Deposits never pile up: the account has no more at its disposal than the *)
(* longest time asked for costs at the prices the client confirmed, however *)
(* commands die between a deposit and its block and are run again.          *)
NeverOverfunded ==
  Available <= SumFunction([d \in Known |-> Max(Months) * DepositAmount(deals[d].size, deals[d].dearest, 1)])

(* deposit-for-deals ends with the required amount at disposal, if nothing  *)
(* was locked or withdrawn since it read the account.                       *)
CoveredWhenDone ==
  LET me == session["client"] IN
  At("client", "done") /\ me.kind = "deposit" /\ me.clean => Available >= Required(me.covers, me.months)

(* Deals the admin wants to end do end, also when the client sets the rail  *)
(* between the reading and the transaction.                                 *)
EventuallyEnded ==
  \A d \in Unwanted : <>[](d \in Known => deals[d].state \notin {"ACCEPTED", "ACTIVE"})

-----------------------------------------------------------------------------
(* The inductive invariant.                                                 *)

(* Deals that init-deal has set a rail for: the only ones money came for,   *)
(* and what they may cost at most.                                          *)
Railed == {d \in Known : deals[d].rail}
MostOf(d) == Max(Months) * DepositAmount(deals[d].size, deals[d].dearest, 1)
Most == SumFunction([d \in Railed |-> MostOf(d)])

(* What a command knows when it is at a step, and what it sends.            *)
Meant(w, s, tx) ==
  /\ s.pc \in {"adapter", "proposal", "created"} => s.kind = "propose" /\ s.max \in Limits
  /\ s.pc \in {"proposal", "created"} => s.adapter \in Adapters
  /\ s.pc = "created" => s.deal \in Known /\ deals[s.deal].hash = Type(s.adapter)
  /\ s.pc = "set" => s.kind = "set" /\ s.adapter \in Adapters
  /\ s.pc = "end" => s.kind \in {"reject", "terminate", "finalize"}
  /\ s.pc \in {"account", "deposit"} => s.kind = "deposit" /\ tx = <<>>
  /\ s.pc = "waiting" => tx = Tx(s)
  /\ s.kind = "deposit" => w = "client" /\ s.covers \subseteq Railed /\ s.months \in Months

MeantTx(w, tx) ==
  tx # <<>> =>
    /\ tx.kind = "deposit" => w = "client"
    /\ tx.kind = "set" => tx.adapter \in Adapters
    /\ tx.kind = "propose" => tx.adapter \in Adapters /\ tx.max \in Limits

(* A deposit that is asked for or is on its way, added to what there is, is *)
(* not more than the deals with a rail cost, and enough for those it covers.*)
Enough(s, funds) == s.clean => funds >= Required(s.covers, s.months)

FundsFor(s) ==
  /\ s.pc = "deposit" => Available + s.missing <= Most
  /\ s.pc = "deposit" \/ (s.pc = "waiting" /\ s.kind = "deposit") => Enough(s, Available + s.missing)
  /\ s.pc = "done" /\ s.kind = "deposit" => Enough(s, Available)

FundsSound ==
  /\ Available <= Most
  /\ FundsFor(session["client"])
  /\ sent["client"] # <<>> /\ sent["client"].kind = "deposit" => Available + sent["client"].missing <= Most

DealsSound ==
  /\ TypeOK
  /\ faults["deals"] <= MaxDeals
  /\ \A d \in Known : deals[d].price <= deals[d].dearest
  /\ \A w \in Wallets : Meant(w, session[w], sent[w]) /\ MeantTx(w, sent[w])
  /\ FundsSound
  /\ MismatchTold
=============================================================================
