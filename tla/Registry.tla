-------------------------------- MODULE Registry --------------------------------
(***************************************************************************)
(* Storage providers and offers in SPRegistry: `admin register-db-sps`,    *)
(* `sp register-sp` and `sp register-offer`.                               *)
(*                                                                         *)
(* The admin's command reads the organizations of a database, registers    *)
(* their providers or updates them parameter by parameter, reads the       *)
(* database again for the offers and creates them.  Each transaction is    *)
(* built, confirmed and waited for (module InitDeal has its nonces), and   *)
(* the first one that fails ends the command.  Meanwhile the organization  *)
(* changes its own provider, and the database is edited.                   *)
(***************************************************************************)
EXTENDS Integers, Sequences, FiniteSets, FiniteSetsExt

CONSTANTS
  Orgs, Providers,
  Payees,
  Databases,     \* contents of the table `providers` and its SLA classes
  Committed,     \* provider -> bytes committed or pending in deals
  MinPrice,      \* SPRegistry: minimum price of the payment token
  MaxProviders,  \* SPRegistry: providers at most
  MaxOffers,     \* SPRegistry: active offers of a provider at most
  Sizes,         \* capacities the organization may ask for
  SpOrg,         \* SP_ORGANIZATION
  MinDays, MaxDays,   \* limits of a deal's duration, asked from PoRepMarket
  Selections,    \* --db-id and PROVIDER_ID, of which runs are made
  MaxFaults,     \* kind of disturbance -> how often it may happen ("all": together)
  MaxClasses,    \* SLA classes of an organization at most
  Nobody

FaultKinds == {"all", "sp", "edit", "decline", "crash", "evict"}

(* A row of get_sla_classes: one that from_db cannot read, one of a miner   *)
(* or with a price that is no whole amount per sector, one with a sla_class *)
(* that has no thresholds, or an offer.                                     *)
Class == [kind : {"unreadable", "left", "unsupported", "offer"}, price : Nat]

(* A row of get_organizations with its classes in their order.  written: a  *)
(* row that from_db cannot read (a miner_id, payment_address_evm), and one  *)
(* whose capacity_commitment is no size; twice: miners that miner_ids names *)
(* twice; address: an 0x-address, a Filecoin address that the node converts *)
(* or that it answers with an error, the zero address, or no address;       *)
(* payable: all payment types have a token.  Nobody is the zero address.    *)
Organization == [approved : BOOLEAN, written : {"well", "unreadable", "unsized"},
                 miners : SUBSET Providers, twice : SUBSET Providers,
                 address : {"eth", "fil", "lost", "zero", "bad"},
                 payable : BOOLEAN, payee : Payees \cup {Nobody}, bytes : Nat, min : Nat, max : Nat,
                 classes : Seq(Class)]

Selection == [orgs : SUBSET Orgs, providers : SUBSET Providers]
Everything == [orgs |-> Orgs, providers |-> Providers]

ASSUME LimitsAssumption ==
  /\ MinDays \in Nat /\ MaxDays \in Nat /\ MinDays <= MaxDays /\ MaxClasses \in Nat
  /\ Selections \subseteq Selection
  /\ Nobody \notin Orgs \cup Payees /\ SpOrg \in Orgs
  /\ Databases \subseteq [Orgs -> Organization]
  /\ Committed \in [Providers -> Nat] /\ Sizes \subseteq Nat
  /\ MinPrice \in Nat /\ MaxProviders \in Nat /\ MaxOffers \in Nat
  /\ MaxFaults \in [FaultKinds -> Nat]

VARIABLES
  db,          \* the database
  registered,  \* SPRegistry: provider -> parameters, Unregistered if it has none
  offers,      \* SPRegistry: provider -> how many active offers it has
  session,     \* wallet -> the command that runs with it
  sent,        \* wallet -> its transaction that waits for a block
  faults

vars == <<db, registered, offers, session, sent, faults>>

Wallets == {"admin", "sp"}

(* SPRegistryProviderView and SPRegistryProviderInput *)
Addresses == Orgs \cup Payees
View == [org : Orgs \cup {Nobody}, payee : Addresses \cup {Nobody}, bytes : Nat]
Unregistered == [org |-> Nobody, payee |-> Nobody, bytes |-> 0]
Row == [provider : Providers, org : Orgs \cup {Nobody}, payee : Addresses \cup {Nobody}, bytes : Nat]
(* SPRegistryOfferInput: class is the SLA class of the database, or 0; a    *)
(* miner that miner_ids names twice has each of its offers once.            *)
Offer == [provider : Providers, org : Orgs, class : Nat, min : Nat, max : Nat, price : Nat]

(* after: where the command goes on when its transaction is through.        *)
(* fetched, clean and edited are not in the code: the rows of the run, that *)
(* nothing was declined, lost or done by others, that the database changed. *)
Pcs == {"idle", "rows", "register", "payee", "bytes", "fetch", "offers", "create", "waiting",
        "through", "failed"}
Session == [pc : Pcs, selection : Selection, rows : SUBSET Row, row : {<<>>} \cup Row,
            seen : View, todo : SUBSET Offer, offer : {<<>>} \cup Offer, after : Pcs,
            fetched : SUBSET Row, clean : BOOLEAN, edited : BOOLEAN]

(* What a wallet has sent: a provider's row, or an offer.                   *)
Sent == [kind : {"register", "payee", "bytes"}, provider : Providers, row : Row, offer : {<<>>} \cup Offer]
        \cup [kind : {"offer"}, provider : Providers, row : {<<>>} \cup Row, offer : Offer]

Idle == [pc |-> "idle", selection |-> Everything, rows |-> {}, row |-> <<>>, seen |-> Unregistered,
         todo |-> {}, offer |-> <<>>, after |-> "idle", fetched |-> {}, clean |-> TRUE, edited |-> FALSE]

Init ==
  /\ db \in Databases
  /\ registered = [p \in Providers |-> Unregistered]
  /\ offers = [p \in Providers |-> 0]
  /\ session = [w \in Wallets |-> Idle]
  /\ sent = [w \in Wallets |-> <<>>]
  /\ faults = MaxFaults

At(w, pc) == session[w].pc = pc
Running(w) == session[w].pc \notin {"idle", "through", "failed"}
Fault(kind) ==
  /\ faults[kind] > 0 /\ faults["all"] > 0
  /\ faults' = [faults EXCEPT ![kind] = @ - 1, !["all"] = @ - 1]

-----------------------------------------------------------------------------
(* SPRegistry, as its wrapper describes it and by the errors of its ABI:    *)
(* registerProviderFor is the admin's, the rest the admin's or that of the  *)
(* provider's controller.  It takes no organization and no new payee that   *)
(* is the zero address, no capacity below what is committed, no offer of an *)
(* unregistered provider, below the minimum price of its token (of one that *)
(* is not allowed, below any) or that ends before it begins, no provider    *)
(* and no offer beyond its limits.                                          *)
Controls(w, p) == w = "admin" \/ registered[p].org = SpOrg
Known == {p \in Providers : registered[p] # Unregistered}
Full == Cardinality(Known) >= MaxProviders

Accepts(w, tx) ==
  LET mine == tx.provider \in Known /\ Controls(w, tx.provider) IN
  CASE tx.kind = "register" -> w = "admin" /\ tx.provider \notin Known /\ tx.row.org # Nobody /\ ~Full
    [] tx.kind = "payee" -> mine /\ tx.row.payee # Nobody
    [] tx.kind = "bytes" -> mine /\ tx.row.bytes >= Committed[tx.provider]
    [] tx.kind = "offer" -> /\ mine /\ tx.offer.min <= tx.offer.max
                            /\ tx.offer.price >= MinPrice /\ offers[tx.provider] < MaxOffers

Tx(kind, provider, row, offer) == [kind |-> kind, provider |-> provider, row |-> row, offer |-> offer]

(* "Payout recipient; defaults to organization when zero."                  *)
Paid(row) == IF row.payee = Nobody THEN row.org ELSE row.payee

Effect(tx) ==
  /\ CASE tx.kind = "register" ->
            registered' = [registered EXCEPT ![tx.provider] =
                             [org |-> tx.row.org, payee |-> Paid(tx.row), bytes |-> tx.row.bytes]]
       [] tx.kind = "payee" -> registered' = [registered EXCEPT ![tx.provider].payee = tx.row.payee]
       [] tx.kind = "bytes" -> registered' = [registered EXCEPT ![tx.provider].bytes = tx.row.bytes]
       [] tx.kind = "offer" -> UNCHANGED registered
  /\ offers' = IF tx.kind = "offer" THEN [offers EXCEPT ![tx.provider] = @ + 1] ELSE offers

-----------------------------------------------------------------------------
(* get_db_sps.  A run without PROVIDER_ID reads organizations without       *)
(* miners, too.                                                             *)
Chosen(sel) ==
  {o \in sel.orgs : db[o].approved /\ (sel.providers = Providers \/ db[o].miners \cap sel.providers # {})}

(* Without the organizations whose address is none: "Cannot return SPs from *)
(* this organization".                                                      *)
Addressed(sel) == {o \in Chosen(sel) : db[o].address # "bad"}

RowOf(p, o) == [provider |-> p, org |-> IF db[o].address = "zero" THEN Nobody ELSE o,
                payee |-> db[o].payee, bytes |-> db[o].bytes]
Listed(orgs, sel) == UNION {{RowOf(p, o) : p \in db[o].miners \cap sel.providers} : o \in orgs}

(* len(provider_ids) != len(set(provider_ids))                              *)
Duplicated(orgs, sel) ==
  \E p \in sel.providers :
    \/ \E o \in orgs : p \in db[o].twice
    \/ \E o, q \in orgs : o # q /\ p \in db[o].miners \cap db[q].miners

(* The errors that leave from_db and EthAddress.from_filecoin_address, and  *)
(* that of parse_size                                                       *)
Unreadable(sel) == \E o \in Chosen(sel) : db[o].written = "unreadable" \/ db[o].address = "lost"
Unsized(orgs) == \E o \in orgs : db[o].written = "unsized" /\ db[o].miners # {}

BeginDb(sel, skipped) ==
  LET orgs == Addressed(sel) \ skipped
      rows == Listed(orgs, sel)
      run == [Idle EXCEPT !.selection = sel, !.clean = skipped = {}]
  IN  /\ ~Running("admin") /\ sent["admin"] = <<>>
      /\ skipped \subseteq {o \in Addressed(sel) : db[o].address = "fil"}
      /\ IF skipped = {} THEN UNCHANGED faults ELSE Fault("decline")
      /\ session' = [session EXCEPT !["admin"] =
                       IF Unreadable(sel) \/ Unsized(orgs) \/ Duplicated(orgs, sel)
                         THEN [run EXCEPT !.pc = "failed"]
                         ELSE [run EXCEPT !.pc = IF rows = {} THEN "through" ELSE "rows",
                                          !.rows = rows, !.fetched = rows]]
      /\ UNCHANGED <<db, registered, offers, sent>>

(* "Please provide all required parameters"                                 *)
Complete(p, payee, bytes) == registered[p] # Unregistered \/ (payee # Nobody /\ bytes > 0)

(* register-sp: what is not given stays as it is registered; the first      *)
(* provider of an organization is registered by the admin.                  *)
BeginSp(p, payee, bytes) ==
  LET known == registered[p] # Unregistered
      row == [provider |-> p, org |-> IF known THEN registered[p].org ELSE SpOrg,
              payee |-> IF payee # Nobody THEN payee ELSE registered[p].payee,
              bytes |-> IF bytes > 0 THEN bytes ELSE registered[p].bytes]
  IN  /\ ~Running("sp") /\ sent["sp"] = <<>>
      /\ Fault("sp")
      /\ \E q \in Providers : registered[q].org = SpOrg
      /\ Complete(p, payee, bytes)
      /\ session' = [session EXCEPT !["sp"] = [Idle EXCEPT !.pc = "rows", !.rows = {row}, !.fetched = {row}]]
      /\ UNCHANGED <<db, registered, offers, sent>>

(* register-offer: the command does not compare the two durations, nor the  *)
(* price with the minimum of the token.                                     *)
BeginOffer(p, min, max, price) ==
  /\ ~Running("sp") /\ sent["sp"] = <<>>
  /\ Fault("sp")
  /\ session' = [session EXCEPT !["sp"] = [Idle EXCEPT !.pc = "offers", !.todo =
                   {[provider |-> p, org |-> SpOrg, class |-> 0, min |-> min, max |-> max, price |-> price]}]]
  /\ UNCHANGED <<db, registered, offers, sent>>

-----------------------------------------------------------------------------
(* register_or_update_sps                                                   *)

Becomes(w, s) == session' = [session EXCEPT ![w] = s]
NextRow(w) == [session[w] EXCEPT !.pc = "rows", !.after = "idle", !.row = <<>>, !.seen = Unregistered]
(* Goes on at pc; what the finished part was about is forgotten.            *)
On(w, pc) ==
  LET me == session[w] IN
  CASE pc = "rows" -> NextRow(w)
    [] pc = "offers" -> [me EXCEPT !.pc = pc, !.after = "idle", !.offer = <<>>]
    [] pc \in {"through", "failed"} ->
         [Idle EXCEPT !.pc = pc, !.selection = me.selection, !.fetched = me.fetched,
                      !.clean = me.clean, !.edited = me.edited]
    [] OTHER -> [me EXCEPT !.pc = pc, !.after = "idle"]

(* Mutated form: a provider is registered once and for all.                 *)
Registered(seen, row) == seen # Unregistered

(* "already registered with same parameters"                                *)
Same(seen, row) == seen = [org |-> row.org, payee |-> row.payee, bytes |-> row.bytes]

(* The next provider, and what SPRegistry has for it; the prompts are       *)
(* answered yes.                                                            *)
Look(w) ==
  /\ At(w, "rows")
  /\ \E row \in session[w].rows :
       LET seen == registered[row.provider]
           left == [NextRow(w) EXCEPT !.rows = @ \ {row}]
       IN Becomes(w, IF seen # Unregistered /\ Same(seen, row) THEN left
                     ELSE [left EXCEPT !.pc = IF seen = Unregistered THEN "register" ELSE "payee",
                                       !.row = row, !.seen = seen])
  /\ UNCHANGED <<db, registered, offers, sent, faults>>

(* sign_and_send_tx: the gas estimate, the final confirmation, the          *)
(* broadcast.                                                               *)
Transact(w, kind, after) ==
  LET me == session[w]
      tx == Tx(kind, IF kind = "offer" THEN me.offer.provider ELSE me.row.provider, me.row, me.offer)
  IN IF Accepts(w, tx)
       THEN /\ sent' = [sent EXCEPT ![w] = tx]
            /\ Becomes(w, [me EXCEPT !.pc = "waiting", !.after = after])
       ELSE /\ Becomes(w, On(w, "failed"))
            /\ UNCHANGED sent

Register(w) ==
  /\ At(w, "register")
  /\ Transact(w, "register", "rows")
  /\ UNCHANGED <<db, registered, offers, faults>>

(* Mutated form: one parameter is updated at a time.                        *)
SameBytesOrUpdated(w) ==
  session[w].row.bytes = session[w].seen.bytes \/ session[w].row.payee # session[w].seen.payee

(* _update_sp_params: each parameter that differs from the view read before *)
(* the prompts; the organization stays whatever the row says.               *)
SamePayee(w) == session[w].row.payee = session[w].seen.payee
SameBytes(w) == session[w].row.bytes = session[w].seen.bytes

Payee(w) ==
  /\ At(w, "payee")
  /\ IF SamePayee(w)
       THEN Becomes(w, On(w, "bytes")) /\ UNCHANGED sent
       ELSE Transact(w, "payee", "bytes")
  /\ UNCHANGED <<db, registered, offers, faults>>

Bytes(w) ==
  /\ At(w, "bytes")
  /\ IF SameBytes(w)
       THEN Becomes(w, NextRow(w)) /\ UNCHANGED sent
       ELSE Transact(w, "bytes", "rows")
  /\ UNCHANGED <<db, registered, offers, faults>>

-----------------------------------------------------------------------------
(* get_db_offers                                                            *)

(* Mutated form: the limits are applied to durations in order.              *)
InOrder(o) == db[o].min <= db[o].max

(* The durations within the market's limits, which is asked for            *)
Shortest(o) == IF db[o].min < MinDays THEN MinDays ELSE db[o].min
Longest(o) == IF db[o].max > MaxDays THEN MaxDays ELSE db[o].max
Bounded(o) == Shortest(o) <= Longest(o)
Adjusted(o) == Shortest(o) # db[o].min \/ Longest(o) # db[o].max

(* How many of an organization's classes are returned: the loop leaves it   *)
(* at the first one that cannot be, the classes before it stay.  A prompt   *)
(* may be declined at any class.  sla_class_to_sli_thresholds is called for *)
(* each miner of a class that is returned, and its error ends the command.  *)
Returnable(o, k) == db[o].payable /\ Bounded(o) /\ db[o].classes[k].kind # "left"
Whole(o) ==
  LET stops == {k \in 1 .. Len(db[o].classes) : ~Returnable(o, k)}
  IN IF stops = {} THEN Len(db[o].classes) ELSE Min(stops) - 1

OfferOf(p, o, k) == [provider |-> p, org |-> o, class |-> k, min |-> Shortest(o), max |-> Longest(o),
                     price |-> db[o].classes[k].price]
Returned(sel, count) ==
  UNION {{OfferOf(p, o, k) : p \in db[o].miners \cap sel.providers, k \in 1 .. count[o]} : o \in Chosen(sel)}

UnreadableClass(o) ==
  \E k \in 1 .. Len(db[o].classes) : db[o].written = "unreadable" \/ db[o].classes[k].kind = "unreadable"
Unsupported(o, n) == db[o].miners # {} /\ \E k \in 1 .. n : db[o].classes[k].kind = "unsupported"

FetchOffers(count) ==
  LET sel == session["admin"].selection
      all == [o \in Orgs |-> IF o \in Chosen(sel) THEN Whole(o) ELSE 0]
      todo == Returned(sel, count)
      error == \E o \in Chosen(sel) : UnreadableClass(o) \/ Unsupported(o, count[o])
  IN  /\ At("admin", "fetch")
      /\ \A o \in Orgs : count[o] <= all[o] /\ (count[o] < all[o] => Adjusted(o))
      /\ IF count = all THEN UNCHANGED faults ELSE Fault("decline")
      /\ Becomes("admin",
           IF error THEN [On("admin", "failed") EXCEPT !.clean = @ /\ count = all]
           ELSE [On("admin", IF todo = {} THEN "through" ELSE "offers")
                   EXCEPT !.todo = todo, !.clean = @ /\ count = all])
      /\ UNCHANGED <<db, registered, offers, sent>>

(* The end of the first loop.                                               *)
RowsDone(w) ==
  /\ At(w, "rows")
  /\ session[w].rows = {}
  /\ Becomes(w, On(w, IF w = "admin" THEN "fetch" ELSE "through"))
  /\ UNCHANGED <<db, registered, offers, sent, faults>>

(* register_offers: one after the other, whatever SPRegistry has.           *)
NextOffer(w) ==
  /\ At(w, "offers")
  /\ \E offer \in session[w].todo :
       Becomes(w, [session[w] EXCEPT !.pc = "create", !.offer = offer, !.todo = @ \ {offer}])
  /\ UNCHANGED <<db, registered, offers, sent, faults>>

Create(w) ==
  /\ At(w, "create")
  /\ Transact(w, "offer", "offers")
  /\ UNCHANGED <<db, registered, offers, faults>>

OffersDone(w) ==
  /\ At(w, "offers")
  /\ session[w].todo = {}
  /\ Becomes(w, On(w, "through"))
  /\ UNCHANGED <<db, registered, offers, sent, faults>>

Step(w) ==
  \/ Look(w) \/ Register(w) \/ Payee(w) \/ Bytes(w) \/ RowsDone(w)
  \/ NextOffer(w) \/ Create(w) \/ OffersDone(w)

-----------------------------------------------------------------------------
(* A prompt answered no: a provider, one of its parameters, an offer, or a  *)
(* transaction is skipped and the command goes on.                          *)
Decline(w) ==
  /\ Fault("decline")
  /\ \E pc \in CASE session[w].pc \in {"register", "bytes"} -> {"rows"}
               [] At(w, "payee") -> {"bytes", "rows"}
               [] At(w, "create") -> {"offers"}
               [] OTHER -> {} :
       Becomes(w, [On(w, pc) EXCEPT !.clean = FALSE])
  /\ UNCHANGED <<db, registered, offers, sent>>

(* A block takes a wallet's transaction.                                    *)
Land(w) ==
  LET tx == sent[w]
      ok == Accepts(w, tx)
      landed(v) ==
        IF v = w /\ At(w, "waiting")
          THEN On(w, IF ok THEN session[w].after ELSE "failed")
        ELSE IF v # w /\ tx.provider \in {r.provider : r \in session[v].fetched}
          THEN [session[v] EXCEPT !.clean = FALSE]
        ELSE session[v]
  IN  /\ tx # <<>>
      /\ IF ok THEN Effect(tx) ELSE UNCHANGED <<registered, offers>>
      /\ session' = [v \in Wallets |-> landed(v)]
      /\ sent' = [sent EXCEPT ![w] = <<>>]
      /\ UNCHANGED <<db, faults>>

(* The node evicts it; the receipt never comes.                             *)
Drop(w) ==
  /\ Fault("evict")
  /\ sent[w] # <<>>
  /\ sent' = [sent EXCEPT ![w] = <<>>]
  /\ IF At(w, "waiting") THEN Becomes(w, [On(w, "failed") EXCEPT !.clean = FALSE]) ELSE UNCHANGED session
  /\ UNCHANGED <<db, registered, offers>>

Crash(w) ==
  /\ Fault("crash")
  /\ Running(w)
  /\ Becomes(w, Idle)
  /\ UNCHANGED <<db, registered, offers, sent>>

Edit ==
  /\ Fault("edit")
  /\ db' \in Databases
  /\ session' = [session EXCEPT !["admin"].edited = TRUE]
  /\ UNCHANGED <<registered, offers, sent>>

Next ==
  \/ \E sel \in Selections \cup {Everything}, skipped \in SUBSET Orgs : BeginDb(sel, skipped)
  \/ \E p \in Providers, payee \in Payees \cup {Nobody}, bytes \in Sizes \cup {0} : BeginSp(p, payee, bytes)
  \/ \E p \in Providers, days \in {<<MinDays, MaxDays>>, <<MaxDays, MinDays>>} :
       BeginOffer(p, days[1], days[2], MinPrice)
  \/ \E count \in [Orgs -> 0 .. MaxClasses] : FetchOffers(count)
  \/ \E w \in Wallets : Step(w) \/ Decline(w) \/ Land(w) \/ Drop(w) \/ Crash(w)
  \/ Edit

Spec == Init /\ [][Next]_vars

(* Commands go on while prompts are answered yes, blocks are made, and the  *)
(* admin runs the command for everything again and again.                   *)
Fairness ==
  /\ \A w \in Wallets : WF_vars(Step(w)) /\ WF_vars(Land(w))
  /\ WF_vars(\E count \in [Orgs -> 0 .. MaxClasses] : FetchOffers(count))
  /\ SF_vars(BeginDb(Everything, {}))

FairSpec == Spec /\ Fairness

-----------------------------------------------------------------------------
(* Properties.                                                              *)

(* The types of the variables.                                              *)
TypeOK ==
  /\ db \in [Orgs -> Organization]
  /\ registered \in [Providers -> View]
  /\ offers \in [Providers -> Nat]
  /\ session \in [Wallets -> Session]
  /\ sent \in [Wallets -> {<<>>} \cup Sent]
  /\ faults \in [FaultKinds -> Nat]

(* The provider has what its row says.  Who is registered with the zero     *)
(* address as payee is paid at the organization.                            *)
InPlace(r) ==
  /\ r.provider \in Known /\ registered[r.provider].bytes = r.bytes
  /\ r.payee # Nobody => registered[r.provider].payee = r.payee

(* A run that is through, in which nothing was declined and nobody else     *)
(* touched its providers, leaves each of them as its row of the database    *)
(* was: also those that a run before it left half updated.                  *)
SyncedWhenThrough ==
  \A w \in Wallets : At(w, "through") /\ session[w].clean => \A r \in session[w].fetched : InPlace(r)

(* What can end register-db-sps with an error before the offers, when       *)
(* everything is confirmed and nobody interferes: a row that cannot be read *)
(* or converted, a capacity that is no size or is below what is committed,  *)
(* a provider named twice, a zero address, no room for another provider.    *)
RowsMalformed(sel) ==
  \/ Unreadable(sel) \/ Unsized(Addressed(sel)) \/ Duplicated(Addressed(sel), sel)
  \/ \E o \in Addressed(sel) :
       \/ db[o].address = "zero" \/ db[o].payee = Nobody
       \/ \E p \in db[o].miners \cap sel.providers :
            db[o].bytes < Committed[p] \/ (Full /\ p \notin Known)

(* And with its offers: an organization whose address is none, which has    *)
(* its providers skipped but not its offers; a class that cannot be read or *)
(* has no thresholds, a price that SPRegistry refuses, a provider that has  *)
(* as many offers as it may.                                                *)
OffersMalformed(sel) ==
  \E o \in Chosen(sel) :
    \/ UnreadableClass(o) \/ Unsupported(o, Whole(o))
    \/ Whole(o) > 0 /\ db[o].address = "bad"
    \/ \E k \in 1 .. Whole(o) : db[o].classes[k].price < MinPrice
    \/ Whole(o) > 0 /\ \E p \in db[o].miners \cap sel.providers : offers[p] >= MaxOffers

(* A run fails for one of its rows, or for one of its offers after all its  *)
(* rows are in SPRegistry: no other transaction of it is ever refused.      *)
FailsForCause ==
  LET me == session["admin"] IN
  me.pc = "failed" /\ me.clean /\ ~me.edited /\ ~RowsMalformed(me.selection) =>
    /\ OffersMalformed(me.selection)
    /\ \A r \in Listed(Addressed(me.selection), me.selection) : InPlace(r)

(* Running the command again brings SPRegistry in line with the database,   *)
(* once nobody changes either and its rows are well formed, also when no    *)
(* run ever comes through for its offers.                                   *)
Synced == \A r \in Listed(Addressed(Everything), Everything) : InPlace(r)
EventuallySynced == <>[](RowsMalformed(Everything) \/ Synced)
=============================================================================
