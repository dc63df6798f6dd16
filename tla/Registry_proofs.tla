----------------------------- MODULE Registry_proofs ----------------------------
(* What is read before the prompts is still so at the transaction, and a    *)
(* run that is through leaves its providers as the database has them: for   *)
(* any number of organizations, providers, classes, runs and disturbances.  *)
EXTENDS Registry, NaturalsInduction, WellFoundedInduction, TLAPS

(* Who is registered is registered whole.                                   *)
Enrolled(p) == registered[p].org \in Orgs /\ registered[p].payee \in Addresses
RegisteredSound == \A p \in Providers : registered[p] = Unregistered \/ Enrolled(p)

(* Two rows of one provider                                                 *)
Doubled(rows) == \E r, q \in rows : r # q /\ r.provider = q.provider

Out == {"idle", "failed"}
AtRow(w) ==
  session[w].pc \in {"register", "payee", "bytes"} \/ (At(w, "waiting") /\ session[w].after # "offers")
AtOffer(w) == At(w, "create") \/ (At(w, "waiting") /\ session[w].after = "offers")
PastRows(w) == session[w].pc \in {"fetch", "offers", "through"} \/ AtOffer(w)
Doing(w, kind) == At(w, kind) \/ (At(w, "waiting") /\ sent[w].kind = kind)

(* A transaction waits only while its command does, unless that one died.   *)
Outbox(w) ==
  LET me == session[w] IN
  /\ me.pc \notin {"waiting", "idle"} => sent[w] = <<>>
  /\ me.pc = "waiting" =>
       \/ me.after = "rows" /\ sent[w] = Tx("register", me.row.provider, me.row, me.offer)
       \/ me.after = "rows" /\ sent[w] = Tx("bytes", me.row.provider, me.row, me.offer)
       \/ me.after = "bytes" /\ sent[w] = Tx("payee", me.row.provider, me.row, me.offer)
       \/ me.after = "offers" /\ sent[w] = Tx("offer", me.offer.provider, me.row, me.offer)
  /\ AtOffer(w) => me.offer \in Offer

(* A run goes through the rows it fetched, of one provider each.            *)
Inside(w) ==
  LET me == session[w] IN
  me.pc \notin Out =>
    /\ ~Doubled(me.fetched)
    /\ me.rows \subseteq me.fetched
    /\ AtRow(w) => me.row \in me.fetched \ me.rows
    /\ PastRows(w) => me.rows = {}

(* What SPRegistry has of the provider at hand is what the command saw.     *)
AsSeen(w) ==
  LET me == session[w]
      p == me.row.provider
  IN  /\ Doing(w, "register") => registered[p] = Unregistered
      /\ Doing(w, "payee") => registered[p] = me.seen /\ Enrolled(p)
      /\ Doing(w, "bytes") =>
           Enrolled(p) /\ registered[p].payee = me.row.payee /\ registered[p].bytes = me.seen.bytes

Placed(r) ==
  /\ Enrolled(r.provider) /\ registered[r.provider].bytes = r.bytes
  /\ r.payee # Nobody => registered[r.provider].payee = r.payee
Finished(w) == {r \in session[w].fetched \ session[w].rows : AtRow(w) => r # session[w].row}

Kept(w) ==
  session[w].clean /\ session[w].pc \notin Out => AsSeen(w) /\ \A r \in Finished(w) : Placed(r)

(* A run of the admin that nothing disturbs has the rows of the database,   *)
(* and fails after all of them are in place at the earliest; where the      *)
(* offers are well formed, too, it does not fail: each of them is of an     *)
(* organization whose providers it registered.                              *)
Acceptable(offer, sel) ==
  /\ offer.min <= offer.max /\ offer.price >= MinPrice
  /\ \E o \in Addressed(sel) : Whole(o) > 0 /\ offer.provider \in db[o].miners \cap sel.providers

RowsCalm(sel) == session["admin"].clean /\ ~session["admin"].edited /\ ~RowsMalformed(sel)
Calm(sel) == RowsCalm(sel) /\ ~OffersMalformed(sel)

RunSound(sel) ==
  LET me == session["admin"] IN
  /\ RowsCalm(sel) /\ me.pc # "idle" => me.fetched = Listed(Addressed(sel), sel)
  /\ RowsCalm(sel) /\ me.pc = "failed" => \A r \in me.fetched : Placed(r)
  /\ Calm(sel) => me.pc # "failed"
  /\ Calm(sel) /\ me.pc # "idle" => \A offer \in me.todo : Acceptable(offer, sel)
  /\ Calm(sel) /\ AtOffer("admin") => Acceptable(me.offer, sel)
AdminSound == \A sel \in Selection : sel = session["admin"].selection => RunSound(sel)

WalletSound(w) == Outbox(w) /\ Inside(w) /\ Kept(w)
IInv == TypeOK /\ RegisteredSound /\ (\A w \in Wallets : WalletSound(w)) /\ AdminSound

-----------------------------------------------------------------------------

LEMMA InitSound == Init => IInv
<1> SUFFICES ASSUME Init PROVE IInv
  OBVIOUS
<1>1. Unregistered \in View /\ Everything \in Selection /\ Idle \in Session
  BY LimitsAssumption DEF Unregistered, View, Everything, Selection, Idle, Session, Pcs
<1>2. TypeOK
  BY <1>1, LimitsAssumption DEF Init, TypeOK
<1>3. RegisteredSound
  BY DEF Init, RegisteredSound
<1>4. ASSUME NEW w \in Wallets PROVE session[w].pc = "idle" /\ ~AtOffer(w)
  BY DEF Init, Idle, AtOffer, At
<1>5. \A w \in Wallets : WalletSound(w)
  BY <1>4 DEF WalletSound, Outbox, Inside, Kept, Out
<1>6. AdminSound
  BY <1>4 DEF AdminSound, RunSound, Wallets
<1> QED BY <1>2, <1>3, <1>5, <1>6 DEF IInv

LEMMA FaultTyped ==
  ASSUME faults \in [FaultKinds -> Nat], NEW kind \in FaultKinds, Fault(kind)
  PROVE  faults' \in [FaultKinds -> Nat]
BY DEF Fault, FaultKinds

(* Where a command goes on.                                                 *)
LEMMA OnIs ==
  ASSUME session \in [Wallets -> Session], NEW w \in Wallets,
         NEW pc \in {"rows", "bytes", "fetch", "offers", "through", "failed"}
  PROVE  /\ On(w, pc) \in Session
         /\ On(w, pc).pc = pc
         /\ On(w, pc).selection = session[w].selection /\ On(w, pc).fetched = session[w].fetched
         /\ On(w, pc).clean = session[w].clean /\ On(w, pc).edited = session[w].edited
         /\ pc \in {"through", "failed"} => On(w, pc).rows = {} /\ On(w, pc).todo = {}
         /\ pc \notin {"through", "failed"} =>
              On(w, pc).rows = session[w].rows /\ On(w, pc).todo = session[w].todo
         /\ pc = "bytes" => On(w, pc).row = session[w].row /\ On(w, pc).seen = session[w].seen
<1>1. session[w] \in Session /\ Unregistered \in View /\ Everything \in Selection
  BY LimitsAssumption DEF Unregistered, View, Everything, Selection
<1>2. CASE pc = "rows"
  BY <1>1, <1>2 DEF On, NextRow, Session, Pcs
<1>3. CASE pc = "offers"
  BY <1>1, <1>3 DEF On, Session, Pcs
<1>4. CASE pc \in {"through", "failed"}
  BY <1>1, <1>4 DEF On, Idle, Session, Pcs
<1>5. CASE pc \in {"bytes", "fetch"}
  BY <1>1, <1>5 DEF On, Session, Pcs
<1> QED BY <1>2, <1>3, <1>4, <1>5

(* While the database stays, so does what a run makes of it, and what ends  *)
(* a run stays a cause: nobody leaves SPRegistry, and its offers stay.      *)
Grows ==
  /\ Full => Known' = Known
  /\ \A p \in Providers : offers[p] >= MaxOffers => offers'[p] >= MaxOffers

LEMMA UnchangedGrows == ASSUME UNCHANGED <<registered, offers>> PROVE Grows
BY DEF Grows, Known

LEMMA Static ==
  ASSUME db' = db, NEW sel
  PROVE  /\ Chosen(sel)' = Chosen(sel) /\ Addressed(sel)' = Addressed(sel)
         /\ Listed(Addressed(sel), sel)' = Listed(Addressed(sel), sel)
         /\ \A o : Whole(o)' = Whole(o)
         /\ \A offer : Acceptable(offer, sel)' = Acceptable(offer, sel)
<1>1. Chosen(sel)' = Chosen(sel) /\ Addressed(sel)' = Addressed(sel)
  BY DEF Chosen, Addressed
<1>2. Listed(Addressed(sel), sel)' = Listed(Addressed(sel), sel)
  BY <1>1 DEF Listed, RowOf
<1>3. \A o : Whole(o)' = Whole(o)
  BY DEF Whole, Returnable, Bounded, Shortest, Longest
<1>4. \A offer : Acceptable(offer, sel)' = Acceptable(offer, sel)
  BY <1>1, <1>3 DEF Acceptable
<1> QED BY <1>1, <1>2, <1>3, <1>4

LEMMA CausesStay ==
  ASSUME db' = db, Grows, TypeOK, NEW sel \in Selection
  PROVE  /\ RowsMalformed(sel) => RowsMalformed(sel)'
         /\ OffersMalformed(sel) => OffersMalformed(sel)'
<1>1. Chosen(sel)' = Chosen(sel) /\ Addressed(sel)' = Addressed(sel) /\ \A o : Whole(o)' = Whole(o)
  BY Static
<1>2. \A p \in Providers : Full /\ p \notin Known => Full' /\ p \notin Known'
  BY DEF Grows, Full
<1>3. ASSUME RowsMalformed(sel) PROVE RowsMalformed(sel)'
  <2>1. CASE Unreadable(sel) \/ Unsized(Addressed(sel)) \/ Duplicated(Addressed(sel), sel)
    BY <1>1, <2>1 DEF RowsMalformed, Unreadable, Unsized, Duplicated
  <2>2. CASE \E o \in Addressed(sel) : db[o].address = "zero" \/ db[o].payee = Nobody
    BY <1>1, <2>2 DEF RowsMalformed
  <2>3. CASE \E o \in Addressed(sel) : \E p \in db[o].miners \cap sel.providers :
               db[o].bytes < Committed[p] \/ (Full /\ p \notin Known)
    <3> PICK o \in Addressed(sel) : \E p \in db[o].miners \cap sel.providers :
               db[o].bytes < Committed[p] \/ (Full /\ p \notin Known)
      BY <2>3
    <3> PICK p \in db[o].miners \cap sel.providers : db[o].bytes < Committed[p] \/ (Full /\ p \notin Known)
      OBVIOUS
    <3>1. p \in Providers
      BY DEF Selection
    <3>2. o \in Addressed(sel)' /\ p \in db'[o].miners \cap sel.providers
      BY <1>1
    <3>3. db'[o].bytes < Committed[p] \/ (Full' /\ p \notin Known')
      BY <1>2, <3>1
    <3> QED BY <3>2, <3>3 DEF RowsMalformed
  <2> QED BY <1>3, <2>1, <2>2, <2>3 DEF RowsMalformed
<1>4. ASSUME OffersMalformed(sel) PROVE OffersMalformed(sel)'
  <2> PICK o \in Chosen(sel) :
        \/ UnreadableClass(o) \/ Unsupported(o, Whole(o))
        \/ Whole(o) > 0 /\ db[o].address = "bad"
        \/ \E k \in 1 .. Whole(o) : db[o].classes[k].price < MinPrice
        \/ Whole(o) > 0 /\ \E p \in db[o].miners \cap sel.providers : offers[p] >= MaxOffers
    BY <1>4 DEF OffersMalformed
  <2>1. o \in Chosen(sel)' /\ Whole(o)' = Whole(o)
    BY <1>1
  <2>2. CASE UnreadableClass(o) \/ Unsupported(o, Whole(o))
    BY <2>1, <2>2 DEF OffersMalformed, UnreadableClass, Unsupported
  <2>3. CASE Whole(o) > 0 /\ db[o].address = "bad"
    BY <2>1, <2>3 DEF OffersMalformed
  <2>4. CASE \E k \in 1 .. Whole(o) : db[o].classes[k].price < MinPrice
    BY <2>1, <2>4 DEF OffersMalformed
  <2>5. CASE Whole(o) > 0 /\ \E p \in db[o].miners \cap sel.providers : offers[p] >= MaxOffers
    <3>1. \E p \in db'[o].miners \cap sel.providers : offers'[p] >= MaxOffers
      BY <2>5 DEF Grows, Selection
    <3> QED BY <2>1, <2>5, <3>1 DEF OffersMalformed
  <2> QED BY <2>2, <2>3, <2>4, <2>5
<1> QED BY <1>3, <1>4

LEMMA CalmBefore ==
  ASSUME db' = db, Grows, TypeOK, session'["admin"].clean => session["admin"].clean,
         session'["admin"].edited = session["admin"].edited, NEW sel \in Selection
  PROVE  /\ RowsCalm(sel)' => RowsCalm(sel)
         /\ Calm(sel)' => Calm(sel)
         /\ Calm(sel) => RowsCalm(sel)
BY CausesStay DEF Calm, RowsCalm

(* The admin's command goes on with the rows it has and offers that are     *)
(* acceptable.                                                              *)
LEMMA AdminGoesOn ==
  ASSUME TypeOK, AdminSound, db' = db, Grows, NEW sel \in Selection, sel = session["admin"].selection,
         session["admin"].pc # "idle",
         session'["admin"].selection = sel, session'["admin"].edited = session["admin"].edited,
         session'["admin"].clean => session["admin"].clean,
         session'["admin"].fetched = session["admin"].fetched, session'["admin"].pc # "failed",
         Calm(sel) => /\ \A offer \in session'["admin"].todo : Acceptable(offer, sel)
                      /\ AtOffer("admin")' => Acceptable(session'["admin"].offer, sel)
  PROVE  AdminSound'
<1>1. RowsCalm(sel)' => RowsCalm(sel)
  BY CalmBefore
<1>2. Calm(sel)' => Calm(sel)
  BY CalmBefore
<1>3. /\ Listed(Addressed(sel), sel)' = Listed(Addressed(sel), sel)
      /\ \A offer : Acceptable(offer, sel)' = Acceptable(offer, sel)
  BY Static
<1>4. RunSound(sel)
  BY DEF AdminSound
<1>5. RunSound(sel)'
  BY <1>1, <1>2, <1>3, <1>4 DEF RunSound
<1> QED BY <1>5 DEF AdminSound

(* It works off what it has.                                                *)
LEMMA AdminWorks ==
  ASSUME TypeOK, AdminSound, db' = db, Grows, session["admin"].pc # "idle",
         session'["admin"].selection = session["admin"].selection,
         session'["admin"].edited = session["admin"].edited,
         session'["admin"].clean => session["admin"].clean,
         session'["admin"].fetched = session["admin"].fetched, session'["admin"].pc # "failed",
         session'["admin"].todo \subseteq session["admin"].todo,
         AtOffer("admin")' => \/ session'["admin"].offer \in session["admin"].todo
                              \/ AtOffer("admin") /\ session'["admin"].offer = session["admin"].offer
  PROVE  AdminSound'
<1> PICK sel \in Selection : sel = session["admin"].selection
  BY DEF TypeOK, Session, Wallets
<1>1. RunSound(sel)
  BY DEF AdminSound
<1>2. Calm(sel) => /\ \A offer \in session'["admin"].todo : Acceptable(offer, sel)
                   /\ AtOffer("admin")' => Acceptable(session'["admin"].offer, sel)
  BY <1>1 DEF RunSound
<1> QED BY <1>2, AdminGoesOn

(* It fails: for a cause, and for one of the rows unless they are in place. *)
LEMMA AdminFails ==
  ASSUME TypeOK, AdminSound, db' = db, Grows, NEW sel \in Selection, sel = session["admin"].selection,
         session["admin"].pc # "idle",
         session'["admin"].selection = sel, session'["admin"].edited = session["admin"].edited,
         session'["admin"].clean => session["admin"].clean,
         session'["admin"].fetched = session["admin"].fetched, session'["admin"].pc = "failed",
         session'["admin"].clean => ~Calm(sel),
         session'["admin"].clean /\ RowsCalm(sel) => \A r \in session["admin"].fetched : Placed(r)'
  PROVE  AdminSound'
<1>1. RowsCalm(sel)' => RowsCalm(sel) /\ session'["admin"].clean
  BY CalmBefore DEF RowsCalm
<1>2. Calm(sel)' => Calm(sel) /\ session'["admin"].clean
  BY CalmBefore DEF Calm, RowsCalm
<1>3. Listed(Addressed(sel), sel)' = Listed(Addressed(sel), sel)
  BY Static
<1>4. RunSound(sel)
  BY DEF AdminSound
<1>5. RunSound(sel)'
  BY <1>1, <1>2, <1>3, <1>4 DEF RunSound
<1> QED BY <1>5 DEF AdminSound

(* It is over, with its session as it was or forgotten, or disturbed.       *)
LEMMA AdminIsIdle ==
  ASSUME session'["admin"].pc = "idle" \/ ~session'["admin"].clean \/ session'["admin"].edited
  PROVE  AdminSound'
BY DEF AdminSound, RunSound, Calm, RowsCalm, AtOffer, At

(* A step of one command that leaves SPRegistry and the database alone.     *)
LEMMA OneMoves ==
  ASSUME IInv, NEW w \in Wallets, NEW s \in Session, Becomes(w, s),
         UNCHANGED <<db, registered, offers>>, sent' \in [Wallets -> {<<>>} \cup Sent],
         \A v \in Wallets \ {w} : sent'[v] = sent[v],
         faults' \in [FaultKinds -> Nat],
         Outbox(w)', Inside(w)', Kept(w)', w = "admin" => AdminSound'
  PROVE  IInv'
<1>1. session' \in [Wallets -> Session] /\ \A v \in Wallets \ {w} : session'[v] = session[v]
  BY DEF Becomes, IInv, TypeOK
<1>2. TypeOK'
  BY <1>1 DEF IInv, TypeOK
<1>3. RegisteredSound'
  BY DEF IInv, RegisteredSound, Enrolled
<1>4. ASSUME NEW v \in Wallets \ {w} PROVE WalletSound(v)'
  <2>1. WalletSound(v)
    BY DEF IInv
  <2>2. Outbox(v)'
    BY <1>1, <2>1 DEF WalletSound, Outbox, AtOffer, At
  <2>3. Inside(v)'
    BY <1>1, <2>1 DEF WalletSound, Inside, AtOffer, AtRow, PastRows, At, Doubled
  <2>4. AsSeen(v)' = AsSeen(v) /\ Finished(v)' = Finished(v) /\ \A r : Placed(r)' = Placed(r)
    BY <1>1 DEF AsSeen, Doing, At, Finished, AtRow, Placed, Enrolled
  <2>5. Kept(v)'
    BY <1>1, <2>1, <2>4 DEF WalletSound, Kept
  <2> QED BY <2>2, <2>3, <2>5 DEF WalletSound
<1>5. AdminSound'
  <2>1. CASE w = "admin"
    BY <2>1
  <2>2. CASE w # "admin"
    <3>1. session'["admin"] = session["admin"] /\ db' = db
      BY <1>1, <2>2 DEF Wallets
    <3>2. ASSUME NEW sel \in Selection, RunSound(sel) PROVE RunSound(sel)'
      <4>1. (RowsCalm(sel)' => RowsCalm(sel)) /\ (Calm(sel)' => Calm(sel))
        BY <3>1, CalmBefore, UnchangedGrows DEF IInv
      <4>2. /\ Listed(Addressed(sel), sel)' = Listed(Addressed(sel), sel)
            /\ \A offer : Acceptable(offer, sel)' = Acceptable(offer, sel)
        BY Static
      <4>3. (\A r : Placed(r)' = Placed(r)) /\ AtOffer("admin")' = AtOffer("admin")
        BY <3>1 DEF Placed, Enrolled, AtOffer, At
      <4> QED BY <3>1, <3>2, <4>1, <4>2, <4>3 DEF RunSound
    <3> QED BY <3>1, <3>2 DEF IInv, AdminSound
  <2> QED BY <2>1, <2>2
<1> QED BY <1>2, <1>3, <1>4, <1>5 DEF IInv, WalletSound

-----------------------------------------------------------------------------
(* The commands begin.                                                      *)

LEMMA ListedRows ==
  ASSUME TypeOK, NEW orgs \in SUBSET Orgs, NEW sel \in Selection
  PROVE  /\ Listed(orgs, sel) \subseteq Row
         /\ ~Duplicated(orgs, sel) => ~Doubled(Listed(orgs, sel))
<1>1. ASSUME NEW o \in orgs, NEW p \in db[o].miners \cap sel.providers
      PROVE  RowOf(p, o) \in Row /\ RowOf(p, o).provider = p
  <2>1. db[o] \in Organization /\ p \in Providers
    BY DEF TypeOK, Selection
  <2> QED BY <2>1 DEF Organization, Row, RowOf, Addresses
<1>2. Listed(orgs, sel) \subseteq Row
  BY <1>1 DEF Listed
<1>3. ASSUME ~Duplicated(orgs, sel), NEW r \in Listed(orgs, sel), NEW s \in Listed(orgs, sel),
             r.provider = s.provider
      PROVE  r = s
  <2>1. PICK o \in orgs : \E p \in db[o].miners \cap sel.providers : r = RowOf(p, o)
    BY DEF Listed
  <2>2. PICK q \in orgs : \E p \in db[q].miners \cap sel.providers : s = RowOf(p, q)
    BY DEF Listed
  <2>3. PICK p : p \in db[o].miners \cap sel.providers /\ r = RowOf(p, o)
    BY <2>1
  <2>4. p \in db[q].miners \cap sel.providers /\ s = RowOf(p, q)
    BY <1>1, <1>3, <2>2, <2>3
  <2>5. o = q
    BY <1>3, <2>3, <2>4 DEF Duplicated
  <2> QED BY <2>3, <2>4, <2>5
<1> QED BY <1>2, <1>3 DEF Doubled

LEMMA BeginDbStep ==
  ASSUME IInv, NEW sel \in Selections \cup {Everything}, NEW skipped \in SUBSET Orgs, BeginDb(sel, skipped)
  PROVE  IInv'
<1> DEFINE orgs == Addressed(sel) \ skipped
           rows == Listed(orgs, sel)
           error == Unreadable(sel) \/ Unsized(orgs) \/ Duplicated(orgs, sel)
           run == [Idle EXCEPT !.selection = sel, !.clean = skipped = {}]
           s == IF error THEN [run EXCEPT !.pc = "failed"]
                ELSE [run EXCEPT !.pc = IF rows = {} THEN "through" ELSE "rows", !.rows = rows, !.fetched = rows]
<1>1. TypeOK /\ session' = [session EXCEPT !["admin"] = s] /\ sent["admin"] = <<>> /\ "admin" \in Wallets
  BY DEF BeginDb, IInv, Wallets
<1>2. sel \in Selection /\ Everything \in Selection /\ Unregistered \in View
  BY LimitsAssumption DEF Everything, Selection, Unregistered, View
<1>3. rows \subseteq Row /\ (~error => ~Doubled(rows))
  <2>1. orgs \in SUBSET Orgs
    BY <1>2 DEF Addressed, Chosen, Selection
  <2> QED BY <2>1, <1>1, <1>2, ListedRows
<1>4. skipped = {} => orgs = Addressed(sel)
  OBVIOUS
<1> HIDE DEF rows, orgs
<1>5. run \in Session /\ run.selection = sel /\ run.clean = (skipped = {}) /\ run.todo = {}
      /\ run.rows = {} /\ run.fetched = {} /\ run.edited = FALSE
  BY <1>2 DEF Session, Idle, Pcs
<1> HIDE DEF run, error
<1>6. /\ s \in Session /\ s.selection = sel /\ s.clean = (skipped = {}) /\ s.todo = {} /\ s.rows = s.fetched
      /\ s.pc = IF error THEN "failed" ELSE IF rows = {} THEN "through" ELSE "rows"
      /\ ~error => s.fetched = rows
      /\ error => s.fetched = {}
  BY <1>3, <1>5 DEF Session, Pcs
<1>7. faults' \in [FaultKinds -> Nat]
  BY <1>1, FaultTyped DEF BeginDb, TypeOK, FaultKinds
<1>8. UNCHANGED <<db, registered, offers, sent>>
  BY DEF BeginDb
<1>9. session'["admin"] = s
  BY <1>1 DEF TypeOK
<1> HIDE DEF s
<1>10. s.pc \in {"failed", "through", "rows"}
  BY <1>6
<1>11. Outbox("admin")'
  BY <1>1, <1>8, <1>9, <1>10 DEF Outbox, AtOffer, At
<1>12. Inside("admin")'
  <2>1. ~AtRow("admin")'
    BY <1>9, <1>10 DEF AtRow, At
  <2>2. PastRows("admin")' => s.pc = "through"
    BY <1>9, <1>10 DEF PastRows, AtOffer, At
  <2>3. s.pc = "through" => s.rows = {}
    BY <1>6
  <2>4. s.pc # "failed" => ~Doubled(s.fetched)
    BY <1>3, <1>6
  <2> QED BY <2>1, <2>2, <2>3, <2>4, <1>6, <1>9 DEF Inside, Doubled, Out
<1>13. Kept("admin")'
  <2>1. Finished("admin")' = {}
    BY <1>6, <1>9 DEF Finished
  <2>2. AsSeen("admin")'
    BY <1>9, <1>10 DEF AsSeen, Doing, At
  <2> QED BY <2>1, <2>2 DEF Kept
<1>14. RunSound(sel)'
  <2>1. ASSUME RowsCalm(sel)' PROVE ~error /\ rows = Listed(Addressed(sel), sel)
    <3>1. skipped = {}
      BY <1>6, <1>9, <2>1 DEF RowsCalm
    <3>2. ~RowsMalformed(sel)'
      BY <2>1 DEF RowsCalm
    <3>3. ~RowsMalformed(sel)
      BY <1>1, <1>2, <1>8, <3>2, CausesStay, UnchangedGrows
    <3> QED BY <1>4, <3>1, <3>3 DEF RowsMalformed, error, rows
  <2>2. Listed(Addressed(sel), sel)' = Listed(Addressed(sel), sel)
    BY <1>8, Static
  <2>3. ~AtOffer("admin")'
    BY <1>9, <1>10 DEF AtOffer, At
  <2> QED BY <1>6, <1>9, <2>1, <2>2, <2>3 DEF RunSound, Calm
<1>15. AdminSound'
  BY <1>6, <1>9, <1>14 DEF AdminSound
<1> QED BY <1>1, <1>6, <1>7, <1>8, <1>9, <1>11, <1>12, <1>13, <1>15, OneMoves DEF Becomes, TypeOK

LEMMA BeginSpStep ==
  ASSUME IInv, NEW p \in Providers, NEW payee \in Payees \cup {Nobody}, NEW bytes \in Sizes \cup {0},
         BeginSp(p, payee, bytes)
  PROVE  IInv'
<1> DEFINE row == [provider |-> p, org |-> IF registered[p] # Unregistered THEN registered[p].org ELSE SpOrg,
                   payee |-> IF payee # Nobody THEN payee ELSE registered[p].payee,
                   bytes |-> IF bytes > 0 THEN bytes ELSE registered[p].bytes]
           s == [Idle EXCEPT !.pc = "rows", !.rows = {row}, !.fetched = {row}]
<1>1. TypeOK /\ session' = [session EXCEPT !["sp"] = s] /\ sent["sp"] = <<>> /\ "sp" \in Wallets
  BY DEF BeginSp, IInv, Wallets
<1>2. Everything \in Selection /\ Unregistered \in View
  BY LimitsAssumption DEF Everything, Selection, Unregistered, View
<1>4. row \in Row
  <2>1. registered[p].payee \in Addresses \cup {Nobody} /\ registered[p].org \in Orgs \cup {Nobody}
    BY <1>1 DEF TypeOK, View
  <2>2. registered[p].bytes \in Nat /\ bytes \in Nat
    BY <1>1, LimitsAssumption DEF TypeOK, View
  <2> QED BY <2>1, <2>2, LimitsAssumption DEF Row, Addresses
<1> HIDE DEF row
<1>5. s \in Session
  BY <1>2, <1>4 DEF Session, Idle, Pcs
<1>6. s.pc = "rows" /\ s.rows = {row} /\ s.fetched = {row}
  BY DEF Idle
<1>7. faults' \in [FaultKinds -> Nat]
  BY <1>1, FaultTyped DEF BeginSp, TypeOK, FaultKinds
<1>8. UNCHANGED <<db, registered, offers, sent>>
  BY DEF BeginSp
<1>9. session'["sp"] = s
  BY <1>1 DEF TypeOK
<1> HIDE DEF s
<1>10. Outbox("sp")'
  BY <1>1, <1>8, <1>6, <1>9 DEF Outbox, AtOffer, At
<1>11. Inside("sp")'
  BY <1>6, <1>9 DEF Inside, AtRow, PastRows, AtOffer, At, Doubled, Out
<1>12. Kept("sp")'
  <2>1. Finished("sp")' = {}
    BY <1>6, <1>9 DEF Finished
  <2>2. AsSeen("sp")'
    BY <1>6, <1>9 DEF AsSeen, Doing, At
  <2> QED BY <2>1, <2>2 DEF Kept
<1> QED BY <1>1, <1>5, <1>7, <1>8, <1>10, <1>11, <1>12, OneMoves DEF Becomes, TypeOK

LEMMA BeginOfferStep ==
  ASSUME IInv, NEW p \in Providers, NEW min \in {MinDays, MaxDays}, NEW max \in {MinDays, MaxDays},
         BeginOffer(p, min, max, MinPrice)
  PROVE  IInv'
<1> DEFINE offer == [provider |-> p, org |-> SpOrg, class |-> 0, min |-> min, max |-> max, price |-> MinPrice]
           s == [Idle EXCEPT !.pc = "offers", !.todo = {offer}]
<1>1. TypeOK /\ session' = [session EXCEPT !["sp"] = s] /\ sent["sp"] = <<>> /\ "sp" \in Wallets
  BY DEF BeginOffer, IInv, Wallets
<1>2. Everything \in Selection /\ Unregistered \in View
  BY LimitsAssumption DEF Everything, Selection, Unregistered, View
<1>3. offer \in Offer
  BY LimitsAssumption DEF Offer
<1> HIDE DEF offer
<1>4. s \in Session
  BY <1>2, <1>3 DEF Session, Idle, Pcs
<1>5. s.pc = "offers" /\ s.rows = {} /\ s.fetched = {}
  BY DEF Idle
<1>6. faults' \in [FaultKinds -> Nat]
  BY <1>1, FaultTyped DEF BeginOffer, TypeOK, FaultKinds
<1>7. UNCHANGED <<db, registered, offers, sent>>
  BY DEF BeginOffer
<1>8. session'["sp"] = s
  BY <1>1 DEF TypeOK
<1> HIDE DEF s
<1>9. Outbox("sp")'
  BY <1>1, <1>5, <1>7, <1>8 DEF Outbox, AtOffer, At
<1>10. Inside("sp")'
  BY <1>5, <1>8 DEF Inside, AtRow, PastRows, AtOffer, At, Doubled, Out
<1>11. Kept("sp")'
  BY <1>5, <1>8 DEF Kept, AsSeen, Doing, At, Finished
<1> QED BY <1>1, <1>4, <1>6, <1>7, <1>9, <1>10, <1>11, OneMoves DEF Becomes, TypeOK

-----------------------------------------------------------------------------
(* The rows.                                                                *)

(* What SPRegistry would answer a run of the admin that nothing disturbed.  *)
LEMMA RowAccepted ==
  ASSUME IInv, NEW sel \in Selection, sel = session["admin"].selection, RowsCalm(sel),
         NEW kind \in {"register", "payee", "bytes"}, Doing("admin", kind), AtRow("admin")
  PROVE  Accepts("admin", Tx(kind, session["admin"].row.provider, session["admin"].row, session["admin"].offer))
<1> DEFINE me == session["admin"]
           tx == Tx(kind, me.row.provider, me.row, me.offer)
<1>1. "admin" \in Wallets /\ me.pc \notin Out /\ me.clean
  BY DEF Wallets, AtRow, At, Out, RowsCalm
<1>2. Kept("admin") /\ Inside("admin")
  BY <1>1 DEF IInv, WalletSound
<1>3. me.row \in me.fetched /\ me.fetched = Listed(Addressed(sel), sel)
  BY <1>1, <1>2 DEF Inside, IInv, AdminSound, RunSound, Out
<1>4. PICK o \in Addressed(sel) : \E p \in db[o].miners \cap sel.providers : me.row = RowOf(p, o)
  BY <1>3 DEF Listed
<1>5. PICK p \in db[o].miners \cap sel.providers : me.row = RowOf(p, o)
  BY <1>4
<1>6. o \in Orgs /\ p \in Providers
  BY DEF Addressed, Chosen, Selection
<1>7. /\ db[o].address # "zero" /\ db[o].payee # Nobody
      /\ ~(db[o].bytes < Committed[p]) /\ (p \notin Known => ~Full)
  BY DEF RowsCalm, RowsMalformed
<1>8. /\ me.row.provider = p /\ me.row.bytes = db[o].bytes
      /\ me.row.payee # Nobody /\ me.row.org = o
  BY <1>5, <1>7 DEF RowOf
<1>9. me.row.bytes >= Committed[p] /\ o # Nobody
  <2>1. db[o].bytes \in Nat /\ Committed[p] \in Nat
    BY <1>6, LimitsAssumption DEF IInv, TypeOK, Organization
  <2> QED BY <1>6, <1>7, <1>8, <2>1, LimitsAssumption
<1>10. AsSeen("admin")
  BY <1>1, <1>2 DEF Kept
<1>11. tx.kind = kind /\ tx.provider = p /\ tx.row = me.row
  BY <1>8 DEF Tx
<1>12. ASSUME Enrolled(p) PROVE p \in Known
  BY <1>6, <1>12, LimitsAssumption DEF Enrolled, Unregistered, Known
<1>13. CASE kind = "register"
  <2>1. p \notin Known
    BY <1>8, <1>10, <1>13 DEF AsSeen, Known
  <2> QED BY <1>7, <1>8, <1>9, <1>11, <1>13, <2>1 DEF Accepts
<1>14. CASE kind = "payee"
  BY <1>8, <1>10, <1>11, <1>12, <1>14 DEF AsSeen, Accepts, Controls
<1>15. CASE kind = "bytes"
  BY <1>8, <1>9, <1>10, <1>11, <1>12, <1>15 DEF AsSeen, Accepts, Controls
<1> QED BY <1>13, <1>14, <1>15

LEMMA OfferAccepted ==
  ASSUME IInv, NEW sel \in Selection, sel = session["admin"].selection, Calm(sel), AtOffer("admin")
  PROVE  Accepts("admin", Tx("offer", session["admin"].offer.provider, session["admin"].row, session["admin"].offer))
<1> DEFINE me == session["admin"]
           tx == Tx("offer", me.offer.provider, me.row, me.offer)
           p == me.offer.provider
<1>1. "admin" \in Wallets /\ me.pc \notin Out /\ me.clean /\ ~AtRow("admin") /\ PastRows("admin")
  BY DEF Wallets, AtOffer, AtRow, PastRows, At, Out, Calm, RowsCalm
<1>2. me.rows = {} /\ \A r \in Finished("admin") : Placed(r)
  BY <1>1 DEF IInv, WalletSound, Inside, Kept
<1>3. Acceptable(me.offer, sel) /\ me.fetched = Listed(Addressed(sel), sel)
  BY <1>1 DEF IInv, AdminSound, RunSound, Calm, Out
<1>4. PICK o \in Addressed(sel) : Whole(o) > 0 /\ p \in db[o].miners \cap sel.providers
  BY <1>3 DEF Acceptable
<1>5. RowOf(p, o) \in me.fetched /\ RowOf(p, o).provider = p
  BY <1>3, <1>4 DEF Listed, RowOf
<1>6. Enrolled(p)
  BY <1>1, <1>2, <1>5 DEF Finished, Placed
<1>7. p \in Providers
  BY <1>4 DEF Selection
<1>8. p \in Known
  BY <1>6, <1>7, LimitsAssumption DEF Enrolled, Unregistered, Known
<1>9. offers[p] < MaxOffers
  <2>1. ~(offers[p] >= MaxOffers)
    BY <1>4 DEF Calm, OffersMalformed, Addressed
  <2>2. offers[p] \in Nat
    BY <1>7 DEF IInv, TypeOK
  <2> QED BY <2>1, <2>2, LimitsAssumption
<1>10. tx.kind = "offer" /\ tx.provider = p /\ tx.offer = me.offer
  BY DEF Tx
<1>11. me.offer.min <= me.offer.max /\ me.offer.price >= MinPrice
  BY <1>3 DEF Acceptable
<1> QED BY <1>8, <1>9, <1>10, <1>11 DEF Accepts, Controls

LEMMA LookStep == ASSUME IInv, NEW w \in Wallets, Look(w) PROVE IInv'
<1> DEFINE me == session[w]
<1>1. TypeOK /\ me \in Session /\ me.pc = "rows" /\ WalletSound(w) /\ sent[w] = <<>>
  BY DEF IInv, TypeOK, Look, At, WalletSound, Outbox
<1> PICK row \in me.rows :
      LET seen == registered[row.provider]
          left == [NextRow(w) EXCEPT !.rows = @ \ {row}]
      IN Becomes(w, IF seen # Unregistered /\ Same(seen, row) THEN left
                    ELSE [left EXCEPT !.pc = IF seen = Unregistered THEN "register" ELSE "payee",
                                      !.row = row, !.seen = seen])
  BY DEF Look
<1> DEFINE seen == registered[row.provider]
           left == [NextRow(w) EXCEPT !.rows = @ \ {row}]
           s == IF seen # Unregistered /\ Same(seen, row) THEN left
                ELSE [left EXCEPT !.pc = IF seen = Unregistered THEN "register" ELSE "payee",
                                  !.row = row, !.seen = seen]
<1>2. row \in Row /\ seen \in View /\ Unregistered \in View /\ row.provider \in Providers
  BY <1>1, LimitsAssumption DEF Session, TypeOK, Row, Unregistered, View
<1>3. /\ left \in Session /\ left.pc = "rows" /\ left.rows = me.rows \ {row} /\ left.todo = me.todo
      /\ left.fetched = me.fetched /\ left.clean = me.clean /\ left.edited = me.edited
      /\ left.selection = me.selection
  BY <1>1, <1>2 DEF NextRow, Session, Pcs
<1> HIDE DEF left
<1>4. /\ s \in Session /\ s.rows = me.rows \ {row} /\ s.todo = me.todo
      /\ s.fetched = me.fetched /\ s.clean = me.clean /\ s.edited = me.edited /\ s.selection = me.selection
      /\ s.pc = IF seen # Unregistered /\ Same(seen, row) THEN "rows" ELSE IF seen = Unregistered THEN "register" ELSE "payee"
      /\ s.pc # "rows" => s.row = row /\ s.seen = seen
  BY <1>2, <1>3 DEF Session, Pcs
<1>5. Becomes(w, s) /\ UNCHANGED <<db, registered, offers, sent, faults>>
  BY DEF left, Look
<1> HIDE DEF s
<1>6. session'[w] = s
  BY <1>1, <1>5 DEF Becomes, TypeOK
<1>7. s.pc \in {"rows", "register", "payee"}
  BY <1>4
<1>8. Outbox(w)'
  BY <1>1, <1>5, <1>6, <1>7 DEF Outbox, AtOffer, At
<1>9. ~Doubled(me.fetched) /\ me.rows \subseteq me.fetched /\ row \in me.fetched
  BY <1>1 DEF WalletSound, Inside, Out
<1>10. Inside(w)'
  BY <1>4, <1>6, <1>7, <1>9 DEF Inside, AtRow, PastRows, AtOffer, At, Doubled
<1>11. Kept(w)'
  <2> SUFFICES ASSUME me.clean PROVE Kept(w)'
    BY <1>4, <1>6 DEF Kept
  <2>1. \A r \in Finished(w) : Placed(r)
    BY <1>1 DEF WalletSound, Kept, Out
  <2>2. Finished(w) = me.fetched \ me.rows
    BY <1>1 DEF Finished, AtRow, At
  <2>3. seen = Unregistered \/ Enrolled(row.provider)
    BY <1>2 DEF IInv, RegisteredSound
  <2>4. seen # Unregistered /\ Same(seen, row) => Placed(row)
    BY <1>2, <2>3 DEF Same, Placed
  <2>5. \A r \in Finished(w)' : r # row => r \in Finished(w)
    BY <1>4, <1>6, <2>2 DEF Finished
  <2>6. row \in Finished(w)' => seen # Unregistered /\ Same(seen, row)
    BY <1>4, <1>6 DEF Finished, AtRow, At
  <2>7. \A r : Placed(r)' = Placed(r)
    BY <1>5 DEF Placed, Enrolled
  <2>8. AsSeen(w)'
    BY <1>4, <1>5, <1>6, <2>3 DEF AsSeen, Doing, At, Enrolled
  <2> QED BY <2>1, <2>4, <2>5, <2>6, <2>7, <2>8 DEF Kept
<1>12. ASSUME w = "admin" PROVE AdminSound'
  <2>1. ~AtOffer("admin")' /\ Grows
    BY <1>5, <1>6, <1>7, <1>12, UnchangedGrows DEF AtOffer, At
  <2> QED BY <1>1, <1>4, <1>5, <1>6, <1>7, <1>12, <2>1, AdminWorks DEF IInv
<1> QED BY <1>1, <1>4, <1>5, <1>8, <1>10, <1>11, <1>12, OneMoves DEF TypeOK

(* A command that fails is over; the admin's does for a cause.              *)
LEMMA Fails ==
  ASSUME IInv, NEW w \in Wallets, NEW s \in Session, Becomes(w, s), session[w].pc # "idle",
         s.pc = "failed", s.fetched = session[w].fetched, s.selection = session[w].selection,
         s.edited = session[w].edited, s.clean => session[w].clean,
         UNCHANGED <<db, registered, offers>>, faults' \in [FaultKinds -> Nat],
         sent' \in [Wallets -> {<<>>} \cup Sent], \A v \in Wallets \ {w} : sent'[v] = sent[v],
         sent'[w] = <<>>,
         NEW sel \in Selection, sel = session["admin"].selection,
         w = "admin" /\ s.clean => /\ ~Calm(sel)
                                   /\ RowsCalm(sel) => \A r \in session["admin"].fetched : Placed(r)
  PROVE  IInv'
<1>1. TypeOK
  BY DEF IInv
<1>2. session'[w] = s
  BY <1>1 DEF TypeOK, Becomes
<1>3. Outbox(w)' /\ Inside(w)' /\ Kept(w)'
  BY <1>2 DEF Outbox, Inside, Kept, Out, AtOffer, At
<1>4. ASSUME w = "admin" PROVE AdminSound'
  <2>1. \A r : Placed(r)' = Placed(r)
    BY DEF Placed, Enrolled
  <2>2. s.clean => ~Calm(sel)
    BY <1>4
  <2>3. s.clean /\ RowsCalm(sel) => \A r \in session["admin"].fetched : Placed(r)'
    BY <1>4, <2>1
  <2>4. Grows
    BY UnchangedGrows
  <2> QED BY <1>1, <1>2, <1>4, <2>2, <2>3, <2>4, AdminFails DEF IInv
<1> QED BY <1>1, <1>2, <1>3, <1>4, OneMoves DEF TypeOK

(* The transaction that a provider's row or an offer calls for.             *)
LEMMA RowTransacts ==
  ASSUME IInv, NEW w \in Wallets, NEW kind \in {"register", "payee", "bytes"}, At(w, kind),
         Transact(w, kind, IF kind = "payee" THEN "bytes" ELSE "rows"),
         UNCHANGED <<db, registered, offers, faults>>
  PROVE  IInv'
<1> DEFINE me == session[w]
           after == IF kind = "payee" THEN "bytes" ELSE "rows"
           tx == Tx(kind, me.row.provider, me.row, me.offer)
           s == [me EXCEPT !.pc = "waiting", !.after = after]
<1>1. TypeOK /\ me \in Session /\ me.pc = kind /\ WalletSound(w) /\ sent[w] = <<>>
  BY DEF IInv, TypeOK, At, WalletSound, Outbox
<1>2. me.row \in me.fetched \ me.rows /\ me.row \in Row
  BY <1>1 DEF WalletSound, Inside, AtRow, At, Session, Out
<1>3. tx \in Sent /\ tx.kind = kind
  BY <1>1, <1>2 DEF Tx, Sent, Row, Session
<1>4. CASE Accepts(w, tx)
  <2>1. sent' = [sent EXCEPT ![w] = tx] /\ Becomes(w, s)
    BY <1>4 DEF Transact
  <2>2. /\ s \in Session /\ s.pc = "waiting" /\ s.after = after /\ s.row = me.row /\ s.offer = me.offer
        /\ s.rows = me.rows /\ s.fetched = me.fetched /\ s.clean = me.clean /\ s.edited = me.edited
        /\ s.selection = me.selection /\ s.todo = me.todo /\ s.seen = me.seen
    BY <1>1 DEF Session, Pcs
  <2> HIDE DEF s
  <2>3. session'[w] = s /\ sent'[w] = tx
    BY <1>1, <2>1 DEF Becomes, TypeOK
  <2>4. Outbox(w)'
    BY <2>2, <2>3 DEF Outbox, AtOffer, At
  <2>5. ~AtOffer(w)' /\ ~PastRows(w)' /\ AtRow(w)' /\ AtRow(w)
    BY <1>1, <2>2, <2>3 DEF PastRows, AtRow, AtOffer, At
  <2>6. Inside(w)'
    BY <1>1, <1>2, <2>2, <2>3, <2>5 DEF WalletSound, Inside, Out, Doubled
  <2>7. Kept(w)'
    <3> SUFFICES ASSUME me.clean PROVE Kept(w)'
      BY <2>2, <2>3 DEF Kept
    <3>1. AsSeen(w) /\ \A r \in Finished(w) : Placed(r)
      BY <1>1 DEF WalletSound, Kept, Out
    <3>2. Finished(w)' = Finished(w)
      BY <2>2, <2>3, <2>5 DEF Finished
    <3>3. \A r : Placed(r)' = Placed(r)
      BY DEF Placed, Enrolled
    <3>4. AsSeen(w)'
      BY <1>1, <1>3, <2>2, <2>3, <3>1 DEF AsSeen, Doing, At, Enrolled
    <3> QED BY <3>1, <3>2, <3>3, <3>4 DEF Kept
  <2>8. ASSUME w = "admin" PROVE AdminSound'
    <3>1. session["admin"].pc # "idle" /\ Grows
      BY <1>1, <2>8, UnchangedGrows
    <3> QED BY <1>1, <2>2, <2>3, <2>5, <2>8, <3>1, AdminWorks DEF IInv
  <2>9. sent' \in [Wallets -> {<<>>} \cup Sent] /\ \A v \in Wallets \ {w} : sent'[v] = sent[v]
    BY <1>1, <1>3, <2>1 DEF TypeOK
  <2> QED BY <1>1, <2>1, <2>2, <2>4, <2>6, <2>7, <2>8, <2>9, OneMoves DEF TypeOK
<1>5. CASE ~Accepts(w, tx)
  <2>1. Becomes(w, On(w, "failed")) /\ sent' = sent
    BY <1>5 DEF Transact
  <2>2. AtRow(w) /\ Doing(w, kind)
    BY <1>1 DEF AtRow, Doing, At
  <2> PICK sel \in Selection : sel = session["admin"].selection
    BY <1>1 DEF TypeOK, Session, Wallets
  <2>3. w = "admin" => ~RowsCalm(sel) /\ ~Calm(sel)
    BY <1>5, <2>2, RowAccepted DEF Calm
  <2> DEFINE f == On(w, "failed")
  <2>4. /\ f \in Session /\ f.pc = "failed" /\ f.fetched = me.fetched /\ f.selection = me.selection
        /\ f.edited = me.edited /\ f.clean = me.clean
    BY <1>1, OnIs DEF TypeOK
  <2> HIDE DEF f
  <2>5. Becomes(w, f)
    BY <2>1 DEF f
  <2> QED BY <1>1, <2>1, <2>3, <2>4, <2>5, Fails DEF TypeOK
<1> QED BY <1>4, <1>5

LEMMA RegisterStep == ASSUME IInv, NEW w \in Wallets, Register(w) PROVE IInv'
BY RowTransacts DEF Register

(* A parameter that is the same is passed over.                             *)
LEMMA PayeeStep == ASSUME IInv, NEW w \in Wallets, Payee(w) PROVE IInv'
<1> DEFINE me == session[w]
           s == On(w, "bytes")
<1>1. TypeOK /\ me.pc = "payee" /\ WalletSound(w) /\ sent[w] = <<>>
  BY DEF IInv, Payee, At, WalletSound, Outbox
<1>2. CASE ~SamePayee(w)
  BY <1>2, RowTransacts DEF Payee
<1>3. CASE SamePayee(w)
  <2>1. Becomes(w, s) /\ UNCHANGED <<db, registered, offers, sent, faults>>
    BY <1>3 DEF Payee
  <2>2. /\ s \in Session /\ s.pc = "bytes" /\ s.row = me.row /\ s.seen = me.seen
        /\ s.rows = me.rows /\ s.fetched = me.fetched /\ s.clean = me.clean /\ s.edited = me.edited
        /\ s.selection = me.selection /\ s.todo = me.todo
    BY <1>1, OnIs DEF TypeOK
  <2> HIDE DEF s
  <2>3. session'[w] = s
    BY <1>1, <2>1 DEF Becomes, TypeOK
  <2>4. Outbox(w)' /\ ~AtOffer(w)' /\ ~PastRows(w)' /\ AtRow(w)' /\ AtRow(w)
    BY <1>1, <2>1, <2>2, <2>3 DEF Outbox, PastRows, AtRow, AtOffer, At
  <2>5. Inside(w)'
    BY <1>1, <2>2, <2>3, <2>4 DEF WalletSound, Inside, Out, Doubled
  <2>6. Kept(w)'
    <3> SUFFICES ASSUME me.clean PROVE Kept(w)'
      BY <2>2, <2>3 DEF Kept
    <3>1. AsSeen(w) /\ \A r \in Finished(w) : Placed(r)
      BY <1>1 DEF WalletSound, Kept, Out
    <3>2. Finished(w)' = Finished(w)
      BY <2>2, <2>3, <2>4 DEF Finished
    <3>3. \A r : Placed(r)' = Placed(r)
      BY <2>1 DEF Placed, Enrolled
    <3>4. AsSeen(w)'
      BY <1>1, <1>3, <2>1, <2>2, <2>3, <3>1 DEF AsSeen, Doing, At, Enrolled, SamePayee
    <3> QED BY <3>1, <3>2, <3>3, <3>4 DEF Kept
  <2>7. ASSUME w = "admin" PROVE AdminSound'
    <3>1. Grows
      BY <2>1, UnchangedGrows
    <3> QED BY <1>1, <2>1, <2>2, <2>3, <2>4, <2>7, <3>1, AdminWorks DEF IInv
  <2> QED BY <1>1, <2>1, <2>2, <2>4, <2>5, <2>6, <2>7, OneMoves DEF TypeOK
<1> QED BY <1>2, <1>3

(* A command goes on to the next row: the one at hand is as it should be,   *)
(* or the run is not clean any more.                                        *)
LEMMA NextRowComes ==
  ASSUME IInv, NEW w \in Wallets, NEW s \in Session, Becomes(w, s), AtRow(w), session[w].pc # "waiting",
         s.pc = "rows", s.rows = session[w].rows, s.fetched = session[w].fetched, s.todo = session[w].todo,
         s.edited = session[w].edited, s.selection = session[w].selection,
         s.clean => session[w].clean /\ Placed(session[w].row),
         UNCHANGED <<db, registered, offers, sent>>, faults' \in [FaultKinds -> Nat]
  PROVE  IInv'
<1> DEFINE me == session[w]
<1>1. TypeOK /\ WalletSound(w) /\ me.pc \in {"register", "payee", "bytes"} /\ sent[w] = <<>>
  BY DEF IInv, AtRow, At, WalletSound, Outbox
<1>2. session'[w] = s
  BY <1>1 DEF Becomes, TypeOK
<1>3. Outbox(w)' /\ ~AtOffer(w)' /\ ~AtRow(w)' /\ ~PastRows(w)'
  BY <1>1, <1>2 DEF Outbox, AtOffer, AtRow, PastRows, At
<1>4. Inside(w)'
  BY <1>1, <1>2, <1>3 DEF WalletSound, Inside, Out, Doubled
<1>5. Kept(w)'
  <2> SUFFICES ASSUME s.clean PROVE Kept(w)'
    BY <1>2 DEF Kept
  <2>1. \A r \in Finished(w) : Placed(r)
    BY <1>1 DEF WalletSound, Kept, Out
  <2>2. \A r \in Finished(w)' : r = me.row \/ r \in Finished(w)
    BY <1>2 DEF Finished
  <2>3. \A r : Placed(r)' = Placed(r)
    BY DEF Placed, Enrolled
  <2>4. AsSeen(w)'
    BY <1>1, <1>2 DEF AsSeen, Doing, At
  <2> QED BY <2>1, <2>2, <2>3, <2>4 DEF Kept
<1>6. ASSUME w = "admin" PROVE AdminSound'
  <2>1. session["admin"].pc # "idle" /\ Grows
    BY <1>1, <1>6, UnchangedGrows
  <2> QED BY <1>1, <1>2, <1>3, <1>6, <2>1, AdminWorks DEF IInv
<1> QED BY <1>1, <1>3, <1>4, <1>5, <1>6, OneMoves DEF TypeOK

LEMMA BytesStep == ASSUME IInv, NEW w \in Wallets, Bytes(w) PROVE IInv'
<1> DEFINE me == session[w]
<1>1. TypeOK /\ WalletSound(w) /\ AtRow(w) /\ me.pc = "bytes" /\ me \in Session
  BY DEF IInv, TypeOK, Bytes, At, AtRow
<1>2. CASE ~SameBytes(w)
  BY <1>2, RowTransacts DEF Bytes
<1>3. CASE SameBytes(w)
  <2>1. Becomes(w, On(w, "rows")) /\ UNCHANGED <<db, registered, offers, sent, faults>>
    BY <1>3 DEF Bytes, On
  <2>2. me.clean => Placed(me.row)
    BY <1>1, <1>3 DEF WalletSound, Kept, AsSeen, Doing, At, Out, Placed, SameBytes
  <2> QED BY <1>1, <2>1, <2>2, NextRowComes, OnIs DEF TypeOK
<1> QED BY <1>2, <1>3

(* A command between its rows and its offers, or done with the offers.      *)
LEMMA OffersGoOn ==
  ASSUME IInv, NEW w \in Wallets, NEW s \in Session, Becomes(w, s),
         UNCHANGED <<db, registered, offers, sent>>, faults' \in [FaultKinds -> Nat],
         ~AtRow(w), session[w].pc \notin Out \cup {"waiting"}, session[w].rows = {},
         s.pc \in {"fetch", "offers", "create", "through"}, s.rows = {}, s.fetched = session[w].fetched,
         s.pc = "create" => s.offer \in Offer,
         s.clean => session[w].clean, s.edited = session[w].edited, s.selection = session[w].selection,
         NEW sel \in Selection, sel = session["admin"].selection,
         w = "admin" /\ Calm(sel) => /\ \A o \in s.todo : Acceptable(o, sel)
                                     /\ s.pc = "create" => Acceptable(s.offer, sel)
  PROVE  IInv'
<1> DEFINE me == session[w]
<1>1. TypeOK /\ WalletSound(w) /\ sent[w] = <<>>
  BY DEF IInv, WalletSound, Outbox, Out
<1>2. session'[w] = s
  BY <1>1 DEF Becomes, TypeOK
<1>3. Outbox(w)' /\ ~AtRow(w)' /\ (AtOffer(w)' <=> s.pc = "create")
  BY <1>1, <1>2 DEF Outbox, AtOffer, AtRow, At
<1>4. Inside(w)'
  BY <1>1, <1>2, <1>3 DEF WalletSound, Inside, Out, Doubled
<1>5. Kept(w)'
  <2> SUFFICES ASSUME s.clean PROVE Kept(w)'
    BY <1>2 DEF Kept
  <2>1. \A r \in Finished(w) : Placed(r)
    BY <1>1 DEF WalletSound, Kept, Out
  <2>2. Finished(w)' = Finished(w)
    BY <1>2, <1>3 DEF Finished
  <2>3. \A r : Placed(r)' = Placed(r)
    BY DEF Placed, Enrolled
  <2>4. AsSeen(w)'
    BY <1>2 DEF AsSeen, Doing, At
  <2> QED BY <2>1, <2>2, <2>3, <2>4 DEF Kept
<1>6. ASSUME w = "admin" PROVE AdminSound'
  <2>1. session["admin"].pc # "idle" /\ Grows /\ s.pc # "failed"
    BY <1>6, UnchangedGrows DEF Out
  <2>2. Calm(sel) => /\ \A o \in session'["admin"].todo : Acceptable(o, sel)
                     /\ AtOffer("admin")' => Acceptable(session'["admin"].offer, sel)
    BY <1>2, <1>3, <1>6
  <2> QED BY <1>1, <1>2, <1>6, <2>1, <2>2, AdminGoesOn DEF IInv
<1> QED BY <1>1, <1>3, <1>4, <1>5, <1>6, OneMoves DEF TypeOK

LEMMA RowsDoneStep == ASSUME IInv, NEW w \in Wallets, RowsDone(w) PROVE IInv'
<1> DEFINE pc == IF w = "admin" THEN "fetch" ELSE "through"
           s == On(w, pc)
<1>1. TypeOK /\ session[w].pc = "rows" /\ ~AtRow(w) /\ session[w].rows = {} /\ session[w].pc \notin Out
  BY DEF IInv, RowsDone, At, AtRow, Out
<1>2. Becomes(w, s) /\ UNCHANGED <<db, registered, offers, sent, faults>>
  BY DEF RowsDone
<1>3. /\ s \in Session /\ s.pc = pc /\ s.rows = {} /\ s.fetched = session[w].fetched
      /\ s.clean = session[w].clean /\ s.edited = session[w].edited /\ s.selection = session[w].selection
      /\ w = "admin" => s.todo = session[w].todo
  BY <1>1, OnIs DEF TypeOK
<1> PICK sel \in Selection : sel = session["admin"].selection
  BY <1>1 DEF TypeOK, Session, Wallets
<1>4. w = "admin" /\ Calm(sel) => \A o \in s.todo : Acceptable(o, sel)
  BY <1>1, <1>3 DEF IInv, AdminSound, RunSound
<1> HIDE DEF s
<1> QED BY <1>1, <1>2, <1>3, <1>4, OffersGoOn DEF TypeOK

LEMMA NextOfferStep == ASSUME IInv, NEW w \in Wallets, NextOffer(w) PROVE IInv'
<1> PICK offer \in session[w].todo :
      Becomes(w, [session[w] EXCEPT !.pc = "create", !.offer = offer, !.todo = @ \ {offer}])
  BY DEF NextOffer
<1> DEFINE s == [session[w] EXCEPT !.pc = "create", !.offer = offer, !.todo = @ \ {offer}]
<1>1. TypeOK /\ session[w].pc = "offers" /\ ~AtRow(w) /\ session[w].pc \notin Out /\ session[w] \in Session
  BY DEF IInv, TypeOK, NextOffer, At, AtRow, Out
<1>2. session[w].rows = {}
  BY <1>1 DEF IInv, WalletSound, Inside, PastRows, At
<1>3. Becomes(w, s) /\ UNCHANGED <<db, registered, offers, sent, faults>>
  BY DEF NextOffer
<1>4. /\ s \in Session /\ s.pc = "create" /\ s.rows = {} /\ s.fetched = session[w].fetched
      /\ s.clean = session[w].clean /\ s.edited = session[w].edited /\ s.selection = session[w].selection
      /\ s.todo = session[w].todo \ {offer} /\ s.offer = offer /\ offer \in Offer
  BY <1>1, <1>2 DEF Session, Pcs
<1> HIDE DEF s
<1> PICK sel \in Selection : sel = session["admin"].selection
  BY <1>1 DEF TypeOK, Session, Wallets
<1>5. w = "admin" /\ Calm(sel) => /\ \A o \in s.todo : Acceptable(o, sel)
                                  /\ s.pc = "create" => Acceptable(s.offer, sel)
  BY <1>1, <1>4 DEF IInv, AdminSound, RunSound
<1> QED BY <1>1, <1>2, <1>3, <1>4, <1>5, OffersGoOn, Zenon DEF TypeOK

LEMMA OffersDoneStep == ASSUME IInv, NEW w \in Wallets, OffersDone(w) PROVE IInv'
<1> DEFINE s == On(w, "through")
<1>1. TypeOK /\ session[w].pc = "offers" /\ ~AtRow(w) /\ session[w].pc \notin Out
  BY DEF IInv, OffersDone, At, AtRow, Out
<1>2. session[w].rows = {}
  BY <1>1 DEF IInv, WalletSound, Inside, PastRows, At
<1>3. Becomes(w, s) /\ UNCHANGED <<db, registered, offers, sent, faults>>
  BY DEF OffersDone
<1>4. /\ s \in Session /\ s.pc = "through" /\ s.rows = {} /\ s.fetched = session[w].fetched
      /\ s.clean = session[w].clean /\ s.edited = session[w].edited /\ s.selection = session[w].selection
      /\ s.todo = {}
  BY <1>1, OnIs DEF TypeOK
<1> HIDE DEF s
<1> PICK sel \in Selection : sel = session["admin"].selection
  BY <1>1 DEF TypeOK, Session, Wallets
<1> QED BY <1>1, <1>2, <1>3, <1>4, OffersGoOn DEF TypeOK

LEMMA CreateStep == ASSUME IInv, NEW w \in Wallets, Create(w) PROVE IInv'
<1> DEFINE me == session[w]
           tx == Tx("offer", me.offer.provider, me.row, me.offer)
           s == [me EXCEPT !.pc = "waiting", !.after = "offers"]
<1>1. TypeOK /\ me \in Session /\ me.pc = "create" /\ WalletSound(w) /\ sent[w] = <<>>
  BY DEF IInv, TypeOK, Create, At, WalletSound, Outbox
<1>2. AtOffer(w) /\ PastRows(w) /\ ~AtRow(w) /\ me.rows = {} /\ me.offer \in Offer /\ me.pc \notin Out
  BY <1>1 DEF WalletSound, Outbox, Inside, AtOffer, AtRow, PastRows, At, Out
<1>3. tx \in Sent /\ tx.kind = "offer" /\ UNCHANGED <<db, registered, offers, faults>>
  BY <1>1, <1>2 DEF Tx, Sent, Offer, Session, Create
<1>4. CASE Accepts(w, tx)
  <2>1. sent' = [sent EXCEPT ![w] = tx] /\ Becomes(w, s)
    BY <1>4 DEF Create, Transact
  <2>2. /\ s \in Session /\ s.pc = "waiting" /\ s.after = "offers" /\ s.row = me.row /\ s.offer = me.offer
        /\ s.rows = me.rows /\ s.fetched = me.fetched /\ s.clean = me.clean /\ s.edited = me.edited
        /\ s.selection = me.selection /\ s.todo = me.todo
    BY <1>1 DEF Session, Pcs
  <2> HIDE DEF s
  <2>3. session'[w] = s /\ sent'[w] = tx
    BY <1>1, <2>1 DEF Becomes, TypeOK
  <2>4. Outbox(w)'
    BY <1>2, <2>2, <2>3 DEF Outbox
  <2>5. AtOffer(w)' /\ ~AtRow(w)'
    BY <2>2, <2>3 DEF AtRow, AtOffer, At
  <2>6. Inside(w)'
    BY <1>1, <1>2, <2>2, <2>3, <2>5 DEF WalletSound, Inside, Out, Doubled
  <2>7. Kept(w)'
    <3> SUFFICES ASSUME me.clean PROVE Kept(w)'
      BY <2>2, <2>3 DEF Kept
    <3>1. \A r \in Finished(w) : Placed(r)
      BY <1>1, <1>2 DEF WalletSound, Kept
    <3>2. Finished(w)' = Finished(w)
      BY <1>2, <2>2, <2>3, <2>5 DEF Finished
    <3>3. \A r : Placed(r)' = Placed(r)
      BY <1>3 DEF Placed, Enrolled
    <3>4. AsSeen(w)'
      BY <1>3, <2>2, <2>3 DEF AsSeen, Doing, At
    <3> QED BY <3>1, <3>2, <3>3, <3>4 DEF Kept
  <2>8. ASSUME w = "admin" PROVE AdminSound'
    <3>1. session["admin"].pc # "idle" /\ Grows /\ db' = db
      BY <1>1, <1>3, <2>8, UnchangedGrows
    <3> QED BY <1>1, <1>2, <2>2, <2>3, <2>5, <2>8, <3>1, AdminWorks DEF IInv
  <2>9. sent' \in [Wallets -> {<<>>} \cup Sent] /\ \A v \in Wallets \ {w} : sent'[v] = sent[v]
    BY <1>1, <1>3, <2>1 DEF TypeOK
  <2> QED BY <1>1, <1>3, <2>1, <2>2, <2>4, <2>6, <2>7, <2>8, <2>9, OneMoves DEF TypeOK
<1>5. CASE ~Accepts(w, tx)
  <2>1. Becomes(w, On(w, "failed")) /\ sent' = sent
    BY <1>5 DEF Create, Transact
  <2> PICK sel \in Selection : sel = session["admin"].selection
    BY <1>1 DEF TypeOK, Session, Wallets
  <2>2. w = "admin" => ~Calm(sel)
    BY <1>2, <1>5, OfferAccepted
  <2>3. me.clean => \A r \in me.fetched : Placed(r)
    BY <1>1, <1>2 DEF WalletSound, Kept, Finished
  <2>4. w = "admin" /\ me.clean => /\ ~Calm(sel)
                                   /\ RowsCalm(sel) => \A r \in session["admin"].fetched : Placed(r)
    BY <2>2, <2>3
  <2> DEFINE f == On(w, "failed")
  <2>5. /\ f \in Session /\ f.pc = "failed" /\ f.fetched = me.fetched /\ f.selection = me.selection
        /\ f.edited = me.edited /\ f.clean = me.clean
    BY <1>1, OnIs DEF TypeOK
  <2> HIDE DEF f
  <2>6. Becomes(w, f)
    BY <2>1 DEF f
  <2> QED BY <1>1, <1>3, <2>1, <2>4, <2>5, <2>6, Fails DEF TypeOK
<1> QED BY <1>4, <1>5

LEMMA MinIsThere ==
  ASSUME NEW numbers, numbers \subseteq Nat, numbers # {}
  PROVE  Min(numbers) \in numbers /\ \A n \in numbers : Min(numbers) <= n
<1>1. \E i \in numbers : \A j \in numbers : <<j, i>> \notin OpToRel(<, Nat)
  BY NatLessThanWellFounded, WFMin
<1>2. PICK i \in numbers : \A j \in numbers : <<j, i>> \notin OpToRel(<, Nat)
  BY <1>1
<1>3. \A j \in numbers : ~ (j < i)
  BY <1>2 DEF OpToRel
<1>4. \A j \in numbers : i <= j
  BY <1>3
<1> QED BY <1>4 DEF Min

(* An organization has an offer only if its durations are in order.         *)
LEMMA WholeBounded ==
  ASSUME TypeOK, NEW o \in Orgs
  PROVE  Whole(o) \in Int /\ Whole(o) <= Len(db[o].classes) /\ (1 <= Whole(o) => Bounded(o))
<1> DEFINE stops == {k \in 1 .. Len(db[o].classes) : ~Returnable(o, k)}
<1>1. Len(db[o].classes) \in Nat
  BY DEF TypeOK, Organization
<1>2. Whole(o) = IF stops = {} THEN Len(db[o].classes) ELSE Min(stops) - 1
  BY DEF Whole
<1>3. 1 \in 1 .. Len(db[o].classes) /\ 1 \notin stops => Bounded(o)
  BY DEF Returnable
<1>4. stops \subseteq 1 .. Len(db[o].classes)
  OBVIOUS
<1> HIDE DEF stops
<1>5. CASE stops = {}
  BY <1>1, <1>2, <1>3, <1>5
<1>6. CASE stops # {}
  <2>0. stops \subseteq Nat
    BY <1>1, <1>4
  <2>1. Min(stops) \in stops /\ \A j \in stops : Min(stops) <= j
    BY <2>0, <1>6, MinIsThere
  <2>2. Min(stops) \in 1 .. Len(db[o].classes)
    BY <1>4, <2>1
  <2> QED BY <1>1, <1>2, <1>3, <1>6, <2>1, <2>2
<1> QED BY <1>5, <1>6

(* The offers that a run makes of the database.                             *)
LEMMA OffersReturned ==
  ASSUME IInv, NEW sel \in Selection, NEW count \in [Orgs -> 0 .. MaxClasses],
         \A o \in Chosen(sel) : count[o] <= Whole(o)
  PROVE  /\ Returned(sel, count) \subseteq Offer
         /\ ~OffersMalformed(sel) => \A offer \in Returned(sel, count) : Acceptable(offer, sel)
<1> SUFFICES ASSUME NEW o \in Chosen(sel), NEW p \in db[o].miners \cap sel.providers, NEW k \in 1 .. count[o]
             PROVE  /\ OfferOf(p, o, k) \in Offer
                    /\ ~OffersMalformed(sel) => Acceptable(OfferOf(p, o, k), sel)
  BY DEF Returned
<1>1. o \in Orgs /\ p \in Providers /\ TypeOK
  BY DEF Chosen, Selection, IInv
<1>2. db[o] \in Organization
  BY <1>1 DEF TypeOK
<1>3. Shortest(o) \in Nat /\ Longest(o) \in Nat
  BY <1>2, LimitsAssumption DEF Organization, Shortest, Longest
<1>4. k \in Nat /\ count[o] \in Nat /\ 1 <= k /\ k <= count[o]
  BY <1>1, LimitsAssumption
<1>5. Whole(o) \in Int /\ Whole(o) <= Len(db[o].classes) /\ (1 <= Whole(o) => Bounded(o))
  BY <1>1, WholeBounded
<1>6. k \in 1 .. Whole(o) /\ k \in 1 .. Len(db[o].classes) /\ Whole(o) > 0 /\ Bounded(o)
  <2>1. Len(db[o].classes) \in Nat
    BY <1>2 DEF Organization
  <2> QED BY <1>4, <1>5, <2>1
<1>7. db[o].classes[k].price \in Nat
  <2>1. db[o].classes \in Seq(Class)
    BY <1>2 DEF Organization
  <2>2. db[o].classes[k] \in Class
    BY <1>6, <2>1
  <2> QED BY <2>2 DEF Class
<1>8. OfferOf(p, o, k) \in Offer
  BY <1>1, <1>3, <1>4, <1>7 DEF OfferOf, Offer
<1>9. ASSUME ~OffersMalformed(sel) PROVE Acceptable(OfferOf(p, o, k), sel)
  <2>1. ~(db[o].classes[k].price < MinPrice) /\ db[o].address # "bad"
    BY <1>6, <1>9 DEF OffersMalformed
  <2>2. db[o].classes[k].price >= MinPrice
    BY <1>7, <2>1, LimitsAssumption
  <2>3. o \in Addressed(sel)
    BY <2>1 DEF Addressed
  <2>4. /\ OfferOf(p, o, k).min = Shortest(o) /\ OfferOf(p, o, k).max = Longest(o)
        /\ OfferOf(p, o, k).price = db[o].classes[k].price /\ OfferOf(p, o, k).provider = p
    BY DEF OfferOf
  <2> QED BY <1>6, <2>2, <2>3, <2>4 DEF Acceptable, Bounded
<1> QED BY <1>8, <1>9

LEMMA FetchOffersStep ==
  ASSUME IInv, NEW count \in [Orgs -> 0 .. MaxClasses], FetchOffers(count)
  PROVE  IInv'
<1> DEFINE me == session["admin"]
<1>1. TypeOK /\ "admin" \in Wallets /\ me.pc = "fetch" /\ ~AtRow("admin") /\ me.pc \notin Out
  BY DEF IInv, FetchOffers, At, AtRow, Out, Wallets
<1> PICK sel \in Selection : sel = me.selection
  BY <1>1 DEF TypeOK, Session
<1> DEFINE all == [o \in Orgs |-> IF o \in Chosen(sel) THEN Whole(o) ELSE 0]
           todo == Returned(sel, count)
           error == \E o \in Chosen(sel) : UnreadableClass(o) \/ Unsupported(o, count[o])
           pc == IF error THEN "failed" ELSE IF todo = {} THEN "through" ELSE "offers"
           f == [On("admin", "failed") EXCEPT !.clean = @ /\ count = all]
           s == [On("admin", IF todo = {} THEN "through" ELSE "offers")
                   EXCEPT !.todo = todo, !.clean = @ /\ count = all]
<1>2. me.rows = {} /\ WalletSound("admin") /\ sent["admin"] = <<>>
  BY <1>1 DEF IInv, TypeOK, WalletSound, Inside, Outbox, PastRows, At, Session
<1>3. Becomes("admin", IF error THEN f ELSE s) /\ UNCHANGED <<db, registered, offers, sent>>
  BY DEF FetchOffers
<1>4. faults' \in [FaultKinds -> Nat]
  BY <1>1, FaultTyped DEF FetchOffers, TypeOK, FaultKinds
<1>5. \A o \in Chosen(sel) : o \in Orgs /\ count[o] <= Whole(o)
  BY DEF FetchOffers, Chosen, Selection
<1>6. todo \subseteq Offer /\ (~OffersMalformed(sel) => \A offer \in todo : Acceptable(offer, sel))
  BY <1>5, OffersReturned
<1>7. count = all /\ error => OffersMalformed(sel)
  BY <1>5 DEF OffersMalformed
<1> HIDE DEF todo, all, error
<1>8. CASE error
  <2>1. /\ f \in Session /\ f.pc = "failed" /\ f.fetched = me.fetched /\ f.selection = me.selection
        /\ f.edited = me.edited /\ (f.clean => me.clean /\ count = all)
    <3>1. /\ On("admin", "failed") \in Session /\ On("admin", "failed").pc = "failed"
          /\ On("admin", "failed").fetched = me.fetched /\ On("admin", "failed").clean = me.clean
          /\ On("admin", "failed").edited = me.edited /\ On("admin", "failed").selection = me.selection
      BY <1>1, OnIs DEF TypeOK
    <3>2. me.clean \in BOOLEAN
      BY <1>1 DEF TypeOK, Session
    <3> QED BY <3>1, <3>2 DEF Session
  <2>2. Becomes("admin", f)
    BY <1>3, <1>8
  <2> HIDE DEF f
  <2>3. f.clean => ~Calm(sel)
    BY <1>7, <1>8, <2>1 DEF Calm
  <2>4. f.clean => \A r \in me.fetched : Placed(r)
    BY <1>1, <1>2, <2>1 DEF WalletSound, Kept, Finished
  <2> QED BY <1>1, <1>2, <1>3, <1>4, <2>1, <2>2, <2>3, <2>4, Fails DEF TypeOK, Out
<1>9. CASE ~error
  <2> DEFINE next == IF todo = {} THEN "through" ELSE "offers"
  <2>1. /\ s \in Session /\ s.pc = next /\ s.rows = {} /\ s.fetched = me.fetched /\ (s.clean => me.clean)
        /\ s.edited = me.edited /\ s.selection = me.selection /\ s.todo = todo
    <3>1. /\ On("admin", next) \in Session /\ On("admin", next).pc = next /\ On("admin", next).rows = {}
          /\ On("admin", next).fetched = me.fetched /\ On("admin", next).clean = me.clean
          /\ On("admin", next).edited = me.edited /\ On("admin", next).selection = me.selection
      BY <1>1, <1>2, OnIs DEF TypeOK
    <3>2. me.clean \in BOOLEAN
      BY <1>1 DEF TypeOK, Session
    <3> QED BY <1>6, <3>1, <3>2 DEF Session
  <2>2. Becomes("admin", s)
    BY <1>3, <1>9
  <2> HIDE DEF s
  <2>3. Calm(sel) => \A offer \in s.todo : Acceptable(offer, sel)
    BY <1>6, <2>1 DEF Calm
  <2>4. s.pc \in {"through", "offers"} /\ me.pc \notin Out \cup {"waiting"}
    BY <1>1, <2>1
  <2> QED BY <1>1, <1>2, <1>3, <1>4, <2>1, <2>2, <2>3, <2>4, OffersGoOn
<1> QED BY <1>8, <1>9

-----------------------------------------------------------------------------
(* Disturbances.                                                            *)

LEMMA DeclineStep == ASSUME IInv, NEW w \in Wallets, Decline(w) PROVE IInv'
<1> DEFINE me == session[w]
<1>1. TypeOK /\ WalletSound(w) /\ me \in Session
  BY DEF IInv, TypeOK
<1>2. faults' \in [FaultKinds -> Nat] /\ UNCHANGED <<db, registered, offers, sent>>
  BY <1>1, FaultTyped DEF Decline, TypeOK, FaultKinds
<1>3. PICK pc \in CASE me.pc \in {"register", "bytes"} -> {"rows"}
                    [] At(w, "payee") -> {"bytes", "rows"}
                    [] At(w, "create") -> {"offers"}
                    [] OTHER -> {} :
        Becomes(w, [On(w, pc) EXCEPT !.clean = FALSE])
  BY DEF Decline
<1> DEFINE s == [On(w, pc) EXCEPT !.clean = FALSE]
<1>4. \/ me.pc \in {"register", "payee", "bytes"} /\ pc = "rows"
      \/ me.pc = "payee" /\ pc = "bytes"
      \/ me.pc = "create" /\ pc = "offers"
  BY DEF At
<1>5. /\ s \in Session /\ s.pc = pc /\ s.rows = me.rows /\ s.todo = me.todo /\ s.fetched = me.fetched
      /\ s.clean = FALSE /\ s.edited = me.edited /\ s.selection = me.selection
      /\ pc = "bytes" => s.row = me.row
  <2>1. /\ On(w, pc) \in Session /\ On(w, pc).pc = pc /\ On(w, pc).rows = me.rows
        /\ On(w, pc).todo = me.todo /\ On(w, pc).fetched = me.fetched
        /\ On(w, pc).edited = me.edited /\ On(w, pc).selection = me.selection
        /\ pc = "bytes" => On(w, pc).row = me.row
    BY <1>1, <1>4, OnIs DEF TypeOK
  <2> QED BY <2>1 DEF Session
<1>6. Becomes(w, s)
  BY <1>3
<1> HIDE DEF s
<1>7. CASE pc = "rows"
  BY <1>1, <1>2, <1>4, <1>5, <1>6, <1>7, NextRowComes DEF AtRow
<1>8. CASE pc = "offers"
  <2>1. ~AtRow(w) /\ me.pc \notin Out \cup {"waiting"} /\ me.rows = {} /\ PastRows(w)
    BY <1>1, <1>4, <1>8 DEF WalletSound, Inside, PastRows, AtOffer, AtRow, At, Out
  <2> PICK sel \in Selection : sel = session["admin"].selection
    BY <1>1 DEF TypeOK, Session, Wallets
  <2>2. w = "admin" /\ Calm(sel) => \A o \in s.todo : Acceptable(o, sel)
    BY <2>1, <1>5 DEF IInv, AdminSound, RunSound, Out
  <2> QED BY <1>2, <1>5, <1>6, <1>8, <2>1, <2>2, OffersGoOn
<1>9. CASE pc = "bytes"
  <2>1. session'[w] = s /\ AtRow(w) /\ me.pc = "payee"
    BY <1>1, <1>4, <1>6, <1>9 DEF Becomes, TypeOK, AtRow
  <2>2. Outbox(w)' /\ ~PastRows(w)' /\ AtRow(w)'
    BY <1>1, <1>2, <1>5, <1>9, <2>1 DEF WalletSound, Outbox, PastRows, AtOffer, AtRow, At
  <2>3. Inside(w)'
    BY <1>1, <1>5, <1>9, <2>1, <2>2 DEF WalletSound, Inside, Doubled, Out
  <2>4. Kept(w)'
    BY <1>5, <2>1 DEF Kept
  <2>5. w = "admin" => AdminSound'
    BY <1>5, <2>1, AdminIsIdle
  <2> QED BY <1>1, <1>2, <1>5, <1>6, <2>2, <2>3, <2>4, <2>5, OneMoves DEF TypeOK
<1> QED BY <1>4, <1>7, <1>8, <1>9

LEMMA DropStep == ASSUME IInv, NEW w \in Wallets, Drop(w) PROVE IInv'
<1> DEFINE s == [On(w, "failed") EXCEPT !.clean = FALSE]
<1>1. TypeOK /\ WalletSound(w) /\ faults' \in [FaultKinds -> Nat] /\ UNCHANGED <<db, registered, offers>>
  BY FaultTyped DEF IInv, Drop, TypeOK, FaultKinds
<1>2. /\ sent' \in [Wallets -> {<<>>} \cup Sent] /\ sent'[w] = <<>>
      /\ \A v \in Wallets \ {w} : sent'[v] = sent[v]
  BY <1>1 DEF Drop, TypeOK
<1>3. CASE At(w, "waiting")
  <2>1. Becomes(w, s)
    BY <1>3 DEF Drop
  <2>2. s \in Session /\ s.pc = "failed" /\ s.clean = FALSE
    <3>1. On(w, "failed") \in Session /\ On(w, "failed").pc = "failed"
      BY <1>1, OnIs DEF TypeOK
    <3> QED BY <3>1 DEF Session
  <2> HIDE DEF s
  <2>3. session'[w] = s
    BY <1>1, <2>1 DEF Becomes, TypeOK
  <2>4. Outbox(w)' /\ Inside(w)' /\ Kept(w)'
    BY <1>2, <2>2, <2>3 DEF Outbox, Inside, Kept, AtOffer, At, Out
  <2>5. w = "admin" => AdminSound'
    BY <2>2, <2>3, AdminIsIdle
  <2> QED BY <1>1, <1>2, <2>1, <2>2, <2>4, <2>5, OneMoves
<1>4. CASE ~At(w, "waiting")
  <2>1. session' = session /\ session[w].pc = "idle" /\ session[w] \in Session
    BY <1>1, <1>4 DEF Drop, At, WalletSound, Outbox, TypeOK
  <2>2. Becomes(w, session[w])
    BY <1>1, <2>1 DEF Becomes, TypeOK
  <2>3. Outbox(w)' /\ Inside(w)' /\ Kept(w)'
    BY <1>2, <2>1 DEF Outbox, Inside, Kept, AtOffer, At, Out
  <2>4. w = "admin" => AdminSound'
    BY <2>1, AdminIsIdle
  <2> QED BY <1>1, <1>2, <2>1, <2>2, <2>3, <2>4, OneMoves
<1> QED BY <1>3, <1>4

LEMMA CrashStep == ASSUME IInv, NEW w \in Wallets, Crash(w) PROVE IInv'
<1>1. TypeOK /\ faults' \in [FaultKinds -> Nat] /\ UNCHANGED <<db, registered, offers, sent>> /\ Becomes(w, Idle)
  BY FaultTyped DEF IInv, Crash, TypeOK, FaultKinds
<1>2. Idle \in Session /\ Idle.pc = "idle"
  BY LimitsAssumption DEF Idle, Session, Pcs, Everything, Selection, Unregistered, View
<1>3. session'[w] = Idle
  BY <1>1 DEF Becomes, TypeOK
<1>4. Outbox(w)' /\ Inside(w)' /\ Kept(w)'
  BY <1>2, <1>3 DEF Outbox, Inside, Kept, AtOffer, At, Out
<1>5. w = "admin" => AdminSound'
  BY <1>2, <1>3, AdminIsIdle
<1> QED BY <1>1, <1>2, <1>4, <1>5, OneMoves DEF TypeOK

LEMMA EditStep == ASSUME IInv, Edit PROVE IInv'
<1> DEFINE me == session["admin"]
           s == [me EXCEPT !.edited = TRUE]
<1>1. TypeOK /\ faults' \in [FaultKinds -> Nat] /\ UNCHANGED <<registered, offers, sent>> /\ "admin" \in Wallets
  BY FaultTyped DEF IInv, Edit, TypeOK, FaultKinds, Wallets
<1>2. /\ s \in Session /\ s.edited = TRUE /\ s.pc = me.pc /\ s.after = me.after /\ s.row = me.row
      /\ s.seen = me.seen /\ s.rows = me.rows /\ s.fetched = me.fetched /\ s.offer = me.offer
      /\ s.clean = me.clean
  BY <1>1 DEF TypeOK, Session
<1>3. session' = [session EXCEPT !["admin"] = s]
  BY DEF Edit
<1> HIDE DEF s
<1>4. session' \in [Wallets -> Session] /\ session'["admin"] = s /\ \A v \in Wallets \ {"admin"} : session'[v] = session[v]
  BY <1>1, <1>2, <1>3 DEF TypeOK
<1>5. TypeOK'
  BY <1>1, <1>4, LimitsAssumption DEF TypeOK, Edit
<1>6. RegisteredSound'
  BY <1>1 DEF IInv, RegisteredSound, Enrolled
<1>7. ASSUME NEW v \in Wallets PROVE WalletSound(v)'
  <2>1. /\ session'[v].pc = session[v].pc /\ session'[v].after = session[v].after
        /\ session'[v].row = session[v].row /\ session'[v].seen = session[v].seen
        /\ session'[v].rows = session[v].rows /\ session'[v].fetched = session[v].fetched
        /\ session'[v].offer = session[v].offer /\ session'[v].clean = session[v].clean
    BY <1>2, <1>4
  <2>2. WalletSound(v)
    BY DEF IInv
  <2>3. Outbox(v)'
    BY <1>1, <2>1, <2>2 DEF WalletSound, Outbox, AtOffer, At
  <2>4. Inside(v)'
    BY <2>1, <2>2 DEF WalletSound, Inside, AtRow, PastRows, AtOffer, At, Doubled
  <2>5. AsSeen(v) => AsSeen(v)'
    BY <1>1, <2>1 DEF AsSeen, Doing, At, Enrolled
  <2>6. Finished(v)' = Finished(v) /\ \A r : Placed(r)' = Placed(r)
    BY <1>1, <2>1 DEF Finished, AtRow, At, Placed, Enrolled
  <2>7. Kept(v)'
    BY <2>1, <2>2, <2>5, <2>6 DEF WalletSound, Kept
  <2> QED BY <2>3, <2>4, <2>7 DEF WalletSound
<1>8. AdminSound'
  BY <1>2, <1>4, AdminIsIdle
<1> QED BY <1>5, <1>6, <1>7, <1>8 DEF IInv

-----------------------------------------------------------------------------
(* A block takes a transaction.                                             *)

LEMMA EffectIs ==
  ASSUME TypeOK, RegisteredSound, NEW w \in Wallets, NEW tx \in Sent, Accepts(w, tx), Effect(tx)
  PROVE  /\ registered' \in [Providers -> View]
         /\ RegisteredSound'
         /\ \A p \in Providers : p # tx.provider => registered'[p] = registered[p]
         /\ \A p \in Providers : Enrolled(p) => Enrolled(p)'
         /\ tx.kind \in {"register", "payee"} /\ tx.row.payee # Nobody =>
              registered'[tx.provider].payee = tx.row.payee
         /\ tx.kind \in {"register", "bytes"} => registered'[tx.provider].bytes = tx.row.bytes
         /\ tx.kind = "payee" =>
              registered'[tx.provider].bytes = registered[tx.provider].bytes /\ tx.row.payee # Nobody
         /\ tx.kind = "bytes" => registered'[tx.provider].payee = registered[tx.provider].payee
         /\ Enrolled(tx.provider)'
         /\ tx.kind = "offer" => registered' = registered
<1> DEFINE p == tx.provider
<1>1. registered \in [Providers -> View] /\ p \in Providers
  BY DEF TypeOK, Sent
<1>2. tx.kind # "offer" => tx.row \in Row
  BY DEF Sent
<1>3. tx.kind # "register" => Enrolled(p)
  BY <1>1 DEF Accepts, RegisteredSound, Sent, Known
<1>4. registered[p] \in View
  BY <1>1
<1>5. CASE tx.kind = "register"
  <2> DEFINE view == [org |-> tx.row.org, payee |-> Paid(tx.row), bytes |-> tx.row.bytes]
  <2>1. tx.row.org \in Orgs /\ tx.row.payee \in Addresses \cup {Nobody} /\ tx.row.bytes \in Nat
    BY <1>2, <1>5 DEF Row, Accepts
  <2>2. Paid(tx.row) \in Addresses /\ (tx.row.payee # Nobody => Paid(tx.row) = tx.row.payee)
    BY <2>1 DEF Paid, Addresses
  <2>3. registered' = [registered EXCEPT ![p] = view] /\ view \in View
    BY <1>5, <2>1, <2>2 DEF Effect, View
  <2>4. view.org = tx.row.org /\ view.payee = Paid(tx.row) /\ view.bytes = tx.row.bytes
    OBVIOUS
  <2> HIDE DEF view
  <2>5. registered'[p] = view /\ \A q \in Providers : q # p => registered'[q] = registered[q]
    BY <1>1, <2>3
  <2> QED BY <1>1, <1>5, <2>1, <2>2, <2>3, <2>4, <2>5 DEF RegisteredSound, Enrolled
<1>6. CASE tx.kind = "payee"
  <2> DEFINE view == [registered[p] EXCEPT !.payee = tx.row.payee]
  <2>1. registered' = [registered EXCEPT ![p] = view]
    BY <1>6 DEF Effect
  <2>2. tx.row.payee \in Addresses /\ tx.row.payee # Nobody
    BY <1>2, <1>6 DEF Row, Accepts
  <2>3. view \in View /\ view.org = registered[p].org /\ view.payee = tx.row.payee
        /\ view.bytes = registered[p].bytes
    BY <1>4, <2>2 DEF View
  <2>4. view.org \in Orgs /\ view.payee \in Addresses
    BY <1>3, <1>6, <2>2, <2>3 DEF Enrolled
  <2> HIDE DEF view
  <2>5. registered'[p] = view /\ \A q \in Providers : q # p => registered'[q] = registered[q]
    BY <1>1, <2>1
  <2> QED BY <1>1, <1>6, <2>1, <2>2, <2>3, <2>4, <2>5 DEF RegisteredSound, Enrolled
<1>7. CASE tx.kind = "bytes"
  <2> DEFINE view == [registered[p] EXCEPT !.bytes = tx.row.bytes]
  <2>1. registered' = [registered EXCEPT ![p] = view]
    BY <1>7 DEF Effect
  <2>2. view \in View /\ view.org = registered[p].org /\ view.payee = registered[p].payee
        /\ view.bytes = tx.row.bytes
    BY <1>2, <1>4, <1>7 DEF View, Row
  <2>3. view.org \in Orgs /\ view.payee \in Addresses
    BY <1>3, <1>7, <2>2 DEF Enrolled
  <2> HIDE DEF view
  <2>4. registered'[p] = view /\ \A q \in Providers : q # p => registered'[q] = registered[q]
    BY <1>1, <2>1
  <2> QED BY <1>1, <1>7, <2>1, <2>2, <2>3, <2>4 DEF RegisteredSound, Enrolled
<1>8. CASE tx.kind = "offer"
  BY <1>1, <1>3, <1>8 DEF Effect, RegisteredSound, Enrolled
<1> QED BY <1>5, <1>6, <1>7, <1>8 DEF Sent

(* Of the other providers nobody is registered when SPRegistry is full.     *)
LEMMA EffectGrows ==
  ASSUME TypeOK, RegisteredSound, NEW w \in Wallets, NEW tx \in Sent, Accepts(w, tx), Effect(tx)
  PROVE  offers' \in [Providers -> Nat] /\ Grows
<1> DEFINE p == tx.provider
<1>1. offers \in [Providers -> Nat] /\ p \in Providers
  BY DEF TypeOK, Sent
<1>2. offers' = IF tx.kind = "offer" THEN [offers EXCEPT ![p] = @ + 1] ELSE offers
  BY DEF Effect
<1>3. offers' \in [Providers -> Nat]
  BY <1>1, <1>2
<1>4. \A q \in Providers : offers'[q] \in Nat /\ offers[q] \in Nat /\ offers'[q] >= offers[q]
  BY <1>1, <1>2, <1>3
<1>5. \A q \in Providers : offers[q] >= MaxOffers => offers'[q] >= MaxOffers
  BY <1>4, LimitsAssumption
<1>6. ASSUME Full PROVE Known' = Known
  <2>1. p \in Known
    BY <1>6 DEF Accepts, Sent
  <2>2. \A q \in Providers : q # p => registered'[q] = registered[q]
    BY EffectIs
  <2>3. Enrolled(p)'
    BY EffectIs
  <2>4. registered'[p] # Unregistered
    BY <2>3, LimitsAssumption DEF Enrolled, Unregistered
  <2> QED BY <2>1, <2>2, <2>4 DEF Known
<1> QED BY <1>3, <1>5, <1>6 DEF Grows

(* Land with its definitions spelled out.                                   *)
LEMMA LandIs ==
  ASSUME IInv, NEW w \in Wallets, Land(w)
  PROVE  LET tx == sent[w]
             ok == Accepts(w, tx)
         IN  /\ tx \in Sent /\ tx.provider \in Providers
             /\ IF ok THEN Effect(tx) ELSE UNCHANGED <<registered, offers>>
             /\ offers' \in [Providers -> Nat] /\ Grows
             /\ UNCHANGED <<db, faults>>
             /\ sent' \in [Wallets -> {<<>>} \cup Sent] /\ sent'[w] = <<>>
             /\ \A v \in Wallets \ {w} : sent'[v] = sent[v]
             /\ session'[w] = IF At(w, "waiting") THEN On(w, IF ok THEN session[w].after ELSE "failed")
                              ELSE session[w]
             /\ \A v \in Wallets \ {w} :
                  session'[v] = IF tx.provider \in {r.provider : r \in session[v].fetched}
                                THEN [session[v] EXCEPT !.clean = FALSE] ELSE session[v]
             /\ \E f : session' = [v \in Wallets |-> f[v]]
<1> DEFINE tx == sent[w]
<1>1. TypeOK
  BY DEF IInv
<1>2. tx \in Sent
  BY <1>1 DEF Land, TypeOK
<1>3. tx.provider \in Providers
  BY <1>2 DEF Sent
<1>4. offers' \in [Providers -> Nat] /\ Grows
  <2>1. CASE Accepts(w, tx)
    BY <1>1, <1>2, <2>1, EffectGrows DEF Land, IInv
  <2>2. CASE ~Accepts(w, tx)
    BY <1>1, <2>2, UnchangedGrows DEF Land, TypeOK
  <2> QED BY <2>1, <2>2
<1>5. session' = [v \in Wallets |-> session'[v]]
  BY DEF Land
<1>6. \E f : session' = [v \in Wallets |-> f[v]]
  BY <1>5
<1>7. /\ sent' \in [Wallets -> {<<>>} \cup Sent] /\ sent'[w] = <<>>
      /\ \A v \in Wallets \ {w} : sent'[v] = sent[v]
  BY <1>1 DEF Land, TypeOK
<1> QED BY <1>2, <1>3, <1>4, <1>6, <1>7 DEF Land

(* The other command: it is not clean any more, or its providers are as     *)
(* they were.                                                               *)
LEMMA LandOther ==
  ASSUME IInv, NEW w \in Wallets, Land(w), NEW v \in Wallets \ {w}
  PROVE  /\ session'[v] \in Session /\ WalletSound(v)'
         /\ v = "admin" => AdminSound'
<1> DEFINE tx == sent[w]
           me == session[v]
<1>1. TypeOK /\ RegisteredSound /\ WalletSound(v) /\ me \in Session
  BY DEF IInv, TypeOK
<1>2. /\ tx \in Sent /\ sent'[v] = sent[v] /\ db' = db
      /\ session'[v] = IF tx.provider \in {r.provider : r \in me.fetched} THEN [me EXCEPT !.clean = FALSE] ELSE me
      /\ IF Accepts(w, tx) THEN Effect(tx) ELSE UNCHANGED <<registered, offers>>
      /\ Grows
  BY LandIs
<1>3. /\ session'[v].pc = me.pc /\ session'[v].after = me.after
      /\ session'[v].row = me.row /\ session'[v].seen = me.seen
      /\ session'[v].rows = me.rows /\ session'[v].fetched = me.fetched
      /\ session'[v].offer = me.offer /\ session'[v].todo = me.todo
      /\ session'[v].edited = me.edited /\ session'[v].selection = me.selection
      /\ session'[v].clean => me.clean
      /\ session'[v].clean => \A r \in me.fetched : r.provider # tx.provider
      /\ session'[v] \in Session
  BY <1>1, <1>2 DEF Session
<1>4. Outbox(v)'
  BY <1>1, <1>2, <1>3 DEF WalletSound, Outbox, AtOffer, At
<1>5. Inside(v)'
  BY <1>1, <1>3 DEF WalletSound, Inside, AtRow, PastRows, AtOffer, At, Doubled
<1>6. Kept(v)'
  <2> SUFFICES ASSUME session'[v].clean, me.pc \notin Out PROVE Kept(v)'
    BY <1>3 DEF Kept
  <2>1. AsSeen(v) /\ \A r \in Finished(v) : Placed(r)
    BY <1>1, <1>3 DEF WalletSound, Kept
  <2>2. \A p \in Providers : p # tx.provider => registered'[p] = registered[p]
    BY <1>1, <1>2, EffectIs
  <2>3. \A r \in me.fetched : r.provider \in Providers /\ r.provider # tx.provider
    BY <1>1, <1>3 DEF Session, Row
  <2>4. \A r \in me.fetched : registered'[r.provider] = registered[r.provider]
    BY <2>2, <2>3
  <2>5. Finished(v)' = Finished(v) /\ Finished(v) \subseteq me.fetched
    BY <1>3 DEF Finished, AtRow, At
  <2>6. \A r \in Finished(v)' : Placed(r)'
    BY <2>1, <2>4, <2>5 DEF Placed, Enrolled
  <2>7. AsSeen(v)'
    <3>1. CASE AtRow(v)
      <4>1. me.row \in me.fetched
        BY <1>1, <3>1 DEF WalletSound, Inside
      <4> QED BY <1>2, <1>3, <2>1, <2>4, <4>1 DEF AsSeen, Doing, At, Enrolled
    <3>2. CASE ~AtRow(v)
      <4>1. \A kind \in {"register", "payee", "bytes"} : ~Doing(v, kind)
        BY <1>1, <3>2 DEF WalletSound, Outbox, AtRow, Doing, At, Tx
      <4>2. \A kind \in {"register", "payee", "bytes"} : ~Doing(v, kind)'
        BY <1>2, <1>3, <4>1 DEF Doing, At
      <4> QED BY <4>2 DEF AsSeen
    <3> QED BY <3>1, <3>2
  <2> QED BY <2>6, <2>7 DEF Kept
<1>7. ASSUME v = "admin" PROVE AdminSound'
  <2> PICK sel \in Selection : sel = me.selection
    BY <1>1 DEF Session
  <2>1. RunSound(sel) /\ session'["admin"].selection = sel
    BY <1>3, <1>7 DEF IInv, AdminSound
  <2>2. (RowsCalm(sel)' => RowsCalm(sel)) /\ (Calm(sel)' => Calm(sel))
    BY <1>1, <1>2, <1>3, <1>7, CalmBefore
  <2>3. /\ Listed(Addressed(sel), sel)' = Listed(Addressed(sel), sel)
        /\ \A offer : Acceptable(offer, sel)' = Acceptable(offer, sel)
    BY <1>2, Static
  <2>4. AtOffer("admin")' <=> AtOffer("admin")
    BY <1>3, <1>7 DEF AtOffer, At
  <2>5. ASSUME session'["admin"].clean, NEW r \in me.fetched, Placed(r) PROVE Placed(r)'
    <3>1. r.provider \in Providers /\ r.provider # tx.provider
      BY <1>1, <1>3, <1>7, <2>5 DEF Session, Row
    <3>2. registered'[r.provider] = registered[r.provider]
      BY <1>1, <1>2, <3>1, EffectIs
    <3> QED BY <2>5, <3>2 DEF Placed, Enrolled
  <2>6. RowsCalm(sel)' => session'["admin"].clean
    BY DEF RowsCalm
  <2>7. RunSound(sel)'
    BY <1>3, <1>7, <2>1, <2>2, <2>3, <2>4, <2>5, <2>6 DEF RunSound
  <2> QED BY <2>1, <2>7 DEF AdminSound
<1> QED BY <1>3, <1>4, <1>5, <1>6, <1>7 DEF WalletSound

LEMMA LandOwn ==
  ASSUME IInv, NEW w \in Wallets, Land(w)
  PROVE  /\ session'[w] \in Session /\ WalletSound(w)'
         /\ w = "admin" => AdminSound'
<1> DEFINE own == sent[w]
           me == session[w]
           ok == Accepts(w, own)
<1>1. TypeOK /\ RegisteredSound /\ WalletSound(w) /\ me \in Session
  BY DEF IInv, TypeOK
<1>2. /\ own \in Sent /\ own.provider \in Providers /\ sent'[w] = <<>> /\ db' = db
      /\ session'[w] = IF At(w, "waiting") THEN On(w, IF ok THEN me.after ELSE "failed") ELSE me
      /\ IF ok THEN Effect(own) ELSE UNCHANGED <<registered, offers>>
      /\ Grows
  BY LandIs
<1>3. CASE ~At(w, "waiting")
  <2>1. session'[w] = me /\ me.pc = "idle"
    BY <1>1, <1>2, <1>3 DEF WalletSound, Outbox, At, Land
  <2>2. w = "admin" => AdminSound'
    BY <2>1, AdminIsIdle
  <2> QED BY <1>1, <1>2, <2>1, <2>2 DEF WalletSound, Outbox, Inside, Kept, AtOffer, At, Out
<1>4. CASE At(w, "waiting") /\ ~ok
  <2>1. session'[w] = On(w, "failed")
    BY <1>2, <1>4
  <2>2. /\ session'[w] \in Session /\ session'[w].pc = "failed" /\ session'[w].fetched = me.fetched
        /\ session'[w].clean = me.clean /\ session'[w].edited = me.edited /\ session'[w].selection = me.selection
    BY <1>1, <2>1, OnIs DEF TypeOK
  <2>3. WalletSound(w)'
    BY <1>2, <2>2 DEF WalletSound, Outbox, Inside, Kept, AtOffer, At, Out
  <2>4. ASSUME w = "admin" PROVE AdminSound'
    <3> PICK sel \in Selection : sel = me.selection
      BY <1>1 DEF Session
    <3>1. me.pc = "waiting" /\ me.pc \notin Out
      BY <1>4 DEF At, Out
    <3>2. CASE AtRow("admin")
      <4>1. \E kind \in {"register", "payee", "bytes"} :
              own = Tx(kind, me.row.provider, me.row, me.offer) /\ Doing("admin", kind)
        BY <1>1, <1>4, <2>4, <3>2 DEF WalletSound, Outbox, AtRow, Doing, At, Tx
      <4>2. ~RowsCalm(sel)
        BY <1>4, <2>4, <3>2, <4>1, RowAccepted
      <4>3. ~Calm(sel)
        BY <4>2 DEF Calm
      <4> QED BY <1>1, <1>2, <2>2, <2>4, <3>1, <4>2, <4>3, AdminFails DEF IInv
    <3>3. CASE AtOffer("admin")
      <4>1. own = Tx("offer", me.offer.provider, me.row, me.offer)
        BY <1>1, <1>4, <2>4, <3>3 DEF WalletSound, Outbox, AtOffer, At
      <4>2. ~Calm(sel)
        BY <1>4, <2>4, <3>3, <4>1, OfferAccepted
      <4>3. ~AtRow("admin") /\ me.rows = {}
        BY <1>1, <2>4, <3>1, <3>3 DEF WalletSound, Inside, PastRows, AtOffer, AtRow, At
      <4>4. me.clean => \A r \in me.fetched : Placed(r)
        BY <1>1, <2>4, <3>1, <4>3 DEF WalletSound, Kept, Finished
      <4>5. \A r : Placed(r)' = Placed(r)
        BY <1>2, <1>4 DEF Placed, Enrolled
      <4>6. me.clean => \A r \in me.fetched : Placed(r)'
        BY <4>4, <4>5
      <4> QED BY <1>1, <1>2, <2>2, <2>4, <3>1, <4>2, <4>6, AdminFails DEF IInv
    <3>4. AtRow("admin") \/ AtOffer("admin")
      BY <1>4, <2>4 DEF AtRow, AtOffer
    <3> QED BY <3>2, <3>3, <3>4
  <2> QED BY <2>2, <2>3, <2>4
<1>5. CASE At(w, "waiting") /\ ok
  <2> DEFINE after == me.after
  <2>1. \/ after = "rows" /\ own = Tx("register", me.row.provider, me.row, me.offer)
        \/ after = "rows" /\ own = Tx("bytes", me.row.provider, me.row, me.offer)
        \/ after = "bytes" /\ own = Tx("payee", me.row.provider, me.row, me.offer)
        \/ after = "offers" /\ own = Tx("offer", me.offer.provider, me.row, me.offer)
    BY <1>1, <1>5 DEF WalletSound, Outbox, At
  <2>2. session'[w] = On(w, after) /\ after \in {"rows", "bytes", "offers"}
    BY <1>2, <1>5, <2>1
  <2>3. /\ session'[w] \in Session /\ session'[w].pc = after
        /\ session'[w].selection = me.selection /\ session'[w].fetched = me.fetched
        /\ session'[w].clean = me.clean /\ session'[w].edited = me.edited
        /\ session'[w].rows = me.rows /\ session'[w].todo = me.todo
        /\ after = "bytes" => session'[w].row = me.row /\ session'[w].seen = me.seen
    BY <1>1, <2>2, OnIs DEF TypeOK
  <2>4. Outbox(w)' /\ ~AtOffer(w)'
    BY <1>2, <2>2, <2>3 DEF Outbox, AtOffer, At
  <2>5. /\ ~Doubled(me.fetched) /\ me.rows \subseteq me.fetched /\ me.pc = "waiting"
        /\ AtRow(w) => me.row \in me.fetched \ me.rows
        /\ PastRows(w) => me.rows = {}
    BY <1>1, <1>5 DEF WalletSound, Inside, At, Out
  <2>6. AtRow(w)' <=> after = "bytes"
    BY <2>2, <2>3 DEF AtRow, At
  <2>7. AtRow(w) <=> after # "offers"
    BY <1>5, <2>1 DEF AtRow, At
  <2>8. Inside(w)'
    <3>1. PastRows(w)' => after = "offers" /\ PastRows(w)
      BY <2>2, <2>3, <2>4, <1>5 DEF PastRows, AtOffer
    <3> QED BY <2>3, <2>5, <2>6, <2>7, <3>1 DEF Inside, Doubled
  <2>9. ASSUME me.clean PROVE AsSeen(w)' /\ \A r \in Finished(w)' : Placed(r)'
    <3>1. AsSeen(w) /\ \A r \in Finished(w) : Placed(r)
      BY <1>1, <2>5, <2>9 DEF WalletSound, Kept, Out
    <3>2. \A r \in me.fetched : r.provider \in Providers
      BY <1>1 DEF Session, Row
    <3> PICK tx \in Sent : tx = sent[w]
      BY <1>2
    <3> PICK row : row = me.row
      OBVIOUS
    <3>3. /\ \A p \in Providers : p # tx.provider => registered'[p] = registered[p]
          /\ \A p \in Providers : Enrolled(p) => Enrolled(p)'
          /\ tx.kind \in {"register", "payee"} /\ tx.row.payee # Nobody =>
               registered'[tx.provider].payee = tx.row.payee
          /\ tx.kind \in {"register", "bytes"} => registered'[tx.provider].bytes = tx.row.bytes
          /\ tx.kind = "payee" =>
               registered'[tx.provider].bytes = registered[tx.provider].bytes /\ tx.row.payee # Nobody
          /\ tx.kind = "bytes" => registered'[tx.provider].payee = registered[tx.provider].payee
          /\ Enrolled(tx.provider)'
          /\ tx.kind = "offer" => registered' = registered
      BY <1>1, <1>2, <1>5, EffectIs
    <3>0. \/ after = "rows" /\ tx = Tx("register", me.row.provider, me.row, me.offer)
          \/ after = "rows" /\ tx = Tx("bytes", me.row.provider, me.row, me.offer)
          \/ after = "bytes" /\ tx = Tx("payee", me.row.provider, me.row, me.offer)
          \/ after = "offers" /\ tx = Tx("offer", me.offer.provider, me.row, me.offer)
      BY <2>1
    <3>4. CASE after = "offers"
      <4>1. tx.kind = "offer"
        BY <3>0, <3>4 DEF Tx
      <4>2. Finished(w)' = Finished(w) /\ \A r : Placed(r)' = Placed(r)
        BY <2>3, <2>6, <2>7, <3>3, <3>4, <4>1 DEF Finished, Placed, Enrolled
      <4>3. AsSeen(w)'
        BY <2>3, <3>4 DEF AsSeen, Doing, At
      <4> QED BY <3>1, <4>2, <4>3
    <3>5. CASE after # "offers"
      <4>1. /\ tx.provider = me.row.provider /\ tx.row = row /\ row = me.row
            /\ tx.kind = "register" \/ tx.kind = "bytes" \/ tx.kind = "payee"
            /\ tx.kind = "payee" <=> after = "bytes"
        BY <3>0, <3>5 DEF Tx
      <4>2. \A r \in me.fetched : r # me.row => r.provider # me.row.provider
        BY <2>5, <2>7, <3>5 DEF Doubled
      <4>3. \A r \in Finished(w) : Placed(r)'
        <5> SUFFICES ASSUME NEW r \in Finished(w) PROVE Placed(r)'
          OBVIOUS
        <5>1. r \in me.fetched /\ r # me.row /\ Placed(r)
          BY <2>7, <3>1, <3>5 DEF Finished
        <5>2. r.provider \in Providers /\ r.provider # tx.provider
          BY <3>2, <4>1, <4>2, <5>1
        <5>3. registered'[r.provider] = registered[r.provider]
          BY <3>3, <5>2
        <5> QED BY <5>1, <5>3 DEF Placed, Enrolled
      <4>4. CASE after = "bytes"
        <5>1. Finished(w)' = Finished(w)
          BY <2>3, <2>6, <2>7, <4>4 DEF Finished
        <5>2. Doing(w, "payee")
          BY <1>5, <4>1, <4>4 DEF Doing
        <5>3. AsSeen(w)'
          BY <2>3, <3>1, <3>3, <4>1, <4>4, <5>2 DEF AsSeen, Doing, At, Enrolled
        <5> QED BY <4>3, <5>1, <5>3
      <4>5. CASE after # "bytes"
        <5>1. after = "rows" /\ tx.kind \in {"register", "bytes"}
          BY <2>2, <3>5, <4>1, <4>5
        <5>2. AsSeen(w)'
          BY <2>3, <5>1 DEF AsSeen, Doing, At
        <5>3. \A r \in Finished(w)' : r = row \/ r \in Finished(w)
          BY <2>3 DEF Finished
        <5>4. tx.kind = "bytes" => registered[tx.provider].payee = me.row.payee
          BY <1>5, <3>1, <4>1 DEF AsSeen, Doing
        <5>5. Placed(row)'
          BY <3>3, <4>1, <5>1, <5>4 DEF Placed
        <5> QED BY <4>3, <5>2, <5>3, <5>5
      <4> QED BY <4>4, <4>5
    <3> QED BY <3>4, <3>5
  <2>10. Kept(w)'
    BY <2>3, <2>9 DEF Kept
  <2>11. ASSUME w = "admin" PROVE AdminSound'
    <3>1. me.pc # "idle" /\ after # "failed"
      BY <2>2, <2>5
    <3> QED BY <1>1, <1>2, <2>3, <2>4, <2>11, <3>1, AdminWorks DEF IInv
  <2> QED BY <2>3, <2>4, <2>8, <2>10, <2>11 DEF WalletSound
<1> QED BY <1>3, <1>4, <1>5

LEMMA LandStep == ASSUME IInv, NEW w \in Wallets, Land(w) PROVE IInv'
<1> DEFINE tx == sent[w]
<1>1. TypeOK /\ RegisteredSound /\ w \in Wallets
  BY DEF IInv
<1>2. \A v \in Wallets : session'[v] \in Session /\ WalletSound(v)' /\ (v = "admin" => AdminSound')
  BY LandOther, LandOwn
<1>3. registered' \in [Providers -> View] /\ RegisteredSound'
  <2>1. tx \in Sent /\ IF Accepts(w, tx) THEN Effect(tx) ELSE UNCHANGED <<registered, offers>>
    BY LandIs
  <2>2. CASE Accepts(w, tx)
    BY <1>1, <2>1, <2>2, EffectIs
  <2>3. CASE ~Accepts(w, tx)
    BY <1>1, <2>1, <2>3 DEF TypeOK, RegisteredSound, Enrolled
  <2> QED BY <2>2, <2>3
<1>4. PICK f : session' = [v \in Wallets |-> f[v]]
  BY LandIs
<1>5. session' \in [Wallets -> Session]
  BY <1>2, <1>4
<1>6. TypeOK'
  BY <1>1, <1>3, <1>5, LandIs DEF TypeOK
<1>7. AdminSound'
  BY <1>2 DEF Wallets
<1> QED BY <1>2, <1>3, <1>6, <1>7 DEF IInv

-----------------------------------------------------------------------------

LEMMA NextSound == ASSUME IInv, [Next]_vars PROVE IInv'
<1>1. CASE \E sel \in Selections \cup {Everything}, skipped \in SUBSET Orgs : BeginDb(sel, skipped)
  BY <1>1, BeginDbStep
<1>2. CASE \E p \in Providers, payee \in Payees \cup {Nobody}, bytes \in Sizes \cup {0} : BeginSp(p, payee, bytes)
  BY <1>2, BeginSpStep
<1>3. CASE \E p \in Providers, days \in {<<MinDays, MaxDays>>, <<MaxDays, MinDays>>} :
             BeginOffer(p, days[1], days[2], MinPrice)
  BY <1>3, BeginOfferStep
<1>4. CASE \E count \in [Orgs -> 0 .. MaxClasses] : FetchOffers(count)
  BY <1>4, FetchOffersStep
<1>5. CASE \E w \in Wallets : Step(w) \/ Decline(w) \/ Land(w) \/ Drop(w) \/ Crash(w)
  BY <1>5, LookStep, RegisterStep, PayeeStep, BytesStep, RowsDoneStep, NextOfferStep, CreateStep,
     OffersDoneStep, DeclineStep, LandStep, DropStep, CrashStep DEF Step
<1>6. CASE Edit
  BY <1>6, EditStep
<1>7. CASE UNCHANGED vars
  <2>1. \A w \in Wallets : WalletSound(w)' = WalletSound(w)
    BY <1>7 DEF vars, WalletSound, Outbox, Inside, Kept, AsSeen, Doing, At, Finished, AtRow, AtOffer,
                PastRows, Placed, Enrolled, Doubled
  <2>2. AdminSound'
    <3>1. session' = session /\ db' = db /\ Grows /\ TypeOK
      BY <1>7, UnchangedGrows DEF vars, IInv
    <3>2. (\A r : Placed(r)' = Placed(r)) /\ AtOffer("admin")' = AtOffer("admin")
      BY <1>7 DEF vars, Placed, Enrolled, AtOffer, At
    <3>3. ASSUME NEW sel \in Selection, RunSound(sel) PROVE RunSound(sel)'
      <4>1. (RowsCalm(sel)' => RowsCalm(sel)) /\ (Calm(sel)' => Calm(sel))
        BY <3>1, CalmBefore
      <4>2. /\ Listed(Addressed(sel), sel)' = Listed(Addressed(sel), sel)
            /\ \A offer : Acceptable(offer, sel)' = Acceptable(offer, sel)
        BY <3>1, Static
      <4> QED BY <3>1, <3>2, <3>3, <4>1, <4>2 DEF RunSound
    <3> QED BY <3>1, <3>3 DEF IInv, AdminSound
  <2> QED BY <1>7, <2>1, <2>2 DEF vars, IInv, TypeOK, RegisteredSound, Enrolled
<1> QED BY <1>1, <1>2, <1>3, <1>4, <1>5, <1>6, <1>7 DEF Next

LEMMA Invariant == Spec => []IInv
BY InitSound, NextSound, PTL DEF Spec

(* The variables have their types.                                          *)
THEOREM RegistryTyped == Spec => []TypeOK
<1>1. IInv => TypeOK
  BY DEF IInv
<1> QED BY <1>1, Invariant, PTL

(* Placed says a little more than the property does.                        *)
LEMMA PlacedIsInPlace ==
  ASSUME TypeOK, NEW r \in Row, Placed(r)
  PROVE  InPlace(r)
<1>1. r.provider \in Providers /\ registered[r.provider] # Unregistered
  BY LimitsAssumption DEF Row, Placed, Enrolled, Unregistered
<1> QED BY <1>1 DEF Placed, InPlace, Known

(* A run of register-db-sps or register-sp that is through, with nothing    *)
(* declined and nobody else at its providers, leaves each of them with the  *)
(* payee and the capacity of its row: for any number of organizations,      *)
(* providers and runs, also after a run that died half-way.                 *)
THEOREM ThroughIsSynced == Spec => []SyncedWhenThrough
<1>1. ASSUME IInv, NEW w \in Wallets, At(w, "through"), session[w].clean, NEW r \in session[w].fetched
      PROVE  InPlace(r)
  <2>1. session[w].pc \notin Out /\ PastRows(w) /\ ~AtRow(w)
    BY <1>1 DEF At, Out, PastRows, AtRow
  <2>2. session[w].rows = {} /\ \A q \in Finished(w) : Placed(q)
    BY <1>1, <2>1 DEF IInv, WalletSound, Inside, Kept
  <2>3. r \in Row /\ TypeOK
    BY <1>1 DEF IInv, TypeOK, Session
  <2> QED BY <1>1, <2>1, <2>2, <2>3, PlacedIsInPlace DEF Finished
<1>2. IInv => SyncedWhenThrough
  BY <1>1 DEF SyncedWhenThrough
<1> QED BY <1>2, Invariant, PTL

(* register-db-sps fails, when everything is confirmed and nobody           *)
(* interferes, for a row that cannot be read, named twice or refused, or    *)
(* for its offers when every row is in SPRegistry: for any database, any    *)
(* selection and any limits of SPRegistry, after any earlier runs.          *)
THEOREM FailureHasCause == Spec => []FailsForCause
<1>1. ASSUME IInv, session["admin"].pc = "failed", session["admin"].clean, ~session["admin"].edited,
             ~RowsMalformed(session["admin"].selection)
      PROVE  LET sel == session["admin"].selection IN
             OffersMalformed(sel) /\ \A r \in Listed(Addressed(sel), sel) : InPlace(r)
  <2> PICK sel \in Selection : sel = session["admin"].selection
    BY <1>1 DEF IInv, TypeOK, Session, Wallets
  <2>1. RowsCalm(sel) /\ RunSound(sel) /\ TypeOK
    BY <1>1 DEF RowsCalm, IInv, AdminSound
  <2>2. OffersMalformed(sel)
    BY <1>1, <2>1 DEF RunSound, Calm
  <2>3. \A r \in session["admin"].fetched : r \in Row
    BY <2>1 DEF TypeOK, Session, Wallets
  <2>4. \A r \in Listed(Addressed(sel), sel) : r \in Row /\ Placed(r)
    BY <1>1, <2>1, <2>3 DEF RunSound
  <2> QED BY <2>1, <2>2, <2>4, PlacedIsInPlace
<1>2. IInv => FailsForCause
  BY <1>1 DEF FailsForCause
<1> QED BY <1>2, Invariant, PTL
=============================================================================
