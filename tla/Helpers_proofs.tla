------------------------------ MODULE Helpers_proofs ------------------------------
(***************************************************************************)
(* What the helpers promise, for all values of the constants: the reads of *)
(* an adapter, of the market and of the nonces, the report on V1 deals, the*)
(* plan of an adoption, the pieces of a deal, CIDs and amounts.            *)
(***************************************************************************)
EXTENDS Helpers, Functions, FiniteSetTheorems, SequenceTheorems, NaturalsInduction, WellFoundedInduction, TLAPS

(* adapter_claim_ids.                                                       *)

LEMMA Shorter ==
  ASSUME NEW list \in Seq(Ids), NEW i \in 1 .. Len(list),
         NEW short \in {SwapOut(list, i), CloseUp(list, i)}
  PROVE  /\ short \in Seq(Ids)
         /\ Len(short) = Len(list) - 1
         /\ \A k \in 1 .. i - 1 : short[k] = list[k]
<1>1. CASE short = SwapOut(list, i)
  <2>1. short \in [1 .. Len(list) - 1 -> Ids]
    BY <1>1 DEF SwapOut
  <2> QED BY <1>1, <2>1 DEF SwapOut
<1>2. CASE short = CloseUp(list, i)
  <2>1. short \in [1 .. Len(list) - 1 -> Ids]
    BY <1>2 DEF CloseUp
  <2> QED BY <1>2, <2>1 DEF CloseUp
<1> QED BY <1>1, <1>2

(* One page: where it ends, what it holds, and that the prefix read so far  *)
(* grows by it.                                                             *)
LEMMA PageStep ==
  ASSUME TypeOK, NEW list \in Seq(Ids)
  PROVE  /\ PageEnd(list) \in Nat
         /\ Page(list) \subseteq Ids
         /\ call.offset <= Len(list) => PageEnd(list) <= Len(list)
         /\ call.offset <= Len(list) /\ LastPage(list) => PageEnd(list) = Len(list)
         /\ \A k \in 1 .. PageEnd(list) : k \in 1 .. call.offset \/ list[k] \in Page(list)
<1> USE DEF TypeOK, Call
<1>1. PageEnd(list) \in Nat /\ (call.offset <= Len(list) => PageEnd(list) <= Len(list))
  BY PageAssumption DEF PageEnd
<1>2. \A k \in call.offset + 1 .. PageEnd(list) : k \in 1 .. Len(list)
  BY <1>1, PageAssumption DEF PageEnd
<1>3. Page(list) \subseteq Ids
  BY <1>2 DEF Page
<1>4. call.offset <= Len(list) /\ LastPage(list) => PageEnd(list) = Len(list)
  BY <1>1, PageAssumption DEF LastPage, PageEnd
<1>5. \A k \in 1 .. PageEnd(list) : k \in 1 .. call.offset \/ list[k] \in Page(list)
  BY <1>1 DEF Page
<1> QED BY <1>1, <1>3, <1>4, <1>5

LEMMA ReadInit == Init => ReadSound
BY DEF Init, ReadSound, TypeOK, Call, At, ReadComplete

(* Changes of the adapter leave the prefix that was read alone, or one of   *)
(* its ids moves.                                                           *)
LEMMA AdapterMoves ==
  ASSUME ReadSound,
         \/ \E id \in Ids : Register(id)
         \/ \E i \in 1 .. Len(pending) : Confirm(i)
  PROVE  ReadSound'
<1> USE DEF ReadSound, TypeOK, At, ReadComplete, PrefixRead, Moved
<1>1. ASSUME NEW id \in Ids, Register(id) PROVE ReadSound'
  <2>1. /\ pending' \in Seq(Ids) /\ Len(pending') = Len(pending) + 1
        /\ \A k \in 1 .. Len(pending) : pending'[k] = pending[k]
    BY <1>1 DEF Register
  <2>2. At("pending") => Moved' \/ PrefixRead(pending, call.ids)'
    BY <1>1, <2>1 DEF Register, Call
  <2> QED BY <1>1, <2>1, <2>2 DEF Register, Elements
<1>2. ASSUME NEW i \in 1 .. Len(pending), Confirm(i) PROVE ReadSound'
  <2>1. /\ pending' \in Seq(Ids) /\ Len(pending') = Len(pending) - 1
        /\ \A k \in 1 .. i - 1 : pending'[k] = pending[k]
    BY <1>2, Shorter DEF Confirm
  <2>2. /\ confirmed' \in Seq(Ids) /\ Len(confirmed') = Len(confirmed) + 1
        /\ \A k \in 1 .. Len(confirmed) : confirmed'[k] = confirmed[k]
        /\ confirmed'[Len(confirmed')] = pending[i]
    BY <1>2 DEF Confirm
  <2>3. call' = call
    BY <1>2 DEF Confirm
  <2>4. Moved => Moved'
    BY <2>2, <2>3
  <2>5. ASSUME At("pending") PROVE Moved' \/ PrefixRead(pending, call.ids)'
    <3>1. CASE Moved
      BY <2>4, <3>1
    <3>2. CASE PrefixRead(pending, call.ids) /\ i <= call.offset
      <4>1. pending[i] \in call.ids
        BY <3>2 DEF Call
      <4> QED BY <2>2, <2>3, <4>1
    <3>3. CASE PrefixRead(pending, call.ids) /\ i > call.offset
      BY <2>1, <2>3, <3>3 DEF Call
    <3> QED BY <2>5, <3>1, <3>2, <3>3 DEF Call
  <2>6. Elements(confirmed) \subseteq Elements(confirmed)'
    BY <2>2 DEF Elements
  <2>7. At("confirmed") => PrefixRead(confirmed, call.claims)'
    BY <2>2, <2>3 DEF Call
  <2> HIDE DEF Moved, PrefixRead
  <2> QED BY <2>1, <2>2, <2>3, <2>4, <2>5, <2>6, <2>7
<1> QED BY <1>1, <1>2

LEMMA SoundPending == ASSUME ReadSound, ReadPending PROVE ReadSound'
<1> USE DEF ReadSound, TypeOK, At, ReadComplete
<1>1. /\ PageEnd(pending) \in Nat /\ Page(pending) \subseteq Ids
      /\ call.offset <= Len(pending) => PageEnd(pending) <= Len(pending)
      /\ call.offset <= Len(pending) /\ LastPage(pending) => PageEnd(pending) = Len(pending)
      /\ \A k \in 1 .. PageEnd(pending) : k \in 1 .. call.offset \/ pending[k] \in Page(pending)
  BY PageStep
<1>2. Held \subseteq Ids
  BY DEF Held, Elements
<1>3. /\ call' \in Call /\ call'.ids = call.ids \union Page(pending) /\ call'.known = Held
      /\ call'.claims = call.claims
      /\ call'.pc = IF LastPage(pending) THEN "confirmed" ELSE "pending"
      /\ call'.offset = IF LastPage(pending) THEN 0 ELSE PageEnd(pending)
      /\ pending' = pending /\ confirmed' = confirmed
  BY <1>1, <1>2 DEF ReadPending, Call
<1>4. CASE Moved
  <2>1. Moved'
    BY <1>3, <1>4 DEF Moved
  <2> QED BY <1>3, <2>1 DEF PrefixRead
<1>5. CASE PrefixRead(pending, call.ids)
  <2>1. \A k \in 1 .. PageEnd(pending) : pending[k] \in call'.ids
    BY <1>1, <1>3, <1>5 DEF PrefixRead
  <2>2. CASE LastPage(pending)
    <3>1. Held \subseteq call'.ids \union Elements(confirmed)
      BY <1>1, <1>5, <2>1, <2>2 DEF Held, Elements, PrefixRead
    <3> QED BY <1>3, <2>2, <3>1 DEF PrefixRead, Elements
  <2>3. CASE ~LastPage(pending)
    BY <1>1, <1>3, <1>5, <2>1, <2>3 DEF PrefixRead
  <2> QED BY <2>2, <2>3
<1> QED BY <1>4, <1>5 DEF ReadPending

LEMMA SoundConfirmed == ASSUME ReadSound, ReadConfirmed PROVE ReadSound'
<1> USE DEF ReadSound, TypeOK, At
<1> DEFINE claims == call.claims \union Page(confirmed)
<1>1. /\ PageEnd(confirmed) \in Nat /\ Page(confirmed) \subseteq Ids
      /\ PageEnd(confirmed) <= Len(confirmed)
      /\ LastPage(confirmed) => PageEnd(confirmed) = Len(confirmed)
      /\ \A k \in 1 .. PageEnd(confirmed) : k \in 1 .. call.offset \/ confirmed[k] \in Page(confirmed)
  BY PageStep DEF PrefixRead, ReadConfirmed
<1>2. /\ call' \in Call /\ call'.claims = claims /\ call'.ids = call.ids /\ call'.known = call.known
      /\ call'.offset = PageEnd(confirmed)
      /\ call'.pc \in {"confirmed", "failed", "done"}
      /\ call'.pc # "confirmed" => LastPage(confirmed)
      /\ call'.pc = "done" => ~Overlap(call.ids, claims)
      /\ pending' = pending /\ confirmed' = confirmed
  BY <1>1 DEF ReadConfirmed, Call
<1>3. \A k \in 1 .. PageEnd(confirmed) : confirmed[k] \in claims
  BY <1>1 DEF PrefixRead, ReadConfirmed
<1>4. CASE call'.pc = "confirmed"
  <2>1. (Moved \/ call.known \subseteq call.ids \union Elements(confirmed))'
    BY <1>2 DEF Moved, Elements, ReadConfirmed
  <2> QED BY <1>1, <1>2, <1>3, <1>4, <2>1 DEF PrefixRead, ReadComplete
<1>5. CASE call'.pc = "done"
  <2>1. Elements(confirmed) \subseteq claims
    BY <1>1, <1>2, <1>3, <1>5 DEF Elements
  <2>2. ~Moved
    BY <1>2, <1>5, <2>1 DEF Moved, Elements, Overlap
  <2>3. call.known \subseteq call.ids \union claims
    BY <2>1, <2>2 DEF ReadConfirmed
  <2> QED BY <1>2, <1>5, <2>3 DEF ReadComplete
<1>6. CASE call'.pc = "failed"
  BY <1>2, <1>6 DEF ReadComplete
<1> QED BY <1>2, <1>4, <1>5, <1>6

LEMMA ReadStep == ReadSound /\ [Next]_vars => ReadSound'
<1> SUFFICES ASSUME ReadSound, [Next]_vars PROVE ReadSound'
  OBVIOUS
<1>1. CASE Begin
  BY <1>1 DEF Begin, ReadSound, TypeOK, Call, At, PrefixRead, ReadComplete
<1>2. CASE UNCHANGED vars
  BY <1>2 DEF vars, ReadSound, TypeOK, At, Moved, PrefixRead, ReadComplete, Elements
<1> QED BY <1>1, <1>2, AdapterMoves, SoundPending, SoundConfirmed DEF Next, Reader

(* The types of the adapter's lists and of the function's variables.        *)
THEOREM ReadTypes == Spec => []TypeOK
<1>1. ReadSound => TypeOK
  BY DEF ReadSound
<1> QED BY <1>1, ReadInit, ReadStep, PTL DEF Spec

(* No claim is missing from a result.                                       *)
THEOREM ReadsAreComplete == Spec => []ReadComplete
<1>1. ReadSound => ReadComplete
  BY DEF ReadSound
<1> QED BY <1>1, ReadInit, ReadStep, PTL DEF Spec

-----------------------------------------------------------------------------
(* The nonce of a transaction.                                              *)

LEMMA BehindInit ==
  ASSUME MaxNonce \in Nat, MaxEvictions \in Nat
  PROVE  Nonces!Init => Nonces!ReadsBehind
BY DEF Nonces!Init, Nonces!ReadsBehind, Nonces!TypeOK, Nonces!Call, Nonces!Modes, Nonces!At, Nonces!NonceNeverAhead

(* The latest count only grows, and pending never falls below it: what was  *)
(* read of either is still behind after any step of the others.             *)
LEMMA BehindStep == Nonces!ReadsBehind /\ [Nonces!Next]_(Nonces!vars) => Nonces!ReadsBehind'
<1> SUFFICES ASSUME Nonces!ReadsBehind, [Nonces!Next]_(Nonces!vars) PROVE Nonces!ReadsBehind'
  OBVIOUS
<1> USE DEF Nonces!ReadsBehind, Nonces!TypeOK, Nonces!Call, Nonces!At, Nonces!NonceNeverAhead
<1>1. ASSUME NEW mode \in Nonces!Modes, Nonces!Begin(mode) PROVE Nonces!ReadsBehind'
  <2>1. nonceCall' \in Nonces!Call /\ nonceCall'.pc = "latest"
    BY <1>1 DEF Nonces!Begin
  <2> QED BY <1>1, <2>1 DEF Nonces!Begin
<1>2. CASE Nonces!ReadLatest
  <2>1. nonceCall' \in Nonces!Call /\ nonceCall'.pc = "pending" /\ nonceCall'.latest_nonce = latest
    BY <1>2 DEF Nonces!ReadLatest
  <2> QED BY <1>2, <2>1 DEF Nonces!ReadLatest
<1>3. CASE Nonces!ReadPending
  <2>1. PICK step \in {"clear", "refused", "poll"} :
          /\ nonceCall' = [nonceCall EXCEPT !.pending_nonce = unmined, !.pc = step]
          /\ step = "clear" => Nonces!NothingPending(nonceCall.latest_nonce, unmined)
    BY <1>3 DEF Nonces!ReadPending
  <2>2. /\ nonceCall' \in Nonces!Call /\ nonceCall'.pc = step /\ nonceCall'.pending_nonce = unmined
        /\ nonceCall'.latest_nonce = nonceCall.latest_nonce
    BY <2>1
  <2>3. step = "clear" => unmined <= latest
    BY <1>3, <2>1 DEF Nonces!ReadPending, Nonces!NothingPending, Nonces!Modes
  <2> QED BY <1>3, <2>2, <2>3 DEF Nonces!ReadPending
<1>4. CASE Nonces!Poll
  <2>1. PICK step \in {"poll", "pending"} :
          nonceCall' = [nonceCall EXCEPT !.latest_nonce = latest, !.pc = step]
    BY <1>4 DEF Nonces!Poll, Nonces!AfterPoll
  <2>2. nonceCall' \in Nonces!Call /\ nonceCall'.pc = step /\ nonceCall'.latest_nonce = latest
    BY <2>1
  <2> QED BY <1>4, <2>2 DEF Nonces!Poll
<1>5. CASE Nonces!Return
  <2>1. PICK n \in {latest, nonceCall.pending_nonce} : nonceCall' = [nonceCall EXCEPT !.pc = "done", !.nonce = n]
    BY <1>5 DEF Nonces!Return, Nonces!Nonce
  <2>2. n \in Nat /\ n <= latest
    BY <1>5, <2>1 DEF Nonces!Return
  <2>3. /\ nonceCall' \in Nonces!Call /\ nonceCall'.pc = "done" /\ nonceCall'.nonce = n
        /\ nonceCall'.latest_nonce = nonceCall.latest_nonce
    BY <2>1, <2>2
  <2> QED BY <1>5, <2>2, <2>3 DEF Nonces!Return
<1>6. CASE Nonces!Broadcast
  BY <1>6 DEF Nonces!Broadcast
<1>7. CASE Nonces!Include
  BY <1>7 DEF Nonces!Include
<1>8. CASE Nonces!Evict
  BY <1>8 DEF Nonces!Evict
<1>9. CASE UNCHANGED Nonces!vars
  BY <1>9 DEF Nonces!vars
<1> QED BY <1>1, <1>2, <1>3, <1>4, <1>5, <1>6, <1>7, <1>8, <1>9 DEF Nonces!Next, Nonces!Function

(* The answer "nothing is pending" is given by ReadPending alone, and only  *)
(* when the count it reads is not ahead of the one read before it.          *)
LEMMA ClearStep ==
  Nonces!ReadsBehind /\ [Nonces!Next]_(Nonces!vars)
  => [nonceCall.pc # "clear" /\ nonceCall'.pc = "clear"
      => unmined = latest /\ nonceCall'.pending_nonce = latest]_(Nonces!vars)
<1> SUFFICES ASSUME Nonces!ReadsBehind, Nonces!Next, nonceCall.pc # "clear", nonceCall'.pc = "clear"
             PROVE  unmined = latest /\ nonceCall'.pending_nonce = latest
  OBVIOUS
<1>1. Nonces!ReadPending
  BY DEF Nonces!Next, Nonces!Function, Nonces!Begin, Nonces!ReadLatest, Nonces!Poll, Nonces!AfterPoll, Nonces!Return, Nonces!Broadcast, Nonces!Include, Nonces!Evict,
         Nonces!ReadsBehind, Nonces!TypeOK, Nonces!Call
<1> QED BY <1>1 DEF Nonces!ReadPending, Nonces!NothingPending, Nonces!ReadsBehind, Nonces!TypeOK, Nonces!Call, Nonces!At, Nonces!Modes

(* No nonce is handed out ahead of the wallet.                              *)
THEOREM NonceIsNext == Nonces!Spec => []Nonces!NonceNeverAhead
<1>1. Nonces!ReadsBehind => Nonces!NonceNeverAhead
  BY DEF Nonces!ReadsBehind
<1>2. Nonces!Init => Nonces!ReadsBehind
  BY BehindInit, CountsAreNumbers DEF CountsAreNumbers
<1> QED BY <1>1, <1>2, BehindStep, PTL DEF Nonces!Spec

(* The two reads are as good as one: when get_address_nonce or              *)
(* ensure_no_pending_transactions finds the wallet clear, it is clear.      *)
THEOREM ClearIsClear == Nonces!Spec => ClearWhenTold
<1>1. Nonces!Init => Nonces!ReadsBehind
  BY BehindInit, CountsAreNumbers DEF CountsAreNumbers
<1> QED BY <1>1, BehindStep, ClearStep, PTL DEF Nonces!Spec, ClearWhenTold, Nonces!ClearWhenTold

-----------------------------------------------------------------------------
(* migration-status.                                                        *)

(* The first of some numbers is one of them: what the loops take is there.  *)
LEMMA FirstIsThere ==
  ASSUME NEW ids, ids \subseteq Nat, ids # {}
  PROVE  Status!First(ids) \in ids
<1>1. \E i \in ids : \A j \in ids : <<j, i>> \notin OpToRel(<, Nat)
  BY NatLessThanWellFounded, WFMin
<1>2. PICK i \in ids : \A j \in ids : <<j, i>> \notin OpToRel(<, Nat)
  BY <1>1
<1>3. \A j \in ids : ~ (j < i)
  BY <1>2 DEF OpToRel
<1>4. \A j \in ids : i <= j
  BY <1>3
<1> QED BY <1>4 DEF Status!First

LEMMA StatusInit == Status!Init => Status!StatusSound
<1> SUFFICES ASSUME Status!Init PROVE Status!StatusSound
  OBVIOUS
<1>1. Status!TypeOK
  BY DEF Status!Init, Status!TypeOK, Status!Nothing, Status!Call, Status!Rails, Status!States, Status!AllClaims
<1> QED BY <1>1 DEF Status!Init, Status!StatusSound, Status!Loops, Status!At, Status!Nothing, Status!EndedRead, Status!Open

(* The chain: what the deals do leaves the command alone.                   *)
LEMMA AdoptSound ==
  ASSUME Status!IdsAssumption, Status!StatusSound,
         NEW s \in Sources, NEW t \in Targets, NEW c \in ClaimsOf[s], Status!Adopt(s, t, c)
  PROVE  Status!StatusSound'
<1>1. Status!TypeOK'
  BY DEF Status!Adopt, Status!StatusSound, Status!TypeOK, Status!AllClaims
<1>2. Status!Loops'
  BY DEF Status!Adopt, Status!StatusSound, Status!Loops, Status!At, Status!Open
<1>3. \A u \in Targets : u \in Others \/ state'[u] = "none" => held'[u] = {}
  BY DEF Status!Adopt, Status!StatusSound, Status!TypeOK
<1>4. ASSUME NEW r \in Status!EndedRead' PROVE Status!Followed(r)'
  <2>1. r \in Status!EndedRead /\ Status!Followed(r) /\ r \in Sources
    BY <1>4 DEF Status!Adopt, Status!StatusSound, Status!EndedRead
  <2>2. r # s
    BY <2>1 DEF Status!Followed, Status!Adopt
  <2>3. c \notin listing[r]
    BY <2>1, <2>2 DEF Status!IdsAssumption, Status!StatusSound, Status!TypeOK
  <2>4. \A u \in Targets : held'[u] \intersect listing[r] = held[u] \intersect listing[r]
    BY <2>3 DEF Status!Adopt, Status!StatusSound, Status!TypeOK
  <2> QED BY <2>1, <2>4 DEF Status!Followed, Status!Found, Status!Adopt, Status!At
<1>5. \A r \in Sources : "lost" \in report'.lines[r] => r \in Status!EndedRead' /\ report'.pc \in {"lines", "done"}
  BY DEF Status!Adopt, Status!StatusSound, Status!EndedRead
<1>6. ASSUME NEW r \in Status!Open' PROVE Status!IdsRead(r)'
  BY <1>6 DEF Status!Adopt, Status!StatusSound, Status!IdsRead, Status!Open, Status!At
<1> QED BY <1>1, <1>2, <1>3, <1>4, <1>5, <1>6 DEF Status!StatusSound

LEMMA RailMovesSound ==
  ASSUME Status!StatusSound, NEW s \in Sources, NEW to \in Status!Rails, Status!RailMoves(s, to)
  PROVE  Status!StatusSound'
<1>1. Status!TypeOK'
  BY DEF Status!RailMoves, Status!StatusSound, Status!TypeOK
<1>2. Status!Loops'
  BY DEF Status!RailMoves, Status!StatusSound, Status!Loops, Status!At, Status!Open
<1>3. ASSUME NEW r \in Status!EndedRead' PROVE Status!Followed(r)'
  <2>1. Status!Followed(r) /\ r \in Sources
    BY <1>3 DEF Status!RailMoves, Status!StatusSound, Status!EndedRead
  <2>2. rail'[r] \in {"ending", "ended", "gone"}
    BY <2>1 DEF Status!Followed, Status!RailMoves, Status!RailSteps, Status!StatusSound, Status!TypeOK
  <2> QED BY <2>1, <2>2 DEF Status!Followed, Status!Found, Status!RailMoves, Status!At
<1>4. ASSUME NEW r \in Status!Open' PROVE Status!IdsRead(r)'
  BY <1>4 DEF Status!RailMoves, Status!StatusSound, Status!IdsRead, Status!Open, Status!At
<1> QED BY <1>1, <1>2, <1>3, <1>4 DEF Status!StatusSound, Status!RailMoves, Status!EndedRead

(* What was read of the ids of a V1 deal has all that it still lists.       *)
LEMMA DropClaimSound ==
  ASSUME Status!StatusSound, NEW s \in Sources, NEW c \in ClaimsOf[s], Status!DropClaim(s, c)
  PROVE  Status!StatusSound'
<1>1. \A r \in Sources : listing'[r] \subseteq listing[r]
  BY DEF Status!DropClaim, Status!StatusSound, Status!TypeOK
<1>2. Status!TypeOK'
  <2>1. listing' \in [Sources -> SUBSET Status!AllClaims]
    BY DEF Status!DropClaim, Status!StatusSound, Status!TypeOK
  <2> QED BY <2>1, <1>1 DEF Status!DropClaim, Status!StatusSound, Status!TypeOK
<1>3. Status!Loops'
  BY DEF Status!DropClaim, Status!StatusSound, Status!Loops, Status!At, Status!Open
<1>4. ASSUME NEW r \in Status!EndedRead' PROVE Status!Followed(r)'
  <2>1. Status!Followed(r) /\ r \in Sources
    BY <1>4 DEF Status!DropClaim, Status!StatusSound, Status!EndedRead
  <2>2. \A u \in Targets : held[u] \intersect listing'[r] # {} => held[u] \intersect listing[r] # {}
    BY <2>1, <1>1
  <2> QED BY <2>1, <2>2 DEF Status!Followed, Status!Found, Status!DropClaim, Status!At
<1>5. ASSUME NEW r \in Status!Open' PROVE Status!IdsRead(r)'
  <2>1. r \in Status!Open /\ r \in Sources /\ Status!IdsRead(r)
    BY <1>5 DEF Status!DropClaim, Status!StatusSound, Status!Open
  <2> QED BY <2>1, <1>1 DEF Status!DropClaim, Status!IdsRead, Status!At
<1> QED BY <1>2, <1>3, <1>4, <1>5 DEF Status!StatusSound, Status!DropClaim, Status!EndedRead

(* A deal that comes up holds no claim yet; none comes back.                *)
LEMMA DealMovesSound ==
  ASSUME Status!StatusSound, NEW t \in Targets, NEW to \in Status!States, Status!DealMoves(t, to)
  PROVE  Status!StatusSound'
<1>1. Status!TypeOK'
  BY DEF Status!DealMoves, Status!StatusSound, Status!TypeOK
<1>2. Status!Loops'
  BY DEF Status!DealMoves, Status!StatusSound, Status!Loops, Status!At, Status!Open
<1>3. \A u \in Targets : u \in Others \/ state'[u] = "none" => held'[u] = {}
  BY DEF Status!DealMoves, Status!StateSteps, Status!StatusSound, Status!TypeOK
<1>4. ASSUME NEW r \in Status!EndedRead' PROVE Status!Followed(r)'
  <2>1. Status!Followed(r)
    BY <1>4 DEF Status!DealMoves, Status!StatusSound, Status!EndedRead
  <2>2. \A u \in Targets : state'[u] \in Status!MigrationStates /\ held[u] # {} => state[u] \in Status!MigrationStates
    BY DEF Status!DealMoves, Status!StateSteps, Status!StatusSound, Status!TypeOK, Status!MigrationStates
  <2>3. \A u \in Targets : held[u] \intersect listing[r] # {} => held[u] # {}
    OBVIOUS
  <2> QED BY <2>1, <2>2, <2>3 DEF Status!Followed, Status!Found, Status!DealMoves, Status!At
<1>5. ASSUME NEW r \in Status!Open' PROVE Status!IdsRead(r)'
  BY <1>5 DEF Status!DealMoves, Status!StatusSound, Status!IdsRead, Status!Open, Status!At
<1> QED BY <1>1, <1>2, <1>3, <1>4, <1>5 DEF Status!StatusSound, Status!DealMoves, Status!EndedRead

(* The reads.                                                               *)
LEMMA BeginSound == ASSUME Status!StatusSound, Status!Begin PROVE Status!StatusSound'
<1>1. Status!TypeOK'
  <2>1. Status!Nothing \in Status!Call
    BY DEF Status!Nothing, Status!Call, Status!States
  <2>2. report' \in Status!Call
    BY <2>1 DEF Status!Begin, Status!Reads, Status!Call
  <2> QED BY <2>2 DEF Status!Begin, Status!Reads, Status!StatusSound, Status!TypeOK
<1>2. report'.pc = "rails" /\ report'.todo = Sources
  BY DEF Status!Begin, Status!Reads, Status!Nothing
<1>3. Status!EndedRead' = {} /\ \A s \in Sources : report'.lines[s] = {}
  BY DEF Status!Begin, Status!Reads, Status!Nothing, Status!EndedRead
<1> QED BY <1>1, <1>2, <1>3 DEF Status!StatusSound, Status!Loops, Status!At, Status!IdsRead, Status!Begin, Status!Reads

LEMMA ReadRailSound == ASSUME Status!IdsAssumption, Status!StatusSound, Status!ReadRail PROVE Status!StatusSound'
<1> DEFINE s == Status!First(report.todo)
<1>1. s \in report.todo /\ report.todo \subseteq Sources
  BY FirstIsThere DEF Status!ReadRail, Status!StatusSound, Status!Loops, Status!IdsAssumption
<1>2. report' = [report EXCEPT !.rails[s] = rail[s], !.todo = @ \ {s}]
  BY DEF Status!ReadRail, Status!Reads
<1>3. Status!TypeOK'
  <2>1. [report.rails EXCEPT ![s] = rail[s]] \in [Sources -> Status!Rails \union {"unread"}]
    BY <1>1 DEF Status!StatusSound, Status!TypeOK, Status!Call
  <2>2. report.todo \ {s} \in SUBSET (Sources \union Targets)
    BY <1>1
  <2>3. report' \in Status!Call
    BY <1>2, <2>1, <2>2 DEF Status!StatusSound, Status!TypeOK, Status!Call
  <2> QED BY <2>3 DEF Status!ReadRail, Status!Reads, Status!StatusSound, Status!TypeOK
<1>4. report'.pc = "rails" /\ report'.todo = report.todo \ {s} /\ report'.lines = report.lines
  BY <1>2 DEF Status!ReadRail, Status!At, Status!StatusSound, Status!TypeOK, Status!Call
<1>5. \A r \in Sources : report'.rails[r] = IF r = s THEN rail[r] ELSE report.rails[r]
  BY <1>1, <1>2 DEF Status!StatusSound, Status!TypeOK, Status!Call
<1>6. ASSUME NEW r \in Status!EndedRead' PROVE Status!Followed(r)'
  <2>1. rail[r] \in {"ending", "ended", "gone"}
    BY <1>5, <1>6 DEF Status!EndedRead, Status!StatusSound, Status!Followed
  <2> QED BY <2>1, <1>4 DEF Status!Followed, Status!At, Status!ReadRail, Status!Reads
<1>7. \A r \in Sources : "lost" \notin report'.lines[r]
  BY <1>4 DEF Status!StatusSound, Status!ReadRail, Status!At
<1> QED BY <1>1, <1>3, <1>4, <1>6, <1>7 DEF Status!StatusSound, Status!Loops, Status!At, Status!IdsRead, Status!ReadRail, Status!Reads

LEMMA ReadTargetsSound == ASSUME Status!StatusSound, Status!ReadTargets PROVE Status!StatusSound'
<1> DEFINE found == {t \in Targets : state[t] \in Status!MigrationStates}
           targets == [t \in Targets |-> IF t \in found THEN state[t] ELSE "none"]
<1>1. report' = [report EXCEPT !.pc = "ids", !.targets = targets, !.todo = Status!Open]
  BY DEF Status!ReadTargets, Status!Reads
<1>2. targets \in [Targets -> Status!States] /\ Status!Open \in SUBSET (Sources \union Targets)
  BY DEF Status!StatusSound, Status!TypeOK, Status!States, Status!Open
<1>3. Status!TypeOK'
  <2>1. report' \in Status!Call
    BY <1>1, <1>2 DEF Status!StatusSound, Status!TypeOK, Status!Call
  <2> QED BY <2>1 DEF Status!ReadTargets, Status!Reads, Status!StatusSound, Status!TypeOK
<1>4. /\ report'.pc = "ids" /\ report'.todo = Status!Open /\ report'.lines = report.lines /\ report'.rails = report.rails
      /\ report'.targets = targets
  BY <1>1 DEF Status!StatusSound, Status!TypeOK, Status!Call
<1>5. ASSUME NEW r \in Status!EndedRead' PROVE Status!Followed(r)'
  <2>1. Status!Followed(r)
    BY <1>4, <1>5 DEF Status!EndedRead, Status!StatusSound
  <2>2. \A t \in Targets : state[t] \in Status!MigrationStates => report'.targets[t] # "none"
    BY <1>4 DEF Status!MigrationStates
  <2> QED BY <2>1, <2>2, <1>4 DEF Status!Followed, Status!Found, Status!ReadTargets, Status!Reads, Status!At
<1>6. \A r \in Sources : "lost" \notin report'.lines[r]
  BY <1>4 DEF Status!StatusSound, Status!ReadTargets, Status!At
<1>7. Status!Open' = Status!Open
  BY <1>4 DEF Status!Open
<1> QED BY <1>3, <1>4, <1>5, <1>6, <1>7 DEF Status!StatusSound, Status!Loops, Status!At, Status!IdsRead, Status!ReadTargets, Status!Reads

LEMMA ReadIdsSound == ASSUME Status!IdsAssumption, Status!StatusSound, Status!ReadIds PROVE Status!StatusSound'
<1> DEFINE s == Status!First(report.todo)
<1>1. s \in report.todo /\ s \in Sources /\ report.todo \subseteq Status!Open
  BY FirstIsThere DEF Status!ReadIds, Status!StatusSound, Status!Loops, Status!IdsAssumption, Status!Open
<1>2. report' = [report EXCEPT !.ids[s] = listing[s], !.todo = @ \ {s}]
  BY DEF Status!ReadIds, Status!Reads
<1>3. Status!TypeOK'
  <2>1. [report.ids EXCEPT ![s] = listing[s]] \in [Sources -> SUBSET Status!AllClaims]
    BY <1>1 DEF Status!StatusSound, Status!TypeOK, Status!Call
  <2>2. report.todo \ {s} \in SUBSET (Sources \union Targets)
    BY <1>1 DEF Status!Open
  <2>3. report' \in Status!Call
    BY <1>2, <2>1, <2>2 DEF Status!StatusSound, Status!TypeOK, Status!Call
  <2> QED BY <2>3 DEF Status!ReadIds, Status!Reads, Status!StatusSound, Status!TypeOK
<1>4. /\ report'.pc = "ids" /\ report'.todo = report.todo \ {s} /\ report'.lines = report.lines
      /\ report'.rails = report.rails /\ report'.targets = report.targets
  BY <1>2 DEF Status!ReadIds, Status!At, Status!StatusSound, Status!TypeOK, Status!Call
<1>5. \A r \in Sources : report'.ids[r] = IF r = s THEN listing[r] ELSE report.ids[r]
  BY <1>1, <1>2 DEF Status!StatusSound, Status!TypeOK, Status!Call
<1>6. ASSUME NEW r \in Status!EndedRead' PROVE Status!Followed(r)'
  <2>1. Status!Followed(r)
    BY <1>4, <1>6 DEF Status!EndedRead, Status!StatusSound
  <2> QED BY <2>1, <1>4 DEF Status!Followed, Status!Found, Status!ReadIds, Status!Reads, Status!At
<1>7. Status!Open' = Status!Open
  BY <1>4 DEF Status!Open
<1>8. ASSUME NEW r \in Status!Open' PROVE Status!IdsRead(r)'
  <2>1. r \in Sources /\ Status!IdsRead(r)
    BY <1>7, <1>8 DEF Status!Open, Status!StatusSound
  <2> QED BY <2>1, <1>4, <1>5 DEF Status!IdsRead, Status!ReadIds, Status!Reads, Status!At
<1>9. \A r \in Sources : "lost" \notin report'.lines[r]
  BY <1>4 DEF Status!StatusSound, Status!ReadIds, Status!At
<1> QED BY <1>1, <1>3, <1>4, <1>6, <1>7, <1>8, <1>9 DEF Status!StatusSound, Status!Loops, Status!At, Status!ReadIds, Status!Reads

LEMMA EndOfIdsSound == ASSUME Status!StatusSound, Status!EndOfIds PROVE Status!StatusSound'
<1>1. report' = [report EXCEPT !.pc = "pairs", !.todo = Status!Found]
  BY DEF Status!EndOfIds, Status!Reads
<1>2. /\ report'.pc = "pairs" /\ report'.todo = Status!Found /\ report'.lines = report.lines
      /\ report'.rails = report.rails /\ report'.ids = report.ids
  BY <1>1 DEF Status!StatusSound, Status!TypeOK, Status!Call
<1>3. Status!TypeOK'
  <2>1. Status!Found \in SUBSET (Sources \union Targets)
    BY DEF Status!Found
  <2>2. report' \in Status!Call
    BY <1>1, <2>1 DEF Status!StatusSound, Status!TypeOK, Status!Call
  <2> QED BY <2>2 DEF Status!EndOfIds, Status!Reads, Status!StatusSound, Status!TypeOK
<1>4. ASSUME NEW r \in Status!EndedRead' PROVE Status!Followed(r)'
  <2>1. Status!Followed(r)
    BY <1>2, <1>4 DEF Status!EndedRead, Status!StatusSound
  <2> QED BY <2>1, <1>2 DEF Status!Followed, Status!EndOfIds, Status!Reads, Status!At
<1>5. ASSUME NEW r \in Status!Open' PROVE Status!IdsRead(r)'
  <2>1. Status!IdsRead(r)
    BY <1>2, <1>5 DEF Status!Open, Status!StatusSound
  <2> QED BY <2>1, <1>2 DEF Status!IdsRead, Status!EndOfIds, Status!Reads, Status!At
<1>6. \A r \in Sources : "lost" \notin report'.lines[r]
  BY <1>2 DEF Status!StatusSound, Status!EndOfIds, Status!At
<1> QED BY <1>2, <1>3, <1>4, <1>5, <1>6 DEF Status!StatusSound, Status!Loops, Status!At, Status!Found, Status!EndOfIds, Status!Reads

(* A V2 deal that holds a claim of an open V1 deal is paired with one.      *)
LEMMA PairTargetSound == ASSUME Status!IdsAssumption, Status!StatusSound, Status!PairTarget PROVE Status!StatusSound'
<1> DEFINE t == Status!First(report.todo)
           own == {s \in Status!Open : t \notin Others /\ held[t] \intersect report.ids[s] # {}}
           pair == IF own = {} THEN {} ELSE {Status!First(own)}
<1>1. t \in report.todo /\ report.todo \subseteq Targets
  BY FirstIsThere DEF Status!PairTarget, Status!StatusSound, Status!Loops, Status!IdsAssumption
<1>2. own \subseteq Sources /\ Sources \subseteq Nat
  BY DEF Status!Open, Status!IdsAssumption
<1>3. pair \in SUBSET Sources /\ (own # {} => pair # {})
  BY <1>2, FirstIsThere
<1>4. report' = [report EXCEPT !.pairs[t] = pair, !.todo = @ \ {t}]
  BY DEF Status!PairTarget, Status!Reads
<1> HIDE DEF pair, own
<1>5. Status!TypeOK'
  <2>1. [report.pairs EXCEPT ![t] = pair] \in [Targets -> SUBSET Sources]
    BY <1>1, <1>3 DEF Status!StatusSound, Status!TypeOK, Status!Call
  <2>2. report.todo \ {t} \in SUBSET (Sources \union Targets)
    BY <1>1
  <2>3. report' \in Status!Call
    BY <1>4, <2>1, <2>2 DEF Status!StatusSound, Status!TypeOK, Status!Call
  <2> QED BY <2>3 DEF Status!PairTarget, Status!Reads, Status!StatusSound, Status!TypeOK
<1>6. /\ report'.pc = "pairs" /\ report'.todo = report.todo \ {t} /\ report'.lines = report.lines
      /\ report'.rails = report.rails /\ report'.ids = report.ids
  BY <1>4 DEF Status!PairTarget, Status!At, Status!StatusSound, Status!TypeOK, Status!Call
<1>7. \A u \in Targets : report'.pairs[u] = IF u = t THEN pair ELSE report.pairs[u]
  BY <1>1, <1>4 DEF Status!StatusSound, Status!TypeOK, Status!Call
<1>8. UNCHANGED <<rail, state, listing, held>>
  BY DEF Status!PairTarget, Status!Reads
<1>9. ASSUME NEW r \in Status!EndedRead' PROVE Status!Followed(r)'
  <2>1. Status!Followed(r) /\ r \in Status!Open /\ listing[r] \subseteq report.ids[r]
    BY <1>6, <1>9 DEF Status!EndedRead, Status!Open, Status!StatusSound, Status!IdsRead, Status!PairTarget
  <2>2. held[t] \intersect listing[r] # {} => r \in own
    BY <2>1, <1>1 DEF own, Status!StatusSound
  <2>3. ASSUME NEW u \in Targets, state[u] \in Status!MigrationStates, held[u] \intersect listing[r] # {}
        PROVE  u \in report'.todo \/ report'.pairs[u] # {}
    <3>1. CASE u = t
      BY <3>1, <2>2, <2>3, <1>3, <1>7
    <3>2. CASE u # t
      BY <3>2, <2>1, <2>3, <1>6, <1>7 DEF Status!Followed, Status!PairTarget, Status!At
    <3> QED BY <3>1, <3>2
  <2> QED BY <2>1, <2>3, <1>6, <1>8 DEF Status!Followed, Status!At
<1>10. \A r \in Sources : "lost" \notin report'.lines[r]
  BY <1>6 DEF Status!StatusSound, Status!PairTarget, Status!At
<1>11. ASSUME NEW r \in Status!Open' PROVE Status!IdsRead(r)'
  BY <1>6, <1>8, <1>11 DEF Status!StatusSound, Status!IdsRead, Status!Open, Status!PairTarget, Status!At
<1> QED BY <1>1, <1>5, <1>6, <1>8, <1>9, <1>10, <1>11 DEF Status!StatusSound, Status!Loops, Status!At

LEMMA PairedSound == ASSUME Status!StatusSound, Status!Paired PROVE Status!StatusSound'
<1>1. report' = [report EXCEPT !.pc = "lines", !.todo = Status!Open]
  BY DEF Status!Paired, Status!Reads
<1>2. report'.pc = "lines" /\ report'.todo = Status!Open /\ report'.lines = report.lines /\ report'.rails = report.rails /\ report'.pairs = report.pairs
  BY <1>1 DEF Status!StatusSound, Status!TypeOK, Status!Call
<1>3. Status!TypeOK'
  <2>1. Status!Open \in SUBSET (Sources \union Targets)
    BY DEF Status!Open
  <2>2. report' \in Status!Call
    BY <1>1, <2>1 DEF Status!StatusSound, Status!TypeOK, Status!Call
  <2> QED BY <2>2 DEF Status!Paired, Status!Reads, Status!StatusSound, Status!TypeOK
<1>4. ASSUME NEW r \in Status!EndedRead' PROVE Status!Followed(r)'
  <2>1. Status!Followed(r)
    BY <1>2, <1>4 DEF Status!EndedRead, Status!StatusSound
  <2> QED BY <2>1, <1>2 DEF Status!Followed, Status!Paired, Status!Reads, Status!At
<1>5. \A r \in Sources : "lost" \notin report'.lines[r]
  BY <1>2 DEF Status!StatusSound, Status!Paired, Status!At
<1> QED BY <1>2, <1>3, <1>4, <1>5 DEF Status!StatusSound, Status!Loops, Status!At, Status!Open, Status!IdsRead, Status!Paired, Status!Reads

(* Only a V1 deal whose rail was read as ended is called lost.              *)
LEMMA LineSound == ASSUME Status!IdsAssumption, Status!StatusSound, Status!Line PROVE Status!StatusSound'
<1> DEFINE s == Status!First(report.todo)
           t == Status!Last(Status!Replacements(s))
<1>1. s \in report.todo /\ s \in Status!Open /\ s \in Sources /\ report.todo \subseteq Status!Open
  BY FirstIsThere DEF Status!Line, Status!StatusSound, Status!Loops, Status!IdsAssumption, Status!Open
<1>2. \E line \in Status!Lines, claims \in SUBSET Status!AllClaims :
        /\ line = "lost" => s \in Status!EndedRead
        /\ report' = [report EXCEPT !.todo = @ \ {s}, !.lines[s] = {line}, !.adopted[s] = claims]
  <2>1. CASE Status!Replacements(s) = {}
    <3>1. Status!NoReplacement(s) \in Status!Lines
      BY DEF Status!NoReplacement, Status!Lines
    <3>2. Status!NoReplacement(s) = "lost" => s \in Status!EndedRead
      BY <1>1 DEF Status!NoReplacement, Status!Open, Status!EndedRead
    <3>3. report.adopted[s] \in SUBSET Status!AllClaims
      BY <1>1 DEF Status!StatusSound, Status!TypeOK, Status!Call
    <3>4. report' = [report EXCEPT !.todo = @ \ {s}, !.lines[s] = {Status!NoReplacement(s)}]
      BY <2>1 DEF Status!Line, Status!Reads
    <3>5. [report.adopted EXCEPT ![s] = report.adopted[s]] = report.adopted
      BY <1>1 DEF Status!StatusSound, Status!TypeOK, Status!Call
    <3> DEFINE there == [report EXCEPT !.todo = @ \ {s}, !.lines[s] = {Status!NoReplacement(s)}, !.adopted[s] = report.adopted[s]]
    <3>6. report' = there
      BY <3>4, <3>5 DEF Status!StatusSound, Status!TypeOK, Status!Call
    <3> QED BY <3>1, <3>2, <3>3, <3>6
  <2>2. CASE Status!Replacements(s) # {}
    <3>1. Status!TargetLine(s, t) \in Status!Lines /\ Status!TargetLine(s, t) # "lost"
      BY DEF Status!TargetLine, Status!Overlap, Status!Lines
    <3>2. Status!Adopted(s, t) \in SUBSET Status!AllClaims
      BY <1>1 DEF Status!Adopted, Status!StatusSound, Status!TypeOK
    <3>3. report' = [report EXCEPT !.todo = @ \ {s}, !.lines[s] = {Status!TargetLine(s, t)}, !.adopted[s] = Status!Adopted(s, t)]
      BY <2>2, <1>1 DEF Status!Line, Status!Reads, Status!StatusSound, Status!TypeOK, Status!Call
    <3> QED BY <3>1, <3>2, <3>3
  <2> QED BY <2>1, <2>2
<1>3. PICK line \in Status!Lines, claims \in SUBSET Status!AllClaims :
        /\ line = "lost" => s \in Status!EndedRead
        /\ report' = [report EXCEPT !.todo = @ \ {s}, !.lines[s] = {line}, !.adopted[s] = claims]
  BY <1>2
<1>4. UNCHANGED <<rail, state, listing, held>>
  BY DEF Status!Line, Status!Reads
<1>5. Status!TypeOK'
  BY <1>1, <1>3, <1>4 DEF Status!StatusSound, Status!TypeOK, Status!Call
<1>6. report'.pc = "lines" /\ report'.todo = report.todo \ {s} /\ report'.rails = report.rails /\ report'.pairs = report.pairs
  BY <1>3 DEF Status!Line, Status!At, Status!StatusSound, Status!TypeOK, Status!Call
<1>7. \A r \in Sources : report'.lines[r] = IF r = s THEN {line} ELSE report.lines[r]
  BY <1>1, <1>3 DEF Status!StatusSound, Status!TypeOK, Status!Call
<1>8. Status!EndedRead' = Status!EndedRead
  BY <1>6 DEF Status!EndedRead
<1>9. ASSUME NEW r \in Status!EndedRead' PROVE Status!Followed(r)'
  <2>1. Status!Followed(r)
    BY <1>8, <1>9 DEF Status!StatusSound
  <2> QED BY <2>1, <1>4, <1>6 DEF Status!Followed, Status!Line, Status!At
<1>10. \A r \in Sources : "lost" \in report'.lines[r] => r \in Status!EndedRead'
  BY <1>3, <1>7, <1>8 DEF Status!StatusSound
<1> QED BY <1>1, <1>4, <1>5, <1>6, <1>9, <1>10 DEF Status!StatusSound, Status!Loops, Status!At, Status!Open, Status!IdsRead

LEMMA FinishSound == ASSUME Status!StatusSound, Status!Finish PROVE Status!StatusSound'
<1>1. report' = [report EXCEPT !.pc = "done", !.candidates = Status!Candidates]
  BY DEF Status!Finish, Status!Reads
<1>2. report'.pc = "done" /\ report'.lines = report.lines /\ report'.rails = report.rails /\ report'.pairs = report.pairs
  BY <1>1 DEF Status!StatusSound, Status!TypeOK, Status!Call
<1>3. Status!TypeOK'
  BY <1>1 DEF Status!Finish, Status!Reads, Status!StatusSound, Status!TypeOK, Status!Call, Status!Candidates
<1>4. Status!EndedRead' = Status!EndedRead
  BY <1>2 DEF Status!EndedRead
<1>5. ASSUME NEW r \in Status!EndedRead' PROVE Status!Followed(r)'
  <2>1. Status!Followed(r)
    BY <1>4, <1>5 DEF Status!StatusSound
  <2> QED BY <2>1, <1>2 DEF Status!Followed, Status!Finish, Status!Reads, Status!At
<1> QED BY <1>2, <1>3, <1>4, <1>5 DEF Status!StatusSound, Status!Loops, Status!At, Status!IdsRead, Status!Finish, Status!Reads

(* StatusSound is inductive.                                                *)
LEMMA StatusStep == ASSUME Status!IdsAssumption PROVE Status!StatusSound /\ [Status!Next]_(Status!vars) => Status!StatusSound'
<1> SUFFICES ASSUME Status!StatusSound, [Status!Next]_(Status!vars) PROVE Status!StatusSound'
  OBVIOUS
<1>1. CASE \E s \in Sources, t \in Targets : \E c \in ClaimsOf[s] : Status!Adopt(s, t, c)
  BY <1>1, AdoptSound
<1>2. CASE \E s \in Sources, to \in Status!Rails : Status!RailMoves(s, to)
  BY <1>2, RailMovesSound
<1>3. CASE \E t \in Targets, to \in Status!States : Status!DealMoves(t, to)
  BY <1>3, DealMovesSound
<1>4. CASE \E s \in Sources : \E c \in ClaimsOf[s] : Status!DropClaim(s, c)
  BY <1>4, DropClaimSound
<1>5. CASE Status!Begin \/ Status!ReadRail \/ Status!ReadTargets \/ Status!ReadIds \/ Status!EndOfIds \/ Status!PairTarget \/ Status!Paired \/ Status!Line \/ Status!Finish
  BY <1>5, BeginSound, ReadRailSound, ReadTargetsSound, ReadIdsSound, EndOfIdsSound, PairTargetSound, PairedSound, LineSound, FinishSound
<1>6. CASE UNCHANGED Status!vars
  BY <1>6 DEF Status!vars, Status!StatusSound, Status!TypeOK, Status!Loops, Status!At, Status!Open, Status!EndedRead, Status!Followed, Status!Found, Status!IdsRead
<1> QED BY <1>1, <1>2, <1>3, <1>4, <1>5, <1>6 DEF Status!Next

LEMMA StatusIsEnough == Status!StatusSound => Status!LostForGood
BY DEF Status!StatusSound, Status!LostForGood, Status!Followed, Status!EndedRead, Status!At

(* What migration-status calls lost is lost, for any number of deals.       *)
THEOREM LostIsLost == Status!Spec => []LostForGood
<1>1. Status!StatusSound => LostForGood
  BY StatusIsEnough DEF LostForGood
<1>2. Status!StatusSound /\ [Status!Next]_(Status!vars) => Status!StatusSound'
  BY StatusStep, DealsHaveNumbers DEF DealsHaveNumbers
<1> QED BY <1>1, <1>2, StatusInit, PTL DEF Status!Spec

-----------------------------------------------------------------------------
(* Sums.  What a sum over a finite set is comes from the definition of the  *)
(* community modules, which is recursive: by induction over numbers and     *)
(* over the subsets of a set, as there is a first number and a smallest set *)
(* for which a statement fails.                                             *)

LEMMA LeastIsThere ==
  ASSUME NEW ids, ids \subseteq Nat, ids # {}
  PROVE  \E i \in ids : \A j \in ids : i <= j
<1>1. PICK i \in ids : \A j \in ids : <<j, i>> \notin OpToRel(<, Nat)
  BY NatLessThanWellFounded, WFMin
<1>2. \A j \in ids : ~ (j < i)
  BY <1>1 DEF OpToRel
<1> QED BY <1>2

(* Induction over numbers, and over the subsets of a finite set, for a set  *)
(* of those that are good.                                                  *)
LEMMA AllNumbers ==
  ASSUME NEW good \in SUBSET Nat, 0 \in good, \A n \in good : n + 1 \in good
  PROVE  good = Nat
<1> SUFFICES ASSUME Nat \ good # {} PROVE FALSE
  OBVIOUS
<1>1. PICK n \in Nat \ good : \A m \in Nat \ good : n <= m
  BY LeastIsThere
<1>2. n - 1 \in Nat /\ ~(n <= n - 1)
  BY <1>1
<1>3. n - 1 \in good
  BY <1>1, <1>2
<1>4. (n - 1) + 1 = n
  OBVIOUS
<1> QED BY <1>1, <1>3, <1>4

LEMMA AllSubsets ==
  ASSUME NEW S, IsFiniteSet(S), NEW good \in SUBSET SUBSET S, {} \in good,
         \A s \in SUBSET S : s # {} /\ (\A x \in s : s \ {x} \in good) => s \in good
  PROVE  good = SUBSET S
<1> SUFFICES ASSUME (SUBSET S) \ good # {} PROVE FALSE
  OBVIOUS
<1> DEFINE sizes == {Cardinality(s) : s \in (SUBSET S) \ good}
<1>1. \A s \in SUBSET S : IsFiniteSet(s) /\ Cardinality(s) \in Nat
  BY FS_Subset, FS_CardinalityType
<1>2. sizes \subseteq Nat /\ sizes # {}
  BY <1>1
<1>3. PICK n \in sizes : \A m \in sizes : n <= m
  BY <1>2, LeastIsThere
<1>4. PICK s \in (SUBSET S) \ good : n = Cardinality(s)
  BY <1>3
<1>5. ASSUME NEW x \in s PROVE s \ {x} \in good
  <2>1. Cardinality(s \ {x}) = n - 1 /\ n \in Nat
    BY <1>1, <1>4, FS_RemoveElement
  <2>2. n - 1 \notin sizes
    BY <1>3, <2>1
  <2> QED BY <1>4, <2>1, <2>2
<1> QED BY <1>4, <1>5

-----------------------------------------------------------------------------
(* Sums of what a function gives the elements of a finite set.              *)

Chosen(s) == CHOOSE x \in s : TRUE
SumStep(f, g, s) == IF s = {} THEN 0 ELSE f[Chosen(s)] + g[s \ {Chosen(s)}]
Summing(f, g, S) == g = [s \in SUBSET S |-> SumStep(f, g, s)]

LEMMA ChosenIsThere == ASSUME NEW s, s # {} PROVE Chosen(s) \in s
BY DEF Chosen

LEMMA SummingExists ==
  ASSUME NEW S, IsFiniteSet(S), NEW f
  PROVE  \E g : Summing(f, g, S)
<1> DEFINE Small(n) == {s \in SUBSET S : Cardinality(s) <= n}
           good == {n \in Nat : \E g : g = [s \in Small(n) |-> SumStep(f, g, s)]}
<1>1. \A s \in SUBSET S : IsFiniteSet(s) /\ Cardinality(s) \in Nat
  BY FS_Subset, FS_CardinalityType
<1>2. 0 \in good
  <2>1. \A s \in Small(0) : s = {}
    BY <1>1, FS_EmptySet
  <2> DEFINE g == [s \in Small(0) |-> 0]
  <2>2. g = [s \in Small(0) |-> SumStep(f, g, s)]
    BY <2>1 DEF SumStep
  <2> QED BY <2>2
<1>3. ASSUME NEW n \in good PROVE n + 1 \in good
  <2>1. PICK g : g = [s \in Small(n) |-> SumStep(f, g, s)]
    OBVIOUS
  <2> DEFINE h == [s \in Small(n + 1) |-> SumStep(f, g, s)]
  <2>2. ASSUME NEW s \in Small(n + 1) PROVE SumStep(f, g, s) = SumStep(f, h, s)
    <3>1. CASE s = {}
      BY <3>1 DEF SumStep
    <3>2. CASE s # {}
      <4> DEFINE t == s \ {Chosen(s)}
      <4>1. Chosen(s) \in s
        BY <3>2, ChosenIsThere
      <4>2. Cardinality(t) = Cardinality(s) - 1 /\ t \in SUBSET S
        BY <1>1, <4>1, FS_RemoveElement
      <4>3. t \in Small(n) /\ t \in Small(n + 1)
        BY <1>1, <4>2
      <4> HIDE DEF t
      <4>4. g[t] = SumStep(f, g, t) /\ h[t] = SumStep(f, g, t)
        BY <2>1, <4>3
      <4> QED BY <3>2, <4>4 DEF SumStep, t
    <3> QED BY <3>1, <3>2
  <2>3. h = [s \in Small(n + 1) |-> SumStep(f, h, s)]
    BY <2>2
  <2> HIDE DEF h, Small
  <2>4. \E k : k = [s \in Small(n + 1) |-> SumStep(f, k, s)]
    BY <2>3, Zenon
  <2>5. n + 1 \in Nat
    OBVIOUS
  <2> QED BY <2>4, <2>5, Zenon
<1>4. good = Nat
  <2> HIDE DEF good
  <2> QED BY <1>2, <1>3, AllNumbers DEF good
<1>5. Cardinality(S) \in good
  BY <1>1, <1>4
<1>6. Small(Cardinality(S)) = SUBSET S
  BY <1>1, FS_Subset
<1>7. PICK g : g = [s \in Small(Cardinality(S)) |-> SumStep(f, g, s)]
  BY <1>5
<1> QED BY <1>6, <1>7 DEF Summing

SumOver(f, S) == CHOOSE g : Summing(f, g, S)

LEMMA SumIsSumOver == ASSUME NEW f, NEW S PROVE SumFunctionOnSet(f, S) = SumOver(f, S)[S]
BY DEF SumFunctionOnSet, FoldFunctionOnSet, MapThenFoldSet, SumOver, Summing, SumStep, Chosen

(* All sums over subsets of D: they come from one function, and it does not *)
(* matter which element is taken first.                                     *)
LEMMA SumRecurs ==
  ASSUME NEW S, IsFiniteSet(S), NEW f, NEW s \in SUBSET S
  PROVE  SumOver(f, S)[s] = IF s = {} THEN 0 ELSE f[Chosen(s)] + SumOver(f, S)[s \ {Chosen(s)}]
<1>1. Summing(f, SumOver(f, S), S)
  BY SummingExists, Zenon DEF SumOver
<1> QED BY <1>1 DEF Summing, SumStep

LEMMA SumOfSubset ==
  ASSUME NEW D, IsFiniteSet(D), NEW f \in [D -> Nat], NEW S \in SUBSET D
  PROVE  SumFunctionOnSet(f, S) = SumOver(f, D)[S]
<1> DEFINE good == {s \in SUBSET S : SumOver(f, S)[s] = SumOver(f, D)[s]}
<1>0. IsFiniteSet(S)
  BY FS_Subset
<1>1. {} \in good
  <2>1. {} \in SUBSET S /\ {} \in SUBSET D
    OBVIOUS
  <2>2. SumOver(f, S)[{}] = 0
    BY <1>0, <2>1, SumRecurs
  <2>3. SumOver(f, D)[{}] = 0
    BY <2>1, SumRecurs
  <2> QED BY <2>1, <2>2, <2>3
<1>2. ASSUME NEW s \in SUBSET S, s # {}, \A x \in s : s \ {x} \in good PROVE s \in good
  <2>1. Chosen(s) \in s
    BY <1>2, ChosenIsThere
  <2>2. SumOver(f, S)[s] = f[Chosen(s)] + SumOver(f, S)[s \ {Chosen(s)}]
    BY <1>0, <1>2, SumRecurs
  <2>3. SumOver(f, D)[s] = f[Chosen(s)] + SumOver(f, D)[s \ {Chosen(s)}]
    <3>1. s \in SUBSET D /\ s # {}
      BY <1>2
    <3> HIDE DEF good
    <3> QED BY <3>1, SumRecurs
  <2>4. SumOver(f, S)[s \ {Chosen(s)}] = SumOver(f, D)[s \ {Chosen(s)}]
    BY <1>2, <2>1
  <2> QED BY <2>2, <2>3, <2>4
<1>3. good = SUBSET S
  <2>1. good \in SUBSET SUBSET S
    OBVIOUS
  <2> HIDE DEF good
  <2> QED BY <2>1, <1>0, <1>1, <1>2, AllSubsets
<1>4. S \in good
  BY <1>3
<1> QED BY <1>4, SumIsSumOver

(* The sum, one element after the other: the one that is chosen, and any.   *)
LEMMA SumOneByOne ==
  ASSUME NEW D, IsFiniteSet(D), NEW f \in [D -> Nat], NEW S \in SUBSET D
  PROVE  SumFunctionOnSet(f, S) = IF S = {} THEN 0 ELSE f[Chosen(S)] + SumFunctionOnSet(f, S \ {Chosen(S)})
<1>1. SumFunctionOnSet(f, S) = SumOver(f, D)[S]
  BY SumOfSubset
<1>2. SumFunctionOnSet(f, S \ {Chosen(S)}) = SumOver(f, D)[S \ {Chosen(S)}]
  BY SumOfSubset
<1>3. SumOver(f, D)[S] = IF S = {} THEN 0 ELSE f[Chosen(S)] + SumOver(f, D)[S \ {Chosen(S)}]
  BY SumRecurs
<1> QED BY <1>1, <1>2, <1>3

LEMMA SumIsNat ==
  ASSUME NEW D, IsFiniteSet(D), NEW f \in [D -> Nat], NEW S \in SUBSET D
  PROVE  SumFunctionOnSet(f, S) \in Nat
<1> DEFINE good == {s \in SUBSET D : SumFunctionOnSet(f, s) \in Nat}
<1>1. {} \in good
  <2>1. {} \in SUBSET D
    OBVIOUS
  <2>2. SumFunctionOnSet(f, {}) = 0
    BY <2>1, SumOneByOne
  <2> QED BY <2>1, <2>2
<1>2. ASSUME NEW s \in SUBSET D, s # {}, \A x \in s : s \ {x} \in good PROVE s \in good
  <2>1. Chosen(s) \in s
    BY <1>2, ChosenIsThere
  <2>2. SumFunctionOnSet(f, s) = f[Chosen(s)] + SumFunctionOnSet(f, s \ {Chosen(s)})
    BY <1>2, SumOneByOne
  <2> QED BY <1>2, <2>1, <2>2
<1>3. good = SUBSET D
  <2>1. good \in SUBSET SUBSET D
    OBVIOUS
  <2> HIDE DEF good
  <2> QED BY <2>1, <1>1, <1>2, AllSubsets
<1> QED BY <1>3

LEMMA SumWithout ==
  ASSUME NEW D, IsFiniteSet(D), NEW f \in [D -> Nat], NEW S \in SUBSET D, NEW c \in S
  PROVE  SumFunctionOnSet(f, S) = f[c] + SumFunctionOnSet(f, S \ {c})
<1> DEFINE good == {s \in SUBSET D : \A x \in s : SumFunctionOnSet(f, s) = f[x] + SumFunctionOnSet(f, s \ {x})}
<1>1. {} \in good
  OBVIOUS
<1>2. ASSUME NEW s \in SUBSET D, s # {}, \A x \in s : s \ {x} \in good PROVE s \in good
  <2> DEFINE y == Chosen(s)
  <2>1. y \in s
    BY <1>2, ChosenIsThere
  <2>2. SumFunctionOnSet(f, s) = f[y] + SumFunctionOnSet(f, s \ {y})
    BY <1>2, SumOneByOne
  <2> HIDE DEF y
  <2>3. ASSUME NEW x \in s, x # y PROVE SumFunctionOnSet(f, s) = f[x] + SumFunctionOnSet(f, s \ {x})
    <3> DEFINE t == (s \ {x}) \ {y}
    <3>1. (s \ {y}) \ {x} = t /\ t \in SUBSET D
      OBVIOUS
    <3> HIDE DEF t
    <3>2. SumFunctionOnSet(f, s \ {y}) = f[x] + SumFunctionOnSet(f, t)
      BY <1>2, <2>1, <2>3, <3>1
    <3>3. SumFunctionOnSet(f, s \ {x}) = f[y] + SumFunctionOnSet(f, t)
      BY <1>2, <2>1, <2>3 DEF t
    <3>4. SumFunctionOnSet(f, t) \in Nat
      BY <3>1, SumIsNat
    <3>5. f[x] \in Nat /\ f[y] \in Nat
      BY <2>1
    <3> QED BY <2>2, <3>2, <3>3, <3>4, <3>5
  <2> QED BY <2>2, <2>3
<1>3. good = SUBSET D
  <2>1. good \in SUBSET SUBSET D
    OBVIOUS
  <2> HIDE DEF good
  <2> QED BY <2>1, <1>1, <1>2, AllSubsets
<1> QED BY <1>3

LEMMA SumGrows ==
  ASSUME NEW D, IsFiniteSet(D), NEW f \in [D -> Nat], NEW S \in SUBSET D, NEW T \in SUBSET S
  PROVE  SumFunctionOnSet(f, T) <= SumFunctionOnSet(f, S)
<1> DEFINE good == {s \in SUBSET D : \A t \in SUBSET s : SumFunctionOnSet(f, t) <= SumFunctionOnSet(f, s)}
<1>0. \A s \in SUBSET D : SumFunctionOnSet(f, s) \in Nat
  BY SumIsNat
<1>1. {} \in good
  BY <1>0
<1>2. ASSUME NEW s \in SUBSET D, s # {}, \A x \in s : s \ {x} \in good PROVE s \in good
  <2>1. ASSUME NEW t \in SUBSET s, t # s PROVE SumFunctionOnSet(f, t) <= SumFunctionOnSet(f, s)
    <3>1. PICK x \in s : x \notin t
      BY <2>1
    <3>2. SumFunctionOnSet(f, s) = f[x] + SumFunctionOnSet(f, s \ {x})
      BY SumWithout
    <3>3. SumFunctionOnSet(f, t) <= SumFunctionOnSet(f, s \ {x})
      BY <1>2, <3>1
    <3>4. f[x] \in Nat /\ SumFunctionOnSet(f, t) \in Nat /\ SumFunctionOnSet(f, s \ {x}) \in Nat
      BY <1>0
    <3> QED BY <3>2, <3>3, <3>4
  <2> QED BY <1>0, <2>1
<1>3. good = SUBSET D
  <2>1. good \in SUBSET SUBSET D
    OBVIOUS
  <2>2. \A s \in SUBSET D : s # {} /\ (\A x \in s : s \ {x} \in good) => s \in good
    BY <1>2
  <2> HIDE DEF good
  <2> QED BY <2>1, <2>2, <1>1, AllSubsets
<1> QED BY <1>3

(* Nothing can be left out of a sum of positive numbers unnoticed.          *)
LEMMA SameSum ==
  ASSUME NEW D, IsFiniteSet(D), NEW f \in [D -> Nat \ {0}], NEW S \in SUBSET D, NEW T \in SUBSET S,
         SumFunctionOnSet(f, S) = SumFunctionOnSet(f, T)
  PROVE  S = T
<1> SUFFICES ASSUME NEW x \in S, x \notin T PROVE FALSE
  OBVIOUS
<1>1. f \in [D -> Nat] /\ x \in D
  OBVIOUS
<1>2. SumFunctionOnSet(f, S) = f[x] + SumFunctionOnSet(f, S \ {x})
  BY <1>1, SumWithout
<1>3. S \ {x} \in SUBSET D /\ T \in SUBSET (S \ {x}) /\ T \in SUBSET D
  OBVIOUS
<1>4. SumFunctionOnSet(f, T) <= SumFunctionOnSet(f, S \ {x})
  BY <1>1, <1>3, SumGrows
<1>5. SumFunctionOnSet(f, T) \in Nat /\ SumFunctionOnSet(f, S \ {x}) \in Nat
  BY <1>1, <1>3, SumIsNat
<1>6. f[x] \in Nat \ {0}
  BY <1>1
<1> QED BY <1>2, <1>4, <1>5, <1>6

-----------------------------------------------------------------------------
(* The plan of adopt-v1-claims.                                             *)

LEMMA PlanInit == Source!Init => Source!PlanSound
BY DEF Source!Init, Source!PlanSound, Source!TypeOK, Source!Reading, Source!Idle, Source!At, Source!PlanWhole

(* Equal bytes, equal claims: V1 lists nothing that was not read.           *)
LEMMA SameBytes ==
  ASSUME NEW S \in SUBSET Allocations, NEW T \in SUBSET S, Source!Bytes(S) = Source!Bytes(T)
  PROVE  S = T
<1>1. ASSUME NEW claims PROVE Source!Bytes(claims) = SumFunctionOnSet(SizeOf, claims)
  BY DEF Source!Bytes, Source!SumFunctionOnSet, Source!FoldFunctionOnSet, Source!MapThenFoldSet,
         SumFunctionOnSet, FoldFunctionOnSet, MapThenFoldSet
<1>2. IsFiniteSet(Allocations) /\ SizeOf \in [Allocations -> Nat \ {0}]
  BY ClaimsHaveSizes DEF ClaimsHaveSizes, Source!SizesAssumption, Source!IsFiniteSet, IsFiniteSet
<1> QED BY <1>1, <1>2, SameSum

LEMMA PlanStep == Source!PlanSound /\ [Source!Next]_(Source!vars) => Source!PlanSound'
<1> SUFFICES ASSUME Source!PlanSound, [Source!Next]_(Source!vars) PROVE Source!PlanSound'
  OBVIOUS
<1> USE DEF Source!PlanSound, Source!TypeOK, Source!At, Source!PlanWhole
<1>1. ASSUME NEW c \in Allocations, Source!Goes(c) \/ Source!Mark(c) \/ Source!DropClaim(c) PROVE Source!PlanSound'
  <2>1. /\ reading' = reading /\ marked \subseteq marked' /\ listed' \subseteq listed
        /\ marked' \subseteq Allocations /\ registry' \subseteq Allocations
        /\ sound' = sound /\ requested' = requested
    BY <1>1 DEF Source!Goes, Source!Mark, Source!DropClaim
  <2> QED BY <2>1
<1>2. ASSUME NEW c \in Allocations, Source!ReadMark(c) PROVE Source!PlanSound'
  <2> DEFINE unread == reading.unread \ {c}
             terminated == reading.terminated \union ({c} \intersect marked)
             after == [reading EXCEPT !.unread = unread, !.terminated = terminated]
  <2>1. unread \subseteq Allocations /\ terminated \subseteq Allocations
    BY DEF Source!Reading
  <2>2. \A d \in reading.unread : d \in unread \/ d = c
    OBVIOUS
  <2>3. c \in reading.before => c \in terminated
    OBVIOUS
  <2>4. reading.terminated \subseteq terminated
    OBVIOUS
  <2> HIDE DEF unread, terminated
  <2>5. /\ after \in Source!Reading /\ after.unread = unread /\ after.terminated = terminated
        /\ after.pc = reading.pc /\ after.ids = reading.ids /\ after.before = reading.before
    BY <2>1 DEF Source!Reading
  <2>6. reading' = after /\ UNCHANGED Source!chain /\ reading.pc = "marks"
    BY <1>2 DEF Source!ReadMark, Source!Reads, unread, terminated
  <2> HIDE DEF after
  <2> QED BY <2>2, <2>3, <2>4, <2>5, <2>6 DEF Source!chain
<1>3. CASE Source!Begin
  <2> DEFINE after == [Source!Idle EXCEPT !.pc = "ids", !.tipset = registry, !.before = marked]
  <2>1. after \in Source!Reading /\ after.pc = "ids" /\ after.before = marked
    BY DEF Source!Idle, Source!Reading
  <2>2. reading' = after /\ UNCHANGED Source!chain
    BY <1>3 DEF Source!Begin, Source!Reads
  <2> HIDE DEF after
  <2> QED BY <2>1, <2>2 DEF Source!chain
<1>4. ASSUME Source!Reads(Source!Idle) PROVE Source!PlanSound'
  <2>1. Source!Idle \in Source!Reading /\ Source!Idle.pc = "idle" /\ Source!Idle.before = {}
    BY DEF Source!Idle, Source!Reading
  <2> QED BY <1>4, <2>1 DEF Source!Reads, Source!chain
<1>5. ASSUME Source!ReadIds, ~Source!Reads(Source!Idle) PROVE Source!PlanSound'
  <2> DEFINE after == [reading EXCEPT !.pc = "marks", !.ids = listed, !.unread = listed]
  <2>1. /\ after \in Source!Reading /\ after.pc = "marks" /\ after.ids = listed /\ after.unread = listed
        /\ after.before = reading.before
    BY DEF Source!Reading
  <2>2. reading' = after /\ UNCHANGED Source!chain
    BY <1>5 DEF Source!ReadIds, Source!Reads
  <2> HIDE DEF after
  <2> QED BY <2>1, <2>2 DEF Source!chain
<1>6. ASSUME Source!EndMarks, ~Source!Reads(Source!Idle) PROVE Source!PlanSound'
  <2> DEFINE after == [reading EXCEPT !.pc = "size"]
  <2>1. after \in Source!Reading /\ after.pc = "size" /\ after.ids = reading.ids /\ after.before = reading.before
    BY DEF Source!Reading
  <2>2. /\ reading' = after /\ UNCHANGED Source!chain
        /\ reading.pc = "marks" /\ reading.unread = {} /\ reading.terminated = {}
    BY <1>6 DEF Source!EndMarks, Source!Reads
  <2> HIDE DEF after
  <2> QED BY <2>1, <2>2 DEF Source!chain
<1>7. ASSUME Source!ReadSize, ~Source!Reads(Source!Idle) PROVE Source!PlanSound'
  <2> DEFINE after == [reading EXCEPT !.pc = "done", !.then = listed]
  <2>1. /\ after \in Source!Reading /\ after.pc = "done" /\ after.ids = reading.ids
        /\ after.before = reading.before /\ after.then = listed
    BY DEF Source!Reading
  <2>2. /\ reading' = after /\ UNCHANGED Source!chain
        /\ reading.pc = "size" /\ Source!RecordedBytes
    BY <1>7 DEF Source!ReadSize, Source!Reads
  <2>3. reading.ids \in SUBSET Allocations /\ listed \in SUBSET reading.ids
    BY <2>2 DEF Source!Reading
  <2>4. reading.ids = listed
    BY <2>2, <2>3, SameBytes DEF Source!RecordedBytes
  <2> HIDE DEF after
  <2> QED BY <2>1, <2>2, <2>4 DEF Source!chain
<1>8. CASE Source!Again
  BY <1>4, <1>8 DEF Source!Again
<1>9. CASE UNCHANGED Source!vars
  BY <1>9 DEF Source!vars
<1> QED BY <1>1, <1>2, <1>3, <1>4, <1>5, <1>6, <1>7, <1>8, <1>9 DEF Source!Next

-----------------------------------------------------------------------------
(* The deals of the market.                                                 *)

LEMMA SameCardinality == ASSUME NEW S PROVE Market!Cardinality(S) = Cardinality(S)
BY DEF Market!Cardinality, Cardinality

LEMMA LimitsOfPages ==
  /\ StateCount \in Nat \ {0} /\ Limit \in Nat \ {0} /\ Own \subseteq Deals
  /\ IsFiniteSet(Own)
<1>1. Market!IsFiniteSet(Own) <=> IsFiniteSet(Own)
  BY DEF Market!IsFiniteSet, IsFiniteSet
<1> QED BY <1>1, PagesOfOwnDeals DEF PagesOfOwnDeals, Market!ReadsAssumption

(* What is left of a list has the other deals, each in one place again.     *)
Renumbers(from, list, i, rest) ==
  /\ from \in [1 .. Len(rest) -> (1 .. Len(list)) \ {i}]
  /\ \A k \in 1 .. Len(rest) : rest[k] = list[from[k]]
  /\ \A k, j \in 1 .. Len(rest) : from[k] = from[j] => k = j
  /\ \A j \in (1 .. Len(list)) \ {i} : \E k \in 1 .. Len(rest) : from[k] = j

LEMMA RestFrom ==
  ASSUME NEW list \in Seq(Own), NEW i \in 1 .. Len(list),
         NEW rest \in {Market!SwapOut(list, i), Market!CloseUp(list, i)}
  PROVE  /\ rest \in Seq(Own)
         /\ Len(rest) = Len(list) - 1
         /\ \E from : Renumbers(from, list, i, rest)
<1> DEFINE swap == [k \in 1 .. Len(list) - 1 |-> IF k = i THEN Len(list) ELSE k]
           close == [k \in 1 .. Len(list) - 1 |-> IF k < i THEN k ELSE k + 1]
<1>1. CASE rest = Market!SwapOut(list, i)
  <2>1. rest \in [1 .. Len(list) - 1 -> Own] /\ Len(list) - 1 \in Nat
    BY <1>1 DEF Market!SwapOut
  <2>2. rest \in Seq(Own) /\ Len(rest) = Len(list) - 1
    BY <2>1
  <2>3. /\ swap \in [1 .. Len(rest) -> (1 .. Len(list)) \ {i}]
        /\ \A k \in 1 .. Len(rest) : rest[k] = list[swap[k]]
        /\ \A k, j \in 1 .. Len(rest) : swap[k] = swap[j] => k = j
    BY <1>1, <2>2 DEF Market!SwapOut
  <2>4. ASSUME NEW j \in (1 .. Len(list)) \ {i} PROVE \E k \in 1 .. Len(rest) : swap[k] = j
    <3>1. CASE j = Len(list)
      BY <2>2, <3>1
    <3>2. CASE j # Len(list)
      BY <2>2, <3>2
    <3> QED BY <3>1, <3>2
  <2> HIDE DEF swap
  <2>5. Renumbers(swap, list, i, rest)
    BY <2>3, <2>4 DEF Renumbers
  <2> QED BY <2>2, <2>5
<1>2. CASE rest = Market!CloseUp(list, i)
  <2>1. rest \in [1 .. Len(list) - 1 -> Own] /\ Len(list) - 1 \in Nat
    BY <1>2 DEF Market!CloseUp
  <2>2. rest \in Seq(Own) /\ Len(rest) = Len(list) - 1
    BY <2>1
  <2>3. /\ close \in [1 .. Len(rest) -> (1 .. Len(list)) \ {i}]
        /\ \A k \in 1 .. Len(rest) : rest[k] = list[close[k]]
        /\ \A k, j \in 1 .. Len(rest) : close[k] = close[j] => k = j
    BY <1>2, <2>2 DEF Market!CloseUp
  <2>4. ASSUME NEW j \in (1 .. Len(list)) \ {i} PROVE \E k \in 1 .. Len(rest) : close[k] = j
    <3>0. j \in Nat /\ i \in Nat /\ j # i /\ j <= Len(list) /\ i <= Len(list) /\ Len(list) \in Nat
      OBVIOUS
    <3>1. CASE j < i
      <4>1. j \in 1 .. Len(rest) /\ close[j] = j
        BY <2>2, <3>0, <3>1
      <4> HIDE DEF close
      <4> QED BY <4>1
    <3>2. CASE j > i
      <4>1. j - 1 \in 1 .. Len(rest) /\ ~(j - 1 < i)
        BY <2>2, <3>2
      <4>2. close[j - 1] = j
        BY <2>2, <4>1
      <4> HIDE DEF close
      <4> QED BY <4>1, <4>2
    <3>3. j < i \/ j > i
      BY <3>0
    <3> QED BY <3>1, <3>2, <3>3
  <2> HIDE DEF close
  <2>5. Renumbers(close, list, i, rest)
    BY <2>3, <2>4 DEF Renumbers
  <2> QED BY <2>2, <2>5
<1> QED BY <1>1, <1>2

LEMMA RestOfList ==
  ASSUME NEW list \in Seq(Own), Market!Distinct(list), NEW i \in 1 .. Len(list),
         NEW rest \in {Market!SwapOut(list, i), Market!CloseUp(list, i)}
  PROVE  /\ rest \in Seq(Own) /\ Market!Distinct(rest)
         /\ Market!Elements(rest) = Market!Elements(list) \ {list[i]}
<1>1. rest \in Seq(Own) /\ Len(rest) \in Nat
  BY RestFrom
<1>2. PICK from : Renumbers(from, list, i, rest)
  BY RestFrom
<1> USE DEF Renumbers
<1>3. Market!Distinct(rest)
  <2>1. SUFFICES ASSUME NEW k \in 1 .. Len(rest), NEW j \in 1 .. Len(rest), rest[k] = rest[j] PROVE k = j
    BY Zenon DEF Market!Distinct
  <2>2. from[k] \in 1 .. Len(list) /\ from[j] \in 1 .. Len(list) /\ list[from[k]] = list[from[j]]
    BY <1>2, <2>1
  <2>3. from[k] = from[j]
    BY <2>2 DEF Market!Distinct
  <2> QED BY <1>2, <2>3
<1>4. ASSUME NEW k \in 1 .. Len(rest) PROVE rest[k] \in Market!Elements(list) \ {list[i]}
  BY <1>2 DEF Market!Distinct, Market!Elements
<1>5. ASSUME NEW d \in Market!Elements(list), d # list[i] PROVE d \in Market!Elements(rest)
  <2>1. PICK j \in 1 .. Len(list) : d = list[j]
    BY DEF Market!Elements
  <2>2. PICK k \in 1 .. Len(rest) : from[k] = j
    BY <1>2, <1>5, <2>1
  <2> QED BY <1>2, <2>1, <2>2 DEF Market!Elements
<1>6. Market!Elements(rest) \subseteq Market!Elements(list) \ {list[i]}
  BY <1>4 DEF Market!Elements
<1> QED BY <1>1, <1>3, <1>5, <1>6

(* At the end of a list one deal is added.                                  *)
LEMMA LongerList ==
  ASSUME NEW D, NEW list \in Seq(D), NEW d \in D
  PROVE  /\ Append(list, d) \in Seq(D) /\ Len(Append(list, d)) = Len(list) + 1
         /\ Market!Elements(Append(list, d)) = Market!Elements(list) \union {d}
         /\ Market!Distinct(list) /\ d \notin Market!Elements(list) => Market!Distinct(Append(list, d))
<1> DEFINE long == Append(list, d)
<1>1. /\ long \in Seq(D) /\ Len(long) = Len(list) + 1 /\ Len(list) \in Nat
      /\ \A k \in 1 .. Len(list) : long[k] = list[k]
      /\ long[Len(list) + 1] = d
  OBVIOUS
<1> HIDE DEF long
<1>2. \A k \in 1 .. Len(long) : k \in 1 .. Len(list) \/ k = Len(list) + 1
  BY <1>1
<1>3. 1 .. Len(list) \subseteq 1 .. Len(long) /\ Len(list) + 1 \in 1 .. Len(long)
  BY <1>1
<1>4. Market!Elements(long) = Market!Elements(list) \union {d}
  BY <1>1, <1>2, <1>3 DEF Market!Elements
<1>5. ASSUME Market!Distinct(list), d \notin Market!Elements(list) PROVE Market!Distinct(long)
  <2>1. \A k \in 1 .. Len(list) : list[k] # d
    BY <1>5 DEF Market!Elements
  <2> QED BY <1>1, <1>2, <1>5, <2>1 DEF Market!Distinct
<1> QED BY <1>1, <1>4, <1>5 DEF long

(* What the reader still comes to in a list: nothing is lost at its end, and*)
(* by a deal that leaves one at most, which is at an earlier place again.   *)
LEMMA LongerBehind ==
  ASSUME NEW list \in Seq(Own), NEW d \in Own, NEW offset \in Nat
  PROVE  Market!Behind(list, offset) \subseteq Market!Behind(Append(list, d), offset)
<1> DEFINE long == Append(list, d)
<1>1. /\ Len(long) = Len(list) + 1 /\ Len(list) \in Nat
      /\ \A k \in 1 .. Len(list) : long[k] = list[k]
  OBVIOUS
<1> HIDE DEF long
<1>2. SUFFICES ASSUME NEW k \in offset + 1 .. Len(list) PROVE list[k] \in Market!Behind(long, offset)
  BY DEF Market!Behind, long
<1>3. k \in offset + 1 .. Len(long) /\ k \in 1 .. Len(list)
  BY <1>1
<1> QED BY <1>1, <1>3 DEF Market!Behind

LEMMA RestBehind ==
  ASSUME NEW list \in Seq(Own), NEW i \in 1 .. Len(list), NEW offset \in Nat,
         NEW rest \in {Market!SwapOut(list, i), Market!CloseUp(list, i)}
  PROVE  /\ \E x : Market!Behind(list, offset) \subseteq Market!Behind(rest, offset) \union {list[i], x}
         /\ ~(i <= offset /\ offset < Len(list)) =>
              Market!Behind(list, offset) \subseteq Market!Behind(rest, offset) \union {list[i]}
<1>0. Len(list) \in Nat /\ i \in Nat /\ 1 <= i /\ i <= Len(list) /\ Len(list) - 1 \in Nat
  OBVIOUS
<1>1. CASE rest = Market!SwapOut(list, i)
  <2>1. /\ Len(rest) = Len(list) - 1
        /\ \A k \in 1 .. Len(list) - 1 : rest[k] = IF k = i THEN list[Len(list)] ELSE list[k]
    BY <1>0, <1>1 DEF Market!SwapOut
  <2>2. ASSUME NEW k \in offset + 1 .. Len(list), k # i, k # Len(list) PROVE list[k] \in Market!Behind(rest, offset)
    <3>1. k \in offset + 1 .. Len(rest) /\ k \in 1 .. Len(list) - 1
      BY <1>0, <2>1, <2>2
    <3>2. rest[k] = list[k]
      BY <2>1, <2>2, <3>1
    <3> QED BY <3>1, <3>2 DEF Market!Behind
  <2>3. Market!Behind(list, offset) \subseteq Market!Behind(rest, offset) \union {list[i], list[Len(list)]}
    BY <2>2 DEF Market!Behind
  <2>4. ASSUME ~(i <= offset /\ offset < Len(list)), NEW k \in offset + 1 .. Len(list), k # i, k = Len(list)
        PROVE  list[k] \in Market!Behind(rest, offset)
    <3>1. i \in offset + 1 .. Len(rest) /\ i \in 1 .. Len(list) - 1
      BY <1>0, <2>1, <2>4
    <3>2. rest[i] = list[k]
      BY <2>1, <2>4, <3>1
    <3> QED BY <3>1, <3>2 DEF Market!Behind
  <2>5. ASSUME ~(i <= offset /\ offset < Len(list)), NEW k \in offset + 1 .. Len(list)
        PROVE  list[k] \in Market!Behind(rest, offset) \union {list[i]}
    BY <2>2, <2>4, <2>5
  <2>6. ASSUME ~(i <= offset /\ offset < Len(list))
        PROVE  Market!Behind(list, offset) \subseteq Market!Behind(rest, offset) \union {list[i]}
    BY <2>5, <2>6 DEF Market!Behind
  <2> QED BY <2>3, <2>6
<1>2. CASE rest = Market!CloseUp(list, i)
  <2>1. /\ Len(rest) = Len(list) - 1
        /\ \A k \in 1 .. Len(list) - 1 : rest[k] = IF k < i THEN list[k] ELSE list[k + 1]
    BY <1>0, <1>2 DEF Market!CloseUp
  <2>2. ASSUME NEW k \in offset + 1 .. Len(list), k < i PROVE list[k] \in Market!Behind(rest, offset)
    <3>1. k \in offset + 1 .. Len(rest) /\ k \in 1 .. Len(list) - 1
      BY <1>0, <2>1, <2>2
    <3>2. rest[k] = list[k]
      BY <2>1, <2>2, <3>1
    <3> QED BY <3>1, <3>2 DEF Market!Behind
  <2>3. ASSUME NEW k \in offset + 1 .. Len(list), k > i, k # offset + 1 PROVE list[k] \in Market!Behind(rest, offset)
    <3>1. k - 1 \in offset + 1 .. Len(rest) /\ k - 1 \in 1 .. Len(list) - 1 /\ ~(k - 1 < i) /\ (k - 1) + 1 = k
      BY <1>0, <2>1, <2>3
    <3> DEFINE m == k - 1
    <3>2. m \in offset + 1 .. Len(rest) /\ m \in 1 .. Len(list) - 1 /\ ~(m < i) /\ m + 1 = k
      BY <3>1
    <3> HIDE DEF m
    <3>3. rest[m] = list[k]
      BY <2>1, <3>2
    <3> QED BY <3>2, <3>3 DEF Market!Behind
  <2>4. ASSUME NEW k \in offset + 1 .. Len(list), k # i, k # offset + 1 PROVE list[k] \in Market!Behind(rest, offset)
    <3>1. k < i \/ k > i
      BY <1>0, <2>4
    <3> QED BY <2>2, <2>3, <2>4, <3>1
  <2>5. Market!Behind(list, offset) \subseteq Market!Behind(rest, offset) \union {list[i], list[offset + 1]}
    BY <2>4 DEF Market!Behind
  <2>6. ASSUME ~(i <= offset /\ offset < Len(list)), NEW k \in offset + 1 .. Len(list), k # i
        PROVE  list[k] \in Market!Behind(rest, offset)
    <3>1. k < i \/ (k > i /\ k # offset + 1)
      BY <1>0, <2>6
    <3> QED BY <2>2, <2>3, <3>1
  <2>7. ASSUME ~(i <= offset /\ offset < Len(list)), NEW k \in offset + 1 .. Len(list)
        PROVE  list[k] \in Market!Behind(rest, offset) \union {list[i]}
    BY <2>6, <2>7
  <2>8. ASSUME ~(i <= offset /\ offset < Len(list))
        PROVE  Market!Behind(list, offset) \subseteq Market!Behind(rest, offset) \union {list[i]}
    BY <2>7, <2>8 DEF Market!Behind
  <2> QED BY <2>5, <2>8
<1> QED BY <1>1, <1>2

(* Behind its start is the whole list.                                      *)
LEMMA WholeBehind == ASSUME NEW list PROVE Market!Behind(list, 0) = Market!Elements(list)
<1>1. 0 + 1 = 1
  OBVIOUS
<1> QED BY <1>1 DEF Market!Behind, Market!Elements

(* Counting what was passed.                                                *)
LEMMA NoneMore ==
  ASSUME NEW S, IsFiniteSet(S), NEW T, T \subseteq S, NEW n \in Nat, Market!Cardinality(S) <= n
  PROVE  Market!Cardinality(T) <= n
<1>1. Cardinality(T) <= Cardinality(S) /\ IsFiniteSet(T)
  BY FS_Subset
<1>2. Cardinality(T) \in Nat /\ Cardinality(S) \in Nat
  BY <1>1, FS_CardinalityType
<1> QED BY <1>1, <1>2, SameCardinality

LEMMA OneMore ==
  ASSUME NEW S, IsFiniteSet(S), NEW x, NEW T, T \subseteq S \union {x}, NEW n \in Nat, Market!Cardinality(S) <= n
  PROVE  Market!Cardinality(T) <= n + 1
<1>1. /\ IsFiniteSet(S \union {x})
      /\ Cardinality(S \union {x}) = IF x \in S THEN Cardinality(S) ELSE Cardinality(S) + 1
  BY FS_AddElement
<1>2. Cardinality(S) \in Nat /\ Cardinality(S) <= n
  BY FS_CardinalityType, SameCardinality
<1>3. Cardinality(S \union {x}) <= n + 1
  BY <1>1, <1>2
<1>4. n + 1 \in Nat
  OBVIOUS
<1> QED BY <1>1, <1>3, <1>4, NoneMore, SameCardinality

LEMMA NonePassed == Market!Cardinality({}) = 0
BY SameCardinality, FS_EmptySet

(* During a read of the lists, only deals of the organization are passed.   *)
LEMMA PassedFinite == Market!Ahead => IsFiniteSet(Market!Passed)
<1>1. Market!Ahead => Market!Passed \subseteq Own
  BY DEF Market!Ahead, Market!Passed
<1> QED BY <1>1, LimitsOfPages, FS_Subset

(* A page: how many rows it has, and that a read from an offset gets them.  *)
LEMMA RowsOfPage ==
  ASSUME NEW length \in Nat, NEW offset \in Nat, NEW rows,
         rows = {k \in 1 .. length : k > offset /\ k <= offset + Limit}
  PROVE  Market!Cardinality(rows) = IF length <= offset THEN 0
                                    ELSE IF length <= offset + Limit THEN length - offset ELSE Limit
<1> DEFINE end == IF length <= offset + Limit THEN length ELSE offset + Limit
<1>0. Limit \in Nat \ {0}
  BY LimitsOfPages
<1>1. end \in Nat /\ rows = (offset + 1) .. end
  BY <1>0
<1>2. Cardinality((offset + 1) .. end) = IF offset + 1 > end THEN 0 ELSE end - (offset + 1) + 1
  <2> HIDE DEF end
  <2> QED BY <1>1, FS_Interval
<1>3. Market!Cardinality(rows) = Cardinality((offset + 1) .. end)
  BY <1>1, SameCardinality
<1> QED BY <1>0, <1>2, <1>3

LEMMA MarketInit == Market!Init => Market!ReadSound
<1> SUFFICES ASSUME Market!Init PROVE Market!ReadSound
  OBVIOUS
<1>1. Market!TypeOK
  BY LimitsOfPages DEF Market!Init, Market!TypeOK, Market!Call
<1>2. created = <<>> /\ \A s \in 1 .. StateCount : lists[s] = <<>>
  BY DEF Market!Init
<1>3. Market!Elements(<<>>) = {} /\ Market!Distinct(<<>>)
  BY DEF Market!Elements, Market!Distinct
<1>4. Market!OwnListed
  BY <1>2, <1>3 DEF Market!OwnListed, Market!Created
<1> QED BY <1>1, <1>4 DEF Market!Init, Market!ReadSound, Market!MissedOnlyByShifts

LEMMA CreateSound == ASSUME Market!ReadSound, NEW d \in Deals, Market!Create(d) PROVE Market!ReadSound'
<1> USE DEF Market!ReadSound, Market!TypeOK
<1>0. StateCount \in Nat \ {0} /\ Own \subseteq Deals
  BY LimitsOfPages
<1>1. /\ created' \in Seq(Deals) /\ Len(created') = Len(created) + 1
      /\ Market!Created' = Market!Created \union {d} /\ d \notin Market!Created
      /\ \A k \in 1 .. Len(created) : created'[k] = created[k]
  <2>1. created' = Append(created, d) /\ d \notin Market!Created
    BY DEF Market!Create
  <2> QED BY <2>1, LongerList DEF Market!Created
<1>2. marketCall' = marketCall
  BY DEF Market!Create
<1>3. /\ lists' \in [1 .. StateCount -> Seq(Own)] /\ Market!OwnListed'
      /\ \A s \in 1 .. StateCount : Market!Elements(lists[s]) \subseteq Market!Elements(lists'[s])
  <2>1. CASE d \in Own
    <3> DEFINE long == Append(lists[1], d)
    <3>1. 1 \in 1 .. StateCount /\ lists[1] \in Seq(Own) /\ Market!Distinct(lists[1])
      BY <1>0 DEF Market!OwnListed
    <3>2. \A s \in 1 .. StateCount : d \notin Market!Elements(lists[s])
      BY <1>1 DEF Market!OwnListed
    <3>3. long \in Seq(Own) /\ Market!Distinct(long) /\ Market!Elements(long) = Market!Elements(lists[1]) \union {d}
      BY <2>1, <3>1, <3>2, LongerList
    <3>4. lists' = [lists EXCEPT ![1] = long]
      BY <2>1 DEF Market!Create
    <3> HIDE DEF long
    <3>5. lists' \in [1 .. StateCount -> Seq(Own)] /\ \A s \in 1 .. StateCount : lists'[s] = IF s = 1 THEN long ELSE lists[s]
      BY <3>3, <3>4
    <3>6. \A s \in 1 .. StateCount : Market!Distinct(lists'[s])
      BY <3>3, <3>5 DEF Market!OwnListed
    <3>7. \A s \in 1 .. StateCount : Market!Elements(lists'[s]) = Market!Elements(lists[s]) \union (IF s = 1 THEN {d} ELSE {})
      BY <3>3, <3>5
    <3>8. \A s, t \in 1 .. StateCount : s # t => Market!Elements(lists'[s]) \intersect Market!Elements(lists'[t]) = {}
      BY <3>2, <3>7 DEF Market!OwnListed
    <3>9. UNION {Market!Elements(lists'[s]) : s \in 1 .. StateCount} = Market!Created' \intersect Own
      <4>1. UNION {Market!Elements(lists[s]) : s \in 1 .. StateCount} = Market!Created \intersect Own
        BY DEF Market!OwnListed
      <4>2. \A s \in 1 .. StateCount : Market!Elements(lists'[s]) \subseteq Market!Elements(lists[s]) \union {d}
        BY <3>7
      <4>3. \A s \in 1 .. StateCount : Market!Elements(lists[s]) \subseteq Market!Elements(lists'[s])
        BY <3>7
      <4>4. d \in Market!Elements(lists'[1])
        BY <3>1, <3>7
      <4>5. ASSUME NEW s \in 1 .. StateCount, NEW e \in Market!Elements(lists'[s]) PROVE e \in Market!Created' \intersect Own
        <5>1. CASE e = d
          BY <1>1, <2>1, <5>1
        <5>2. CASE e \in Market!Elements(lists[s])
          BY <1>1, <4>1, <5>2
        <5> QED BY <4>2, <5>1, <5>2
      <4>6. ASSUME NEW e \in Market!Created' \intersect Own PROVE \E s \in 1 .. StateCount : e \in Market!Elements(lists'[s])
        <5>1. CASE e = d
          BY <3>1, <4>4, <5>1
        <5>2. CASE e # d
          <6>1. e \in Market!Created \intersect Own
            BY <1>1, <5>2
          <6>2. PICK s \in 1 .. StateCount : e \in Market!Elements(lists[s])
            BY <4>1, <6>1
          <6> QED BY <4>3, <6>2
        <5> QED BY <5>1, <5>2
      <4> QED BY <4>5, <4>6
    <3>10. Market!OwnListed'
      BY <3>6, <3>8, <3>9 DEF Market!OwnListed
    <3> QED BY <3>5, <3>7, <3>10
  <2>2. CASE d \notin Own
    <3>1. lists' = lists
      BY <2>2 DEF Market!Create
    <3>2. Market!Created' \intersect Own = Market!Created \intersect Own
      BY <1>1, <2>2
    <3> QED BY <3>1, <3>2 DEF Market!OwnListed
  <2> QED BY <2>1, <2>2
<1>4. ASSUME Market!Ahead PROVE Market!Ahead'
  <2> DEFINE at == marketCall.at
  <2>1. at \in 1 .. StateCount /\ marketCall.offset \in Nat /\ marketCall.shifted \in Nat /\ lists[at] \in Seq(Own)
    BY DEF Market!Call
  <2>2. Market!Behind(lists[at], marketCall.offset) \subseteq Market!Behind(lists'[at], marketCall.offset)
    <3>1. lists'[at] = lists[at] \/ (d \in Own /\ lists'[at] = Append(lists[at], d))
      BY <2>1 DEF Market!Create
    <3> QED BY <2>1, <3>1, LongerBehind
  <2>3. ASSUME NEW e, Market!StillComes(e) PROVE Market!StillComes(e)'
    <3>1. CASE e \in Market!Behind(lists[at], marketCall.offset)
      BY <1>2, <2>2, <3>1 DEF Market!StillComes
    <3>2. CASE \E s \in at + 1 .. StateCount : e \in Market!Elements(lists[s])
      <4>1. PICK s \in at + 1 .. StateCount : e \in Market!Elements(lists[s])
        BY <3>2
      <4>2. s \in 1 .. StateCount
        BY <1>0, <2>1
      <4> QED BY <1>2, <1>3, <4>1, <4>2 DEF Market!StillComes
    <3> QED BY <2>3, <3>1, <3>2 DEF Market!StillComes
  <2>4. Market!Passed' \subseteq Market!Passed
    BY <1>2, <2>3 DEF Market!Passed
  <2>5. Market!Cardinality(Market!Passed') <= marketCall.shifted
    BY <1>4, <2>1, <2>4, NoneMore, PassedFinite DEF Market!Ahead
  <2> QED BY <1>1, <1>2, <1>4, <2>5 DEF Market!Ahead
<1>5. ASSUME Market!InOrder PROVE Market!InOrder'
  <2>1. marketCall.offset \in Nat /\ marketCall.offset <= Len(created) /\ Len(created) \in Nat
    BY <1>5 DEF Market!InOrder, Market!Call
  <2>2. \A k \in 1 .. marketCall.offset : k \in 1 .. Len(created)
    BY <2>1
  <2>3. \A k \in 1 .. marketCall.offset : created'[k] \in marketCall.found
    BY <1>1, <1>5, <2>2 DEF Market!InOrder
  <2>4. marketCall.known \subseteq Market!Created'
    BY <1>1, <1>5 DEF Market!InOrder
  <2> QED BY <1>1, <1>2, <1>5, <2>1, <2>3, <2>4 DEF Market!InOrder
<1> QED BY <1>1, <1>2, <1>3, <1>4, <1>5 DEF Market!MissedOnlyByShifts

LEMMA AdvanceSound ==
  ASSUME Market!ReadSound, NEW s \in 1 .. StateCount, NEW t \in 1 .. StateCount, NEW i \in 1 .. Len(lists[s]),
         Market!Advance(s, t, i)
  PROVE  Market!ReadSound'
<1> USE DEF Market!ReadSound, Market!TypeOK
<1> DEFINE d == lists[s][i]
           long == Append(lists[t], d)
<1>0. StateCount \in Nat \ {0}
  BY LimitsOfPages
<1>1. /\ s # t /\ s < t /\ created' = created
      /\ marketCall' = IF Market!Shifts(s, i) THEN [marketCall EXCEPT !.shifted = @ + 1] ELSE marketCall
  BY <1>0 DEF Market!Advance
<1>C. /\ marketCall' \in Market!Call /\ marketCall'.pc = marketCall.pc
      /\ marketCall'.organization = marketCall.organization /\ marketCall'.at = marketCall.at
      /\ marketCall'.offset = marketCall.offset /\ marketCall'.count = marketCall.count
      /\ marketCall'.found = marketCall.found /\ marketCall'.known = marketCall.known
      /\ marketCall'.shifted = IF Market!Shifts(s, i) THEN marketCall.shifted + 1 ELSE marketCall.shifted
  <2>1. marketCall \in Market!Call /\ marketCall.shifted + 1 \in Nat
    BY DEF Market!Call
  <2>2. CASE Market!Shifts(s, i)
    <3>1. marketCall' = [marketCall EXCEPT !.shifted = @ + 1]
      BY <1>1, <2>2
    <3> QED BY <2>1, <2>2, <3>1 DEF Market!Call
  <2>3. CASE ~Market!Shifts(s, i)
    BY <1>1, <2>1, <2>3
  <2> QED BY <2>2, <2>3
<1>2. \A r \in 1 .. StateCount : lists[r] \in Seq(Own) /\ Market!Distinct(lists[r])
  BY DEF Market!OwnListed
<1>3. PICK rest \in {Market!SwapOut(lists[s], i), Market!CloseUp(lists[s], i)} :
        lists' = [lists EXCEPT ![s] = rest, ![t] = Append(@, lists[s][i])]
  BY DEF Market!Advance
<1>4. rest \in Seq(Own) /\ Market!Distinct(rest) /\ Market!Elements(rest) = Market!Elements(lists[s]) \ {d}
  BY <1>2, RestOfList
<1>5. d \in Own /\ d \in Market!Elements(lists[s])
  BY <1>2 DEF Market!Elements
<1>6. d \notin Market!Elements(lists[t])
  BY <1>1, <1>5 DEF Market!OwnListed
<1>7. long \in Seq(Own) /\ Market!Distinct(long) /\ Market!Elements(long) = Market!Elements(lists[t]) \union {d}
  BY <1>2, <1>5, <1>6, LongerList
<1>8. lists' = [lists EXCEPT ![s] = rest, ![t] = long]
  BY <1>1, <1>3
<1> HIDE DEF long
<1>9. /\ lists' \in [1 .. StateCount -> Seq(Own)]
      /\ lists'[s] = rest /\ lists'[t] = long
      /\ \A r \in 1 .. StateCount : r # s /\ r # t => lists'[r] = lists[r]
  BY <1>1, <1>4, <1>7, <1>8
<1> HIDE DEF d
<1>10. \A r \in 1 .. StateCount : Market!Distinct(lists'[r])
  BY <1>2, <1>4, <1>7, <1>9
<1>11. \A r \in 1 .. StateCount :
         Market!Elements(lists'[r]) = IF r = s THEN Market!Elements(lists[r]) \ {d}
                                      ELSE IF r = t THEN Market!Elements(lists[r]) \union {d}
                                      ELSE Market!Elements(lists[r])
  BY <1>1, <1>4, <1>7, <1>9
<1>12. \A r, q \in 1 .. StateCount : r # q => Market!Elements(lists'[r]) \intersect Market!Elements(lists'[q]) = {}
  <2>1. \A r \in 1 .. StateCount : r # s => d \notin Market!Elements(lists[r])
    BY <1>5 DEF Market!OwnListed
  <2>2. SUFFICES ASSUME NEW r \in 1 .. StateCount, NEW q \in 1 .. StateCount, r # q
                 PROVE  Market!Elements(lists'[r]) \intersect Market!Elements(lists'[q]) = {}
    BY Zenon
  <2>3. Market!Elements(lists[r]) \intersect Market!Elements(lists[q]) = {}
    BY <2>2 DEF Market!OwnListed
  <2>4. /\ d \in Market!Elements(lists'[r]) <=> r = t
        /\ d \in Market!Elements(lists'[q]) <=> q = t
    BY <1>1, <1>11, <2>1
  <2>5. /\ Market!Elements(lists'[r]) \subseteq Market!Elements(lists[r]) \union {d}
        /\ Market!Elements(lists'[q]) \subseteq Market!Elements(lists[q]) \union {d}
    BY <1>11
  <2> QED BY <2>2, <2>3, <2>4, <2>5
<1>13. UNION {Market!Elements(lists'[r]) : r \in 1 .. StateCount} = UNION {Market!Elements(lists[r]) : r \in 1 .. StateCount}
  <2>1. ASSUME NEW e, NEW r \in 1 .. StateCount, e \in Market!Elements(lists'[r])
        PROVE  \E q \in 1 .. StateCount : e \in Market!Elements(lists[q])
    BY <1>5, <1>11, <2>1
  <2>2. ASSUME NEW e, NEW r \in 1 .. StateCount, e \in Market!Elements(lists[r])
        PROVE  \E q \in 1 .. StateCount : e \in Market!Elements(lists'[q])
    BY <1>1, <1>5, <1>11, <2>2
  <2> QED BY <2>1, <2>2
<1>14. Market!OwnListed'
  BY <1>1, <1>10, <1>12, <1>13 DEF Market!OwnListed, Market!Created, Market!Elements
<1>15. ASSUME Market!Ahead, marketCall.pc = "reading", marketCall.organization PROVE Market!Ahead'
  <2> DEFINE at == marketCall.at
             offset == marketCall.offset
  <2>1. /\ at \in 1 .. StateCount /\ offset \in Nat /\ marketCall.shifted \in Nat
        /\ Market!SelectedStates[at] = at
    BY DEF Market!Call, Market!SelectedStates
  <2>2. ASSUME NEW e, NEW r \in at + 1 .. StateCount, e \in Market!Elements(lists[r]) PROVE Market!StillComes(e)'
    <3>1. r \in 1 .. StateCount
      BY <1>0, <2>1
    <3>2. CASE r = s /\ e = d
      <4>1. t \in at + 1 .. StateCount
        BY <1>0, <1>1, <2>1, <3>2
      <4> QED BY <1>C, <1>1, <1>11, <3>2, <4>1 DEF Market!StillComes
    <3>3. CASE ~(r = s /\ e = d)
      BY <1>C, <1>11, <2>2, <3>1, <3>3 DEF Market!StillComes
    <3> QED BY <3>2, <3>3
  <2>3. \E x : /\ Market!Behind(lists[at], offset) \subseteq Market!Behind(lists'[at], offset) \union {x} \union (IF at = s THEN {d} ELSE {})
               /\ ~Market!Shifts(s, i) =>
                    Market!Behind(lists[at], offset) \subseteq Market!Behind(lists'[at], offset) \union (IF at = s THEN {d} ELSE {})
    <3>1. CASE at = s
      <4>1. Market!Shifts(s, i) <=> i <= offset /\ offset < Len(lists[s])
        BY <1>15, <2>1, <3>1 DEF Market!Shifts
      <4>2. lists[s] \in Seq(Own)
        BY <1>2
      <4>3. offset \in Nat
        BY <2>1
      <4> HIDE DEF offset
      <4>4. \E x : Market!Behind(lists[s], offset) \subseteq Market!Behind(rest, offset) \union {lists[s][i], x}
        BY <1>3, <4>2, <4>3, RestBehind, Zenon
      <4>5. ~Market!Shifts(s, i) => Market!Behind(lists[s], offset) \subseteq Market!Behind(rest, offset) \union {lists[s][i]}
        BY <4>1, <4>2, <4>3, RestBehind
      <4>6. PICK x : Market!Behind(lists[s], offset) \subseteq Market!Behind(rest, offset) \union {lists[s][i], x}
        BY <4>4
      <4>7. /\ Market!Behind(lists[at], offset) \subseteq Market!Behind(lists'[at], offset) \union {x} \union {d}
            /\ ~Market!Shifts(s, i) => Market!Behind(lists[at], offset) \subseteq Market!Behind(lists'[at], offset) \union {d}
        BY <1>9, <3>1, <4>5, <4>6 DEF d
      <4> QED BY <3>1, <4>7
    <3>2. CASE at = t
      <4>1. lists[t] \in Seq(Own) /\ lists'[t] = Append(lists[t], d)
        BY <1>2, <1>9 DEF long
      <4> QED BY <1>5, <2>1, <3>2, <4>1, LongerBehind
    <3>3. CASE at # s /\ at # t
      BY <1>9, <2>1, <3>3
    <3> QED BY <3>1, <3>2, <3>3
  <2>4. ASSUME at = s, NEW e, e = d PROVE Market!StillComes(e)'
    <3>1. t \in at + 1 .. StateCount
      BY <1>0, <1>1, <2>1, <2>4
    <3>2. e \in Market!Elements(lists'[t]) /\ marketCall'.at = at
      BY <1>C, <1>1, <1>11, <2>4
    <3>3. \E r \in marketCall'.at + 1 .. StateCount : e \in Market!Elements(lists'[r])
      BY <3>1, <3>2
    <3> QED BY <3>3 DEF Market!StillComes
  <2>5. PICK x : /\ Market!Behind(lists[at], offset) \subseteq Market!Behind(lists'[at], offset) \union {x} \union (IF at = s THEN {d} ELSE {})
                 /\ ~Market!Shifts(s, i) =>
                      Market!Behind(lists[at], offset) \subseteq Market!Behind(lists'[at], offset) \union (IF at = s THEN {d} ELSE {})
    BY <2>3
  <2>6. \A e \in Market!Behind(lists'[at], offset) : Market!StillComes(e)'
    BY <1>C DEF Market!StillComes
  <2>7. ASSUME NEW e, Market!StillComes(e), e # x \/ ~Market!Shifts(s, i) PROVE Market!StillComes(e)'
    <3>1. CASE e \in Market!Behind(lists[at], offset)
      <4>1. e # x => e \in Market!Behind(lists'[at], offset) \/ (at = s /\ e = d)
        BY <2>5, <3>1
      <4>2. ~Market!Shifts(s, i) => e \in Market!Behind(lists'[at], offset) \/ (at = s /\ e = d)
        BY <2>5, <3>1
      <4>3. CASE e \in Market!Behind(lists'[at], offset)
        BY <2>6, <4>3
      <4>4. CASE at = s /\ e = d
        BY <2>4, <4>4
      <4> QED BY <2>7, <4>1, <4>2, <4>3, <4>4
    <3>2. CASE \E r \in at + 1 .. StateCount : e \in Market!Elements(lists[r])
      BY <2>2, <3>2
    <3> QED BY <2>7, <3>1, <3>2 DEF Market!StillComes
  <2>8. Market!Passed' \subseteq Market!Passed \union {x} /\ (~Market!Shifts(s, i) => Market!Passed' \subseteq Market!Passed)
    BY <1>C, <2>7 DEF Market!Passed
  <2>9. IsFiniteSet(Market!Passed) /\ Market!Cardinality(Market!Passed) <= marketCall.shifted
    BY <1>15, PassedFinite DEF Market!Ahead
  <2>10. Market!Cardinality(Market!Passed') <= marketCall'.shifted
    <3>1. CASE Market!Shifts(s, i)
      BY <1>C, <2>1, <2>8, <2>9, <3>1, OneMore
    <3>2. CASE ~Market!Shifts(s, i)
      BY <1>C, <2>1, <2>8, <2>9, <3>2, NoneMore
    <3> QED BY <3>1, <3>2
  <2> QED BY <1>C, <1>1, <1>15, <2>10 DEF Market!Ahead, Market!Created
<1>16. Market!InOrder => Market!InOrder'
  BY <1>C, <1>1 DEF Market!InOrder, Market!Created, Market!Elements
<1>17. Market!MissedOnlyByShifts'
  BY <1>C DEF Market!MissedOnlyByShifts, Market!Shifts
<1> QED BY <1>C, <1>1, <1>9, <1>14, <1>15, <1>16, <1>17

LEMMA SameLists ==
  ASSUME Market!OwnListed, created' = created, lists' = lists
  PROVE  Market!OwnListed' /\ Market!Created' = Market!Created
<1>1. Market!Created' = Market!Created
  BY DEF Market!Created
<1> QED BY <1>1 DEF Market!OwnListed

LEMMA BeginReadSound ==
  ASSUME Market!ReadSound, NEW organization \in BOOLEAN, Market!Begin(organization) PROVE Market!ReadSound'
<1> USE DEF Market!ReadSound, Market!TypeOK
<1> DEFINE known == IF organization THEN Market!Created \intersect Own ELSE Market!Created
<1>0. StateCount \in Nat \ {0} /\ Own \subseteq Deals
  BY LimitsOfPages
<1>1. created' = created /\ lists' = lists
  BY DEF Market!Begin
<1>2. Market!OwnListed' /\ Market!Created' = Market!Created
  BY <1>1, SameLists
<1>3. Market!Created \subseteq Deals
  BY DEF Market!Created, Market!Elements
<1>4. known \subseteq Deals
  BY <1>0, <1>3
<1> HIDE DEF known
<1>5. marketCall' = [pc |-> "reading", organization |-> organization, at |-> 1, offset |-> 0, count |-> 0,
                     found |-> {}, known |-> known, shifted |-> 0]
  BY DEF Market!Begin, known
<1>6. marketCall' \in Market!Call
  BY <1>0, <1>4, <1>5 DEF Market!Call
<1>7. CASE organization
  <2>1. known = UNION {Market!Elements(lists[s]) : s \in 1 .. StateCount}
    BY <1>7 DEF known, Market!OwnListed
  <2>2. ASSUME NEW e \in known PROVE Market!StillComes(e)'
    <3>1. PICK s \in 1 .. StateCount : e \in Market!Elements(lists[s])
      BY <2>1
    <3>2. s = 1 \/ s \in 1 + 1 .. StateCount
      BY <1>0
    <3>3. Market!Elements(lists[1]) = Market!Behind(lists[1], 0)
      BY WholeBehind
    <3> QED BY <1>1, <1>5, <3>1, <3>2, <3>3 DEF Market!StillComes
  <2>3. Market!Passed' = {}
    BY <1>5, <2>2 DEF Market!Passed
  <2>4. known = Market!Created \intersect Own
    BY <1>7 DEF known
  <2>5. Market!Ahead'
    BY <1>2, <1>5, <2>3, <2>4, NonePassed DEF Market!Ahead
  <2> QED BY <1>1, <1>2, <1>5, <1>6, <1>7, <2>5 DEF Market!MissedOnlyByShifts
<1>8. CASE ~organization
  <2>1. known = Market!Created
    BY <1>8 DEF known
  <2>2. Market!InOrder'
    BY <1>1, <1>2, <1>5, <2>1 DEF Market!InOrder
  <2> QED BY <1>1, <1>2, <1>5, <1>6, <1>8, <2>2 DEF Market!MissedOnlyByShifts
<1> QED BY <1>7, <1>8

(* After a page of a list of a state, the reader still comes to what it had *)
(* before it and did not find on the page.                                  *)
LEMMA StatePageSound ==
  ASSUME Market!ReadSound, Market!ReadPage, marketCall.organization PROVE Market!ReadSound'
<1> USE DEF Market!ReadSound, Market!TypeOK
<1> DEFINE at == marketCall.at
           offset == marketCall.offset
           list == lists[at]
           rows == {k \in 1 .. Len(list) : k > offset /\ k <= offset + Limit}
           size == Market!Cardinality(rows)
           found == marketCall.found \union {list[k] : k \in rows}
<1>0. StateCount \in Nat \ {0} /\ Limit \in Nat \ {0} /\ Own \subseteq Deals
  BY LimitsOfPages
<1>1. /\ marketCall.pc = "reading" /\ created' = created /\ lists' = lists
      /\ Market!Ahead /\ marketCall.count = offset /\ offset \in Nat /\ marketCall.shifted \in Nat
  BY DEF Market!ReadPage, Market!Ahead, Market!Call
<1>2. at \in 1 .. StateCount /\ list \in Seq(Own) /\ Market!SelectedStates[at] = at
  BY DEF Market!Call, Market!SelectedStates
<1>3. Len(list) \in Nat
  BY <1>2
<1>4. size = IF Len(list) <= offset THEN 0 ELSE IF Len(list) <= offset + Limit THEN Len(list) - offset ELSE Limit
  <2> HIDE DEF list, offset
  <2> QED BY <1>1, <1>3, RowsOfPage
<1>5. marketCall' = IF ~Market!LastPage(size, Len(list))
                      THEN [[marketCall EXCEPT !.found = found] EXCEPT !.offset = Market!NextOffset, !.count = @ + size]
                      ELSE IF at # StateCount
                      THEN [[marketCall EXCEPT !.found = found] EXCEPT !.at = @ + 1, !.offset = 0, !.count = 0]
                      ELSE [[marketCall EXCEPT !.found = found] EXCEPT !.pc = "done"]
  BY <1>2 DEF Market!ReadPage
<1>6. found \subseteq Deals
  BY <1>0, <1>2 DEF Market!Call
<1>7. Market!OwnListed' /\ Market!Created' = Market!Created
  BY <1>1, SameLists
<1>8. ASSUME NEW e \in Market!Behind(list, offset), e \notin found
      PROVE  offset + Limit < Len(list) /\ e \in Market!Behind(list, offset + Limit)
  <2>1. PICK k \in offset + 1 .. Len(list) : e = list[k]
    BY DEF Market!Behind
  <2>2. k \notin rows
    BY <1>8, <2>1
  <2> HIDE DEF list, offset
  <2>3. k \in offset + Limit + 1 .. Len(list) /\ offset + Limit < Len(list)
    BY <1>0, <1>1, <1>3, <2>2
  <2> QED BY <2>1, <2>3 DEF Market!Behind
<1>9. /\ Market!LastPage(size, Len(list)) => Len(list) <= offset + Limit
      /\ ~Market!LastPage(size, Len(list)) => size = Limit
  <2>1. Market!LastPage(size, Len(list)) <=> size = 0 \/ offset + size >= Len(list)
    BY <1>1 DEF Market!LastPage
  <2> HIDE DEF size, list, offset
  <2> QED BY <1>0, <1>1, <1>3, <1>4, <2>1
<1>10. ASSUME NEW e, Market!StillComes(e), e \notin found
       PROVE  \/ ~Market!LastPage(size, Len(list)) /\ e \in Market!Behind(list, offset + Limit)
              \/ \E s \in at + 1 .. StateCount : e \in Market!Elements(lists[s])
  <2>1. CASE e \in Market!Behind(list, offset)
    <3>1. offset + Limit < Len(list) /\ e \in Market!Behind(list, offset + Limit)
      BY <1>8, <1>10, <2>1
    <3>2. ~Market!LastPage(size, Len(list))
      <4> HIDE DEF list, size
      <4> QED BY <1>0, <1>1, <1>3, <1>9, <3>1
    <3> QED BY <3>1, <3>2
  <2>2. CASE \E s \in at + 1 .. StateCount : e \in Market!Elements(lists[s])
    BY <2>2
  <2> QED BY <1>10, <2>1, <2>2 DEF Market!StillComes
<1>11. Market!Cardinality(Market!Passed) <= marketCall.shifted /\ marketCall.known \subseteq Market!Created \intersect Own
       /\ IsFiniteSet(Market!Passed)
  BY <1>1, PassedFinite DEF Market!Ahead
<1>12. marketCall.found \subseteq found
  OBVIOUS
<1> HIDE DEF found, list, rows, size
<1>13. CASE ~Market!LastPage(size, Len(list))
  <2>1. size = Limit
    BY <1>9, <1>13
  <2>2. offset + Limit \in Nat /\ Market!NextOffset = offset + Limit
    BY <1>0, <1>1 DEF Market!NextOffset
  <2>3. /\ marketCall' \in Market!Call /\ marketCall'.found = found /\ marketCall'.known = marketCall.known
        /\ marketCall'.pc = "reading" /\ marketCall'.organization = marketCall.organization
        /\ marketCall'.at = at /\ marketCall'.shifted = marketCall.shifted
        /\ marketCall'.offset = offset + Limit /\ marketCall'.count = offset + Limit
    BY <1>1, <1>5, <1>6, <1>13, <2>1, <2>2 DEF Market!Call
  <2>4. ASSUME NEW e, Market!StillComes(e), e \notin found PROVE Market!StillComes(e)'
    BY <1>1, <1>10, <2>3, <2>4 DEF Market!StillComes, list
  <2>5. Market!Passed' \subseteq Market!Passed
    BY <1>12, <2>3, <2>4 DEF Market!Passed
  <2>6. Market!Cardinality(Market!Passed') <= marketCall'.shifted
    BY <1>1, <1>11, <2>3, <2>5, NoneMore
  <2>7. Market!Ahead'
    BY <1>7, <1>11, <2>3, <2>6 DEF Market!Ahead
  <2> QED BY <1>1, <1>7, <2>3, <2>7 DEF Market!MissedOnlyByShifts
<1>14. CASE Market!LastPage(size, Len(list)) /\ at # StateCount
  <2>1. at + 1 \in 1 .. StateCount
    BY <1>0, <1>2, <1>14
  <2>2. /\ marketCall' \in Market!Call /\ marketCall'.found = found /\ marketCall'.known = marketCall.known
        /\ marketCall'.pc = "reading" /\ marketCall'.organization = marketCall.organization
        /\ marketCall'.at = at + 1 /\ marketCall'.shifted = marketCall.shifted
        /\ marketCall'.offset = 0 /\ marketCall'.count = 0
    BY <1>1, <1>5, <1>6, <1>14, <2>1 DEF Market!Call
  <2>3. ASSUME NEW e, Market!StillComes(e), e \notin found PROVE Market!StillComes(e)'
    <3>1. PICK s \in at + 1 .. StateCount : e \in Market!Elements(lists[s])
      BY <1>10, <1>14, <2>3
    <3>2. s = at + 1 \/ s \in at + 1 + 1 .. StateCount
      BY <1>0, <1>2
    <3>3. Market!Elements(lists[at + 1]) = Market!Behind(lists[at + 1], 0)
      BY WholeBehind
    <3> QED BY <1>1, <2>2, <3>1, <3>2, <3>3 DEF Market!StillComes
  <2>4. Market!Passed' \subseteq Market!Passed
    BY <1>12, <2>2, <2>3 DEF Market!Passed
  <2>5. Market!Cardinality(Market!Passed') <= marketCall'.shifted
    BY <1>1, <1>11, <2>2, <2>4, NoneMore
  <2>6. Market!Ahead'
    BY <1>7, <1>11, <2>2, <2>5 DEF Market!Ahead
  <2> QED BY <1>1, <1>7, <2>2, <2>6 DEF Market!MissedOnlyByShifts
<1>15. CASE Market!LastPage(size, Len(list)) /\ at = StateCount
  <2>1. /\ marketCall' \in Market!Call /\ marketCall'.found = found /\ marketCall'.known = marketCall.known
        /\ marketCall'.pc = "done" /\ marketCall'.shifted = marketCall.shifted
    BY <1>1, <1>5, <1>6, <1>15 DEF Market!Call
  <2>2. at + 1 .. StateCount = {}
    BY <1>0, <1>15
  <2>3. marketCall.known \ found \subseteq Market!Passed
    BY <1>10, <1>12, <1>15, <2>2 DEF Market!Passed
  <2>4. Market!Cardinality(marketCall.known \ found) <= marketCall.shifted
    BY <1>1, <1>11, <2>3, NoneMore
  <2> QED BY <1>1, <1>7, <2>1, <2>4 DEF Market!MissedOnlyByShifts
<1> QED BY <1>13, <1>14, <1>15

(* A page of the list of all deals makes the part that was read longer.     *)
LEMMA AllPageSound ==
  ASSUME Market!ReadSound, Market!ReadPage, ~marketCall.organization PROVE Market!ReadSound'
<1> USE DEF Market!ReadSound, Market!TypeOK
<1> DEFINE offset == marketCall.offset
           rows == {k \in 1 .. Len(created) : k > offset /\ k <= offset + Limit}
           size == Market!Cardinality(rows)
           found == marketCall.found \union {created[k] : k \in rows}
<1>0. Limit \in Nat \ {0}
  BY LimitsOfPages
<1>1. /\ marketCall.pc = "reading" /\ created' = created /\ lists' = lists
      /\ Market!InOrder /\ marketCall.count = offset /\ offset <= Len(created)
      /\ offset \in Nat /\ Len(created) \in Nat
  BY DEF Market!ReadPage, Market!InOrder, Market!Call
<1>2. size = IF Len(created) <= offset THEN 0 ELSE IF Len(created) <= offset + Limit THEN Len(created) - offset ELSE Limit
  BY <1>1, RowsOfPage
<1>3. found \subseteq Deals
  BY DEF Market!Call
<1>4. \A k \in 1 .. offset : created[k] \in found
  BY <1>1 DEF Market!InOrder
<1>5. \A k \in rows : created[k] \in found
  OBVIOUS
<1>6. ASSUME NEW k \in 1 .. Len(created), k <= offset + Limit PROVE created[k] \in found
  <2>1. k \in 1 .. offset \/ k \in rows
    BY <1>0, <1>1, <1>6
  <2> QED BY <1>4, <1>5, <2>1
<1> HIDE DEF found
<1>7. marketCall' = IF Market!LastPage(size, Len(created))
                      THEN [[marketCall EXCEPT !.found = found] EXCEPT !.pc = "done"]
                      ELSE [[marketCall EXCEPT !.found = found] EXCEPT !.offset = Market!NextOffset, !.count = @ + size]
  BY DEF Market!ReadPage, found
<1> HIDE DEF size, rows
<1>8. Market!OwnListed' /\ Market!Created' = Market!Created
  BY <1>1, SameLists
<1>9. CASE Market!LastPage(size, Len(created))
  <2>1. /\ marketCall' \in Market!Call /\ marketCall'.found = found /\ marketCall'.known = marketCall.known
        /\ marketCall'.pc = "done" /\ marketCall'.shifted \in Nat
    BY <1>3, <1>7, <1>9 DEF Market!Call
  <2>2. Len(created) <= offset + Limit
    BY <1>0, <1>1, <1>2, <1>9 DEF Market!LastPage
  <2>3. \A k \in 1 .. Len(created) : created[k] \in found
    BY <1>0, <1>1, <1>6, <2>2
  <2>4. marketCall.known \subseteq found
    BY <1>1, <2>3 DEF Market!InOrder, Market!Created, Market!Elements
  <2>5. Market!Cardinality(marketCall.known \ found) = 0
    <3>1. marketCall.known \ found = {}
      BY <2>4
    <3> QED BY <3>1, NonePassed
  <2>6. Market!MissedOnlyByShifts'
    BY <2>1, <2>5 DEF Market!MissedOnlyByShifts
  <2> QED BY <1>1, <1>8, <2>1, <2>6
<1>10. CASE ~Market!LastPage(size, Len(created))
  <2>1. size = Limit /\ offset + Limit <= Len(created)
    BY <1>0, <1>1, <1>2, <1>10 DEF Market!LastPage
  <2>2. offset + Limit \in Nat /\ Market!NextOffset = offset + Limit
    BY <1>0, <1>1 DEF Market!NextOffset
  <2>3. /\ marketCall' \in Market!Call /\ marketCall'.found = found /\ marketCall'.known = marketCall.known
        /\ marketCall'.pc = "reading" /\ marketCall'.organization = marketCall.organization
        /\ marketCall'.offset = offset + Limit /\ marketCall'.count = offset + Limit
    BY <1>1, <1>3, <1>7, <1>10, <2>1, <2>2 DEF Market!Call
  <2>4. \A k \in 1 .. offset + Limit : created[k] \in found
    BY <1>0, <1>1, <1>6, <2>1
  <2>5. Market!InOrder'
    BY <1>1, <1>8, <2>1, <2>3, <2>4 DEF Market!InOrder
  <2> QED BY <1>1, <1>8, <2>3, <2>5 DEF Market!MissedOnlyByShifts
<1> QED BY <1>9, <1>10

LEMMA MarketStep == Market!ReadSound /\ [Market!Next]_(Market!vars) => Market!ReadSound'
<1> SUFFICES ASSUME Market!ReadSound, [Market!Next]_(Market!vars) PROVE Market!ReadSound'
  OBVIOUS
<1>1. CASE \E d \in Deals : Market!Create(d)
  BY <1>1, CreateSound
<1>2. CASE \E s, t \in 1 .. StateCount : \E i \in 1 .. Len(lists[s]) : Market!Advance(s, t, i)
  BY <1>2, AdvanceSound
<1>3. CASE \E organization \in BOOLEAN : Market!Begin(organization)
  BY <1>3, BeginReadSound
<1>4. CASE Market!ReadPage
  BY <1>4, StatePageSound, AllPageSound
<1>5. CASE UNCHANGED Market!vars
  <2>1. created' = created /\ lists' = lists /\ marketCall' = marketCall
    BY <1>5 DEF Market!vars
  <2>2. Market!OwnListed' /\ Market!Created' = Market!Created
    BY <2>1, SameLists DEF Market!ReadSound
  <2> QED BY <2>1, <2>2 DEF Market!ReadSound, Market!TypeOK, Market!Ahead, Market!Passed, Market!StillComes,
                              Market!InOrder, Market!MissedOnlyByShifts
<1> QED BY <1>1, <1>2, <1>3, <1>4, <1>5 DEF Market!Next

-----------------------------------------------------------------------------
(* The pieces of a deal.  Sorting is a permutation that is the same for all *)
(* listings of a set; the tree over the rows can be read back from its root,*)
(* as hashes have one preimage; so the check of a manifest is exact, and a  *)
(* notification leads to the root from its own piece alone.                 *)

Row == [digest : Int, size : Nat]

(* Rows in their order.                                                     *)
LEMMA TotalOrder ==
  ASSUME NEW p \in Row, NEW q \in Row, NEW r \in Row
  PROVE  /\ Pieces!Before(p, q) \/ Pieces!Before(q, p) \/ p = q
         /\ ~Pieces!Before(p, p)
         /\ Pieces!Before(p, q) => ~Pieces!Before(q, p)
         /\ Pieces!Before(p, q) /\ Pieces!Before(q, r) => Pieces!Before(p, r)
         /\ ~Pieces!Before(q, p) /\ ~Pieces!Before(r, q) => ~Pieces!Before(r, p)
         /\ Pieces!Before(p, q) /\ ~Pieces!Before(r, q) => Pieces!Before(p, r)
         /\ ~Pieces!Before(q, p) /\ Pieces!Before(q, r) => Pieces!Before(p, r)
BY DEF Pieces!Before, Row

LEMMA InOrUnder ==
  ASSUME NEW s \in Seq(Row), NEW i \in DOMAIN s, NEW j \in DOMAIN s, i # j
  PROVE  /\ i \in Pieces!UpTo(s, i)
         /\ j \in Pieces!UpTo(s, i) => Pieces!UpTo(s, j) \subseteq Pieces!UpTo(s, i) /\ i \notin Pieces!UpTo(s, j)
         /\ j \notin Pieces!UpTo(s, i) => i \in Pieces!UpTo(s, j)
         /\ Pieces!Before(s[j], s[i]) => j \in Pieces!UpTo(s, i)
<1>1. DOMAIN s = 1 .. Len(s) /\ \A k \in DOMAIN s : s[k] \in Row
  OBVIOUS
<1>2. i \in Int /\ j \in Int
  BY <1>1
<1>3. i \in Pieces!UpTo(s, i)
  BY <1>1, <1>2, TotalOrder DEF Pieces!UpTo
<1>4. ASSUME j \in Pieces!UpTo(s, i), NEW k \in Pieces!UpTo(s, j) PROVE k \in Pieces!UpTo(s, i)
  <2>1. k \in DOMAIN s /\ k \in Int
    BY <1>1, <1>4 DEF Pieces!UpTo
  <2>2. (Pieces!Before(s[k], s[j]) \/ (k <= j /\ ~Pieces!Before(s[j], s[k]))) /\ (Pieces!Before(s[j], s[i]) \/ (j <= i /\ ~Pieces!Before(s[i], s[j])))
    BY <1>4 DEF Pieces!UpTo
  <2>3. Pieces!Before(s[k], s[i]) \/ (k <= i /\ ~Pieces!Before(s[i], s[k]))
    BY <1>1, <1>2, <2>1, <2>2, TotalOrder
  <2> QED BY <2>1, <2>3 DEF Pieces!UpTo
<1>5. ASSUME j \in Pieces!UpTo(s, i) PROVE i \notin Pieces!UpTo(s, j)
  BY <1>1, <1>2, <1>5, TotalOrder DEF Pieces!UpTo
<1>6. ASSUME j \notin Pieces!UpTo(s, i) PROVE i \in Pieces!UpTo(s, j)
  BY <1>1, <1>2, <1>6, TotalOrder DEF Pieces!UpTo
<1>7. Pieces!Before(s[j], s[i]) => j \in Pieces!UpTo(s, i)
  BY DEF Pieces!UpTo
<1> QED BY <1>3, <1>4, <1>5, <1>6, <1>7

(* Sorting is a permutation: each place is that of one row.                 *)
Place(s) == [i \in DOMAIN s |-> Cardinality(Pieces!UpTo(s, i))]

LEMMA PlaceBijects ==
  ASSUME NEW s \in Seq(Row)
  PROVE  /\ Place(s) \in [DOMAIN s -> DOMAIN s]
         /\ \A i, j \in DOMAIN s : Place(s)[i] = Place(s)[j] => i = j
         /\ \A k \in DOMAIN s : \E i \in DOMAIN s : Place(s)[i] = k
         /\ \A i, j \in DOMAIN s : Pieces!Before(s[j], s[i]) => Place(s)[j] < Place(s)[i]
<1> DEFINE n == Len(s)
<1>1. DOMAIN s = 1 .. n /\ n \in Nat
  OBVIOUS
<1>2. IsFiniteSet(1 .. n) /\ Cardinality(1 .. n) = n
  BY <1>1, FS_Interval
<1>3. ASSUME NEW i \in DOMAIN s
      PROVE  /\ IsFiniteSet(Pieces!UpTo(s, i)) /\ Cardinality(Pieces!UpTo(s, i)) \in 1 .. n
             /\ \A j \in DOMAIN s \ {i} : j \in Pieces!UpTo(s, i) => Cardinality(Pieces!UpTo(s, j)) < Cardinality(Pieces!UpTo(s, i))
  <2>1. Pieces!UpTo(s, i) \in SUBSET (1 .. n)
    BY <1>1 DEF Pieces!UpTo
  <2>2. IsFiniteSet(Pieces!UpTo(s, i)) /\ Cardinality(Pieces!UpTo(s, i)) <= n
    BY <1>2, <2>1, FS_Subset
  <2>3. i \in Pieces!UpTo(s, i)
    BY <1>1, TotalOrder DEF Pieces!UpTo
  <2>4. Cardinality(Pieces!UpTo(s, i)) \in Nat /\ Cardinality(Pieces!UpTo(s, i)) # 0
    BY <2>2, <2>3, FS_CardinalityType, FS_EmptySet
  <2>5. ASSUME NEW j \in DOMAIN s \ {i}, j \in Pieces!UpTo(s, i)
        PROVE  Cardinality(Pieces!UpTo(s, j)) < Cardinality(Pieces!UpTo(s, i))
    <3>1. Pieces!UpTo(s, j) \in SUBSET Pieces!UpTo(s, i) /\ Pieces!UpTo(s, j) # Pieces!UpTo(s, i)
      BY <2>3, <2>5, InOrUnder
    <3>2. Cardinality(Pieces!UpTo(s, j)) <= Cardinality(Pieces!UpTo(s, i)) /\ Cardinality(Pieces!UpTo(s, j)) # Cardinality(Pieces!UpTo(s, i)) /\ IsFiniteSet(Pieces!UpTo(s, j))
      BY <2>2, <3>1, FS_Subset
    <3>3. Cardinality(Pieces!UpTo(s, j)) \in Nat
      BY <3>2, FS_CardinalityType
    <3> QED BY <2>4, <3>2, <3>3
  <2> QED BY <1>1, <2>2, <2>4, <2>5
<1>4. Place(s) \in [1 .. n -> 1 .. n]
  BY <1>1, <1>3 DEF Place
<1>5. ASSUME NEW i \in DOMAIN s, NEW j \in DOMAIN s, i # j PROVE Place(s)[i] # Place(s)[j]
  <2>1. CASE j \in Pieces!UpTo(s, i)
    BY <1>1, <1>3, <1>5, <2>1 DEF Place
  <2>2. CASE j \notin Pieces!UpTo(s, i)
    <3>1. i \in Pieces!UpTo(s, j)
      BY <1>5, <2>2, InOrUnder
    <3> QED BY <1>1, <1>3, <1>5, <3>1 DEF Place
  <2> QED BY <2>1, <2>2
<1>6. Place(s) \in Surjection(1 .. n, 1 .. n)
  <2>1. Place(s) \in Injection(1 .. n, 1 .. n)
    BY <1>1, <1>4, <1>5 DEF Injection, IsInjective, Pieces!IsInjective
  <2> QED BY <1>2, <2>1, FS_Injection
<1>7. \A k \in DOMAIN s : \E i \in DOMAIN s : Place(s)[i] = k
  BY <1>1, <1>6 DEF Surjection
<1>8. ASSUME NEW i \in DOMAIN s, NEW j \in DOMAIN s, Pieces!Before(s[j], s[i]) PROVE Place(s)[j] < Place(s)[i]
  <2>1. i # j
    BY <1>8, TotalOrder
  <2>2. j \in Pieces!UpTo(s, i)
    BY <1>8, <2>1, InOrUnder
  <2> QED BY <1>3, <2>1, <2>2 DEF Place
<1> QED BY <1>1, <1>4, <1>5, <1>7, <1>8

ByPlace(s, place) == [k \in DOMAIN s |-> s[CHOOSE i \in DOMAIN s : place[i] = k]]

LEMMA CardinalityOfRows == ASSUME NEW S PROVE Pieces!Cardinality(S) = Cardinality(S)
BY DEF Pieces!Cardinality, Cardinality

LEMMA RowsAre ==
  ASSUME NEW s \in Seq(Row)
  PROVE  /\ Pieces!Rows(s) \in Seq(Row) /\ Len(Pieces!Rows(s)) = Len(s)
         /\ \A i \in DOMAIN s : Place(s)[i] \in DOMAIN s /\ Pieces!Rows(s)[Place(s)[i]] = s[i]
         /\ \A k \in DOMAIN s : \E i \in DOMAIN s : Place(s)[i] = k /\ Pieces!Rows(s)[k] = s[i]
<1>1. Pieces!Rows(s) = [k \in DOMAIN s |-> s[CHOOSE i \in DOMAIN s : Place(s)[i] = k]]
  <2> DEFINE place == [i \in DOMAIN s |-> Pieces!Cardinality(Pieces!UpTo(s, i))]
  <2>1. Pieces!Rows(s) = ByPlace(s, place)
    BY Zenon DEF Pieces!Rows, ByPlace
  <2>2. place = Place(s)
    BY CardinalityOfRows DEF Place
  <2> HIDE DEF place
  <2>3. Pieces!Rows(s) = ByPlace(s, Place(s))
    BY <2>1, <2>2
  <2> QED BY <2>3 DEF ByPlace
<1>2. DOMAIN s = 1 .. Len(s) /\ Len(s) \in Nat /\ \A i \in DOMAIN s : s[i] \in Row
  OBVIOUS
<1>3. ASSUME NEW k \in DOMAIN s PROVE \E i \in DOMAIN s : Place(s)[i] = k /\ Pieces!Rows(s)[k] = s[i]
  <2> DEFINE i == CHOOSE i \in DOMAIN s : Place(s)[i] = k
  <2>1. \E j \in DOMAIN s : Place(s)[j] = k
    BY PlaceBijects
  <2>2. i \in DOMAIN s /\ Place(s)[i] = k
    BY <2>1
  <2>3. Pieces!Rows(s)[k] = s[i]
    BY <1>1
  <2> HIDE DEF i
  <2> QED BY <2>2, <2>3
<1>4. ASSUME NEW i \in DOMAIN s PROVE Place(s)[i] \in DOMAIN s /\ Pieces!Rows(s)[Place(s)[i]] = s[i]
  BY <1>3, PlaceBijects
<1>5. Pieces!Rows(s) \in [1 .. Len(s) -> Row]
  BY <1>1, <1>2, <1>3
<1>6. Pieces!Rows(s) \in Seq(Row) /\ Len(Pieces!Rows(s)) = Len(s)
  BY <1>2, <1>5
<1> QED BY <1>3, <1>4, <1>6

(* A row is not before those in front of it, and every row is kept.         *)
LEMMA RowsInOrder ==
  ASSUME NEW s \in Seq(Row)
  PROVE  /\ \A k, l \in DOMAIN s : k < l => ~Pieces!Before(Pieces!Rows(s)[l], Pieces!Rows(s)[k])
         /\ Pieces!ToSet(Pieces!Rows(s)) = Pieces!ToSet(s)
         /\ Pieces!IsInjective(Pieces!Rows(s)) <=> Pieces!IsInjective(s)
<1>0. /\ DOMAIN Pieces!Rows(s) = 1 .. Len(s) /\ DOMAIN s = 1 .. Len(s)
      /\ \A i \in DOMAIN s : s[i] \in Row /\ Pieces!Rows(s)[i] \in Row
      /\ DOMAIN s \subseteq Int
  BY RowsAre
<1>1. ASSUME NEW k \in DOMAIN s, NEW l \in DOMAIN s, k < l PROVE ~Pieces!Before(Pieces!Rows(s)[l], Pieces!Rows(s)[k])
  <2>1. PICK i \in DOMAIN s : Place(s)[i] = k /\ Pieces!Rows(s)[k] = s[i]
    BY RowsAre
  <2>2. PICK j \in DOMAIN s : Place(s)[j] = l /\ Pieces!Rows(s)[l] = s[j]
    BY RowsAre
  <2>3. ~(l < k)
    BY <1>0, <1>1
  <2> QED BY <2>1, <2>2, <2>3, PlaceBijects
<1>2. Pieces!ToSet(Pieces!Rows(s)) = Pieces!ToSet(s)
  <2>1. ASSUME NEW k \in DOMAIN s PROVE Pieces!Rows(s)[k] \in Pieces!ToSet(s)
    BY RowsAre DEF Pieces!ToSet
  <2>2. ASSUME NEW i \in DOMAIN s PROVE s[i] \in Pieces!ToSet(Pieces!Rows(s))
    <3>1. Pieces!Rows(s)[Place(s)[i]] = s[i] /\ Place(s)[i] \in DOMAIN Pieces!Rows(s)
      BY <1>0, RowsAre
    <3> QED BY <3>1 DEF Pieces!ToSet
  <2> QED BY <1>0, <2>1, <2>2 DEF Pieces!ToSet
<1>3. ASSUME Pieces!IsInjective(s) PROVE Pieces!IsInjective(Pieces!Rows(s))
  <2> SUFFICES ASSUME NEW k \in DOMAIN s, NEW l \in DOMAIN s, Pieces!Rows(s)[k] = Pieces!Rows(s)[l] PROVE k = l
    BY <1>0 DEF Pieces!IsInjective
  <2>1. PICK i \in DOMAIN s : Place(s)[i] = k /\ Pieces!Rows(s)[k] = s[i]
    BY RowsAre
  <2>2. PICK j \in DOMAIN s : Place(s)[j] = l /\ Pieces!Rows(s)[l] = s[j]
    BY RowsAre
  <2> QED BY <1>3, <2>1, <2>2 DEF Pieces!IsInjective
<1>4. ASSUME Pieces!IsInjective(Pieces!Rows(s)) PROVE Pieces!IsInjective(s)
  <2> SUFFICES ASSUME NEW i \in DOMAIN s, NEW j \in DOMAIN s, s[i] = s[j] PROVE i = j
    BY DEF Pieces!IsInjective
  <2>1. Pieces!Rows(s)[Place(s)[i]] = Pieces!Rows(s)[Place(s)[j]] /\ Place(s)[i] \in DOMAIN Pieces!Rows(s) /\ Place(s)[j] \in DOMAIN Pieces!Rows(s)
    BY <1>0, RowsAre
  <2>2. Place(s)[i] = Place(s)[j]
    BY <1>4, <2>1 DEF Pieces!IsInjective
  <2> QED BY <2>2, PlaceBijects
<1> QED BY <1>1, <1>2, <1>3, <1>4

(* Where no two neighbours are alike, each row is before those behind it.   *)
Ascending(rows) == \A k, l \in DOMAIN rows : k < l => Pieces!Before(rows[k], rows[l])

LEMMA NeighboursAscend ==
  ASSUME NEW s \in Seq(Row), \A k \in 2 .. Len(s) : Pieces!Rows(s)[k - 1] # Pieces!Rows(s)[k]
  PROVE  Ascending(Pieces!Rows(s))
<1> DEFINE R == Pieces!Rows(s)
<1>0. /\ DOMAIN R = 1 .. Len(s) /\ DOMAIN s = 1 .. Len(s) /\ Len(s) \in Nat
      /\ \A k \in 1 .. Len(s) : R[k] \in Row
  BY RowsAre
<1>1. \A k, l \in 1 .. Len(s) : k < l => ~Pieces!Before(R[l], R[k])
  BY <1>0, RowsInOrder
<1> HIDE DEF R
<1>2. \A k \in 2 .. Len(s) : Pieces!Before(R[k - 1], R[k])
  <2> SUFFICES ASSUME NEW k \in 2 .. Len(s) PROVE Pieces!Before(R[k - 1], R[k])
    OBVIOUS
  <2>1. k - 1 \in 1 .. Len(s) /\ k \in 1 .. Len(s) /\ k - 1 < k
    BY <1>0
  <2>2. ~Pieces!Before(R[k], R[k - 1]) /\ R[k - 1] # R[k]
    BY <1>1, <2>1 DEF R
  <2> QED BY <1>0, <2>1, <2>2, TotalOrder
<1>3. SUFFICES ASSUME NEW k \in 1 .. Len(s), NEW l \in 1 .. Len(s), k < l, ~Pieces!Before(R[k], R[l]) PROVE FALSE
  BY <1>0 DEF Ascending, R
<1>4. PICK m \in {x \in 1 .. Len(s) : k < x /\ ~Pieces!Before(R[k], R[x])} :
        \A x \in {x \in 1 .. Len(s) : k < x /\ ~Pieces!Before(R[k], R[x])} : m <= x
  <2>1. {x \in 1 .. Len(s) : k < x /\ ~Pieces!Before(R[k], R[x])} \subseteq Nat
    BY <1>0
  <2> QED BY <1>3, <2>1, LeastIsThere
<1>5. m - 1 \in 1 .. Len(s) /\ m \in 2 .. Len(s) /\ ~(m <= m - 1)
  BY <1>0, <1>3, <1>4
<1>6. m - 1 = k \/ k < m - 1
  BY <1>0, <1>3, <1>4
<1>7. m - 1 = k \/ Pieces!Before(R[k], R[m - 1])
  BY <1>4, <1>5, <1>6
<1>8. Pieces!Before(R[m - 1], R[m])
  BY <1>2, <1>5
<1>9. R[k] \in Row /\ R[m] \in Row /\ R[m - 1] \in Row /\ ~Pieces!Before(R[k], R[m])
  BY <1>0, <1>4, <1>5
<1>10. CASE m - 1 = k
  BY <1>8, <1>9, <1>10
<1>11. CASE Pieces!Before(R[k], R[m - 1])
  BY <1>8, <1>9, <1>11, TotalOrder
<1> QED BY <1>7, <1>10, <1>11

LEMMA AscendingIsInjective ==
  ASSUME NEW R \in Seq(Row), Ascending(R)
  PROVE  Pieces!IsInjective(R)
<1> SUFFICES ASSUME NEW k \in DOMAIN R, NEW l \in DOMAIN R, R[k] = R[l], k # l PROVE FALSE
  BY DEF Pieces!IsInjective
<1>1. k \in Int /\ l \in Int /\ R[k] \in Row
  OBVIOUS
<1>2. Pieces!Before(R[k], R[l]) \/ Pieces!Before(R[l], R[k])
  BY <1>1 DEF Ascending
<1> QED BY <1>1, <1>2, TotalOrder

(* A manifest is valid if it lists some laid, each once.                  *)
LEMMA ValidListsOnce ==
  ASSUME NEW s \in Seq(Row)
  PROVE  /\ Pieces!Valid(s) <=> s # <<>> /\ Pieces!IsInjective(s)
         /\ Pieces!Valid(s) => Ascending(Pieces!Rows(s))
<1>1. ASSUME Pieces!Valid(s) PROVE s # <<>> /\ Pieces!IsInjective(s) /\ Ascending(Pieces!Rows(s))
  BY <1>1, NeighboursAscend, AscendingIsInjective, RowsAre, RowsInOrder DEF Pieces!Valid
<1>2. ASSUME s # <<>>, Pieces!IsInjective(s), NEW k \in 2 .. Len(s) PROVE Pieces!Rows(s)[k - 1] # Pieces!Rows(s)[k]
  <2>1. k - 1 \in DOMAIN Pieces!Rows(s) /\ k \in DOMAIN Pieces!Rows(s) /\ k # k - 1
    BY RowsAre
  <2> QED BY <1>2, <2>1, RowsInOrder DEF Pieces!IsInjective
<1> QED BY <1>1, <1>2 DEF Pieces!Valid

(* There is one way to list a set of rows in their order.                   *)
LEMMA OneOrder ==
  ASSUME NEW A \in Seq(Row), NEW B \in Seq(Row), Len(A) = Len(B), Ascending(A), Ascending(B), Pieces!ToSet(A) = Pieces!ToSet(B)
  PROVE  A = B
<1> DEFINE n == Len(A)
           apart == {k \in 1 .. n : A[k] # B[k]}
<1>1. DOMAIN A = 1 .. n /\ DOMAIN B = 1 .. n /\ n \in Nat
  OBVIOUS
<1>2. SUFFICES ASSUME apart # {} PROVE FALSE
  BY <1>1
<1>3. PICK k \in apart : \A x \in apart : k <= x
  <2>1. apart \subseteq Nat
    BY <1>1
  <2> QED BY <1>2, <2>1, LeastIsThere
<1>4. A[k] \in Pieces!ToSet(B) /\ B[k] \in Pieces!ToSet(A)
  BY <1>1, <1>3 DEF Pieces!ToSet
<1>5. PICK i \in 1 .. n : A[k] = B[i]
  BY <1>1, <1>4 DEF Pieces!ToSet
<1>6. PICK j \in 1 .. n : B[k] = A[j]
  BY <1>1, <1>4 DEF Pieces!ToSet
<1>7. i # k /\ j # k
  BY <1>3, <1>5, <1>6
<1>8. ~(i < k) /\ ~(j < k)
  <2>1. i < k => A[i] = B[i]
    BY <1>1, <1>3
  <2>2. j < k => A[j] = B[j]
    BY <1>1, <1>3
  <2>3. Pieces!IsInjective(A) /\ Pieces!IsInjective(B)
    BY AscendingIsInjective
  <2> QED BY <1>1, <1>3, <1>5, <1>6, <1>7, <2>1, <2>2, <2>3 DEF Pieces!IsInjective
<1>9. k < i /\ k < j /\ k \in 1 .. n
  BY <1>1, <1>3, <1>7, <1>8
<1>10. Pieces!Before(B[k], A[k]) /\ Pieces!Before(A[k], B[k])
  BY <1>1, <1>5, <1>6, <1>9 DEF Ascending
<1>11. A[k] \in Row /\ B[k] \in Row
  BY <1>1, <1>9
<1> QED BY <1>10, <1>11, TotalOrder

LEMMA OneListing ==
  ASSUME NEW m \in Seq(Row), NEW p \in Seq(Row), Pieces!Valid(m), Pieces!Valid(p), Len(m) = Len(p), Pieces!ToSet(m) = Pieces!ToSet(p)
  PROVE  Pieces!Rows(m) = Pieces!Rows(p)
BY RowsAre, RowsInOrder, ValidListsOnce, OneOrder

(* Numbers that are worked out one from the other.                          *)
LEMMA InTurn ==
  ASSUME NEW n \in Nat, NEW first \in Nat, NEW next \in [Nat -> Nat]
  PROVE  \E f : /\ \A d \in 0 .. n : f[d] \in Nat
                /\ f = [d \in 0 .. n |-> IF d = 0 THEN first ELSE next[f[d - 1]]]
<1> DEFINE Made(f, m) == /\ \A d \in 0 .. m : f[d] \in Nat
                         /\ f = [d \in 0 .. m |-> IF d = 0 THEN first ELSE next[f[d - 1]]]
           good == {m \in Nat : \E f : Made(f, m)}
<1>1. 0 \in good
  <2> DEFINE f == [d \in 0 .. 0 |-> first]
  <2>1. Made(f, 0)
    OBVIOUS
  <2> QED BY <2>1
<1>2. ASSUME NEW m \in good PROVE m + 1 \in good
  <2>1. PICK f : Made(f, m)
    OBVIOUS
  <2> DEFINE g == [d \in 0 .. m + 1 |-> IF d <= m THEN f[d] ELSE next[f[m]]]
  <2>2. ASSUME NEW d \in 0 .. m + 1 PROVE g[d] = (IF d = 0 THEN first ELSE next[g[d - 1]]) /\ g[d] \in Nat
    <3>1. CASE d = 0
      BY <2>1, <3>1
    <3>2. CASE d # 0 /\ d <= m
      <4>1. d \in 0 .. m /\ d - 1 \in 0 .. m /\ d - 1 <= m /\ d - 1 \in 0 .. m + 1
        BY <3>2
      <4>2. f[d] = next[f[d - 1]] /\ f[d] \in Nat
        BY <2>1, <3>2, <4>1
      <4> QED BY <3>2, <4>1, <4>2
    <3>3. CASE d = m + 1
      <4>1. d - 1 = m /\ ~(d <= m) /\ d # 0 /\ m \in 0 .. m + 1 /\ m <= m /\ m \in 0 .. m
        BY <3>3
      <4>2. f[m] \in Nat
        BY <2>1, <4>1
      <4> QED BY <4>1, <4>2
    <3> QED BY <3>1, <3>2, <3>3
  <2>3. Made(g, m + 1)
    BY <2>2
  <2> HIDE DEF g, Made
  <2>4. m + 1 \in Nat
    OBVIOUS
  <2> QED BY <2>3, <2>4
<1>3. good = Nat
  <2> HIDE DEF good
  <2> QED BY <1>1, <1>2, AllNumbers DEF good
<1> QED BY <1>3

(* The widths of a tree double from level to level.                         *)
LEMMA DoubledIs ==
  ASSUME NEW n \in Nat
  PROVE  /\ \A d \in 0 .. n : Pieces!Doubled(n)[d] \in Nat
         /\ Pieces!Doubled(n)[0] = 1
         /\ \A d \in 1 .. n : Pieces!Doubled(n)[d] = 2 * Pieces!Doubled(n)[d - 1]
<1> DEFINE twice == [x \in Nat |-> 2 * x]
           Widths(f) == f = [d \in 0 .. n |-> IF d = 0 THEN 1 ELSE 2 * f[d - 1]]
<1>1. \E f : Widths(f)
  <2>1. twice \in [Nat -> Nat] /\ 1 \in Nat
    OBVIOUS
  <2> HIDE DEF twice
  <2>2. PICK f : /\ \A d \in 0 .. n : f[d] \in Nat
                 /\ f = [d \in 0 .. n |-> IF d = 0 THEN 1 ELSE twice[f[d - 1]]]
    BY <2>1, InTurn
  <2>3. ASSUME NEW d \in 0 .. n, d # 0 PROVE twice[f[d - 1]] = 2 * f[d - 1]
    <3>1. d - 1 \in 0 .. n
      BY <2>3
    <3> QED BY <2>2, <3>1 DEF twice
  <2>4. Widths(f)
    BY <2>2, <2>3
  <2> QED BY <2>4
<1>2. Pieces!Doubled(n) = CHOOSE w : Widths(w)
  BY DEF Pieces!Doubled
<1>3. Widths(Pieces!Doubled(n))
  <2> HIDE DEF Widths
  <2> QED BY <1>1, <1>2
<1>4. Pieces!Doubled(n)[0] = 1 /\ \A d \in 1 .. n : Pieces!Doubled(n)[d] = 2 * Pieces!Doubled(n)[d - 1]
  BY <1>3
<1> DEFINE good == {m \in Nat : m \in 0 .. n => Pieces!Doubled(n)[m] \in Nat}
<1>5. 0 \in good
  BY <1>4
<1>6. ASSUME NEW m \in good PROVE m + 1 \in good
  <2>1. m + 1 \in 0 .. n => m \in 0 .. n /\ m + 1 \in 1 .. n /\ (m + 1) - 1 = m
    OBVIOUS
  <2> QED BY <1>4, <2>1
<1>7. good = Nat
  <2> HIDE DEF good
  <2> QED BY <1>5, <1>6, AllNumbers DEF good
<1> QED BY <1>4, <1>7

LEMMA DoubledGrows ==
  ASSUME NEW n \in Nat, NEW d \in 0 .. n
  PROVE  Pieces!Doubled(n)[d] > d
<1> DEFINE good == {m \in Nat : m \in 0 .. n => Pieces!Doubled(n)[m] > m}
<1>1. 0 \in good
  BY DoubledIs
<1>2. ASSUME NEW m \in good PROVE m + 1 \in good
  <2>1. m + 1 \in 0 .. n => m \in 0 .. n /\ m + 1 \in 1 .. n /\ (m + 1) - 1 = m
    OBVIOUS
  <2>2. m + 1 \in 0 .. n => Pieces!Doubled(n)[m + 1] = 2 * Pieces!Doubled(n)[m] /\ Pieces!Doubled(n)[m] > m /\ Pieces!Doubled(n)[m] \in Nat
    BY <2>1, DoubledIs
  <2> QED BY <2>2
<1>3. good = Nat
  <2> HIDE DEF good
  <2> QED BY <1>1, <1>2, AllNumbers DEF good
<1> QED BY <1>3

(* The levels of a tree of n leaves, and how wide they are.                 *)
Wide(n, d) == Pieces!Doubled(n)[Pieces!Depth(n) - d]

LEMMA DepthIs ==
  ASSUME NEW n \in Nat
  PROVE  /\ Pieces!Depth(n) \in 0 .. n
         /\ Wide(n, 0) >= n /\ Wide(n, Pieces!Depth(n)) = 1
         /\ \A d \in 0 .. Pieces!Depth(n) : Wide(n, d) \in Nat
         /\ \A d \in 1 .. Pieces!Depth(n) : Wide(n, d - 1) = 2 * Wide(n, d)
<1> DEFINE fits == {d \in 0 .. n : Pieces!Doubled(n)[d] >= n}
<1>1. fits # {} /\ fits \subseteq Nat
  <2>1. n \in 0 .. n /\ Pieces!Doubled(n)[n] \in Nat /\ Pieces!Doubled(n)[n] > n
    BY DoubledGrows, DoubledIs
  <2> QED BY <2>1
<1>2. PICK d \in fits : \A e \in fits : d <= e
  BY <1>1, LeastIsThere
<1>3. \A e \in 0 .. d - 1 : Pieces!Doubled(n)[e] < n
  BY <1>2, DoubledIs
<1>4. Pieces!Depth(n) \in 0 .. n /\ Pieces!Doubled(n)[Pieces!Depth(n)] >= n
  BY <1>2, <1>3, Zenon DEF Pieces!Depth
<1>5. ASSUME NEW e \in 1 .. Pieces!Depth(n) PROVE Wide(n, e - 1) = 2 * Wide(n, e)
  <2>1. Pieces!Depth(n) - (e - 1) \in 1 .. n /\ (Pieces!Depth(n) - (e - 1)) - 1 = Pieces!Depth(n) - e
    BY <1>4
  <2> QED BY <2>1, DoubledIs DEF Wide
<1>6. \A e \in 0 .. Pieces!Depth(n) : Pieces!Depth(n) - e \in 0 .. n
  BY <1>4
<1>7. Pieces!Depth(n) - 0 = Pieces!Depth(n) /\ Pieces!Depth(n) - Pieces!Depth(n) = 0
  BY <1>4
<1> QED BY <1>4, <1>5, <1>6, <1>7, DoubledIs DEF Wide

LEMMA ShiftedIs ==
  ASSUME NEW index \in Nat, NEW n \in Nat
  PROVE  /\ \A k \in 0 .. n : Pieces!Shifted(index, n)[k] \in Nat
         /\ Pieces!Shifted(index, n)[0] = index
         /\ \A k \in 1 .. n : Pieces!Shifted(index, n)[k] = Pieces!Shifted(index, n)[k - 1] \div 2
<1> DEFINE half == [x \in Nat |-> x \div 2]
           Shifts(f) == f = [k \in 0 .. n |-> IF k = 0 THEN index ELSE f[k - 1] \div 2]
<1>1. \E f : Shifts(f)
  <2>1. half \in [Nat -> Nat]
    OBVIOUS
  <2> HIDE DEF half
  <2>2. PICK f : /\ \A k \in 0 .. n : f[k] \in Nat
                 /\ f = [k \in 0 .. n |-> IF k = 0 THEN index ELSE half[f[k - 1]]]
    BY <2>1, InTurn
  <2>3. ASSUME NEW k \in 0 .. n, k # 0 PROVE half[f[k - 1]] = f[k - 1] \div 2
    <3>1. k - 1 \in 0 .. n
      BY <2>3
    <3> QED BY <2>2, <3>1 DEF half
  <2>4. Shifts(f)
    BY <2>2, <2>3
  <2> QED BY <2>4
<1>2. Pieces!Shifted(index, n) = CHOOSE f : Shifts(f)
  BY DEF Pieces!Shifted
<1>3. Shifts(Pieces!Shifted(index, n))
  <2> HIDE DEF Shifts
  <2> QED BY <1>1, <1>2
<1>4. Pieces!Shifted(index, n)[0] = index /\ \A k \in 1 .. n : Pieces!Shifted(index, n)[k] = Pieces!Shifted(index, n)[k - 1] \div 2
  BY <1>3
<1> DEFINE good == {m \in Nat : m \in 0 .. n => Pieces!Shifted(index, n)[m] \in Nat}
<1>5. 0 \in good
  BY <1>4
<1>6. ASSUME NEW m \in good PROVE m + 1 \in good
  <2>1. m + 1 \in 0 .. n => m \in 0 .. n /\ m + 1 \in 1 .. n /\ (m + 1) - 1 = m
    OBVIOUS
  <2> QED BY <1>4, <2>1
<1>7. good = Nat
  <2> HIDE DEF good
  <2> QED BY <1>5, <1>6, AllNumbers DEF good
<1> QED BY <1>4, <1>7

(* The ancestors of a leaf are nodes of their levels.                       *)
LEMMA ShiftedInside ==
  ASSUME NEW n \in Nat, NEW i \in 0 .. n - 1, NEW k \in 0 .. Pieces!Depth(n)
  PROVE  Pieces!Shifted(i, Pieces!Depth(n))[k] \in 0 .. Wide(n, k) - 1
<1> DEFINE at == Pieces!Shifted(i, Pieces!Depth(n))
           good == {m \in Nat : m \in 0 .. Pieces!Depth(n) => at[m] \in 0 .. Wide(n, m) - 1}
<1>0. i \in Nat /\ Pieces!Depth(n) \in Nat
  BY DepthIs
<1>1. 0 \in good
  <2>1. at[0] = i
    BY <1>0, ShiftedIs
  <2>2. Wide(n, 0) >= n /\ Wide(n, 0) \in Nat
    BY <1>0, DepthIs
  <2> HIDE DEF at
  <2> QED BY <2>1, <2>2
<1>2. ASSUME NEW m \in good PROVE m + 1 \in good
  <2> SUFFICES ASSUME m + 1 \in 0 .. Pieces!Depth(n) PROVE at[m + 1] \in 0 .. Wide(n, m + 1) - 1
    OBVIOUS
  <2>1. m \in 0 .. Pieces!Depth(n) /\ m + 1 \in 1 .. Pieces!Depth(n) /\ (m + 1) - 1 = m
    BY <1>0
  <2>4. at[m + 1] = at[m] \div 2
    <3>1. \A e \in 1 .. Pieces!Depth(n) : at[e] = at[e - 1] \div 2
      BY <1>0, ShiftedIs
    <3> HIDE DEF at
    <3> QED BY <2>1, <3>1
  <2>2. at[m + 1] = at[m] \div 2 /\ at[m] \in 0 .. Wide(n, m) - 1
    <3> HIDE DEF at
    <3> QED BY <2>1, <2>4
  <2>3. Wide(n, m) = 2 * Wide(n, m + 1) /\ Wide(n, m + 1) \in Nat
    BY <2>1, DepthIs
  <2> HIDE DEF at
  <2> QED BY <2>2, <2>3
<1>3. good = Nat
  <2> HIDE DEF good
  <2> QED BY <1>1, <1>2, AllNumbers DEF good
<1> QED BY <1>3

(* The tree, level by level.                                                *)
Bottom(rows, i) == IF i < Len(rows) THEN Pieces!Leaf(i, rows[i + 1]) ELSE Pieces!EmptyLeaf
Above(rows, level, width, d) ==
  [i \in 0 .. width[d] - 1 |->
     IF d = 0 THEN Bottom(rows, i) ELSE Pieces!Node(level[d - 1][2 * i], level[d - 1][2 * i + 1])]

HasTree(rows, n, width) == \E level : level = [d \in 0 .. n |-> Above(rows, level, width, d)]

LEMMA TreeExists ==
  ASSUME NEW rows, NEW n \in Nat, NEW width
  PROVE  HasTree(rows, n, width)
<1> DEFINE Tree(level, m) == level = [d \in 0 .. m |-> Above(rows, level, width, d)]
           good == {m \in Nat : \E level : Tree(level, m)}
<1>1. 0 \in good
  <2> DEFINE level == [d \in 0 .. 0 |-> [i \in 0 .. width[0] - 1 |-> Bottom(rows, i)]]
  <2>1. level[0] = [i \in 0 .. width[0] - 1 |-> Bottom(rows, i)]
    OBVIOUS
  <2>2. Above(rows, level, width, 0) = [i \in 0 .. width[0] - 1 |-> Bottom(rows, i)]
    BY DEF Above
  <2>3. Tree(level, 0)
    BY <2>1, <2>2
  <2> QED BY <2>3
<1>2. ASSUME NEW m \in good PROVE m + 1 \in good
  <2>1. PICK level : Tree(level, m)
    OBVIOUS
  <2> DEFINE next == [d \in 0 .. m + 1 |-> IF d <= m THEN level[d] ELSE Above(rows, level, width, m + 1)]
  <2>2. ASSUME NEW d \in 0 .. m + 1 PROVE next[d] = Above(rows, next, width, d)
    <3>1. next[d] = Above(rows, level, width, d)
      <4>1. CASE d <= m
        BY <2>1, <4>1
      <4>2. CASE d = m + 1
        BY <4>2
      <4> QED BY <4>1, <4>2
    <3>2. CASE d = 0
      BY <3>1, <3>2 DEF Above
    <3>3. CASE d # 0
      <4>1. d - 1 \in 0 .. m + 1 /\ d - 1 <= m
        BY <3>3
      <4>2. next[d - 1] = level[d - 1]
        BY <4>1
      <4> HIDE DEF next
      <4> QED BY <3>1, <4>2 DEF Above
    <3> QED BY <3>2, <3>3
  <2>3. Tree(next, m + 1)
    <3>1. next = [d \in 0 .. m + 1 |-> next[d]]
      OBVIOUS
    <3> HIDE DEF next
    <3> QED BY <2>2, <3>1
  <2> HIDE DEF next, Tree
  <2>4. m + 1 \in Nat
    OBVIOUS
  <2> QED BY <2>3, <2>4
<1>3. good = Nat
  <2> HIDE DEF good
  <2> QED BY <1>1, <1>2, AllNumbers DEF good
<1> QED BY <1>3 DEF HasTree

LEMMA LevelsAre ==
  ASSUME NEW rows \in Seq(Row)
  PROVE  /\ \A i \in 0 .. Wide(Len(rows), 0) - 1 : Pieces!Levels(rows)[0][i] = Bottom(rows, i)
         /\ \A d \in 1 .. Pieces!Depth(Len(rows)) : \A i \in 0 .. Wide(Len(rows), d) - 1 :
              Pieces!Levels(rows)[d][i] = Pieces!Node(Pieces!Levels(rows)[d - 1][2 * i], Pieces!Levels(rows)[d - 1][2 * i + 1])
<1> DEFINE n == Len(rows)
           width == [d \in 0 .. Pieces!Depth(n) |-> Pieces!Doubled(n)[Pieces!Depth(n) - d]]
           Tree(level) == level = [d \in 0 .. Pieces!Depth(n) |-> Above(rows, level, width, d)]
<1>1. n \in Nat /\ Pieces!Depth(n) \in Nat
  BY DepthIs
<1>2. \A d \in 0 .. Pieces!Depth(n) : width[d] = Wide(n, d)
  BY DEF Wide
<1>3. Pieces!Levels(rows) = CHOOSE level : Tree(level)
  BY DEF Pieces!Levels, Above, Bottom
<1>4. \E level : Tree(level)
  <2> HIDE DEF width
  <2>1. HasTree(rows, Pieces!Depth(n), width)
    BY <1>1, TreeExists
  <2> QED BY <2>1 DEF HasTree
<1>5. Tree(Pieces!Levels(rows))
  <2> HIDE DEF Tree
  <2> QED BY <1>3, <1>4
<1> HIDE DEF width
<1>6. \A d \in 0 .. Pieces!Depth(n) : Pieces!Levels(rows)[d] = Above(rows, Pieces!Levels(rows), width, d)
  BY <1>5
<1>7. ASSUME NEW i \in 0 .. Wide(n, 0) - 1 PROVE Pieces!Levels(rows)[0][i] = Bottom(rows, i)
  <2>1. 0 \in 0 .. Pieces!Depth(n)
    BY <1>1
  <2> QED BY <1>2, <1>6, <2>1 DEF Above
<1>8. ASSUME NEW d \in 1 .. Pieces!Depth(n), NEW i \in 0 .. Wide(n, d) - 1
      PROVE  Pieces!Levels(rows)[d][i] = Pieces!Node(Pieces!Levels(rows)[d - 1][2 * i], Pieces!Levels(rows)[d - 1][2 * i + 1])
  <2>1. d \in 0 .. Pieces!Depth(n) /\ d # 0
    BY <1>1
  <2> QED BY <1>2, <1>6, <2>1 DEF Above
<1> QED BY <1>7, <1>8

(* A hash has one preimage.                                                 *)
LEMMA OnePreimage ==
  /\ \A a, b, c, d : Pieces!Node(a, b) = Pieces!Node(c, d) => a = c /\ b = d
  /\ \A i \in Int : \A p, q \in Row : Pieces!Leaf(i, p) = Pieces!Leaf(i, q) => p = q
<1>1. ASSUME NEW a, NEW b, NEW c, NEW d, Pieces!Node(a, b) = Pieces!Node(c, d) PROVE a = c /\ b = d
  BY <1>1 DEF Pieces!Node
<1>2. ASSUME NEW i \in Int, NEW p \in Row, NEW q \in Row, Pieces!Leaf(i, p) = Pieces!Leaf(i, q) PROVE p = q
  <2>1. p.digest = q.digest /\ p.size = q.size
    BY <1>2 DEF Pieces!Leaf
  <2>2. p = [digest |-> p.digest, size |-> p.size] /\ q = [digest |-> q.digest, size |-> q.size]
    BY DEF Row
  <2> QED BY <2>1, <2>2
<1> QED BY <1>1, <1>2

(* The root of a tree of so many leaves fixes all of its nodes, and rows.   *)
SameLevel(A, B, d) == \A i \in 0 .. Wide(Len(A), d) - 1 : Pieces!Levels(A)[d][i] = Pieces!Levels(B)[d][i]

LEMMA SameBelow ==
  ASSUME NEW A \in Seq(Row), NEW B \in Seq(Row), Len(A) = Len(B),
         NEW d \in 1 .. Pieces!Depth(Len(A)), SameLevel(A, B, d)
  PROVE  SameLevel(A, B, d - 1)
<1> DEFINE n == Len(A)
<1>1. n \in Nat /\ Pieces!Depth(n) \in Nat /\ d \in 0 .. Pieces!Depth(n) /\ d - 1 \in 0 .. Pieces!Depth(n)
  BY DepthIs
<1>2. Wide(n, d - 1) = 2 * Wide(n, d) /\ Wide(n, d) \in Nat
  BY <1>1, DepthIs
<1> SUFFICES ASSUME NEW i \in 0 .. Wide(n, d - 1) - 1 PROVE Pieces!Levels(A)[d - 1][i] = Pieces!Levels(B)[d - 1][i]
  BY DEF SameLevel
<1>3. PICK j \in 0 .. Wide(n, d) - 1 : i = 2 * j \/ i = 2 * j + 1
  <2>1. i \div 2 \in 0 .. Wide(n, d) - 1 /\ (i = 2 * (i \div 2) \/ i = 2 * (i \div 2) + 1)
    BY <1>2
  <2> QED BY <2>1
<1>4. Pieces!Levels(A)[d][j] = Pieces!Levels(B)[d][j]
  BY DEF SameLevel
<1>5. Pieces!Levels(A)[d][j] = Pieces!Node(Pieces!Levels(A)[d - 1][2 * j], Pieces!Levels(A)[d - 1][2 * j + 1])
  BY LevelsAre
<1>6. Pieces!Levels(B)[d][j] = Pieces!Node(Pieces!Levels(B)[d - 1][2 * j], Pieces!Levels(B)[d - 1][2 * j + 1])
  BY LevelsAre
<1>7. Pieces!Levels(A)[d - 1][2 * j] = Pieces!Levels(B)[d - 1][2 * j] /\ Pieces!Levels(A)[d - 1][2 * j + 1] = Pieces!Levels(B)[d - 1][2 * j + 1]
  <2> DEFINE a == Pieces!Levels(A)[d - 1][2 * j]
             b == Pieces!Levels(A)[d - 1][2 * j + 1]
             a2 == Pieces!Levels(B)[d - 1][2 * j]
             b2 == Pieces!Levels(B)[d - 1][2 * j + 1]
  <2>1. Pieces!Node(a, b) = Pieces!Node(a2, b2)
    BY <1>4, <1>5, <1>6
  <2> HIDE DEF a, b, a2, b2
  <2>2. a = a2 /\ b = b2
    BY <2>1, OnePreimage
  <2> QED BY <2>2 DEF a, b, a2, b2
<1> QED BY <1>3, <1>7

LEMMA RootFixesRows ==
  ASSUME NEW A \in Seq(Row), NEW B \in Seq(Row), Len(A) = Len(B), Pieces!Root(A) = Pieces!Root(B)
  PROVE  A = B
<1> DEFINE n == Len(A)
           good == {m \in Nat : m \in 0 .. Pieces!Depth(n) => SameLevel(A, B, Pieces!Depth(n) - m)}
<1>1. n \in Nat /\ Pieces!Depth(n) \in Nat
  BY DepthIs
<1>2. 0 \in good
  <2>1. Wide(n, Pieces!Depth(n)) = 1 /\ Pieces!Depth(n) - 0 = Pieces!Depth(n)
    BY <1>1, DepthIs
  <2>2. Pieces!Levels(A)[Pieces!Depth(n)][0] = Pieces!Levels(B)[Pieces!Depth(n)][0]
    BY DEF Pieces!Root
  <2>3. \A i \in 0 .. Wide(n, Pieces!Depth(n)) - 1 : i = 0
    BY <2>1
  <2> QED BY <2>1, <2>2, <2>3 DEF SameLevel
<1>3. ASSUME NEW m \in good PROVE m + 1 \in good
  <2> SUFFICES ASSUME m + 1 \in 0 .. Pieces!Depth(n) PROVE SameLevel(A, B, Pieces!Depth(n) - (m + 1))
    OBVIOUS
  <2>1. m \in 0 .. Pieces!Depth(n) /\ Pieces!Depth(n) - m \in 1 .. Pieces!Depth(n) /\ Pieces!Depth(n) - (m + 1) = (Pieces!Depth(n) - m) - 1
    BY <1>1
  <2>2. SameLevel(A, B, Pieces!Depth(n) - m)
    BY <2>1
  <2> QED BY <2>1, <2>2, SameBelow
<1>4. good = Nat
  <2> HIDE DEF good
  <2> QED BY <1>2, <1>3, AllNumbers DEF good
<1>5. SameLevel(A, B, 0)
  <2>1. Pieces!Depth(n) \in good /\ Pieces!Depth(n) - Pieces!Depth(n) = 0
    BY <1>1, <1>4
  <2> QED BY <1>1, <2>1
<1>6. ASSUME NEW k \in 1 .. n PROVE A[k] = B[k]
  <2>1. k - 1 \in 0 .. Wide(n, 0) - 1 /\ k - 1 < n /\ (k - 1) + 1 = k
    <3>1. Wide(n, 0) >= n /\ 0 \in 0 .. Pieces!Depth(n) /\ Wide(n, 0) \in Nat
      BY <1>1, DepthIs
    <3> QED BY <1>1, <3>1
  <2>2. Bottom(A, k - 1) = Bottom(B, k - 1)
    BY <1>5, <2>1, LevelsAre DEF SameLevel
  <2>3. Pieces!Leaf(k - 1, A[k]) = Pieces!Leaf(k - 1, B[k])
    BY <2>1, <2>2 DEF Bottom
  <2>4. A[k] \in Row /\ B[k] \in Row
    OBVIOUS
  <2> QED BY <2>1, <2>3, <2>4, OnePreimage
<1> QED BY <1>6

(* The adapter's path, node by node.                                        *)
Up(leaf, shifted, proof, at, k) ==
  IF k = 0 THEN leaf
  ELSE IF shifted[k - 1] % 2 = 0 THEN Pieces!Node(at[k - 1], proof[k]) ELSE Pieces!Node(proof[k], at[k - 1])

HasPath(leaf, shifted, proof, n) == \E at : at = [k \in 0 .. n |-> Up(leaf, shifted, proof, at, k)]

LEMMA PathExists ==
  ASSUME NEW leaf, NEW shifted, NEW proof, NEW n \in Nat
  PROVE  HasPath(leaf, shifted, proof, n)
<1> DEFINE Climb(at, m) == at = [k \in 0 .. m |-> Up(leaf, shifted, proof, at, k)]
           good == {m \in Nat : \E at : Climb(at, m)}
<1>1. 0 \in good
  <2> DEFINE at == [k \in 0 .. 0 |-> leaf]
  <2>1. Climb(at, 0)
    BY DEF Up
  <2> QED BY <2>1
<1>2. ASSUME NEW m \in good PROVE m + 1 \in good
  <2>1. PICK at : Climb(at, m)
    OBVIOUS
  <2> DEFINE next == [k \in 0 .. m + 1 |-> IF k <= m THEN at[k] ELSE Up(leaf, shifted, proof, at, m + 1)]
  <2>2. ASSUME NEW k \in 0 .. m + 1 PROVE next[k] = Up(leaf, shifted, proof, next, k)
    <3>1. next[k] = Up(leaf, shifted, proof, at, k)
      <4>1. CASE k <= m
        BY <2>1, <4>1
      <4>2. CASE k = m + 1
        BY <4>2
      <4> QED BY <4>1, <4>2
    <3>2. CASE k = 0
      BY <3>1, <3>2 DEF Up
    <3>3. CASE k # 0
      <4>1. k - 1 \in 0 .. m + 1 /\ k - 1 <= m
        BY <3>3
      <4>2. next[k - 1] = at[k - 1]
        BY <4>1
      <4> HIDE DEF next
      <4> QED BY <3>1, <4>2 DEF Up
    <3> QED BY <3>2, <3>3
  <2>3. Climb(next, m + 1)
    <3>1. next = [k \in 0 .. m + 1 |-> next[k]]
      OBVIOUS
    <3> HIDE DEF next
    <3> QED BY <2>2, <3>1
  <2> HIDE DEF next, Climb
  <2>4. m + 1 \in Nat
    OBVIOUS
  <2> QED BY <2>3, <2>4
<1>3. good = Nat
  <2> HIDE DEF good
  <2> QED BY <1>1, <1>2, AllNumbers DEF good
<1> QED BY <1>3 DEF HasPath

(* The notification of a row leads from that row to the root, and from no   *)
(* other piece.                                                             *)
LEMMA PathOpens ==
  ASSUME NEW rows \in Seq(Row), NEW i \in 0 .. Len(rows) - 1, NEW piece \in Row
  PROVE  Pieces!Path(Pieces!Notification(rows, i), piece) = Pieces!Root(rows) <=> piece = rows[i + 1]
<1> DEFINE n == Len(rows)
           D == Pieces!Depth(n)
           sh == Pieces!Shifted(i, D)
           L == Pieces!Levels(rows)
           proof == Pieces!Proof(rows, i)
           Climb(at) == at = [k \in 0 .. D |-> Up(Pieces!Leaf(i, piece), sh, proof, at, k)]
           path == CHOOSE at : Climb(at)
<1>1. n \in Nat /\ D \in Nat /\ i \in Nat /\ i \in 0 .. n - 1 /\ rows[i + 1] \in Row
  <2>1. n \in Nat /\ i \in Nat /\ i + 1 \in 1 .. n
    OBVIOUS
  <2>2. Pieces!Depth(n) \in Nat
    BY <2>1, DepthIs
  <2> QED BY <2>1, <2>2
<1>2. Len(proof) = D /\ \A k \in 1 .. D : proof[k] = L[k - 1][Pieces!Sibling(sh[k - 1])]
  <2>1. proof = [k \in 1 .. D |-> L[k - 1][Pieces!Sibling(sh[k - 1])]]
    BY DEF Pieces!Proof
  <2> HIDE DEF proof, L, sh, D
  <2> QED BY <1>1, <2>1
<1>3. Pieces!Path(Pieces!Notification(rows, i), piece) = path[D]
  <2>1. Pieces!Notification(rows, i).proof = proof /\ Pieces!Notification(rows, i).index = i
    BY DEF Pieces!Notification
  <2>2. Pieces!Path(Pieces!Notification(rows, i), piece) =
          (CHOOSE at : at = [k \in 0 .. Len(Pieces!Notification(rows, i).proof) |->
             Up(Pieces!Leaf(Pieces!Notification(rows, i).index, piece),
                Pieces!Shifted(Pieces!Notification(rows, i).index, Len(Pieces!Notification(rows, i).proof)),
                Pieces!Notification(rows, i).proof, at, k)])[Len(Pieces!Notification(rows, i).proof)]
    BY Zenon DEF Pieces!Path, Up
  <2> HIDE DEF proof
  <2> QED BY <1>2, <2>1, <2>2, Zenon
<1>4. Climb(path)
  <2>1. HasPath(Pieces!Leaf(i, piece), sh, proof, D)
    BY <1>1, PathExists
  <2>2. \E at : Climb(at)
    BY <2>1, Zenon DEF HasPath
  <2> HIDE DEF Climb
  <2> QED BY <2>2
<1>5. path[0] = Pieces!Leaf(i, piece) /\ \A k \in 1 .. D : path[k] = Up(Pieces!Leaf(i, piece), sh, proof, path, k)
  <2> HIDE DEF path, D, sh, proof
  <2>1. 0 \in 0 .. D /\ \A k \in 1 .. D : k \in 0 .. D
    BY <1>1
  <2>2. \A k \in 0 .. D : path[k] = Up(Pieces!Leaf(i, piece), sh, proof, path, k)
    BY <1>4
  <2> QED BY <2>1, <2>2 DEF Up
<1> HIDE DEF path
<1> DEFINE good == {m \in Nat : m \in 0 .. D => (path[m] = L[m][sh[m]] <=> piece = rows[i + 1])}
<1>6. 0 \in good
  <2>1. sh[0] = i
    BY <1>1, ShiftedIs
  <2>2. L[0][i] = Pieces!Leaf(i, rows[i + 1])
    <3>1. Wide(n, 0) >= n /\ 0 \in 0 .. D /\ Wide(n, 0) \in Nat
      BY <1>1, DepthIs
    <3>2. i \in 0 .. Wide(n, 0) - 1 /\ i < n
      BY <1>1, <3>1
    <3> QED BY <3>2, LevelsAre DEF Bottom
  <2> HIDE DEF L, sh, D
  <2>3. path[0] = L[0][sh[0]] <=> piece = rows[i + 1]
    BY <1>1, <1>5, <2>1, <2>2, OnePreimage
  <2> QED BY <2>3
<1>7. ASSUME NEW m \in good PROVE m + 1 \in good
  <2> SUFFICES ASSUME m + 1 \in 0 .. D PROVE path[m + 1] = L[m + 1][sh[m + 1]] <=> piece = rows[i + 1]
    OBVIOUS
  <2> HIDE DEF D
  <2>1. m \in 0 .. D /\ m + 1 \in 1 .. D /\ (m + 1) - 1 = m
    BY <1>1
  <2>2. path[m] = L[m][sh[m]] <=> piece = rows[i + 1]
    BY <2>1
  <2> DEFINE j == sh[m + 1]
  <2>3. j = sh[m] \div 2 /\ sh[m] \in Nat
    <3>1. (\A k \in 1 .. D : sh[k] = sh[k - 1] \div 2) /\ (\A k \in 0 .. D : sh[k] \in Nat)
      BY <1>1, ShiftedIs
    <3> HIDE DEF sh
    <3> QED BY <2>1, <3>1
  <2>4. j \in 0 .. Wide(n, m + 1) - 1
    <3>1. m + 1 \in 0 .. Pieces!Depth(n)
      BY <2>1 DEF D
    <3>2. Pieces!Shifted(i, Pieces!Depth(n))[m + 1] \in 0 .. Wide(n, m + 1) - 1
      BY <1>1, <3>1, ShiftedInside
    <3> QED BY <3>2 DEF D
  <2>5. L[m + 1][j] = Pieces!Node(L[m][2 * j], L[m][2 * j + 1])
    <3>1. \A d \in 1 .. Pieces!Depth(n) : \A x \in 0 .. Wide(n, d) - 1 : L[d][x] = Pieces!Node(L[d - 1][2 * x], L[d - 1][2 * x + 1])
      BY LevelsAre
    <3> HIDE DEF L, j, n
    <3> QED BY <2>1, <2>4, <3>1 DEF D
  <2>6. proof[m + 1] = L[m][Pieces!Sibling(sh[m])]
    <3> HIDE DEF proof, L, sh
    <3> QED BY <1>2, <2>1
  <2>7. path[m + 1] = IF sh[m] % 2 = 0 THEN Pieces!Node(path[m], proof[m + 1]) ELSE Pieces!Node(proof[m + 1], path[m])
    <3>1. path[m + 1] = Up(Pieces!Leaf(i, piece), sh, proof, path, m + 1) /\ m + 1 # 0
      BY <1>5, <2>1
    <3> HIDE DEF proof, sh
    <3> QED BY <2>1, <3>1 DEF Up
  <2> HIDE DEF L, sh, proof, j
  <2>8. CASE sh[m] % 2 = 0
    <3>1. sh[m] = 2 * j /\ Pieces!Sibling(sh[m]) = 2 * j + 1
      BY <2>3, <2>8 DEF Pieces!Sibling
    <3>2. path[m + 1] = Pieces!Node(path[m], L[m][2 * j + 1]) /\ L[m + 1][j] = Pieces!Node(L[m][sh[m]], L[m][2 * j + 1])
      BY <2>5, <2>6, <2>7, <2>8, <3>1
    <3>3. path[m + 1] = L[m + 1][j] <=> path[m] = L[m][sh[m]]
      <4> DEFINE p == path[m]
                 q == L[m][sh[m]]
                 r == L[m][2 * j + 1]
      <4> HIDE DEF p, q, r
      <4>1. Pieces!Node(p, r) = Pieces!Node(q, r) => p = q
        BY OnePreimage
      <4> QED BY <3>2, <4>1 DEF p, q, r
    <3> QED BY <2>2, <3>3 DEF j
  <2>9. CASE sh[m] % 2 # 0
    <3>1. sh[m] = 2 * j + 1 /\ Pieces!Sibling(sh[m]) = 2 * j
      BY <2>3, <2>9 DEF Pieces!Sibling
    <3>2. path[m + 1] = Pieces!Node(L[m][2 * j], path[m]) /\ L[m + 1][j] = Pieces!Node(L[m][2 * j], L[m][sh[m]])
      BY <2>5, <2>6, <2>7, <2>9, <3>1
    <3>3. path[m + 1] = L[m + 1][j] <=> path[m] = L[m][sh[m]]
      <4> DEFINE p == path[m]
                 q == L[m][sh[m]]
                 r == L[m][2 * j]
      <4> HIDE DEF p, q, r
      <4>1. Pieces!Node(r, p) = Pieces!Node(r, q) => p = q
        BY OnePreimage
      <4> QED BY <3>2, <4>1 DEF p, q, r
    <3> QED BY <2>2, <3>3 DEF j
  <2> QED BY <2>8, <2>9
<1>8. good = Nat
  <2> HIDE DEF good
  <2> QED BY <1>6, <1>7, AllNumbers DEF good
<1>9. path[D] = L[D][sh[D]] <=> piece = rows[i + 1]
  <2>1. D \in good /\ D \in 0 .. D
    BY <1>1, <1>8
  <2> QED BY <2>1
<1>10. sh[D] = 0
  <2>1. D \in 0 .. Pieces!Depth(n)
    BY <1>1
  <2>2. sh[D] \in 0 .. Wide(n, D) - 1 /\ Wide(n, D) = 1
    BY <1>1, <2>1, ShiftedInside, DepthIs
  <2> HIDE DEF sh
  <2> QED BY <2>2
<1>11. L[D][0] = Pieces!Root(rows)
  BY DEF Pieces!Root
<1> HIDE DEF D, sh, L
<1> QED BY <1>3, <1>9, <1>10, <1>11

(* The bytes of rows that differ are those of the set of them.              *)
Sizes(S) == [row \in S |-> row.size]

LEMMA BytesAreSum == ASSUME NEW f PROVE Pieces!SumFunction(f) = SumFunctionOnSet(f, DOMAIN f)
BY DEF Pieces!SumFunction, Pieces!SumFunctionOnSet, Pieces!FoldFunctionOnSet, Pieces!MapThenFoldSet,
       SumFunctionOnSet, FoldFunctionOnSet, MapThenFoldSet

LEMMA BytesOfSet ==
  ASSUME NEW s \in Seq(Row), Pieces!IsInjective(s)
  PROVE  Pieces!SizeBytes(s) = SumFunctionOnSet(Sizes(Pieces!ToSet(s)), Pieces!ToSet(s))
<1> DEFINE D == DOMAIN s
           f == [i \in D |-> s[i].size]
           S == Pieces!ToSet(s)
           g == Sizes(S)
           image(t) == {s[i] : i \in t}
           good == {t \in SUBSET D : SumFunctionOnSet(f, t) = SumFunctionOnSet(g, image(t))}
<1>1. D = 1 .. Len(s) /\ Len(s) \in Nat /\ \A i \in D : s[i] \in Row /\ s[i] \in S
  BY DEF Pieces!ToSet
<1>2. IsFiniteSet(D)
  BY <1>1, FS_Interval
<1>3. S = image(D)
  BY DEF Pieces!ToSet
<1>4. IsFiniteSet(S)
  <2>1. s \in Surjection(D, S)
    BY <1>1 DEF Surjection, Pieces!ToSet
  <2> QED BY <1>2, <2>1, FS_Surjection
<1>5. f \in [D -> Nat]
  BY <1>1 DEF Row
<1>6. g \in [S -> Nat] /\ \A i \in D : g[s[i]] = f[i]
  <2>1. \A row \in S : row \in Row
    BY <1>1, <1>3
  <2> QED BY <1>1, <2>1 DEF Sizes, Row
<1>7. \A t \in SUBSET D : image(t) \in SUBSET S
  BY <1>1
<1>8. {} \in good
  <2>1. {} \in SUBSET D /\ {} \in SUBSET S /\ image({}) = {}
    OBVIOUS
  <2> HIDE DEF f, g, S, D, image
  <2>2. SumFunctionOnSet(f, {}) = 0 /\ SumFunctionOnSet(g, {}) = 0
    BY <1>2, <1>4, <1>5, <1>6, <2>1, SumOneByOne
  <2> QED BY <2>1, <2>2
<1>9. ASSUME NEW t \in SUBSET D, t # {}, \A i \in t : t \ {i} \in good PROVE t \in good
  <2>1. PICK i \in t : TRUE
    BY <1>9
  <2>2. image(t \ {i}) = image(t) \ {s[i]} /\ s[i] \in image(t)
    <3>1. \A j \in t \ {i} : s[j] # s[i]
      BY DEF Pieces!IsInjective
    <3> QED BY <2>1, <3>1
  <2>3. SumFunctionOnSet(f, t \ {i}) = SumFunctionOnSet(g, image(t \ {i}))
    BY <1>9, <2>1
  <2>4. image(t) \in SUBSET S /\ i \in D
    BY <1>7, <2>1
  <2> HIDE DEF f, g, S, D, image, good
  <2>5. SumFunctionOnSet(f, t) = f[i] + SumFunctionOnSet(f, t \ {i})
    BY <1>2, <1>5, <2>1, SumWithout
  <2>6. SumFunctionOnSet(g, image(t)) = g[s[i]] + SumFunctionOnSet(g, image(t) \ {s[i]})
    BY <1>4, <1>6, <2>2, <2>4, SumWithout
  <2> QED BY <1>6, <1>9, <2>2, <2>3, <2>4, <2>5, <2>6 DEF good
<1>10. good = SUBSET D
  <2>1. good \in SUBSET SUBSET D
    OBVIOUS
  <2>2. \A t \in SUBSET D : t # {} /\ (\A x \in t : t \ {x} \in good) => t \in good
    BY <1>9
  <2> HIDE DEF good, D
  <2> QED BY <1>2, <1>8, <2>1, <2>2, AllSubsets
<1>11. Pieces!SizeBytes(s) = SumFunctionOnSet(f, D)
  BY BytesAreSum DEF Pieces!SizeBytes
<1>12. D \in good
  BY <1>10
<1> QED BY <1>3, <1>11, <1>12

LEMMA BytesAreNat ==
  ASSUME NEW s \in Seq(Row)
  PROVE  Pieces!SizeBytes(s) \in Nat
<1> DEFINE D == DOMAIN s
           f == [i \in D |-> s[i].size]
<1>1. IsFiniteSet(D) /\ D \in SUBSET D
  <2>1. D = 1 .. Len(s) /\ Len(s) \in Nat
    OBVIOUS
  <2> QED BY <2>1, FS_Interval
<1>2. f \in [D -> Nat]
  <2>1. \A i \in D : s[i] \in Row
    OBVIOUS
  <2> QED BY <2>1 DEF Row
<1>3. Pieces!SizeBytes(s) = SumFunctionOnSet(f, D)
  BY BytesAreSum DEF Pieces!SizeBytes
<1> HIDE DEF f, D
<1> QED BY <1>1, <1>2, <1>3, SumIsNat

LEMMA Enumerated ==
  ASSUME NEW S, IsFiniteSet(S), S \subseteq Row
  PROVE  Pieces!SetToSeq(S) \in Seq(Row) /\ Pieces!IsInjective(Pieces!SetToSeq(S)) /\ Pieces!ToSet(Pieces!SetToSeq(S)) = S
<1> DEFINE n == Cardinality(S)
           Lists(f) == f \in [1 .. n -> S] /\ Pieces!IsInjective(f)
           s == Pieces!SetToSeq(S)
<1>1. n \in Nat
  BY FS_CardinalityType
<1>2. \E f : Lists(f)
  <2>1. PICK f \in Bijection(1 .. n, S) : TRUE
    BY FS_CardinalityType, Zenon DEF ExistsBijection
  <2> QED BY <2>1 DEF Bijection, Injection, IsInjective, Pieces!IsInjective
<1>3. s \in [1 .. n -> S] /\ Pieces!IsInjective(s)
  BY <1>2, CardinalityOfRows, Zenon DEF Pieces!SetToSeq
<1>4. s \in Seq(Row)
  BY <1>1, <1>3
<1>5. Pieces!ToSet(s) = S
  <2>1. IsFiniteSet(1 .. n) /\ Cardinality(1 .. n) = n
    BY <1>1, FS_Interval
  <2>2. s \in Injection(1 .. n, S)
    BY <1>3 DEF Injection, IsInjective, Pieces!IsInjective
  <2>3. s \in Surjection(1 .. n, S)
    BY <2>1, <2>2, FS_Injection
  <2>4. \A x \in S : \E i \in 1 .. n : s[i] = x
    BY <2>3 DEF Surjection
  <2>5. DOMAIN s = 1 .. n
    BY <1>3
  <2> HIDE DEF s, n
  <2> QED BY <1>3, <2>4, <2>5 DEF Pieces!ToSet
<1> QED BY <1>3, <1>4, <1>5

-----------------------------------------------------------------------------
(* The commitment fixes the rows, and so does the check of a manifest.      *)
LEMMA CommitmentFixes ==
  ASSUME NEW A \in Seq(Row), NEW B \in Seq(Row), Pieces!Commitment(A) = Pieces!Commitment(B)
  PROVE  A = B
<1>1. Len(A) = Len(B) /\ Pieces!Root(A) = Pieces!Root(B)
  <2> DEFINE a == Pieces!Root(A)
             b == Pieces!Root(B)
             x == Pieces!SizeBytes(A)
             y == Pieces!SizeBytes(B)
  <2>1. Pieces!Hash(Len(A), x, a) = Pieces!Hash(Len(B), y, b)
    BY DEF Pieces!Commitment
  <2> HIDE DEF a, b, x, y
  <2>2. Len(A) = Len(B) /\ a = b
    BY <2>1 DEF Pieces!Hash
  <2> QED BY <2>2 DEF a, b
<1> QED BY <1>1, RootFixesRows

LEMMA PassesMeans ==
  ASSUME NEW m \in Seq(Row), NEW p \in Seq(Row), deal = Pieces!DealOf(p), Pieces!Valid(p)
  PROVE  /\ Pieces!Passes(m) <=> Pieces!Valid(m) /\ Pieces!Rows(m) = Pieces!Rows(p)
         /\ Pieces!Passes(m) <=> Pieces!ToSet(m) = Pieces!ToSet(p) /\ Len(m) = Len(p) /\ Pieces!IsInjective(m)
<1>1. deal.hash = Pieces!Commitment(Pieces!Rows(p)) /\ deal.size = Pieces!SizeBytes(Pieces!Rows(p))
  BY DEF Pieces!DealOf
<1>2. Pieces!Passes(m) <=> Pieces!Valid(m) /\ Pieces!Rows(m) = Pieces!Rows(p)
  <2>1. Pieces!Commitment(Pieces!Rows(m)) = Pieces!Commitment(Pieces!Rows(p)) => Pieces!Rows(m) = Pieces!Rows(p)
    BY RowsAre, CommitmentFixes
  <2> QED BY <1>1, <2>1 DEF Pieces!Passes
<1>3. ASSUME Pieces!Valid(m), Pieces!Rows(m) = Pieces!Rows(p) PROVE Pieces!ToSet(m) = Pieces!ToSet(p) /\ Len(m) = Len(p) /\ Pieces!IsInjective(m)
  BY <1>3, RowsAre, RowsInOrder, ValidListsOnce
<1>4. ASSUME Pieces!ToSet(m) = Pieces!ToSet(p), Len(m) = Len(p), Pieces!IsInjective(m) PROVE Pieces!Valid(m) /\ Pieces!Rows(m) = Pieces!Rows(p)
  <2>1. p # <<>>
    BY ValidListsOnce
  <2>2. m # <<>>
    BY <1>4, <2>1
  <2>3. Pieces!Valid(m)
    BY <1>4, <2>2, ValidListsOnce
  <2> QED BY <1>4, <2>3, OneListing
<1> QED BY <1>2, <1>3, <1>4

LEMMA DealIsOne ==
  ASSUME NEW p
  PROVE  Pieces!DealOf(p) # Pieces!NoDeal
<1> DEFINE a == Len(Pieces!Rows(p))
           b == Pieces!SizeBytes(Pieces!Rows(p))
           c == Pieces!Root(Pieces!Rows(p))
<1>1. Pieces!DealOf(p).hash = Pieces!Hash(a, b, c)
  BY DEF Pieces!DealOf, Pieces!Commitment
<1> HIDE DEF a, b, c
<1>2. Pieces!Hash(a, b, c) # <<>>
  BY DEF Pieces!Hash
<1>3. Pieces!NoDeal.hash = <<>>
  BY DEF Pieces!NoDeal
<1> QED BY <1>1, <1>2, <1>3

(* What was fetched: the rows of the proposed manifest.                     *)
LEMMA FetchedIsProposed ==
  ASSUME Pieces!PiecesAssumption, Pieces!PiecesSound, fetched # <<>>
  PROVE  /\ proposed \in Seq(Row) /\ fetched \in Seq(Row)
         /\ Pieces!Valid(proposed) /\ deal = Pieces!DealOf(proposed)
         /\ Pieces!Rows(fetched) = Pieces!Rows(proposed) /\ Len(fetched) = Len(proposed)
<1>1. deal # Pieces!NoDeal /\ fetched \in Manifests /\ Pieces!Passes(fetched)
  BY DEF Pieces!PiecesSound
<1>2. proposed \in Manifests /\ Pieces!Valid(proposed) /\ deal = Pieces!DealOf(proposed)
  BY <1>1 DEF Pieces!PiecesSound
<1>3. fetched \in Seq(Row) /\ proposed \in Seq(Row)
  BY <1>1, <1>2 DEF Pieces!PiecesAssumption, Row
<1>4. Pieces!Rows(fetched) = Pieces!Rows(proposed)
  BY <1>1, <1>2, <1>3, PassesMeans
<1> QED BY <1>2, <1>3, <1>4, RowsAre

LEMMA OpensMeans ==
  ASSUME NEW R \in Seq(Row), deal = [hash |-> Pieces!Commitment(R), size |-> Pieces!SizeBytes(R)],
         NEW i \in 0 .. Len(R) - 1, NEW piece \in Row
  PROVE  Pieces!Opens(Pieces!Notification(R, i), piece) <=> piece = R[i + 1]
<1> DEFINE note == Pieces!Notification(R, i)
           path == Pieces!Path(note, piece)
           root == Pieces!Root(R)
           bytes == Pieces!SizeBytes(R)
           n == Len(R)
<1>1. note.index = i /\ note.count = n /\ i < n
  BY DEF Pieces!Notification
<1>2. deal.hash = Pieces!Hash(n, bytes, root) /\ deal.size = bytes
  BY DEF Pieces!Commitment
<1>3. Pieces!Opens(note, piece) <=> Pieces!Hash(n, bytes, path) = Pieces!Hash(n, bytes, root)
  <2> HIDE DEF note, bytes, root, n
  <2> QED BY <1>1, <1>2 DEF Pieces!Opens
<1>4. path = root <=> piece = R[i + 1]
  BY PathOpens
<1> HIDE DEF note, path, root, bytes, n
<1>5. Pieces!Hash(n, bytes, path) = Pieces!Hash(n, bytes, root) <=> path = root
  BY DEF Pieces!Hash
<1> QED BY <1>3, <1>4, <1>5 DEF note

LEMMA SoundMeansExact ==
  ASSUME Pieces!PiecesAssumption, Pieces!PiecesSound
  PROVE  Pieces!SetIsExact
<1>1. ASSUME deal # Pieces!NoDeal
      PROVE  proposed \in Seq(Row) /\ Pieces!Valid(proposed) /\ deal = Pieces!DealOf(proposed)
  BY <1>1 DEF Pieces!PiecesSound, Pieces!PiecesAssumption, Row
<1>2. Pieces!CheckIsExact
  <2> SUFFICES ASSUME deal # Pieces!NoDeal, NEW m \in Manifests
               PROVE  Pieces!Passes(m) <=> Pieces!ToSet(m) = Pieces!ToSet(proposed) /\ Len(m) = Len(proposed) /\ Pieces!IsInjective(m)
    BY DEF Pieces!CheckIsExact
  <2>1. m \in Seq(Row)
    BY DEF Pieces!PiecesAssumption, Row
  <2> QED BY <1>1, <2>1, PassesMeans
<1>3. Pieces!NotificationsOpen
  <2> SUFFICES ASSUME NEW k \in 1 .. Len(fetched), NEW piece \in Pieces!ToSet(fetched)
               PROVE  Pieces!Opens(Pieces!Notification(Pieces!Rows(fetched), k - 1), piece) <=> piece = Pieces!Rows(fetched)[k]
    BY DEF Pieces!NotificationsOpen
  <2> DEFINE R == Pieces!Rows(fetched)
  <2>1. fetched # <<>>
    BY DEF Pieces!ToSet
  <2>2. fetched \in Seq(Row) /\ deal = Pieces!DealOf(proposed) /\ R = Pieces!Rows(proposed)
    BY <2>1, FetchedIsProposed
  <2>3. R \in Seq(Row) /\ Len(R) = Len(fetched)
    BY <2>2, RowsAre
  <2>4. piece \in Row
    BY <2>2 DEF Pieces!ToSet
  <2>5. deal = [hash |-> Pieces!Commitment(R), size |-> Pieces!SizeBytes(R)]
    BY <2>2 DEF Pieces!DealOf
  <2>6. k - 1 \in 0 .. Len(R) - 1 /\ (k - 1) + 1 = k
    BY <2>2, <2>3
  <2> HIDE DEF R
  <2>7. Pieces!Opens(Pieces!Notification(R, k - 1), piece) <=> piece = R[(k - 1) + 1]
    BY <2>3, <2>4, <2>5, <2>6, OpensMeans
  <2> QED BY <2>6, <2>7 DEF R
<1>4. Pieces!WholeWhenFull
  <2> DEFINE places == {a[1] : a \in accepted}
             laid == {a[2] : a \in accepted}
             R == Pieces!Rows(proposed)
             n == Len(proposed)
  <2> SUFFICES ASSUME places = 0 .. n - 1
               PROVE  laid = Pieces!ToSet(proposed) /\ Pieces!SizeBytes(Pieces!SetToSeq(laid)) = deal.size
    BY DEF Pieces!WholeWhenFull
  <2>1. CASE proposed = <<>>
    <3>1. n = 0 /\ deal = Pieces!NoDeal
      BY <2>1 DEF Pieces!PiecesSound
    <3>2. accepted = {}
      <4>1. places = {}
        BY <3>1
      <4> QED BY <4>1
    <3>3. laid = {} /\ Pieces!ToSet(proposed) = {}
      BY <2>1, <3>2 DEF Pieces!ToSet
    <3>4. Pieces!SizeBytes(Pieces!SetToSeq({})) = 0
      <4>1. {} \subseteq Row /\ IsFiniteSet({}) /\ {} \in SUBSET {}
        BY FS_EmptySet
      <4> DEFINE s == Pieces!SetToSeq({})
      <4>2. s \in Seq(Row) /\ Pieces!IsInjective(s) /\ Pieces!ToSet(s) = {}
        BY <4>1, Enumerated
      <4> HIDE DEF s
      <4>3. Pieces!SizeBytes(s) = SumFunctionOnSet(Sizes({}), {})
        BY <4>2, BytesOfSet
      <4>4. Sizes({}) \in [{} -> Nat]
        BY DEF Sizes
      <4>5. SumFunctionOnSet(Sizes({}), {}) = 0
        BY <4>1, <4>4, SumOneByOne
      <4> QED BY <4>3, <4>5 DEF s
    <3> QED BY <3>1, <3>3, <3>4 DEF Pieces!NoDeal
  <2>2. CASE proposed # <<>>
    <3>1. proposed \in Seq(Row) /\ Pieces!Valid(proposed) /\ deal = Pieces!DealOf(proposed)
      BY <2>2 DEF Pieces!PiecesSound, Pieces!PiecesAssumption, Row
    <3>2. R \in Seq(Row) /\ Len(R) = n /\ Pieces!ToSet(R) = Pieces!ToSet(proposed) /\ Pieces!IsInjective(R) /\ n \in Nat
      BY <3>1, RowsAre, RowsInOrder, ValidListsOnce
    <3>3. \A a \in accepted : a[1] \in 0 .. n - 1 /\ a[2] = R[a[1] + 1]
      BY DEF Pieces!PiecesSound, Pieces!PlacedInRow
    <3> HIDE DEF R
    <3>4. laid = Pieces!ToSet(R)
      <4>1. ASSUME NEW a \in accepted PROVE a[2] \in Pieces!ToSet(R)
        <5>1. a[1] + 1 \in DOMAIN R
          BY <3>2, <3>3
        <5> QED BY <3>3, <5>1 DEF Pieces!ToSet
      <4>2. ASSUME NEW k \in DOMAIN R PROVE R[k] \in laid
        <5>1. k - 1 \in places /\ (k - 1) + 1 = k
          <6>1. k \in 1 .. n
            BY <3>2
          <6> HIDE DEF n, places
          <6>2. k - 1 \in 0 .. n - 1 /\ (k - 1) + 1 = k
            BY <3>2, <6>1
          <6> QED BY <6>2
        <5>2. PICK a \in accepted : a[1] = k - 1
          BY <5>1
        <5> QED BY <3>3, <5>1, <5>2
      <4> QED BY <4>1, <4>2 DEF Pieces!ToSet
    <3>5. IsFiniteSet(laid) /\ laid \subseteq Row
      <4>1. R \in Surjection(DOMAIN R, Pieces!ToSet(R)) /\ DOMAIN R = 1 .. n /\ \A k \in DOMAIN R : R[k] \in Row
        BY <3>2 DEF Surjection, Pieces!ToSet
      <4>2. IsFiniteSet(Pieces!ToSet(R))
        <5>1. IsFiniteSet(DOMAIN R)
          BY <3>2, <4>1, FS_Interval
        <5> QED BY <4>1, <5>1, FS_Surjection
      <4> QED BY <3>4, <4>1, <4>2 DEF Pieces!ToSet
    <3> HIDE DEF laid
    <3>6. Pieces!SizeBytes(Pieces!SetToSeq(laid)) = Pieces!SizeBytes(R)
      BY <3>2, <3>4, <3>5, Enumerated, BytesOfSet
    <3>7. deal.size = Pieces!SizeBytes(R)
      BY <3>1 DEF Pieces!DealOf, R
    <3> QED BY <3>2, <3>4, <3>6, <3>7
  <2> QED BY <2>1, <2>2
<1> QED BY <1>2, <1>3, <1>4 DEF Pieces!SetIsExact

LEMMA PiecesStaySound ==
  ASSUME Pieces!PiecesAssumption, Pieces!PiecesSound, [Pieces!Next]_(Pieces!vars)
  PROVE  Pieces!PiecesSound'
<1>1. ASSUME NEW m \in Manifests, Pieces!Propose(m) PROVE Pieces!PiecesSound'
  <2>1. deal = Pieces!NoDeal /\ Pieces!Valid(m) /\ deal' = Pieces!DealOf(m) /\ proposed' = m /\ fetched' = fetched /\ accepted' = accepted
    BY <1>1 DEF Pieces!Propose, Pieces!DealOf
  <2>2. proposed = <<>> /\ fetched = <<>>
    BY <2>1, DealIsOne DEF Pieces!PiecesSound
  <2>3. accepted = {}
    BY <2>2 DEF Pieces!PiecesSound, Pieces!PlacedInRow
  <2>4. m # <<>>
    BY <2>1 DEF Pieces!Valid
  <2>5. fetched' = <<>> /\ accepted' = {}
    BY <2>1, <2>2, <2>3
  <2> QED BY <2>1, <2>4, <2>5 DEF Pieces!PiecesSound
<1>2. ASSUME NEW m \in Manifests, Pieces!Fetch(m) PROVE Pieces!PiecesSound'
  <2>1. deal # Pieces!NoDeal /\ fetched' = (IF Pieces!Passes(m) THEN m ELSE <<>>) /\ deal' = deal /\ proposed' = proposed /\ accepted' = accepted
    BY <1>2 DEF Pieces!Fetch
  <2>2. fetched' # <<>> => fetched' = m /\ Pieces!Passes(m)
    BY <2>1
  <2>3. fetched' # <<>> => Pieces!Passes(fetched)'
    BY <2>1, <2>2 DEF Pieces!Passes
  <2>4. \A a \in accepted' : Pieces!PlacedInRow(a)'
    BY <2>1 DEF Pieces!PiecesSound, Pieces!PlacedInRow
  <2> QED BY <2>1, <2>2, <2>3, <2>4 DEF Pieces!PiecesSound
<1>3. ASSUME NEW index \in 0 .. Len(fetched) - 1, NEW piece \in Pieces!ToSet(fetched), Pieces!Notify(index, piece) PROVE Pieces!PiecesSound'
  <2>1. Pieces!Opens(Pieces!Notification(Pieces!Rows(fetched), index), piece) /\ accepted' = accepted \union {<<index, piece>>} /\ UNCHANGED <<deal, proposed, fetched>>
    BY <1>3 DEF Pieces!Notify
  <2>2. fetched # <<>>
    BY <1>3 DEF Pieces!ToSet
  <2>3. fetched \in Seq(Row) /\ Pieces!Rows(fetched) = Pieces!Rows(proposed) /\ Len(fetched) = Len(proposed) /\ Pieces!SetIsExact
    BY <2>2, FetchedIsProposed, SoundMeansExact
  <2>4. index + 1 \in 1 .. Len(fetched) /\ (index + 1) - 1 = index
    BY <2>3
  <2>5. piece = Pieces!Rows(fetched)[index + 1]
    BY <1>3, <2>1, <2>3, <2>4 DEF Pieces!SetIsExact, Pieces!NotificationsOpen
  <2>6. Pieces!PlacedInRow(<<index, piece>>)
    BY <1>3, <2>3, <2>5 DEF Pieces!PlacedInRow
  <2>7. \A a \in accepted' : Pieces!PlacedInRow(a)'
    BY <2>1, <2>6 DEF Pieces!PiecesSound, Pieces!PlacedInRow
  <2>8. fetched' # <<>> => deal' # Pieces!NoDeal /\ fetched' \in Manifests /\ Pieces!Passes(fetched)'
    BY <2>1 DEF Pieces!PiecesSound, Pieces!Passes
  <2> QED BY <2>1, <2>7, <2>8 DEF Pieces!PiecesSound
<1>4. ASSUME UNCHANGED Pieces!vars PROVE Pieces!PiecesSound'
  BY <1>4 DEF Pieces!PiecesSound, Pieces!PlacedInRow, Pieces!Passes, Pieces!vars
<1> QED BY <1>1, <1>2, <1>3, <1>4 DEF Pieces!Next

LEMMA PiecesInit == Pieces!Init => Pieces!PiecesSound
BY DEF Pieces!Init, Pieces!PiecesSound

-----------------------------------------------------------------------------
(* The composition takes a step of one function at a time, and none of the  *)
(* others.                                                                  *)

LEMMA MarketInHelpers == HelpersSpec => Market!Spec
<1>1. HelpersInit => Market!Init
  BY DEF HelpersInit
<1>2. [HelpersNext]_all => [Market!Next]_(Market!vars)
  BY DEF HelpersNext, AdapterNext, MarketNext, NoncesNext, PiecesNext, CidsNext, MoneyNext, StatusNext, SourceNext,
         all, market, Market!vars
<1> QED BY <1>1, <1>2, PTL DEF HelpersSpec, Market!Spec

LEMMA SourceInHelpers == HelpersSpec => Source!Spec
<1>1. HelpersInit => Source!Init
  BY DEF HelpersInit
<1>2. [HelpersNext]_all => [Source!Next]_(Source!vars)
  BY DEF HelpersNext, AdapterNext, MarketNext, NoncesNext, PiecesNext, CidsNext, MoneyNext, StatusNext, SourceNext,
         all, source, Source!vars
<1> QED BY <1>1, <1>2, PTL DEF HelpersSpec, Source!Spec

(* However long the reads take, for lists of any length and pages of any    *)
(* size: a read of the market lacks at most one deal for each that left the *)
(* part of a list it had read while it was in the rest, and the plan of an  *)
(* adoption lacks no claim.                                                 *)
THEOREM ReadsMissOnlyShifted == HelpersSpec => []MissedOnlyByShifts
<1>1. Market!ReadSound => Market!MissedOnlyByShifts
  BY DEF Market!ReadSound
<1>2. Source!PlanSound => Source!PlanWhole
  BY DEF Source!PlanSound
<1>3. Market!Spec => []Market!MissedOnlyByShifts
  BY <1>1, MarketInit, MarketStep, PTL DEF Market!Spec
<1>4. Source!Spec => []Source!PlanWhole
  BY <1>2, PlanInit, PlanStep, PTL DEF Source!Spec
<1> QED BY <1>3, <1>4, MarketInHelpers, SourceInHelpers, PTL DEF MissedOnlyByShifts

LEMMA PiecesInHelpers == HelpersSpec => Pieces!Spec
<1>1. HelpersInit => Pieces!Init
  BY DEF HelpersInit
<1>2. [HelpersNext]_all => [Pieces!Next]_(Pieces!vars)
  BY DEF HelpersNext, AdapterNext, MarketNext, NoncesNext, PiecesNext, CidsNext, MoneyNext, StatusNext, SourceNext,
         all, pieces, Pieces!vars
<1> QED BY <1>1, <1>2, PTL DEF HelpersSpec, Pieces!Spec

(* Whatever the client and the SP hold: exactly the listings of the pieces  *)
(* of the deal pass the check of get-piece-notifications and onboard-data,  *)
(* the notification of a piece opens the commitment for no other piece, and *)
(* a deal with a piece under each index is whole.                           *)
THEOREM PiecesAreExact == HelpersSpec => []PiecesExact
<1>1. Pieces!PiecesAssumption
  BY ManifestsOfPieces DEF ManifestsOfPieces
<1>2. Pieces!PiecesSound => PiecesExact
  BY <1>1, SoundMeansExact DEF PiecesExact
<1>3. Pieces!PiecesSound /\ [Pieces!Next]_(Pieces!vars) => Pieces!PiecesSound'
  BY <1>1, PiecesStaySound
<1> QED BY <1>2, <1>3, PiecesInit, PiecesInHelpers, PTL DEF Pieces!Spec

LEMMA AdapterInHelpers == HelpersSpec => Spec
<1>1. HelpersInit => Init
  BY DEF HelpersInit
<1>2. [HelpersNext]_all => [Next]_vars
  BY DEF HelpersNext, AdapterNext, MarketNext, NoncesNext, PiecesNext, CidsNext, MoneyNext, StatusNext, SourceNext, all
<1> QED BY <1>1, <1>2, PTL DEF HelpersSpec, Spec

LEMMA StatusInHelpers == HelpersSpec => Status!Spec
<1>1. HelpersInit => Status!Init
  BY DEF HelpersInit
<1>2. [HelpersNext]_all => [Status!Next]_(Status!vars)
  BY DEF HelpersNext, AdapterNext, MarketNext, NoncesNext, PiecesNext, CidsNext, MoneyNext, StatusNext, SourceNext,
         all, status, Status!vars
<1> QED BY <1>1, <1>2, PTL DEF HelpersSpec, Status!Spec

LEMMA NoncesInHelpers ==
  /\ HelpersInit => Nonces!ReadsBehind
  /\ [HelpersNext]_all => [Nonces!Next]_(Nonces!vars)
<1>1. ASSUME HelpersInit, part # "nonces" PROVE Nonces!ReadsBehind
  BY <1>1 DEF HelpersInit, Nonces!ReadsBehind, Nonces!TypeOK, Nonces!Call, Nonces!At, Nonces!NonceNeverAhead, Nonces!Modes
<1>2. ASSUME HelpersInit, part = "nonces" PROVE Nonces!ReadsBehind
  <2>1. Nonces!Init
    BY <1>2 DEF HelpersInit
  <2> QED BY <2>1, BehindInit, CountsAreNumbers DEF CountsAreNumbers
<1>3. [HelpersNext]_all => [Nonces!Next]_(Nonces!vars)
  BY DEF HelpersNext, AdapterNext, MarketNext, NoncesNext, PiecesNext, CidsNext, MoneyNext, StatusNext, SourceNext,
         all, nonces, Nonces!vars
<1> QED BY <1>1, <1>2, <1>3

-----------------------------------------------------------------------------
(* Powers, lengths in bits, and quotients.                                  *)

LEMMA TimesIn == ASSUME NEW x \in Nat, NEW y \in Nat PROVE x * y \in Nat
OBVIOUS
LEMMA TimesPos == ASSUME NEW x \in Nat \ {0}, NEW y \in Nat \ {0} PROVE x * y \in Nat \ {0}
OBVIOUS
LEMMA MulLess == ASSUME NEW x \in Int, NEW y \in Int, NEW z \in Nat \ {0} PROVE x < y <=> x * z < y * z
OBVIOUS
LEMMA MulLeq == ASSUME NEW x \in Int, NEW y \in Int, NEW z \in Nat, x <= y PROVE x * z <= y * z
OBVIOUS
LEMMA CancelEq == ASSUME NEW x \in Int, NEW y \in Int, NEW z \in Nat \ {0}, x * z = y * z PROVE x = y
OBVIOUS
LEMMA Assoc == ASSUME NEW x \in Int, NEW y \in Int, NEW z \in Int PROVE (x * y) * z = x * (y * z) /\ x * y = y * x
OBVIOUS
LEMMA DivMod ==
  ASSUME NEW a \in Nat, NEW b \in Nat \ {0}
  PROVE  a = (a \div b) * b + (a % b) /\ a % b \in 0 .. b - 1 /\ a \div b \in Nat
OBVIOUS

(* The recursive function behind Power, and what it is up to n              *)
Raising(b, f) == f = [k \in Nat |-> IF k = 0 THEN 1 ELSE b * f[k - 1]]
Raised(b, f, n) == f[0] = 1 /\ \A k \in 0 .. n : f[k] \in Nat /\ (k # 0 => f[k] = b * f[k - 1])

LEMMA RaisedExists == ASSUME NEW b \in Nat, NEW n \in Nat PROVE \E f : Raised(b, f, n)
<1> DEFINE next == [x \in Nat |-> b * x]
<1>1. next \in [Nat -> Nat] /\ 1 \in Nat
  OBVIOUS
<1> HIDE DEF next
<1>2. PICK f : /\ \A d \in 0 .. n : f[d] \in Nat
               /\ f = [d \in 0 .. n |-> IF d = 0 THEN 1 ELSE next[f[d - 1]]]
  BY <1>1, InTurn
<1>3. f[0] = 1
  BY <1>2
<1>4. ASSUME NEW k \in 0 .. n PROVE f[k] \in Nat /\ (k # 0 => f[k] = b * f[k - 1])
  <2>1. f[k] \in Nat
    BY <1>2
  <2>2. ASSUME k # 0 PROVE f[k] = b * f[k - 1]
    <3>1. k - 1 \in 0 .. n
      BY <2>2
    <3>2. f[k] = next[f[k - 1]] /\ f[k - 1] \in Nat
      BY <1>2, <2>2, <3>1
    <3> QED BY <3>2 DEF next
  <2> QED BY <2>1, <2>2
<1> QED BY <1>3, <1>4 DEF Raised

LEMMA RaisedIsOne ==
  ASSUME NEW b \in Nat, NEW n \in Nat, NEW m \in Nat, n <= m, NEW f, NEW g, Raised(b, f, n), Raised(b, g, m)
  PROVE  \A k \in 0 .. n : f[k] = g[k]
<1> DEFINE good == {k \in Nat : k \in 0 .. n => f[k] = g[k]}
<1>1. 0 \in good
  BY DEF Raised
<1>2. ASSUME NEW k \in good PROVE k + 1 \in good
  <2>1. ASSUME k + 1 \in 0 .. n PROVE f[k + 1] = g[k + 1]
    <3>1. k \in 0 .. n /\ k + 1 \in 0 .. m /\ k + 1 # 0 /\ (k + 1) - 1 = k
      BY <2>1
    <3>2. f[k + 1] = b * f[(k + 1) - 1] /\ g[k + 1] = b * g[(k + 1) - 1]
      BY <2>1, <3>1 DEF Raised
    <3> QED BY <3>1, <3>2
  <2> QED BY <2>1
<1>3. good = Nat
  <2> HIDE DEF good
  <2> QED BY <1>1, <1>2, AllNumbers DEF good
<1> QED BY <1>3

LEMMA RaisingExists == ASSUME NEW b \in Nat PROVE \E f : Raising(b, f)
<1> DEFINE Pre(n) == CHOOSE f : Raised(b, f, n)
           g == [k \in Nat |-> Pre(k)[k]]
<1>1. ASSUME NEW n \in Nat PROVE Raised(b, Pre(n), n)
  BY RaisedExists
<1> HIDE DEF Pre
<1>2. ASSUME NEW k \in Nat PROVE g[k] = IF k = 0 THEN 1 ELSE b * g[k - 1]
  <2>1. CASE k = 0
    BY <1>1, <2>1 DEF Raised
  <2>2. CASE k # 0
    <3>1. k - 1 \in Nat /\ k - 1 \in 0 .. k - 1 /\ k - 1 <= k /\ k \in 0 .. k
      BY <2>2
    <3>2. Raised(b, Pre(k), k) /\ Raised(b, Pre(k - 1), k - 1)
      BY <1>1, <3>1
    <3>3. Pre(k - 1)[k - 1] = Pre(k)[k - 1]
      BY <3>1, <3>2, RaisedIsOne
    <3>4. Pre(k)[k] = b * Pre(k)[k - 1]
      BY <2>2, <3>1, <3>2 DEF Raised
    <3> QED BY <2>2, <3>1, <3>3, <3>4
  <2> QED BY <2>1, <2>2
<1>3. g = [k \in Nat |-> IF k = 0 THEN 1 ELSE b * g[k - 1]]
  <2>1. g = [k \in Nat |-> g[k]]
    OBVIOUS
  <2> HIDE DEF g
  <2> QED BY <1>2, <2>1
<1> HIDE DEF g
<1> QED BY <1>3 DEF Raising

(* A power is the one before it times the base.                             *)
LEMMA PowerIs ==
  ASSUME NEW b \in Nat
  PROVE  Money!Power(b, 0) = 1 /\ \A k \in Nat : Money!Power(b, k) \in Nat /\ Money!Power(b, k + 1) = b * Money!Power(b, k)
<1> DEFINE F == CHOOSE f : Raising(b, f)
<1>1. Raising(b, F)
  BY RaisingExists
<1>2. ASSUME NEW n PROVE Money!Power(b, n) = F[n]
  BY DEF Money!Power, Raising
<1> HIDE DEF F
<1>3. \A k \in Nat : F[k] = IF k = 0 THEN 1 ELSE b * F[k - 1]
  BY <1>1 DEF Raising
<1>4. Money!Power(b, 0) = 1
  BY <1>2, <1>3
<1>5. ASSUME NEW k \in Nat PROVE Money!Power(b, k + 1) = b * Money!Power(b, k)
  <2>1. k + 1 \in Nat /\ k + 1 # 0 /\ (k + 1) - 1 = k
    OBVIOUS
  <2>2. F[k + 1] = b * F[(k + 1) - 1]
    BY <1>3, <2>1
  <2> QED BY <1>2, <2>1, <2>2
<1> DEFINE good == {k \in Nat : Money!Power(b, k) \in Nat}
<1>6. 0 \in good
  BY <1>4
<1>7. ASSUME NEW k \in good PROVE k + 1 \in good
  BY <1>5
<1>8. good = Nat
  <2> HIDE DEF good
  <2> QED BY <1>6, <1>7, AllNumbers DEF good
<1> QED BY <1>4, <1>5, <1>8

LEMMA PowerPos == ASSUME NEW b \in Nat \ {0}, NEW n \in Nat PROVE Money!Power(b, n) \in Nat \ {0}
<1> DEFINE good == {k \in Nat : Money!Power(b, k) \in Nat \ {0}}
<1>0. b \in Nat
  OBVIOUS
<1>1. 0 \in good
  BY <1>0, PowerIs
<1>2. ASSUME NEW k \in good PROVE k + 1 \in good
  <2>1. Money!Power(b, k + 1) = b * Money!Power(b, k) /\ Money!Power(b, k) \in Nat \ {0}
    BY <1>0, PowerIs
  <2> QED BY <2>1, TimesPos
<1>3. good = Nat
  <2> HIDE DEF good
  <2> QED BY <1>1, <1>2, AllNumbers DEF good
<1> QED BY <1>3

(* b^(m + n) = b^m * b^n                                                    *)
LEMMA PowerAdds ==
  ASSUME NEW b \in Nat, NEW m \in Nat, NEW n \in Nat
  PROVE  Money!Power(b, m + n) = Money!Power(b, m) * Money!Power(b, n)
<1> DEFINE good == {k \in Nat : Money!Power(b, m + k) = Money!Power(b, m) * Money!Power(b, k)}
<1>1. 0 \in good
  <2>1. Money!Power(b, 0) = 1 /\ Money!Power(b, m) \in Nat /\ m + 0 = m
    BY PowerIs
  <2> QED BY <2>1
<1>2. ASSUME NEW k \in good PROVE k + 1 \in good
  <2>1. m + (k + 1) = (m + k) + 1 /\ m + k \in Nat
    OBVIOUS
  <2>2. Money!Power(b, (m + k) + 1) = b * Money!Power(b, m + k) /\ Money!Power(b, k + 1) = b * Money!Power(b, k)
    BY <2>1, PowerIs
  <2>3. Money!Power(b, m) \in Nat /\ Money!Power(b, k) \in Nat
    BY PowerIs
  <2>4. b * (Money!Power(b, m) * Money!Power(b, k)) = Money!Power(b, m) * (b * Money!Power(b, k))
    BY <2>3, Assoc
  <2> QED BY <2>1, <2>2, <2>4
<1>3. good = Nat
  <2> HIDE DEF good
  <2> QED BY <1>1, <1>2, AllNumbers DEF good
<1> QED BY <1>3

LEMMA TwoPower ==
  ASSUME NEW k \in Nat
  PROVE  Money!Power(2, k) \in Nat \ {0} /\ Money!Power(2, k + 1) = 2 * Money!Power(2, k) /\ Money!Power(2, 0) = 1 /\ k < Money!Power(2, k)
<1>1. 2 \in Nat /\ 2 \in Nat \ {0}
  OBVIOUS
<1>2. \A m \in Nat : Money!Power(2, m) \in Nat \ {0} /\ Money!Power(2, m + 1) = 2 * Money!Power(2, m)
  BY <1>1, PowerIs, PowerPos
<1>3. Money!Power(2, 0) = 1
  BY <1>1, PowerIs
<1> DEFINE good == {m \in Nat : m < Money!Power(2, m)}
<1>4. 0 \in good
  BY <1>3
<1>5. ASSUME NEW m \in good PROVE m + 1 \in good
  BY <1>2
<1>6. good = Nat
  <2> HIDE DEF good
  <2> QED BY <1>4, <1>5, AllNumbers DEF good
<1> QED BY <1>2, <1>3, <1>6

LEMMA TwoGrows == ASSUME NEW m \in Nat, NEW n \in Nat, m <= n PROVE Money!Power(2, m) <= Money!Power(2, n)
<1>1. n - m \in Nat /\ m + (n - m) = n
  OBVIOUS
<1>2. Money!Power(2, n) = Money!Power(2, m) * Money!Power(2, n - m)
  BY <1>1, PowerAdds
<1>3. Money!Power(2, m) \in Nat \ {0} /\ Money!Power(2, n - m) \in Nat \ {0}
  BY <1>1, TwoPower
<1> QED BY <1>2, <1>3

(* m has l bits; the recursive function behind BitLength                    *)
Long(m, l) == m < Money!Power(2, l) /\ (l > 0 => Money!Power(2, l - 1) <= m)
Halving(f) == f = [m \in Nat |-> IF m = 0 THEN 0 ELSE f[m \div 2] + 1]

LEMMA LongIsOne ==
  ASSUME NEW m \in Nat
  PROVE  /\ \E l \in Nat : Long(m, l)
         /\ \A k, l \in Nat : Long(m, k) /\ Long(m, l) => k = l
<1>1. \E l \in Nat : Long(m, l)
  <2> DEFINE enough == {l \in Nat : m < Money!Power(2, l)}
  <2>1. m \in enough
    BY TwoPower
  <2>2. PICK l \in enough : \A k \in enough : l <= k
    BY <2>1, LeastIsThere
  <2>3. ASSUME l > 0 PROVE Money!Power(2, l - 1) <= m
    <3>1. l - 1 \in Nat /\ l - 1 \notin enough
      BY <2>2, <2>3
    <3> QED BY <3>1, TwoPower
  <2> QED BY <2>2, <2>3 DEF Long
<1>2. ASSUME NEW k \in Nat, NEW l \in Nat, Long(m, k), Long(m, l), k < l PROVE FALSE
  <2>1. l - 1 \in Nat /\ k <= l - 1 /\ l > 0
    BY <1>2
  <2>2. Money!Power(2, k) <= Money!Power(2, l - 1) /\ Money!Power(2, k) \in Nat /\ Money!Power(2, l - 1) \in Nat
    BY <2>1, TwoGrows, TwoPower
  <2> QED BY <1>2, <2>1, <2>2 DEF Long
<1> QED BY <1>1, <1>2

LEMMA LongHalf == ASSUME NEW m \in Nat \ {0}, NEW l \in Nat, Long(m \div 2, l) PROVE Long(m, l + 1)
<1>1. m \div 2 \in Nat /\ 2 * (m \div 2) <= m /\ m <= 2 * (m \div 2) + 1
  OBVIOUS
<1>2. Money!Power(2, l + 1) = 2 * Money!Power(2, l) /\ Money!Power(2, l) \in Nat /\ (l + 1) - 1 = l
  BY TwoPower
<1>3. Money!Power(2, l) <= m
  <2>1. CASE l = 0
    BY <2>1, TwoPower
  <2>2. CASE l > 0
    <3>1. l - 1 \in Nat /\ (l - 1) + 1 = l
      BY <2>2
    <3>2. Money!Power(2, l) = 2 * Money!Power(2, l - 1) /\ Money!Power(2, l - 1) \in Nat
      BY <3>1, TwoPower
    <3> QED BY <1>1, <2>2, <3>2 DEF Long
  <2> QED BY <2>1, <2>2
<1> QED BY <1>1, <1>2, <1>3 DEF Long

LEMMA HalvingExists == \E f : Halving(f)
<1> DEFINE f == [m \in Nat |-> CHOOSE l \in Nat : Long(m, l)]
<1>1. ASSUME NEW m \in Nat PROVE f[m] \in Nat /\ Long(m, f[m])
  BY LongIsOne
<1>2. ASSUME NEW m \in Nat PROVE f[m] = IF m = 0 THEN 0 ELSE f[m \div 2] + 1
  <2>1. CASE m = 0
    <3>1. Long(0, 0)
      BY TwoPower DEF Long
    <3> HIDE DEF f
    <3> QED BY <1>1, <2>1, <3>1, LongIsOne
  <2>2. CASE m # 0
    <3>1. m \div 2 \in Nat
      OBVIOUS
    <3>2. f[m \div 2] \in Nat /\ Long(m \div 2, f[m \div 2])
      BY <1>1, <3>1
    <3> HIDE DEF f
    <3>3. Long(m, f[m \div 2] + 1) /\ f[m \div 2] + 1 \in Nat
      BY <2>2, <3>2, LongHalf
    <3> QED BY <1>1, <2>2, <3>3, LongIsOne
  <2> QED BY <2>1, <2>2
<1>3. f = [m \in Nat |-> f[m]]
  OBVIOUS
<1> HIDE DEF f
<1> QED BY <1>2, <1>3 DEF Halving

LEMMA HalvingIs == ASSUME NEW f, Halving(f), NEW n \in Nat PROVE f[n] \in Nat /\ Long(n, f[n])
<1>1. \A m \in Nat : f[m] = IF m = 0 THEN 0 ELSE f[m \div 2] + 1
  BY DEF Halving
<1> DEFINE Fine(m) == f[m] \in Nat /\ Long(m, f[m])
           good == {k \in Nat : \A m \in 0 .. k : Fine(m)}
<1>2. 0 \in good
  <2>1. Long(0, 0)
    BY TwoPower DEF Long
  <2>2. f[0] = 0
    BY <1>1
  <2> QED BY <2>1, <2>2
<1>3. ASSUME NEW k \in good PROVE k + 1 \in good
  <2>1. (k + 1) \div 2 \in 0 .. k /\ k + 1 \in Nat \ {0}
    OBVIOUS
  <2>2. Fine((k + 1) \div 2)
    BY <2>1
  <2>3. f[k + 1] = f[(k + 1) \div 2] + 1
    BY <1>1, <2>1
  <2>4. Fine(k + 1)
    BY <2>1, <2>2, <2>3, LongHalf
  <2> HIDE DEF Fine
  <2> QED BY <2>4
<1>4. good = Nat
  <2> HIDE DEF good
  <2> QED BY <1>2, <1>3, AllNumbers DEF good
<1>5. n \in 0 .. n /\ n \in good
  <2> HIDE DEF good
  <2> QED BY <1>4
<1>6. Fine(n)
  <2> HIDE DEF Fine
  <2> QED BY <1>5
<1> QED BY <1>6

(* n is below 2^l, and not below 2^(l - 1), when it has l bits.             *)
LEMMA BitLengthIs ==
  ASSUME NEW n \in Nat \ {0}
  PROVE  /\ Money!BitLength(n) \in Nat \ {0}
         /\ n < Money!Power(2, Money!BitLength(n)) /\ Money!Power(2, Money!BitLength(n) - 1) <= n
<1> DEFINE f == CHOOSE g : Halving(g)
<1>1. Halving(f)
  BY HalvingExists
<1>2. Money!BitLength(n) = f[n]
  BY DEF Money!BitLength, Halving
<1> HIDE DEF f
<1>3. Money!BitLength(n) \in Nat /\ Long(n, Money!BitLength(n))
  BY <1>1, <1>2, HalvingIs
<1>4. Money!BitLength(n) # 0
  BY <1>3, TwoPower DEF Long
<1> QED BY <1>3, <1>4 DEF Long

-----------------------------------------------------------------------------
(* Doubles.                                                                 *)

(* Up(e) / Up(-e) is 2^e, and one of the two is 1.                          *)
LEMMA UpIs ==
  ASSUME NEW e \in Int
  PROVE  /\ Money!Up(e) \in Nat \ {0} /\ Money!Up(-e) \in Nat \ {0}
         /\ e >= 0 => Money!Up(e) = Money!Power(2, e) /\ Money!Up(-e) = 1
         /\ e <= 0 => Money!Up(e) = 1 /\ Money!Up(-e) = Money!Power(2, -e)
<1>1. CASE e > 0
  <2>1. e \in Nat /\ ~(-e > 0)
    BY <1>1
  <2> QED BY <1>1, <2>1, TwoPower DEF Money!Up
<1>2. CASE e < 0
  <2>1. -e \in Nat /\ -e > 0
    BY <1>2
  <2> QED BY <1>2, <2>1, TwoPower DEF Money!Up
<1>3. CASE e = 0
  <2>0. e <= 0 /\ e >= 0
    BY <1>3
  <2>1. -e = 0 /\ ~(e > 0) /\ ~(-e > 0)
    BY <2>0
  <2>2. Money!Power(2, 0) = 1 /\ 0 \in Nat
    BY TwoPower
  <2> QED BY <1>3, <2>1, <2>2 DEF Money!Up
<1> QED BY <1>1, <1>2, <1>3

LEMMA UpShift ==
  ASSUME NEW e \in Int
  PROVE  \/ Money!Up(e + 1) = 2 * Money!Up(e) /\ Money!Up(-(e + 1)) = Money!Up(-e)
         \/ Money!Up(-e) = 2 * Money!Up(-(e + 1)) /\ Money!Up(e + 1) = Money!Up(e)
<1>0. e + 1 \in Int
  OBVIOUS
<1>1. CASE e >= 0
  <2>1. e \in Nat /\ e + 1 >= 0
    BY <1>1
  <2>2. Money!Up(e) = Money!Power(2, e) /\ Money!Up(-e) = 1 /\ Money!Up(e + 1) = Money!Power(2, e + 1) /\ Money!Up(-(e + 1)) = 1
    BY <1>0, <1>1, <2>1, UpIs
  <2>3. Money!Power(2, e + 1) = 2 * Money!Power(2, e)
    BY <2>1, TwoPower
  <2> QED BY <2>2, <2>3
<1>2. CASE e < 0
  <2>1. -(e + 1) \in Nat /\ -(e + 1) + 1 = -e /\ e + 1 <= 0 /\ e <= 0
    BY <1>2
  <2>2. Money!Up(e) = 1 /\ Money!Up(-e) = Money!Power(2, -e)
    BY <2>1, UpIs
  <2>3. Money!Up(e + 1) = 1 /\ Money!Up(-(e + 1)) = Money!Power(2, -(e + 1))
    BY <1>0, <2>1, UpIs
  <2>4. Money!Power(2, -(e + 1) + 1) = 2 * Money!Power(2, -(e + 1))
    BY <2>1, TwoPower
  <2> QED BY <2>1, <2>2, <2>3, <2>4
<1> QED BY <1>1, <1>2

(* 2^(i + j) = 2^i * 2^j.                                                   *)
LEMMA UpAdds ==
  ASSUME NEW i \in Int, NEW j \in Int
  PROVE  (Money!Up(i + j) * Money!Up(-i)) * Money!Up(-j) = (Money!Up(-(i + j)) * Money!Up(i)) * Money!Up(j)
<1>0. i + j \in Int
  OBVIOUS
<1>1. CASE i >= 0 /\ j >= 0
  <2>1. i \in Nat /\ j \in Nat /\ i + j >= 0
    BY <1>1
  <2>2. /\ Money!Up(i) = Money!Power(2, i) /\ Money!Up(-i) = 1 /\ Money!Up(j) = Money!Power(2, j) /\ Money!Up(-j) = 1
        /\ Money!Up(i + j) = Money!Power(2, i + j) /\ Money!Up(-(i + j)) = 1
    BY <1>0, <1>1, <2>1, UpIs
  <2>3. Money!Power(2, i + j) = Money!Power(2, i) * Money!Power(2, j) /\ Money!Power(2, i) \in Nat /\ Money!Power(2, j) \in Nat
    BY <2>1, PowerAdds, TwoPower
  <2> QED BY <2>2, <2>3
<1>2. CASE i < 0 /\ j < 0
  <2>1. -i \in Nat /\ -j \in Nat /\ i + j <= 0 /\ -(i + j) = (-i) + (-j) /\ i <= 0 /\ j <= 0
    BY <1>2
  <2>2. /\ Money!Up(i) = 1 /\ Money!Up(-i) = Money!Power(2, -i) /\ Money!Up(j) = 1 /\ Money!Up(-j) = Money!Power(2, -j)
        /\ Money!Up(i + j) = 1 /\ Money!Up(-(i + j)) = Money!Power(2, -(i + j))
    BY <1>0, <2>1, UpIs
  <2>3. Money!Power(2, (-i) + (-j)) = Money!Power(2, -i) * Money!Power(2, -j) /\ Money!Power(2, -i) \in Nat /\ Money!Power(2, -j) \in Nat
    BY <2>1, PowerAdds, TwoPower
  <2>4. Money!Power(2, -(i + j)) = Money!Power(2, -i) * Money!Power(2, -j)
    BY <2>1, <2>3
  <2> HIDE <2>1
  <2> QED BY <2>2, <2>3, <2>4
<1>3. ASSUME NEW x \in Int, NEW y \in Int, x >= 0, y < 0
      PROVE  (Money!Up(x + y) * Money!Up(-x)) * Money!Up(-y) = (Money!Up(-(x + y)) * Money!Up(x)) * Money!Up(y)
  <2>0. x \in Nat /\ -y \in Nat /\ y <= 0 /\ x + y \in Int
    BY <1>3
  <2>1. Money!Up(x) = Money!Power(2, x) /\ Money!Up(-x) = 1 /\ Money!Up(y) = 1 /\ Money!Up(-y) = Money!Power(2, -y)
    BY <1>3, <2>0, UpIs
  <2>2. Money!Power(2, x) \in Nat /\ Money!Power(2, -y) \in Nat
    BY <2>0, TwoPower
  <2>3. CASE x + y >= 0
    <3>1. x + y \in Nat /\ (x + y) + (-y) = x
      BY <2>0, <2>3
    <3>2. Money!Up(x + y) = Money!Power(2, x + y) /\ Money!Up(-(x + y)) = 1
      BY <2>0, <2>3, UpIs
    <3>3. Money!Power(2, (x + y) + (-y)) = Money!Power(2, x + y) * Money!Power(2, -y) /\ Money!Power(2, x + y) \in Nat
      BY <2>0, <3>1, PowerAdds, TwoPower
    <3>4. Money!Power(2, x) = Money!Power(2, x + y) * Money!Power(2, -y)
      BY <3>1, <3>3
    <3> QED BY <2>1, <2>2, <3>2, <3>3, <3>4
  <2>4. CASE x + y < 0
    <3>1. -(x + y) \in Nat /\ -(x + y) + x = -y /\ x + y <= 0
      BY <2>0, <2>4
    <3>2. Money!Up(x + y) = 1 /\ Money!Up(-(x + y)) = Money!Power(2, -(x + y))
      BY <2>0, <3>1, UpIs
    <3>3. Money!Power(2, -(x + y) + x) = Money!Power(2, -(x + y)) * Money!Power(2, x) /\ Money!Power(2, -(x + y)) \in Nat
      BY <2>0, <3>1, PowerAdds, TwoPower
    <3>4. Money!Power(2, -y) = Money!Power(2, -(x + y)) * Money!Power(2, x)
      BY <3>1, <3>3
    <3> QED BY <2>1, <2>2, <3>2, <3>3, <3>4
  <2> QED BY <2>0, <2>3, <2>4
<1>4. CASE i >= 0 /\ j < 0
  BY <1>3, <1>4
<1>5. CASE i < 0 /\ j >= 0
  <2>1. (Money!Up(j + i) * Money!Up(-j)) * Money!Up(-i) = (Money!Up(-(j + i)) * Money!Up(j)) * Money!Up(i)
    BY <1>3, <1>5
  <2>2. j + i = i + j
    OBVIOUS
  <2>3. (Money!Up(i + j) * Money!Up(-j)) * Money!Up(-i) = (Money!Up(-(i + j)) * Money!Up(j)) * Money!Up(i)
    BY <2>1, <2>2
  <2>4. Money!Up(i + j) \in Nat /\ Money!Up(-(i + j)) \in Nat /\ Money!Up(i) \in Nat /\ Money!Up(-i) \in Nat /\ Money!Up(j) \in Nat /\ Money!Up(-j) \in Nat
    BY <1>0, UpIs
  <2> HIDE <2>1, <2>2
  <2>5. (Money!Up(i + j) * Money!Up(-j)) * Money!Up(-i) = (Money!Up(i + j) * Money!Up(-i)) * Money!Up(-j)
    BY <2>4
  <2>6. (Money!Up(-(i + j)) * Money!Up(j)) * Money!Up(i) = (Money!Up(-(i + j)) * Money!Up(i)) * Money!Up(j)
    BY <2>4
  <2> QED BY <2>3, <2>5, <2>6
<1> QED BY <1>1, <1>2, <1>4, <1>5

(* An integer nearest to a / b is no further from it than a half.           *)
LEMMA NearestIs ==
  ASSUME NEW a \in Nat, NEW b \in Nat \ {0}
  PROVE  /\ Money!Nearest(a, b) \in Nat
         /\ 2 * (Money!Nearest(a, b) * b) <= 2 * a + b
         /\ 2 * a <= 2 * (Money!Nearest(a, b) * b) + b
<1> DEFINE q == a \div b
           r == a % b
<1>1. a = q * b + r /\ r \in 0 .. b - 1 /\ q \in Nat
  BY DivMod
<1>2. q % 2 = 1 \/ q % 2 # 1
  OBVIOUS
<1>3. CASE 2 * r > b \/ (2 * r = b /\ q % 2 = 1)
  <2>1. Money!Nearest(a, b) = q + 1
    BY <1>3 DEF Money!Nearest
  <2> HIDE DEF q, r
  <2>2. (q + 1) * b = q * b + b /\ q * b \in Nat
    BY <1>1
  <2>3. 2 * r >= b
    BY <1>3, <1>1
  <2> QED BY <1>1, <2>1, <2>2, <2>3
<1>4. CASE ~(2 * r > b \/ (2 * r = b /\ q % 2 = 1))
  <2>1. Money!Nearest(a, b) = q
    BY <1>4 DEF Money!Nearest
  <2> HIDE DEF q, r
  <2>2. 2 * r <= b /\ q * b \in Nat
    BY <1>4, <1>1
  <2> QED BY <1>1, <2>1, <2>2
<1> QED BY <1>3, <1>4

(* The double nearest to a / b has a full mantissa, and is as near to it as *)
(* half of its last bit.                                                    *)
DoubleOf(a, b, x) ==
  /\ x.m \in Nat /\ x.e \in Int
  /\ Money!Power(2, Mantissa - 1) * (b * Money!Up(x.e)) <= a * Money!Up(-x.e)
  /\ 2 * (x.m * (b * Money!Up(x.e))) <= 2 * (a * Money!Up(-x.e)) + b * Money!Up(x.e)
  /\ 2 * (a * Money!Up(-x.e)) <= 2 * (x.m * (b * Money!Up(x.e))) + b * Money!Up(x.e)

LEMMA DoubleIs ==
  ASSUME Mantissa \in Nat \ {0}, NEW a \in Nat \ {0}, NEW b \in Nat \ {0}
  PROVE  DoubleOf(a, b, Money!Double(a, b))
<1> DEFINE M == Money!Power(2, Mantissa - 1)
           la == Money!BitLength(a)
           lb == Money!BitLength(b)
           e0 == la - lb - Mantissa
           Fits == (a * Money!Up(-e0)) \div (b * Money!Up(e0)) < Money!Power(2, Mantissa)
           e == IF Fits THEN e0 ELSE e0 + 1
<1>3. Money!Double(a, b) = [m |-> Money!Nearest(a * Money!Up(-e), b * Money!Up(e)), e |-> e]
  BY DEF Money!Double
<1> HIDE DEF Fits, e, M
<1>1. la \in Nat \ {0} /\ lb \in Nat \ {0} /\ Money!Power(2, la - 1) <= a /\ b < Money!Power(2, lb)
  BY BitLengthIs
<1>2. e0 \in Int /\ Mantissa - 1 \in Nat /\ M \in Nat \ {0}
  BY <1>1, TwoPower DEF M
<1> HIDE DEF la, lb
<1>4. Money!Power(2, Mantissa) = 2 * M
  <2>1. (Mantissa - 1) + 1 = Mantissa
    OBVIOUS
  <2> QED BY <1>2, <2>1, TwoPower DEF M
<1>5. Money!Up(e0) \in Nat \ {0} /\ Money!Up(-e0) \in Nat \ {0}
  BY <1>2, UpIs
<1>6. Money!Power(2, la - 1) * Money!Up(-e0) = M * (Money!Power(2, lb) * Money!Up(e0))
  <2>1. la - 1 \in Nat /\ lb \in Nat
    BY <1>1
  <2>2. Money!Power(2, (Mantissa - 1) + lb) = M * Money!Power(2, lb)
    BY <1>2, <2>1, PowerAdds DEF M
  <2>3. M \in Nat /\ Money!Power(2, lb) \in Nat /\ Money!Power(2, la - 1) \in Nat
    BY <1>2, <2>1, TwoPower
  <2>4. CASE e0 >= 0
    <3>1. e0 \in Nat /\ (Mantissa - 1) + lb \in Nat /\ ((Mantissa - 1) + lb) + e0 = la - 1
      BY <1>1, <1>2, <2>4
    <3>2. Money!Up(e0) = Money!Power(2, e0) /\ Money!Up(-e0) = 1
      BY <1>2, <2>4, UpIs
    <3>3. Money!Power(2, ((Mantissa - 1) + lb) + e0) = Money!Power(2, (Mantissa - 1) + lb) * Money!Power(2, e0) /\ Money!Power(2, e0) \in Nat
      BY <3>1, PowerAdds, TwoPower
    <3>4. Money!Power(2, la - 1) = (M * Money!Power(2, lb)) * Money!Power(2, e0)
      BY <2>2, <3>1, <3>3
    <3> HIDE DEF e0
    <3> QED BY <2>3, <3>2, <3>3, <3>4, Assoc
  <2>5. CASE e0 < 0
    <3>1. -e0 \in Nat /\ (Mantissa - 1) + lb = (la - 1) + (-e0) /\ e0 <= 0
      BY <1>1, <1>2, <2>5
    <3>2. Money!Up(e0) = 1 /\ Money!Up(-e0) = Money!Power(2, -e0)
      BY <1>2, <3>1, UpIs
    <3>3. Money!Power(2, (la - 1) + (-e0)) = Money!Power(2, la - 1) * Money!Power(2, -e0) /\ Money!Power(2, -e0) \in Nat
      BY <2>1, <3>1, PowerAdds, TwoPower
    <3>4. M * Money!Power(2, lb) = Money!Power(2, la - 1) * Money!Power(2, -e0)
      BY <2>2, <3>1, <3>3
    <3> HIDE DEF e0
    <3> QED BY <2>3, <3>2, <3>3, <3>4
  <2> QED BY <1>2, <2>4, <2>5
<1>7. M * (b * Money!Up(e0)) <= a * Money!Up(-e0)
  <2>1. lb \in Nat /\ la - 1 \in Nat
    BY <1>1
  <2>2. Money!Power(2, lb) \in Nat /\ Money!Power(2, la - 1) \in Nat
    BY <2>1, TwoPower
  <2> HIDE DEF e0
  <2>3. Money!Power(2, la - 1) * Money!Up(-e0) <= a * Money!Up(-e0)
    BY <1>1, <1>5, <2>2, MulLeq
  <2>4. b * Money!Up(e0) <= Money!Power(2, lb) * Money!Up(e0)
    BY <1>1, <1>5, <2>2, MulLeq
  <2>5. b * Money!Up(e0) \in Nat /\ Money!Power(2, lb) * Money!Up(e0) \in Nat /\ a * Money!Up(-e0) \in Nat
    BY <1>5, <2>2, TimesIn
  <2>6. (b * Money!Up(e0)) * M <= (Money!Power(2, lb) * Money!Up(e0)) * M
    BY <1>2, <2>4, <2>5, MulLeq
  <2>7. M * (b * Money!Up(e0)) <= M * (Money!Power(2, lb) * Money!Up(e0))
    BY <1>2, <2>5, <2>6, Assoc
  <2>8. M * (b * Money!Up(e0)) \in Nat /\ M * (Money!Power(2, lb) * Money!Up(e0)) \in Nat
    BY <1>2, <2>5, TimesIn
  <2> QED BY <1>6, <2>3, <2>5, <2>7, <2>8
<1>8. e \in Int /\ M * (b * Money!Up(e)) <= a * Money!Up(-e)
  <2>1. CASE Fits
    BY <1>2, <1>7, <2>1 DEF e
  <2>2. CASE ~Fits
    <3>1. e = e0 + 1
      BY <2>2 DEF e
    <3>2. b * Money!Up(e0) \in Nat \ {0} /\ a * Money!Up(-e0) \in Nat
      BY <1>5, TimesPos
    <3>3. (a * Money!Up(-e0)) \div (b * Money!Up(e0)) \in Nat /\ 2 * M <= (a * Money!Up(-e0)) \div (b * Money!Up(e0))
      <4>1. (a * Money!Up(-e0)) \div (b * Money!Up(e0)) \in Nat
        BY <3>2, DivMod
      <4>2. ~((a * Money!Up(-e0)) \div (b * Money!Up(e0)) < 2 * M)
        BY <1>4, <2>2 DEF Fits
      <4> HIDE DEF e0
      <4> QED BY <1>2, <4>1, <4>2
    <3>4. (2 * M) * (b * Money!Up(e0)) <= a * Money!Up(-e0)
      <4> DEFINE q == (a * Money!Up(-e0)) \div (b * Money!Up(e0))
                 r == (a * Money!Up(-e0)) % (b * Money!Up(e0))
      <4>1. a * Money!Up(-e0) = q * (b * Money!Up(e0)) + r /\ r \in 0 .. b * Money!Up(e0) - 1 /\ q \in Nat
        BY <3>2, DivMod
      <4>2. 2 * M <= q /\ 2 * M \in Nat
        BY <1>2, <3>3
      <4> HIDE DEF q, r, e0
      <4>3. (2 * M) * (b * Money!Up(e0)) <= q * (b * Money!Up(e0))
        BY <3>2, <4>1, <4>2, MulLeq
      <4>4. (2 * M) * (b * Money!Up(e0)) \in Nat /\ q * (b * Money!Up(e0)) \in Nat
        BY <3>2, <4>1, <4>2, TimesIn
      <4> QED BY <3>2, <4>1, <4>3, <4>4
    <3>5. Money!Up(e0 + 1) \in Nat \ {0} /\ Money!Up(-(e0 + 1)) \in Nat \ {0} /\ e0 + 1 \in Int
      <4>1. e0 + 1 \in Int
        BY <1>2
      <4> HIDE DEF e0
      <4> QED BY <4>1, UpIs
    <3> DEFINE w0 == Money!Up(e0)
               u0 == Money!Up(-e0)
               w == Money!Up(e0 + 1)
               u == Money!Up(-(e0 + 1))
    <3>6. w0 \in Nat /\ u0 \in Nat /\ w \in Nat /\ u \in Nat /\ (2 * M) * (b * w0) <= a * u0
      BY <1>5, <3>4, <3>5
    <3>7. \/ w = 2 * w0 /\ u = u0
          \/ u0 = 2 * u /\ w = w0
      <4> HIDE DEF e0
      <4> QED BY <1>2, UpShift
    <3> HIDE DEF e0, w0, u0, w, u
    <3>8. M * (b * w) <= a * u
      <4>1. CASE w = 2 * w0 /\ u = u0
        <5>1. M * (b * (2 * w0)) = (2 * M) * (b * w0)
          BY <1>2, <3>6
        <5> QED BY <3>6, <4>1, <5>1
      <4>2. CASE u0 = 2 * u /\ w = w0
        <5>1. (2 * M) * (b * w0) = 2 * (M * (b * w0)) /\ a * (2 * u) = 2 * (a * u)
          BY <1>2, <3>6
        <5>2. M * (b * w0) \in Nat /\ a * u \in Nat
          BY <1>2, <3>6, TimesIn
        <5> QED BY <3>6, <4>2, <5>1, <5>2
      <4> QED BY <3>7, <4>1, <4>2
    <3> QED BY <3>1, <3>5, <3>8 DEF w, u
  <2> QED BY <2>1, <2>2
<1>9. Money!Up(e) \in Nat \ {0} /\ Money!Up(-e) \in Nat \ {0}
  BY <1>8, UpIs
<1>10. a * Money!Up(-e) \in Nat /\ b * Money!Up(e) \in Nat \ {0}
  BY <1>9, TimesPos
<1> DEFINE x == Money!Double(a, b)
<1>11. x.m = Money!Nearest(a * Money!Up(-e), b * Money!Up(e)) /\ x.e = e
  BY <1>3
<1> HIDE DEF x
<1>12. DoubleOf(a, b, x)
  BY <1>8, <1>10, <1>11, NearestIs DEF DoubleOf, M
<1> QED BY <1>12 DEF x

(* The double nearest to a typed amount n / T, times D: it is within w * D  *)
(* of V * u, where V = n * D / T is below half of what a mantissa holds.    *)
LEMMA FirstRounding ==
  ASSUME NEW n \in Nat \ {0}, NEW T \in Nat \ {0}, NEW D \in Nat \ {0}, NEW w \in Nat \ {0}, NEW u \in Nat \ {0},
         NEW M \in Nat, NEW m \in Nat, NEW V \in Nat, M # 0, n * D = V * T, V < M,
         M * (T * w) <= n * u, 2 * (m * (T * w)) <= 2 * (n * u) + T * w, 2 * (n * u) <= 2 * (m * (T * w)) + T * w
  PROVE  /\ w * D < u /\ m # 0
         /\ 2 * ((m * D) * w) <= 2 * (V * u) + w * D
         /\ 2 * (V * u) <= 2 * ((m * D) * w) + w * D
<1>1. T * w \in Nat \ {0} /\ n * u \in Nat /\ w * D \in Nat \ {0} /\ V * u \in Nat /\ m * D \in Nat /\ n * D \in Nat \ {0}
  BY TimesIn, TimesPos
<1>2. M * (T * w) \in Nat /\ m * (T * w) \in Nat /\ M * (w * D) \in Nat /\ (m * D) * w \in Nat /\ V * (w * D) \in Nat
  BY <1>1, TimesIn
<1>3. (M * (T * w)) * D = (M * (w * D)) * T /\ (n * u) * D = (V * u) * T
  <2>1. (M * (T * w)) * D = (M * (w * D)) * T
    OBVIOUS
  <2>2. (n * u) * D = (n * D) * u /\ (V * T) * u = (V * u) * T
    OBVIOUS
  <2> QED BY <2>1, <2>2
<1>4. (m * (T * w)) * D = ((m * D) * w) * T /\ (T * w) * D = (w * D) * T
  OBVIOUS
<1>5. M * (w * D) <= V * u
  <2>1. (M * (T * w)) * D <= (n * u) * D
    BY <1>1, <1>2, MulLeq
  <2>2. (M * (w * D)) * T <= (V * u) * T
    BY <1>3, <2>1
  <2>3. M * (w * D) \in Int /\ V * u \in Int
    BY <1>1, <1>2
  <2>4. (V * u < M * (w * D)) => (V * u) * T < (M * (w * D)) * T
    BY <2>3, MulLess
  <2>5. (V * u) * T \in Int /\ (M * (w * D)) * T \in Int
    BY <2>3
  <2> QED BY <2>2, <2>3, <2>4, <2>5
<1>6. w * D < u
  <2>1. V # 0
    BY <1>1
  <2>2. V * (w * D) < M * (w * D)
    BY <1>1, MulLess
  <2>3. V * (w * D) < V * u
    BY <1>1, <1>2, <1>5, <2>2
  <2>4. (w * D) * V < u * V
    BY <1>1, <2>3, Assoc
  <2> QED BY <1>1, <2>1, <2>4, MulLess
<1>7. m # 0
  <2>1. SUFFICES ASSUME m = 0 PROVE FALSE
    OBVIOUS
  <2>2. m * (T * w) = 0
    BY <1>1, <2>1
  <2>3. T * w <= M * (T * w)
    <3>1. 1 * (T * w) <= M * (T * w)
      BY <1>1, MulLeq
    <3> QED BY <1>1, <3>1
  <2> HIDE <2>1
  <2> QED BY <1>1, <1>2, <2>2, <2>3
<1>8. 2 * ((m * D) * w) <= 2 * (V * u) + w * D
  <2>1. (2 * (m * (T * w))) * D <= (2 * (n * u) + T * w) * D
    BY <1>1, <1>2, MulLeq
  <2>2. (2 * (m * (T * w))) * D = 2 * ((m * (T * w)) * D) /\ (2 * (n * u) + T * w) * D = 2 * ((n * u) * D) + (T * w) * D
    BY <1>1, <1>2
  <2>3. 2 * (((m * D) * w) * T) <= 2 * ((V * u) * T) + (w * D) * T
    BY <1>3, <1>4, <2>1, <2>2
  <2>4. 2 * (((m * D) * w) * T) = (2 * ((m * D) * w)) * T /\ 2 * ((V * u) * T) + (w * D) * T = (2 * (V * u) + w * D) * T
    BY <1>1, <1>2
  <2>5. (2 * ((m * D) * w)) * T <= (2 * (V * u) + w * D) * T
    BY <2>3, <2>4
  <2>6. 2 * ((m * D) * w) \in Int /\ 2 * (V * u) + w * D \in Int
    BY <1>1, <1>2
  <2>7. (2 * (V * u) + w * D < 2 * ((m * D) * w)) => (2 * (V * u) + w * D) * T < (2 * ((m * D) * w)) * T
    BY <2>6, MulLess
  <2>8. (2 * (V * u) + w * D) * T \in Int /\ (2 * ((m * D) * w)) * T \in Int
    BY <2>6
  <2> QED BY <2>5, <2>6, <2>7, <2>8
<1>9. 2 * (V * u) <= 2 * ((m * D) * w) + w * D
  <2>1. (2 * (n * u)) * D <= (2 * (m * (T * w)) + T * w) * D
    BY <1>1, <1>2, MulLeq
  <2>2. (2 * (n * u)) * D = 2 * ((n * u) * D) /\ (2 * (m * (T * w)) + T * w) * D = 2 * ((m * (T * w)) * D) + (T * w) * D
    BY <1>1, <1>2
  <2>3. 2 * ((V * u) * T) <= 2 * (((m * D) * w) * T) + (w * D) * T
    BY <1>3, <1>4, <2>1, <2>2
  <2>4. 2 * ((V * u) * T) = (2 * (V * u)) * T /\ 2 * (((m * D) * w) * T) + (w * D) * T = (2 * ((m * D) * w) + w * D) * T
    BY <1>1, <1>2
  <2>5. (2 * (V * u)) * T <= (2 * ((m * D) * w) + w * D) * T
    BY <2>3, <2>4
  <2>6. 2 * (V * u) \in Int /\ 2 * ((m * D) * w) + w * D \in Int
    BY <1>1, <1>2
  <2>7. (2 * ((m * D) * w) + w * D < 2 * (V * u)) => (2 * ((m * D) * w) + w * D) * T < (2 * (V * u)) * T
    BY <2>6, MulLess
  <2>8. (2 * ((m * D) * w) + w * D) * T \in Int /\ (2 * (V * u)) * T \in Int
    BY <2>6
  <2> QED BY <2>5, <2>6, <2>7, <2>8
<1> QED BY <1>6, <1>7, <1>8, <1>9

(* The double nearest to the product: if it is whole it is V.               *)
LEMMA SecondRounding ==
  ASSUME NEW P \in Nat, NEW c \in Nat, NEW V \in Nat, NEW M \in Nat, V < M, NEW k \in Nat, NEW R \in Nat,
         NEW w \in Nat \ {0}, NEW u \in Nat \ {0}, NEW v \in Nat \ {0}, NEW t \in Nat \ {0}, c < u,
         2 * (P * w) <= 2 * (V * u) + c, 2 * (V * u) <= 2 * (P * w) + c,
         M * v <= P * t, 2 * (k * v) <= 2 * (P * t) + v, 2 * (P * t) <= 2 * (k * v) + v,
         R * (t * u) = (k * v) * w
  PROVE  R = V
<1>1. P * w \in Nat /\ V * u \in Nat /\ M * v \in Nat /\ P * t \in Nat /\ k * v \in Nat /\ t * u \in Nat \ {0} /\ v * w \in Nat /\ c * t \in Nat
  BY TimesIn, TimesPos
<1>2. (P * w) * t \in Nat /\ (V * u) * t \in Nat /\ (M * v) * w \in Nat /\ (P * t) * w \in Nat /\ (k * v) * w \in Nat
      /\ V * (t * u) \in Nat /\ M * (t * u) \in Nat
  BY <1>1, TimesIn
<1>3. (P * w) * t = (P * t) * w /\ (V * u) * t = V * (t * u)
  OBVIOUS
<1>4. 2 * ((P * t) * w) <= 2 * (V * (t * u)) + c * t /\ 2 * (V * (t * u)) <= 2 * ((P * t) * w) + c * t
  <2>1. (2 * (P * w)) * t <= (2 * (V * u) + c) * t /\ (2 * (V * u)) * t <= (2 * (P * w) + c) * t
    BY <1>1, MulLeq
  <2>2. /\ (2 * (P * w)) * t = 2 * ((P * w) * t) /\ (2 * (V * u)) * t = 2 * ((V * u) * t)
        /\ (2 * (V * u) + c) * t = 2 * ((V * u) * t) + c * t
        /\ (2 * (P * w) + c) * t = 2 * ((P * w) * t) + c * t
    BY <1>1
  <2> QED BY <1>3, <2>1, <2>2
<1>5. 2 * ((k * v) * w) <= 2 * ((P * t) * w) + v * w /\ 2 * ((P * t) * w) <= 2 * ((k * v) * w) + v * w
  <2>1. (2 * (k * v)) * w <= (2 * (P * t) + v) * w /\ (2 * (P * t)) * w <= (2 * (k * v) + v) * w
    BY <1>1, MulLeq
  <2>2. /\ (2 * (k * v)) * w = 2 * ((k * v) * w) /\ (2 * (P * t)) * w = 2 * ((P * t) * w)
        /\ (2 * (P * t) + v) * w = 2 * ((P * t) * w) + v * w
        /\ (2 * (k * v) + v) * w = 2 * ((k * v) * w) + v * w
    BY <1>1
  <2> QED BY <2>1, <2>2
<1>6. c * t < t * u
  <2>1. c * t < u * t
    BY MulLess
  <2> QED BY <2>1, Assoc
<1>7. v * w < t * u
  <2>1. (M * v) * w <= (P * t) * w
    BY <1>1, MulLeq
  <2>2. 2 * (V * (t * u)) + t * u <= 2 * (M * (t * u)) - t * u
    <3>1. (V + 1) * (t * u) <= M * (t * u)
      BY <1>1, MulLeq
    <3>2. (V + 1) * (t * u) = V * (t * u) + t * u
      BY <1>1
    <3> QED BY <1>1, <1>2, <3>1, <3>2
  <2>3. (M * v) * w < M * (t * u)
    BY <1>1, <1>2, <1>4, <1>6, <2>1, <2>2
  <2>4. (M * v) * w = (v * w) * M /\ M * (t * u) = (t * u) * M
    BY <1>1
  <2>5. (v * w) * M < (t * u) * M /\ M \in Nat \ {0}
    BY <2>3, <2>4
  <2> QED BY <1>1, <2>5, MulLess
<1>8. R * (t * u) < V * (t * u) + t * u /\ V * (t * u) < R * (t * u) + t * u
  BY <1>1, <1>2, <1>4, <1>5, <1>6, <1>7
<1>9. R * (t * u) < (V + 1) * (t * u) /\ V * (t * u) < (R + 1) * (t * u)
  <2>1. (V + 1) * (t * u) = V * (t * u) + t * u /\ (R + 1) * (t * u) = R * (t * u) + t * u
    BY <1>1
  <2> QED BY <1>8, <2>1
<1>10. R < V + 1 /\ V < R + 1
  BY <1>1, <1>9, MulLess
<1> QED BY <1>10

LEMMA DivWhole ==
  ASSUME NEW a \in Nat, NEW b \in Nat \ {0}, a % b = 0
  PROVE  a = (a \div b) * b /\ a \div b \in Nat
OBVIOUS

(* to_wei, when it does not refuse a small amount.                          *)
LEMMA ToWeiIs ==
  ASSUME Mantissa \in Nat \ {0}, NEW typed \in [n : Nat, d : Nat], NEW decimals \in Nat,
         Money!ToWei(typed, decimals) # Money!Refused,
         (typed.n * Money!Power(10, decimals)) % Money!Power(10, typed.d) = 0,
         typed.n * Money!Power(10, decimals) < Money!Power(2, Mantissa - 1) * Money!Power(10, typed.d)
  PROVE  /\ Money!ToWei(typed, decimals) \in Nat
         /\ Money!ToWei(typed, decimals) * Money!Power(10, typed.d) = typed.n * Money!Power(10, decimals)
<1> DEFINE n == typed.n
           T == Money!Power(10, typed.d)
           D == Money!Power(10, decimals)
           M == Money!Power(2, Mantissa - 1)
           x == Money!Double(n, T)
           R == Money!ToWei(typed, decimals)
<1>1. n \in Nat /\ T \in Nat \ {0} /\ D \in Nat \ {0} /\ M \in Nat \ {0}
  <2>1. 10 \in Nat \ {0} /\ typed.d \in Nat /\ Mantissa - 1 \in Nat
    OBVIOUS
  <2> QED BY <2>1, PowerPos, TwoPower
<1>2. R = (LET amount == Money!Times(x, D) IN IF Money!Whole(amount) THEN Money!Truncated(amount) ELSE Money!Refused)
  BY DEF Money!ToWei
<1>3. (n * D) % T = 0 /\ n * D < M * T /\ R # Money!Refused
  OBVIOUS
<1> HIDE DEF n, T, D, M, R
<1>4. CASE n = 0
  <2>1. x = [m |-> 0, e |-> 0]
    BY <1>4 DEF Money!Double
  <2>2. Money!Up(0) = 1 /\ Money!Up(-0) = 1
    <3>1. 0 \in Int /\ 0 >= 0
      OBVIOUS
    <3>2. Money!Up(0) = Money!Power(2, 0) /\ Money!Up(-0) = 1
      BY <3>1, UpIs
    <3> QED BY <3>2, TwoPower
  <2> HIDE DEF x
  <2>3. x.m * D = 0
    BY <1>1, <2>1
  <2>4. Money!Double(x.m * D, 1) = [m |-> 0, e |-> 0]
    BY <2>3 DEF Money!Double
  <2>5. Money!Times(x, D) = [m |-> 0, e |-> 0]
    BY <2>1, <2>4 DEF Money!Times
  <2>6. Money!Truncated([m |-> 0, e |-> 0]) = 0
    <3>1. [m |-> 0, e |-> 0].m = 0 /\ [m |-> 0, e |-> 0].e = 0
      OBVIOUS
    <3>2. (0 * Money!Up(0)) \div Money!Up(-0) = 0
      BY <2>2
    <3> QED BY <3>1, <3>2 DEF Money!Truncated
  <2>7. R = 0
    BY <1>2, <1>3, <2>5, <2>6
  <2>8. 0 * T = 0 * D
    BY <1>1
  <2> QED BY <1>4, <2>7, <2>8 DEF n, T, D, R
<1>5. CASE n # 0
  <2>1. n \in Nat \ {0} /\ DoubleOf(n, T, x)
    BY <1>1, <1>5, DoubleIs
  <2> DEFINE w == Money!Up(x.e)
             u == Money!Up(-x.e)
             V == (n * D) \div T
  <2>2. x.m \in Nat /\ x.e \in Int /\ w \in Nat \ {0} /\ u \in Nat \ {0}
    BY <2>1, UpIs DEF DoubleOf
  <2>3. n * D = V * T /\ V \in Nat
    <3> DEFINE p == n * D
    <3>1. p \in Nat /\ p % T = 0
      BY <1>1, <1>3
    <3> HIDE DEF p
    <3>2. p = (p \div T) * T /\ p \div T \in Nat
      BY <1>1, <3>1, DivWhole
    <3> QED BY <3>2 DEF p
  <2> HIDE DEF V
  <2>4. V < M
    <3>1. V * T < M * T
      BY <1>3, <2>3
    <3> QED BY <1>1, <2>3, <3>1, MulLess
  <2>5. M * (T * w) <= n * u /\ 2 * (x.m * (T * w)) <= 2 * (n * u) + T * w /\ 2 * (n * u) <= 2 * (x.m * (T * w)) + T * w
    BY <2>1 DEF DoubleOf, M
  <2> HIDE DEF w, u, x
  <2>6. /\ w * D < u /\ x.m # 0
        /\ 2 * ((x.m * D) * w) <= 2 * (V * u) + w * D
        /\ 2 * (V * u) <= 2 * ((x.m * D) * w) + w * D
    <3> DEFINE m == x.m
    <3>1. m \in Nat /\ M * (T * w) <= n * u /\ 2 * (m * (T * w)) <= 2 * (n * u) + T * w /\ 2 * (n * u) <= 2 * (m * (T * w)) + T * w
      BY <2>2, <2>5
    <3> HIDE DEF m
    <3>2. M \in Nat /\ M # 0 /\ n \in Nat \ {0} /\ T \in Nat \ {0} /\ D \in Nat \ {0}
      BY <1>1, <2>1
    <3>3. /\ w * D < u /\ m # 0
          /\ 2 * ((m * D) * w) <= 2 * (V * u) + w * D
          /\ 2 * (V * u) <= 2 * ((m * D) * w) + w * D
      BY <2>2, <2>3, <2>4, <3>1, <3>2, FirstRounding
    <3> QED BY <3>3 DEF m
  <2> DEFINE P == x.m * D
             y == Money!Double(P, 1)
  <2>7. P \in Nat \ {0} /\ w * D \in Nat
    BY <1>1, <2>2, <2>6, TimesPos
  <2>8. DoubleOf(P, 1, y)
    <3> HIDE DEF P
    <3> QED BY <2>7, DoubleIs
  <2> DEFINE v == Money!Up(y.e)
             t == Money!Up(-y.e)
             E == y.e + x.e
  <2>9. y.m \in Nat /\ y.e \in Int /\ v \in Nat \ {0} /\ t \in Nat \ {0}
    BY <2>8, UpIs DEF DoubleOf
  <2>10. M * v <= P * t /\ 2 * (y.m * v) <= 2 * (P * t) + v /\ 2 * (P * t) <= 2 * (y.m * v) + v
    <3>1. 1 * v = v
      BY <2>9
    <3>2. M * (1 * v) <= P * t /\ 2 * (y.m * (1 * v)) <= 2 * (P * t) + 1 * v /\ 2 * (P * t) <= 2 * (y.m * (1 * v)) + 1 * v
      BY <2>8 DEF DoubleOf, M
    <3> HIDE DEF P, y, v, t
    <3> QED BY <3>1, <3>2
  <2>11. Money!Times(x, D) = [m |-> y.m, e |-> E]
    BY DEF Money!Times
  <2> DEFINE W == Money!Up(E)
             U == Money!Up(-E)
  <2>12. E \in Int /\ W \in Nat \ {0} /\ U \in Nat \ {0}
    <3>1. E \in Int
      BY <2>2, <2>9
    <3> HIDE DEF E
    <3> QED BY <3>1, UpIs
  <2>13. R = (y.m * W) \div U /\ y.m % U = 0
    BY <1>2, <1>3, <2>11 DEF Money!Whole, Money!Truncated
  <2>14. (W * t) * u = (U * v) * w
    <3> HIDE DEF y
    <3> QED BY <2>2, <2>9, UpAdds DEF w, u
  <2> HIDE DEF P, y, v, t, E, W, U
  <2>15. R \in Nat /\ R * U = y.m * W
    <3> DEFINE k == y.m
               q == k \div U
    <3>1. k \in Nat /\ k % U = 0 /\ y.m = k
      BY <2>9, <2>13
    <3> HIDE DEF k
    <3>2. k = q * U /\ q \in Nat
      BY <2>12, <3>1, DivWhole
    <3> HIDE DEF q
    <3>3. y.m * W = (q * W) * U /\ q * W \in Nat
      BY <2>12, <3>1, <3>2
    <3>4. ((q * W) * U) \div U = q * W
      <4> DEFINE z == q * W
      <4>1. z \in Nat
        BY <3>3
      <4> HIDE DEF z
      <4>2. (z * U) \div U = z
        BY <2>12, <4>1
      <4> QED BY <4>2 DEF z
    <3> QED BY <2>13, <3>3, <3>4
  <2>16. R * (t * u) = (y.m * v) * w
    <3>1. (R * (t * u)) * W = R * ((W * t) * u)
      BY <2>2, <2>9, <2>12, <2>15
    <3>2. R * ((U * v) * w) = (R * U) * (v * w)
      BY <2>2, <2>9, <2>12, <2>15
    <3>3. (y.m * W) * (v * w) = ((y.m * v) * w) * W
      BY <2>2, <2>9, <2>12
    <3>4. (R * (t * u)) * W = ((y.m * v) * w) * W
      BY <2>14, <2>15, <3>1, <3>2, <3>3
    <3>5. R * (t * u) \in Int /\ (y.m * v) * w \in Int
      BY <2>2, <2>9, <2>15
    <3> QED BY <2>12, <3>4, <3>5, CancelEq
  <2>17. 2 * (P * w) <= 2 * (V * u) + w * D /\ 2 * (V * u) <= 2 * (P * w) + w * D
    BY <2>6 DEF P
  <2>18. R = V
    BY <1>1, <2>2, <2>3, <2>4, <2>6, <2>7, <2>9, <2>10, <2>15, <2>16, <2>17, SecondRounding
  <2> QED BY <2>3, <2>18 DEF n, T, D, R
<1> QED BY <1>4, <1>5

(* str_from_wei                                                             *)
LEMMA ShownIs ==
  ASSUME Mantissa \in Nat \ {0}, NEW N \in Nat, NEW decimals \in Nat, N < Money!Power(2, Mantissa - 1)
  PROVE  Money!Shown(N, decimals) = N
<1> DEFINE D == Money!Power(10, decimals)
           M == Money!Power(2, Mantissa - 1)
           x == Money!Double(N, D)
           w == Money!Up(x.e)
           u == Money!Up(-x.e)
           q == Money!Shown(N, decimals)
<1>1. D \in Nat \ {0} /\ M \in Nat \ {0}
  <2>1. 10 \in Nat \ {0} /\ Mantissa - 1 \in Nat
    OBVIOUS
  <2> QED BY <2>1, PowerPos, TwoPower
<1>2. q = Money!Nearest(x.m * w * D, u)
  BY DEF Money!Shown
<1> HIDE DEF q, D
<1>3. CASE N = 0
  <2>1. x = [m |-> 0, e |-> 0]
    BY <1>3 DEF Money!Double
  <2>2. w \in Nat /\ u \in Nat \ {0} /\ x.m = 0
    <3>1. 0 \in Int
      OBVIOUS
    <3>2. x.e \in Int
      BY <2>1
    <3> HIDE DEF x
    <3> QED BY <2>1, <3>2, UpIs
  <2> HIDE DEF w, u, x
  <2>3. x.m * w * D = 0
    BY <1>1, <2>2
  <2>4. q = Money!Nearest(0, u) /\ 0 \in Nat
    BY <1>2, <2>3
  <2>5. q \in Nat /\ 2 * (q * u) <= 2 * 0 + u
    BY <2>2, <2>4, NearestIs
  <2>6. q # 0 => u <= q * u
    <3>1. q # 0 => 1 * u <= q * u
      BY <2>2, <2>5, MulLeq
    <3> QED BY <2>2, <3>1
  <2>7. q = 0
    BY <2>2, <2>5, <2>6
  <2> QED BY <1>3, <2>7 DEF q
<1>4. CASE N # 0
  <2>1. DoubleOf(N, D, x)
    BY <1>1, <1>4, DoubleIs
  <2>2. x.m \in Nat /\ w \in Nat \ {0} /\ u \in Nat \ {0}
    BY <2>1, UpIs DEF DoubleOf
  <2>3. M * (D * w) <= N * u /\ 2 * (x.m * (D * w)) <= 2 * (N * u) + D * w /\ 2 * (N * u) <= 2 * (x.m * (D * w)) + D * w
    BY <2>1 DEF DoubleOf
  <2>4. N < M
    OBVIOUS
  <2> HIDE DEF w, u, x, M
  <2> DEFINE A == x.m * (D * w)
             B == D * w
  <2>5. x.m * w * D = A
    BY <1>1, <2>2
  <2>6. A \in Nat /\ B \in Nat \ {0} /\ N * u \in Nat
    BY <1>1, <2>2, TimesIn, TimesPos
  <2>7. q \in Nat /\ 2 * (q * u) <= 2 * A + u /\ 2 * A <= 2 * (q * u) + u
    <3>1. q = Money!Nearest(A, u)
      BY <1>2, <2>5
    <3> HIDE DEF A
    <3> QED BY <2>2, <2>6, <3>1, NearestIs
  <2>8. M * B <= N * u /\ 2 * A <= 2 * (N * u) + B /\ 2 * (N * u) <= 2 * A + B
    BY <2>3
  <2> HIDE DEF A, B
  <2>9. B < u
    <3>1. N * B < M * B
      BY <1>1, <2>4, <2>6, MulLess
    <3>2. N * B < N * u
      BY <1>1, <2>6, <2>8, <3>1
    <3>3. B * N < u * N
      BY <2>2, <2>6, <3>2, Assoc
    <3> QED BY <1>4, <2>2, <2>6, <3>3, MulLess
  <2>10. q * u < N * u + u /\ N * u < q * u + u
    <3>1. q * u \in Nat
      BY <2>2, <2>7
    <3> QED BY <2>2, <2>6, <2>7, <2>8, <2>9, <3>1
  <2>11. q * u < (N + 1) * u /\ N * u < (q + 1) * u
    <3>1. (N + 1) * u = N * u + u /\ (q + 1) * u = q * u + u
      BY <2>2, <2>7
    <3> QED BY <2>10, <3>1
  <2>12. q < N + 1 /\ N < q + 1
    BY <2>2, <2>7, <2>11, MulLess
  <2>13. q = N
    BY <2>7, <2>12
  <2> QED BY <2>13 DEF q
<1> QED BY <1>3, <1>4

(* The price of a sector, times the sectors of a TiB.                       *)
LEMMA PriceIs ==
  ASSUME TiB \in Nat \ {0}, NEW size \in Nat, NEW typed, NEW decimals,
         Money!SectorPrice(typed, decimals, size) # Money!Refused, Money!ToWei(typed, decimals) \in Nat
  PROVE  /\ Money!SectorPrice(typed, decimals, size) \in Nat
         /\ Money!SectorPrice(typed, decimals, size) * (TiB \div size) = Money!ToWei(typed, decimals)
<1> DEFINE price == Money!ToWei(typed, decimals)
           sectors == TiB \div size
<1>1. size \in Nat \ {0} /\ TiB % size = 0 /\ price % sectors = 0 /\ Money!SectorPrice(typed, decimals, size) = price \div sectors
  BY DEF Money!SectorPrice
<1>2. price \in Nat
  OBVIOUS
<1>3. TiB = sectors * size /\ sectors \in Nat
  BY <1>1, DivWhole
<1> HIDE DEF price, sectors
<1>4. sectors # 0
  BY <1>1, <1>3
<1>5. price = (price \div sectors) * sectors /\ price \div sectors \in Nat
  BY <1>1, <1>2, <1>3, <1>4, DivWhole
<1> QED BY <1>1, <1>5 DEF price, sectors

LEMMA ConvertedInit == Money!Init => Money!Converted
BY DEF Money!Init, Money!Converted

LEMMA ConvertedStep == Money!Converted /\ [Money!Next]_(Money!vars) => Money!Converted'
<1> SUFFICES ASSUME Money!Converted, [Money!Next]_(Money!vars) PROVE Money!Converted'
  OBVIOUS
<1>1. CASE UNCHANGED Money!vars
  BY <1>1 DEF Money!Converted, Money!vars
<1>2. CASE Money!Next /\ Money!Send
  BY <1>2 DEF Money!Next, Money!Send, Money!Converted
<1>3. CASE Money!Next /\ Money!Price
  BY <1>3 DEF Money!Next, Money!Price, Money!Converted
<1>4. CASE Money!Next /\ Money!Show
  BY <1>4 DEF Money!Next, Money!Show, Money!Converted
<1> QED BY <1>1, <1>2, <1>3, <1>4 DEF Money!Next

LEMMA ConvertedIsEnough == Money!AmountsAssumption /\ Money!Converted => Money!SmallAmountsExact
<1> SUFFICES ASSUME Money!AmountsAssumption, Money!Converted, Money!Done, Money!Small
             PROVE  CASE sum.op = "to_wei" -> Money!Exact(wei)
                      [] sum.op = "price" -> Money!Exact(wei * (TiB \div sum.size))
                      [] sum.op = "show" -> wei = sum.typed.n
  BY DEF Money!SmallAmountsExact
<1>1. /\ Mantissa \in Nat \ {0} /\ TiB \in Nat \ {0}
      /\ sum.typed \in [n : Nat, d : Nat] /\ sum.decimals \in Nat /\ sum.size \in Nat
      /\ sum.typed.n \in Nat /\ sum.typed.d \in Nat
      /\ sum.op \in {"to_wei", "price", "show"}
  BY DEF Money!AmountsAssumption, Money!Converted
<1>2. wei # Money!None /\ wei # Money!Refused
  BY DEF Money!Done
<1>3. CASE sum.op = "show"
  <2>1. wei = Money!Shown(sum.typed.n, sum.decimals) /\ sum.typed.n < Money!Power(2, Mantissa - 1)
    BY <1>2, <1>3 DEF Money!Converted, Money!Small
  <2>2. wei = sum.typed.n
    BY <1>1, <2>1, ShownIs
  <2> QED BY <1>3, <2>2
<1>4. ASSUME sum.op # "show"
      PROVE  /\ (sum.typed.n * Money!Power(10, sum.decimals)) % Money!Power(10, sum.typed.d) = 0
             /\ sum.typed.n * Money!Power(10, sum.decimals) < Money!Power(2, Mantissa - 1) * Money!Power(10, sum.typed.d)
  BY <1>4 DEF Money!Done, Money!Small
<1>5. CASE sum.op = "to_wei"
  <2>1. wei = Money!ToWei(sum.typed, sum.decimals)
    BY <1>2, <1>5 DEF Money!Converted
  <2>2. Money!Exact(wei)
    BY <1>1, <1>2, <1>4, <1>5, <2>1, ToWeiIs DEF Money!Exact
  <2> QED BY <1>5, <2>2
<1>6. CASE sum.op = "price"
  <2>1. wei = Money!SectorPrice(sum.typed, sum.decimals, sum.size)
    BY <1>2, <1>6 DEF Money!Converted
  <2>2. Money!ToWei(sum.typed, sum.decimals) # Money!Refused
    BY <1>2, <2>1 DEF Money!SectorPrice
  <2>3. /\ Money!ToWei(sum.typed, sum.decimals) \in Nat
        /\ Money!ToWei(sum.typed, sum.decimals) * Money!Power(10, sum.typed.d) = sum.typed.n * Money!Power(10, sum.decimals)
    BY <1>1, <1>4, <1>6, <2>2, ToWeiIs
  <2>4. wei * (TiB \div sum.size) = Money!ToWei(sum.typed, sum.decimals)
    BY <1>1, <1>2, <2>1, <2>3, PriceIs
  <2>5. Money!Exact(wei * (TiB \div sum.size))
    BY <2>3, <2>4 DEF Money!Exact
  <2> QED BY <1>6, <2>5
<1> QED BY <1>1, <1>3, <1>5, <1>6

-----------------------------------------------------------------------------
(* What the powers are to amounts, they are to CIDs.                        *)
LEMMA SamePowers == \A b, n : Cids!Power(b, n) = Money!Power(b, n) /\ Cids!BitLength(n) = Money!BitLength(n)
BY DEF Cids!Power, Money!Power, Cids!BitLength, Money!BitLength

LEMMA CidPowerPos == ASSUME NEW b \in Nat \ {0}, NEW n \in Nat PROVE Cids!Power(b, n) \in Nat \ {0}
BY SamePowers, PowerPos

LEMMA CidPowerIs ==
  ASSUME NEW b \in Nat
  PROVE  Cids!Power(b, 0) = 1 /\ \A k \in Nat : Cids!Power(b, k) \in Nat /\ Cids!Power(b, k + 1) = b * Cids!Power(b, k)
<1>1. Money!Power(b, 0) = 1 /\ \A k \in Nat : Money!Power(b, k) \in Nat /\ Money!Power(b, k + 1) = b * Money!Power(b, k)
  BY PowerIs
<1> QED BY <1>1, SamePowers

LEMMA CidPowerAdds ==
  ASSUME NEW b \in Nat, NEW m \in Nat, NEW n \in Nat
  PROVE  Cids!Power(b, m + n) = Cids!Power(b, m) * Cids!Power(b, n)
<1>1. Money!Power(b, m + n) = Money!Power(b, m) * Money!Power(b, n)
  BY PowerAdds
<1> QED BY <1>1, SamePowers

LEMMA CidTwoPower ==
  ASSUME NEW k \in Nat
  PROVE  /\ Cids!Power(2, k) \in Nat \ {0} /\ Cids!Power(2, k + 1) = 2 * Cids!Power(2, k)
         /\ Cids!Power(2, 0) = 1 /\ k < Cids!Power(2, k)
<1>1. /\ Money!Power(2, k) \in Nat \ {0} /\ Money!Power(2, k + 1) = 2 * Money!Power(2, k)
      /\ Money!Power(2, 0) = 1 /\ k < Money!Power(2, k)
  BY TwoPower
<1> QED BY <1>1, SamePowers

LEMMA CidTwoGrows == ASSUME NEW m \in Nat, NEW n \in Nat, m <= n PROVE Cids!Power(2, m) <= Cids!Power(2, n)
<1>1. Money!Power(2, m) <= Money!Power(2, n)
  BY TwoGrows
<1> QED BY <1>1, SamePowers

LEMMA CidBitLengthIs ==
  ASSUME NEW n \in Nat \ {0}
  PROVE  /\ Cids!BitLength(n) \in Nat \ {0}
         /\ n < Cids!Power(2, Cids!BitLength(n)) /\ Cids!Power(2, Cids!BitLength(n) - 1) <= n
<1>1. /\ Money!BitLength(n) \in Nat \ {0}
      /\ n < Money!Power(2, Money!BitLength(n)) /\ Money!Power(2, Money!BitLength(n) - 1) <= n
  BY BitLengthIs
<1> QED BY <1>1, SamePowers

-----------------------------------------------------------------------------
(* base32.                                                                  *)

LEMMA ModIs ==
  ASSUME NEW a \in Nat, NEW b \in Nat \ {0}, NEW q \in Nat, NEW r \in 0 .. b - 1, a = q * b + r
  PROVE  a \div b = q /\ a % b = r
OBVIOUS

LEMMA Twos ==
  /\ Cids!Power(2, 0) = 1 /\ Cids!Power(2, 1) = 2 /\ Cids!Power(2, 2) = 4 /\ Cids!Power(2, 3) = 8
  /\ Cids!Power(2, 4) = 16 /\ Cids!Power(2, 5) = 32 /\ Cids!Power(2, 6) = 64 /\ Cids!Power(2, 7) = 128
  /\ Cids!Power(2, 8) = 256 /\ Cids!Power(2, 9) = 512 /\ Cids!Power(2, 10) = 1024 /\ Cids!Power(2, 11) = 2048
  /\ Cids!Power(2, 12) = 4096 /\ Cids!Power(2, 13) = 8192 /\ Cids!Power(2, 14) = 16384 /\ Cids!Power(2, 15) = 32768
  /\ Cids!Power(2, 16) = 65536 /\ Cids!Power(2, 17) = 131072 /\ Cids!Power(2, 18) = 262144 /\ Cids!Power(2, 19) = 524288
<1>0. Cids!Power(2, 0) = 1
  BY CidTwoPower
<1>1. Cids!Power(2, 1) = 2
  <2>1. 0 \in Nat /\ 0 + 1 = 1
    BY SMT
  <2>2. Cids!Power(2, 0 + 1) = 2 * Cids!Power(2, 0)
    BY <2>1, CidTwoPower, SMT
  <2> QED BY <1>0, <2>1, <2>2, SMT
<1>2. Cids!Power(2, 2) = 4
  <2>1. 1 \in Nat /\ 1 + 1 = 2
    BY SMT
  <2>2. Cids!Power(2, 1 + 1) = 2 * Cids!Power(2, 1)
    BY <2>1, CidTwoPower, SMT
  <2> QED BY <1>1, <2>1, <2>2, SMT
<1>3. Cids!Power(2, 3) = 8
  <2>1. 2 \in Nat /\ 2 + 1 = 3
    BY SMT
  <2>2. Cids!Power(2, 2 + 1) = 2 * Cids!Power(2, 2)
    BY <2>1, CidTwoPower, SMT
  <2> QED BY <1>2, <2>1, <2>2, SMT
<1>4. Cids!Power(2, 4) = 16
  <2>1. 3 \in Nat /\ 3 + 1 = 4
    BY SMT
  <2>2. Cids!Power(2, 3 + 1) = 2 * Cids!Power(2, 3)
    BY <2>1, CidTwoPower, SMT
  <2> QED BY <1>3, <2>1, <2>2, SMT
<1>5. Cids!Power(2, 5) = 32
  <2>1. 4 \in Nat /\ 4 + 1 = 5
    BY SMT
  <2>2. Cids!Power(2, 4 + 1) = 2 * Cids!Power(2, 4)
    BY <2>1, CidTwoPower, SMT
  <2> QED BY <1>4, <2>1, <2>2, SMT
<1>6. Cids!Power(2, 6) = 64
  <2>1. 5 \in Nat /\ 5 + 1 = 6
    BY SMT
  <2>2. Cids!Power(2, 5 + 1) = 2 * Cids!Power(2, 5)
    BY <2>1, CidTwoPower, SMT
  <2> QED BY <1>5, <2>1, <2>2, SMT
<1>7. Cids!Power(2, 7) = 128
  <2>1. 6 \in Nat /\ 6 + 1 = 7
    BY SMT
  <2>2. Cids!Power(2, 6 + 1) = 2 * Cids!Power(2, 6)
    BY <2>1, CidTwoPower, SMT
  <2> QED BY <1>6, <2>1, <2>2, SMT
<1>8. Cids!Power(2, 8) = 256
  <2>1. 7 \in Nat /\ 7 + 1 = 8
    BY SMT
  <2>2. Cids!Power(2, 7 + 1) = 2 * Cids!Power(2, 7)
    BY <2>1, CidTwoPower, SMT
  <2> QED BY <1>7, <2>1, <2>2, SMT
<1>9. Cids!Power(2, 9) = 512
  <2>1. 8 \in Nat /\ 8 + 1 = 9
    BY SMT
  <2>2. Cids!Power(2, 8 + 1) = 2 * Cids!Power(2, 8)
    BY <2>1, CidTwoPower, SMT
  <2> QED BY <1>8, <2>1, <2>2, SMT
<1>10. Cids!Power(2, 10) = 1024
  <2>1. 9 \in Nat /\ 9 + 1 = 10
    BY SMT
  <2>2. Cids!Power(2, 9 + 1) = 2 * Cids!Power(2, 9)
    BY <2>1, CidTwoPower, SMT
  <2> QED BY <1>9, <2>1, <2>2, SMT
<1>11. Cids!Power(2, 11) = 2048
  <2>1. 10 \in Nat /\ 10 + 1 = 11
    BY SMT
  <2>2. Cids!Power(2, 10 + 1) = 2 * Cids!Power(2, 10)
    BY <2>1, CidTwoPower, SMT
  <2> QED BY <1>10, <2>1, <2>2, SMT
<1>12. Cids!Power(2, 12) = 4096
  <2>1. 11 \in Nat /\ 11 + 1 = 12
    BY SMT
  <2>2. Cids!Power(2, 11 + 1) = 2 * Cids!Power(2, 11)
    BY <2>1, CidTwoPower, SMT
  <2> QED BY <1>11, <2>1, <2>2, SMT
<1>13. Cids!Power(2, 13) = 8192
  <2>1. 12 \in Nat /\ 12 + 1 = 13
    BY SMT
  <2>2. Cids!Power(2, 12 + 1) = 2 * Cids!Power(2, 12)
    BY <2>1, CidTwoPower, SMT
  <2> QED BY <1>12, <2>1, <2>2, SMT
<1>14. Cids!Power(2, 14) = 16384
  <2>1. 13 \in Nat /\ 13 + 1 = 14
    BY SMT
  <2>2. Cids!Power(2, 13 + 1) = 2 * Cids!Power(2, 13)
    BY <2>1, CidTwoPower, SMT
  <2> QED BY <1>13, <2>1, <2>2, SMT
<1>15. Cids!Power(2, 15) = 32768
  <2>1. 14 \in Nat /\ 14 + 1 = 15
    BY SMT
  <2>2. Cids!Power(2, 14 + 1) = 2 * Cids!Power(2, 14)
    BY <2>1, CidTwoPower, SMT
  <2> QED BY <1>14, <2>1, <2>2, SMT
<1>16. Cids!Power(2, 16) = 65536
  <2>1. 15 \in Nat /\ 15 + 1 = 16
    BY SMT
  <2>2. Cids!Power(2, 15 + 1) = 2 * Cids!Power(2, 15)
    BY <2>1, CidTwoPower, SMT
  <2> QED BY <1>15, <2>1, <2>2, SMT
<1>17. Cids!Power(2, 17) = 131072
  <2>1. 16 \in Nat /\ 16 + 1 = 17
    BY SMT
  <2>2. Cids!Power(2, 16 + 1) = 2 * Cids!Power(2, 16)
    BY <2>1, CidTwoPower, SMT
  <2> QED BY <1>16, <2>1, <2>2, SMT
<1>18. Cids!Power(2, 18) = 262144
  <2>1. 17 \in Nat /\ 17 + 1 = 18
    BY SMT
  <2>2. Cids!Power(2, 17 + 1) = 2 * Cids!Power(2, 17)
    BY <2>1, CidTwoPower, SMT
  <2> QED BY <1>17, <2>1, <2>2, SMT
<1>19. Cids!Power(2, 19) = 524288
  <2>1. 18 \in Nat /\ 18 + 1 = 19
    BY SMT
  <2>2. Cids!Power(2, 18 + 1) = 2 * Cids!Power(2, 18)
    BY <2>1, CidTwoPower, SMT
  <2> QED BY <1>18, <2>1, <2>2, SMT
<1> QED BY <1>0, <1>1, <1>2, <1>3, <1>4, <1>5, <1>6, <1>7, <1>8, <1>9, <1>10, <1>11, <1>12, <1>13, <1>14, <1>15, <1>16, <1>17, <1>18, <1>19, SMT

(* Group j, and zeros behind the last.                                      *)
GroupAt(groups, j) == IF j < Len(groups) THEN groups[j + 1] ELSE 0

LEMMA AtIn ==
  ASSUME NEW S, 0 \in S, NEW groups \in Seq(S), NEW j \in Nat
  PROVE  GroupAt(groups, j) \in S
<1>1. CASE j < Len(groups)
  <2>1. j + 1 \in 1 .. Len(groups)
    BY <1>1
  <2> QED BY <1>1, <2>1 DEF GroupAt
<1>2. CASE ~(j < Len(groups))
  BY <1>2 DEF GroupAt
<1> QED BY <1>1, <1>2

(* Three groups side by side, and what is cut out of them.                  *)
CutOf(width, a, b, c, k, n) == (((a * Cids!Power(2, width) + b) * Cids!Power(2, width) + c) \div Cids!Power(2, k)) % Cids!Power(2, n)

(* Groups of eight bits, and of five                                        *)
Bytes == 0 .. 255
Fives == 0 .. 31

LEMMA CutIs ==
  ASSUME NEW a, NEW b, NEW c
  PROVE  /\ CutOf(8, a, b, c, 19, 5) = (((a * 256 + b) * 256 + c) \div 524288) % 32
         /\ CutOf(8, a, b, c, 14, 5) = (((a * 256 + b) * 256 + c) \div 16384) % 32
         /\ CutOf(8, a, b, c, 17, 5) = (((a * 256 + b) * 256 + c) \div 131072) % 32
         /\ CutOf(8, a, b, c, 12, 5) = (((a * 256 + b) * 256 + c) \div 4096) % 32
         /\ CutOf(8, a, b, c, 15, 5) = (((a * 256 + b) * 256 + c) \div 32768) % 32
         /\ CutOf(8, a, b, c, 18, 5) = (((a * 256 + b) * 256 + c) \div 262144) % 32
         /\ CutOf(8, a, b, c, 13, 5) = (((a * 256 + b) * 256 + c) \div 8192) % 32
         /\ CutOf(8, a, b, c, 16, 5) = (((a * 256 + b) * 256 + c) \div 65536) % 32
         /\ CutOf(5, a, b, c, 7, 8) = (((a * 32 + b) * 32 + c) \div 128) % 256
         /\ CutOf(5, a, b, c, 4, 8) = (((a * 32 + b) * 32 + c) \div 16) % 256
         /\ CutOf(5, a, b, c, 6, 8) = (((a * 32 + b) * 32 + c) \div 64) % 256
         /\ CutOf(5, a, b, c, 3, 8) = (((a * 32 + b) * 32 + c) \div 8) % 256
         /\ CutOf(5, a, b, c, 5, 8) = (((a * 32 + b) * 32 + c) \div 32) % 256
BY Twos, SMT DEF CutOf

(* A digit is cut out of three bytes.                                       *)
LEMMA DigitCut ==
  ASSUME NEW a \in Bytes, NEW b \in Bytes, NEW c \in Bytes
  PROVE  /\ CutOf(8, a, b, c, 19, 5) = a \div 8
         /\ CutOf(8, a, b, c, 14, 5) = (a % 8) * 4 + b \div 64
         /\ CutOf(8, a, b, c, 17, 5) = (a \div 2) % 32
         /\ CutOf(8, a, b, c, 12, 5) = (a % 2) * 16 + b \div 16
         /\ CutOf(8, a, b, c, 15, 5) = (a % 16) * 2 + b \div 128
         /\ CutOf(8, a, b, c, 18, 5) = (a \div 4) % 32
         /\ CutOf(8, a, b, c, 13, 5) = (a % 4) * 8 + b \div 32
         /\ CutOf(8, a, b, c, 16, 5) = a % 32
<1>0. a \in 0 .. 255 /\ b \in 0 .. 255 /\ c \in 0 .. 255
  BY DEF Bytes
<1> DEFINE x == (a * 256 + b) * 256 + c
<1>1. CutOf(8, a, b, c, 19, 5) = a \div 8
  <2>0. CutOf(8, a, b, c, 19, 5) = (x \div 524288) % 32
    BY CutIs, SMT
  <2> DEFINE z == a \div 8
             l == a % 8
             s == (l * 256 + b) * 256 + c
  <2>1. a = z * 8 + l /\ l \in 0 .. 7 /\ z \in Nat
    BY <1>0, SMT
  <2>2. z % 32 = a \div 8
    BY <1>0, SMT
  <2> HIDE DEF z, l
  <2>3. x = z * 524288 + s /\ s \in Nat /\ s < 524288
    BY <1>0, <2>1, SMT
  <2> HIDE DEF s, x
  <2>4. x \div 524288 = z
    BY <1>0, <2>1, <2>3, SMT
  <2>5. (x \div 524288) % 32 = z % 32
    BY <2>4, SMT
  <2> QED BY <2>0, <2>2, <2>5, SMT
<1>2. CutOf(8, a, b, c, 14, 5) = (a % 8) * 4 + b \div 64
  <2>0. CutOf(8, a, b, c, 14, 5) = (x \div 16384) % 32
    BY CutIs, SMT
  <2> DEFINE q == a \div 8
             l == a % 8
             h == b \div 64
             k == b % 64
             r == l * 4 + h
             s == k * 256 + c
  <2>1. a = q * 8 + l /\ l \in 0 .. 7 /\ q \in Nat
    BY <1>0, SMT
  <2>2. b = h * 64 + k /\ k \in 0 .. 63 /\ h \in 0 .. 3
    BY <1>0, SMT
  <2>3. r = (a % 8) * 4 + b \div 64
    BY <1>0, SMT
  <2> HIDE DEF q, l, h, k
  <2>4. x = (q * 32 + r) * 16384 + s /\ s \in Nat /\ s < 16384 /\ r \in 0 .. 31
    BY <1>0, <2>1, <2>2, SMT
  <2> DEFINE z == q * 32 + r
  <2> HIDE DEF r, s, x
  <2>5. x = z * 16384 + s /\ z \in Nat /\ s \in Nat /\ s < 16384 /\ z % 32 = r
    BY <2>1, <2>3, <2>4, SMT
  <2> HIDE DEF z
  <2>6. x \div 16384 = z
    BY <2>5, SMT
  <2> QED BY <2>0, <2>3, <2>5, <2>6, SMT
<1>3. CutOf(8, a, b, c, 17, 5) = (a \div 2) % 32
  <2>0. CutOf(8, a, b, c, 17, 5) = (x \div 131072) % 32
    BY CutIs, SMT
  <2> DEFINE z == a \div 2
             l == a % 2
             s == (l * 256 + b) * 256 + c
  <2>1. a = z * 2 + l /\ l \in 0 .. 1 /\ z \in Nat
    BY <1>0, SMT
  <2>2. z % 32 = (a \div 2) % 32
    BY <1>0, SMT
  <2> HIDE DEF z, l
  <2>3. x = z * 131072 + s /\ s \in Nat /\ s < 131072
    BY <1>0, <2>1, SMT
  <2> HIDE DEF s, x
  <2>4. x \div 131072 = z
    BY <1>0, <2>1, <2>3, SMT
  <2>5. (x \div 131072) % 32 = z % 32
    BY <2>4, SMT
  <2> QED BY <2>0, <2>2, <2>5, SMT
<1>4. CutOf(8, a, b, c, 12, 5) = (a % 2) * 16 + b \div 16
  <2>0. CutOf(8, a, b, c, 12, 5) = (x \div 4096) % 32
    BY CutIs, SMT
  <2> DEFINE q == a \div 2
             l == a % 2
             h == b \div 16
             k == b % 16
             r == l * 16 + h
             s == k * 256 + c
  <2>1. a = q * 2 + l /\ l \in 0 .. 1 /\ q \in Nat
    BY <1>0, SMT
  <2>2. b = h * 16 + k /\ k \in 0 .. 15 /\ h \in 0 .. 15
    BY <1>0, SMT
  <2>3. r = (a % 2) * 16 + b \div 16
    BY <1>0, SMT
  <2> HIDE DEF q, l, h, k
  <2>4. x = (q * 32 + r) * 4096 + s /\ s \in Nat /\ s < 4096 /\ r \in 0 .. 31
    BY <1>0, <2>1, <2>2, SMT
  <2> DEFINE z == q * 32 + r
  <2> HIDE DEF r, s, x
  <2>5. x = z * 4096 + s /\ z \in Nat /\ s \in Nat /\ s < 4096 /\ z % 32 = r
    BY <2>1, <2>3, <2>4, SMT
  <2> HIDE DEF z
  <2>6. x \div 4096 = z
    BY <2>5, SMT
  <2> QED BY <2>0, <2>3, <2>5, <2>6, SMT
<1>5. CutOf(8, a, b, c, 15, 5) = (a % 16) * 2 + b \div 128
  <2>0. CutOf(8, a, b, c, 15, 5) = (x \div 32768) % 32
    BY CutIs, SMT
  <2> DEFINE q == a \div 16
             l == a % 16
             h == b \div 128
             k == b % 128
             r == l * 2 + h
             s == k * 256 + c
  <2>1. a = q * 16 + l /\ l \in 0 .. 15 /\ q \in Nat
    BY <1>0, SMT
  <2>2. b = h * 128 + k /\ k \in 0 .. 127 /\ h \in 0 .. 1
    BY <1>0, SMT
  <2>3. r = (a % 16) * 2 + b \div 128
    BY <1>0, SMT
  <2> HIDE DEF q, l, h, k
  <2>4. x = (q * 32 + r) * 32768 + s /\ s \in Nat /\ s < 32768 /\ r \in 0 .. 31
    BY <1>0, <2>1, <2>2, SMT
  <2> DEFINE z == q * 32 + r
  <2> HIDE DEF r, s, x
  <2>5. x = z * 32768 + s /\ z \in Nat /\ s \in Nat /\ s < 32768 /\ z % 32 = r
    BY <2>1, <2>3, <2>4, SMT
  <2> HIDE DEF z
  <2>6. x \div 32768 = z
    BY <2>5, SMT
  <2> QED BY <2>0, <2>3, <2>5, <2>6, SMT
<1>6. CutOf(8, a, b, c, 18, 5) = (a \div 4) % 32
  <2>0. CutOf(8, a, b, c, 18, 5) = (x \div 262144) % 32
    BY CutIs, SMT
  <2> DEFINE z == a \div 4
             l == a % 4
             s == (l * 256 + b) * 256 + c
  <2>1. a = z * 4 + l /\ l \in 0 .. 3 /\ z \in Nat
    BY <1>0, SMT
  <2>2. z % 32 = (a \div 4) % 32
    BY <1>0, SMT
  <2> HIDE DEF z, l
  <2>3. x = z * 262144 + s /\ s \in Nat /\ s < 262144
    BY <1>0, <2>1, SMT
  <2> HIDE DEF s, x
  <2>4. x \div 262144 = z
    BY <1>0, <2>1, <2>3, SMT
  <2>5. (x \div 262144) % 32 = z % 32
    BY <2>4, SMT
  <2> QED BY <2>0, <2>2, <2>5, SMT
<1>7. CutOf(8, a, b, c, 13, 5) = (a % 4) * 8 + b \div 32
  <2>0. CutOf(8, a, b, c, 13, 5) = (x \div 8192) % 32
    BY CutIs, SMT
  <2> DEFINE q == a \div 4
             l == a % 4
             h == b \div 32
             k == b % 32
             r == l * 8 + h
             s == k * 256 + c
  <2>1. a = q * 4 + l /\ l \in 0 .. 3 /\ q \in Nat
    BY <1>0, SMT
  <2>2. b = h * 32 + k /\ k \in 0 .. 31 /\ h \in 0 .. 7
    BY <1>0, SMT
  <2>3. r = (a % 4) * 8 + b \div 32
    BY <1>0, SMT
  <2> HIDE DEF q, l, h, k
  <2>4. x = (q * 32 + r) * 8192 + s /\ s \in Nat /\ s < 8192 /\ r \in 0 .. 31
    BY <1>0, <2>1, <2>2, SMT
  <2> DEFINE z == q * 32 + r
  <2> HIDE DEF r, s, x
  <2>5. x = z * 8192 + s /\ z \in Nat /\ s \in Nat /\ s < 8192 /\ z % 32 = r
    BY <2>1, <2>3, <2>4, SMT
  <2> HIDE DEF z
  <2>6. x \div 8192 = z
    BY <2>5, SMT
  <2> QED BY <2>0, <2>3, <2>5, <2>6, SMT
<1>8. CutOf(8, a, b, c, 16, 5) = a % 32
  <2>0. CutOf(8, a, b, c, 16, 5) = (x \div 65536) % 32
    BY CutIs, SMT
  <2> DEFINE z == a \div 1
             l == a % 1
             s == (l * 256 + b) * 256 + c
  <2>1. a = z * 1 + l /\ l \in 0 .. 0 /\ z \in Nat
    BY <1>0, SMT
  <2>2. z % 32 = a % 32
    BY <1>0, SMT
  <2> HIDE DEF z, l
  <2>3. x = z * 65536 + s /\ s \in Nat /\ s < 65536
    BY <1>0, <2>1, SMT
  <2> HIDE DEF s, x
  <2>4. x \div 65536 = z
    BY <1>0, <2>1, <2>3, SMT
  <2>5. (x \div 65536) % 32 = z % 32
    BY <2>4, SMT
  <2> QED BY <2>0, <2>2, <2>5, SMT
<1> QED BY <1>1, <1>2, <1>3, <1>4, <1>5, <1>6, <1>7, <1>8, SMT

(* A byte is cut out of three digits.                                       *)
LEMMA ByteCut ==
  ASSUME NEW a \in Fives, NEW b \in Fives, NEW c \in Fives
  PROVE  /\ CutOf(5, a, b, c, 7, 8) = a * 8 + b \div 4
         /\ CutOf(5, a, b, c, 4, 8) = (a % 4) * 64 + b * 2 + c \div 16
         /\ CutOf(5, a, b, c, 6, 8) = (a % 16) * 16 + b \div 2
         /\ CutOf(5, a, b, c, 3, 8) = (a % 2) * 128 + b * 4 + c \div 8
         /\ CutOf(5, a, b, c, 5, 8) = (a % 8) * 32 + b
<1>0. a \in 0 .. 31 /\ b \in 0 .. 31 /\ c \in 0 .. 31
  BY DEF Fives
<1> DEFINE x == (a * 32 + b) * 32 + c
<1>1. CutOf(5, a, b, c, 7, 8) = a * 8 + b \div 4
  <2>0. CutOf(5, a, b, c, 7, 8) = (x \div 128) % 256
    BY CutIs, SMT
  <2> DEFINE q == a \div 32
             l == a % 32
             h == b \div 4
             k == b % 4
             r == l * 8 + h
             s == k * 32 + c
  <2>1. a = q * 32 + l /\ l \in 0 .. 31 /\ q \in Nat
    BY <1>0, SMT
  <2>2. b = h * 4 + k /\ k \in 0 .. 3 /\ h \in 0 .. 7
    BY <1>0, SMT
  <2>3. r = a * 8 + b \div 4
    BY <1>0, SMT
  <2> HIDE DEF q, l, h, k
  <2>4. x = (q * 256 + r) * 128 + s /\ s \in Nat /\ s < 128 /\ r \in 0 .. 255
    BY <1>0, <2>1, <2>2, SMT
  <2> DEFINE z == q * 256 + r
  <2> HIDE DEF r, s, x
  <2>5. x = z * 128 + s /\ z \in Nat /\ s \in Nat /\ s < 128 /\ z % 256 = r
    BY <2>1, <2>4, SMT
  <2> HIDE DEF z
  <2>6. x \div 128 = z
    BY <2>5, SMT
  <2> QED BY <2>0, <2>3, <2>5, <2>6, SMT
<1>2. CutOf(5, a, b, c, 4, 8) = (a % 4) * 64 + b * 2 + c \div 16
  <2>0. CutOf(5, a, b, c, 4, 8) = (x \div 16) % 256
    BY CutIs, SMT
  <2> DEFINE q == a \div 4
             l == a % 4
             h == c \div 16
             k == c % 16
             r == l * 64 + b * 2 + h
             s == k
  <2>1. a = q * 4 + l /\ l \in 0 .. 3 /\ q \in Nat
    BY <1>0, SMT
  <2>2. c = h * 16 + k /\ k \in 0 .. 15 /\ h \in 0 .. 1
    BY <1>0, SMT
  <2>3. r = (a % 4) * 64 + b * 2 + c \div 16
    BY <1>0, SMT
  <2> HIDE DEF q, l, h, k
  <2>4. x = (q * 256 + r) * 16 + s /\ s \in Nat /\ s < 16 /\ r \in 0 .. 255
    BY <1>0, <2>1, <2>2, SMT
  <2> DEFINE z == q * 256 + r
  <2> HIDE DEF r, s, x
  <2>5. x = z * 16 + s /\ z \in Nat /\ s \in Nat /\ s < 16 /\ z % 256 = r
    BY <2>1, <2>4, SMT
  <2> HIDE DEF z
  <2>6. x \div 16 = z
    BY <2>5, SMT
  <2> QED BY <2>0, <2>3, <2>5, <2>6, SMT
<1>3. CutOf(5, a, b, c, 6, 8) = (a % 16) * 16 + b \div 2
  <2>0. CutOf(5, a, b, c, 6, 8) = (x \div 64) % 256
    BY CutIs, SMT
  <2> DEFINE q == a \div 16
             l == a % 16
             h == b \div 2
             k == b % 2
             r == l * 16 + h
             s == k * 32 + c
  <2>1. a = q * 16 + l /\ l \in 0 .. 15 /\ q \in Nat
    BY <1>0, SMT
  <2>2. b = h * 2 + k /\ k \in 0 .. 1 /\ h \in 0 .. 15
    BY <1>0, SMT
  <2>3. r = (a % 16) * 16 + b \div 2
    BY <1>0, SMT
  <2> HIDE DEF q, l, h, k
  <2>4. x = (q * 256 + r) * 64 + s /\ s \in Nat /\ s < 64 /\ r \in 0 .. 255
    BY <1>0, <2>1, <2>2, SMT
  <2> DEFINE z == q * 256 + r
  <2> HIDE DEF r, s, x
  <2>5. x = z * 64 + s /\ z \in Nat /\ s \in Nat /\ s < 64 /\ z % 256 = r
    BY <2>1, <2>4, SMT
  <2> HIDE DEF z
  <2>6. x \div 64 = z
    BY <2>5, SMT
  <2> QED BY <2>0, <2>3, <2>5, <2>6, SMT
<1>4. CutOf(5, a, b, c, 3, 8) = (a % 2) * 128 + b * 4 + c \div 8
  <2>0. CutOf(5, a, b, c, 3, 8) = (x \div 8) % 256
    BY CutIs, SMT
  <2> DEFINE q == a \div 2
             l == a % 2
             h == c \div 8
             k == c % 8
             r == l * 128 + b * 4 + h
             s == k
  <2>1. a = q * 2 + l /\ l \in 0 .. 1 /\ q \in Nat
    BY <1>0, SMT
  <2>2. c = h * 8 + k /\ k \in 0 .. 7 /\ h \in 0 .. 3
    BY <1>0, SMT
  <2>3. r = (a % 2) * 128 + b * 4 + c \div 8
    BY <1>0, SMT
  <2> HIDE DEF q, l, h, k
  <2>4. x = (q * 256 + r) * 8 + s /\ s \in Nat /\ s < 8 /\ r \in 0 .. 255
    BY <1>0, <2>1, <2>2, SMT
  <2> DEFINE z == q * 256 + r
  <2> HIDE DEF r, s, x
  <2>5. x = z * 8 + s /\ z \in Nat /\ s \in Nat /\ s < 8 /\ z % 256 = r
    BY <2>1, <2>4, SMT
  <2> HIDE DEF z
  <2>6. x \div 8 = z
    BY <2>5, SMT
  <2> QED BY <2>0, <2>3, <2>5, <2>6, SMT
<1>5. CutOf(5, a, b, c, 5, 8) = (a % 8) * 32 + b
  <2>0. CutOf(5, a, b, c, 5, 8) = (x \div 32) % 256
    BY CutIs, SMT
  <2> DEFINE q == a \div 8
             l == a % 8
             h == b \div 1
             k == b % 1
             r == l * 32 + h
             s == k * 32 + c
  <2>1. a = q * 8 + l /\ l \in 0 .. 7 /\ q \in Nat
    BY <1>0, SMT
  <2>2. b = h * 1 + k /\ k \in 0 .. 0 /\ h \in 0 .. 31
    BY <1>0, SMT
  <2>3. r = (a % 8) * 32 + b
    BY <1>0, SMT
  <2> HIDE DEF q, l, h, k
  <2>4. x = (q * 256 + r) * 32 + s /\ s \in Nat /\ s < 32 /\ r \in 0 .. 255
    BY <1>0, <2>1, <2>2, SMT
  <2> DEFINE z == q * 256 + r
  <2> HIDE DEF r, s, x
  <2>5. x = z * 32 + s /\ z \in Nat /\ s \in Nat /\ s < 32 /\ z % 256 = r
    BY <2>1, <2>4, SMT
  <2> HIDE DEF z
  <2>6. x \div 32 = z
    BY <2>5, SMT
  <2> QED BY <2>0, <2>3, <2>5, <2>6, SMT
<1> QED BY <1>1, <1>2, <1>3, <1>4, <1>5, SMT

LEMMA Back0 ==
  ASSUME NEW u \in Bytes, NEW v \in Bytes, NEW a, NEW b,
         a = u \div 8, b = (u % 8) * 4 + v \div 64
  PROVE  a * 8 + b \div 4 = u
BY SMT DEF Bytes

LEMMA Back1 ==
  ASSUME NEW u \in Bytes, NEW v \in Bytes, NEW w \in Bytes, NEW a, NEW b, NEW c,
         a = (u % 8) * 4 + v \div 64, b = (v \div 2) % 32, c = (v % 2) * 16 + w \div 16
  PROVE  (a % 4) * 64 + b * 2 + c \div 16 = v
BY SMT DEF Bytes

LEMMA Back2 ==
  ASSUME NEW u \in Bytes, NEW v \in Bytes, NEW w \in Bytes, NEW a, NEW b,
         a = (u % 2) * 16 + v \div 16, b = (v % 16) * 2 + w \div 128
  PROVE  (a % 16) * 16 + b \div 2 = v
BY SMT DEF Bytes

LEMMA Back3 ==
  ASSUME NEW u \in Bytes, NEW v \in Bytes, NEW w \in Bytes, NEW a, NEW b, NEW c,
         a = (u % 16) * 2 + v \div 128, b = (v \div 4) % 32, c = (v % 4) * 8 + w \div 32
  PROVE  (a % 2) * 128 + b * 4 + c \div 8 = v
BY SMT DEF Bytes

LEMMA Back4 ==
  ASSUME NEW u \in Bytes, NEW v \in Bytes, NEW a, NEW b,
         a = (u % 4) * 8 + v \div 32, b = v % 32
  PROVE  (a % 8) * 32 + b = v
BY SMT DEF Bytes

LEMMA BitsAre ==
  ASSUME NEW groups, NEW width, NEW from, NEW n, NEW i, NEW k, from \div width = i, 3 * width - (from % width) - n = k
  PROVE  Cids!Bits(groups, width, from, n) =
           CutOf(width, GroupAt(groups, i), GroupAt(groups, i + 1), GroupAt(groups, i + 2), k, n)
BY DEF Cids!Bits, GroupAt, CutOf

(* Eight digits from five bytes.                                            *)
LEMMA DigitIs ==
  ASSUME NEW data \in Seq(Bytes), NEW q \in Nat
  PROVE  /\ Cids!Bits(data, 8, 5 * (8 * q + 0), 5) = GroupAt(data, 5 * q + 0) \div 8
         /\ Cids!Bits(data, 8, 5 * (8 * q + 1), 5) = (GroupAt(data, 5 * q + 0) % 8) * 4 + GroupAt(data, 5 * q + 1) \div 64
         /\ Cids!Bits(data, 8, 5 * (8 * q + 2), 5) = (GroupAt(data, 5 * q + 1) \div 2) % 32
         /\ Cids!Bits(data, 8, 5 * (8 * q + 3), 5) = (GroupAt(data, 5 * q + 1) % 2) * 16 + GroupAt(data, 5 * q + 2) \div 16
         /\ Cids!Bits(data, 8, 5 * (8 * q + 4), 5) = (GroupAt(data, 5 * q + 2) % 16) * 2 + GroupAt(data, 5 * q + 3) \div 128
         /\ Cids!Bits(data, 8, 5 * (8 * q + 5), 5) = (GroupAt(data, 5 * q + 3) \div 4) % 32
         /\ Cids!Bits(data, 8, 5 * (8 * q + 6), 5) = (GroupAt(data, 5 * q + 3) % 4) * 8 + GroupAt(data, 5 * q + 4) \div 32
         /\ Cids!Bits(data, 8, 5 * (8 * q + 7), 5) = GroupAt(data, 5 * q + 4) % 32
<1>0. \A j \in Nat : GroupAt(data, j) \in Bytes
  <2>1. 0 \in Bytes
    BY DEF Bytes
  <2> QED BY <2>1, AtIn
<1>1. Cids!Bits(data, 8, 5 * (8 * q + 0), 5) = GroupAt(data, 5 * q + 0) \div 8
  <2> DEFINE from == 5 * (8 * q + 0)
             i == 5 * q + 0
  <2>1. from \div 8 = i /\ from % 8 = 0 /\ i \in Nat /\ i + 1 = 5 * q + 1
    BY SMT
  <2>2. 3 * 8 - (from % 8) - 5 = 19
    BY <2>1, SMT
  <2> DEFINE a == GroupAt(data, i)
             b == GroupAt(data, i + 1)
             c == GroupAt(data, i + 2)
  <2>3. a \in Bytes /\ b \in Bytes /\ c \in Bytes
    <3>1. i \in Nat /\ i + 1 \in Nat /\ i + 2 \in Nat
      BY <2>1, SMT
    <3> HIDE DEF i
    <3> QED BY <1>0, <3>1
  <2> HIDE DEF from, i
  <2>4. Cids!Bits(data, 8, from, 5) = CutOf(8, a, b, c, 19, 5)
    BY <2>1, <2>2, BitsAre, SMT
  <2> HIDE DEF a, b, c
  <2>7. CutOf(8, a, b, c, 19, 5) = a \div 8
    BY <2>3, DigitCut
  <2>8. Cids!Bits(data, 8, from, 5) = a \div 8
    BY <2>4, <2>7
  <2> QED BY <2>1, <2>8, SMT DEF from, i, a, b
<1>2. Cids!Bits(data, 8, 5 * (8 * q + 1), 5) = (GroupAt(data, 5 * q + 0) % 8) * 4 + GroupAt(data, 5 * q + 1) \div 64
  <2> DEFINE from == 5 * (8 * q + 1)
             i == 5 * q + 0
  <2>1. from \div 8 = i /\ from % 8 = 5 /\ i \in Nat /\ i + 1 = 5 * q + 1
    BY SMT
  <2>2. 3 * 8 - (from % 8) - 5 = 14
    BY <2>1, SMT
  <2> DEFINE a == GroupAt(data, i)
             b == GroupAt(data, i + 1)
             c == GroupAt(data, i + 2)
  <2>3. a \in Bytes /\ b \in Bytes /\ c \in Bytes
    <3>1. i \in Nat /\ i + 1 \in Nat /\ i + 2 \in Nat
      BY <2>1, SMT
    <3> HIDE DEF i
    <3> QED BY <1>0, <3>1
  <2> HIDE DEF from, i
  <2>4. Cids!Bits(data, 8, from, 5) = CutOf(8, a, b, c, 14, 5)
    BY <2>1, <2>2, BitsAre, SMT
  <2> HIDE DEF a, b, c
  <2>7. CutOf(8, a, b, c, 14, 5) = (a % 8) * 4 + b \div 64
    BY <2>3, DigitCut
  <2>8. Cids!Bits(data, 8, from, 5) = (a % 8) * 4 + b \div 64
    BY <2>4, <2>7
  <2> QED BY <2>1, <2>8, SMT DEF from, i, a, b
<1>3. Cids!Bits(data, 8, 5 * (8 * q + 2), 5) = (GroupAt(data, 5 * q + 1) \div 2) % 32
  <2> DEFINE from == 5 * (8 * q + 2)
             i == 5 * q + 1
  <2>1. from \div 8 = i /\ from % 8 = 2 /\ i \in Nat /\ i + 1 = 5 * q + 2
    BY SMT
  <2>2. 3 * 8 - (from % 8) - 5 = 17
    BY <2>1, SMT
  <2> DEFINE a == GroupAt(data, i)
             b == GroupAt(data, i + 1)
             c == GroupAt(data, i + 2)
  <2>3. a \in Bytes /\ b \in Bytes /\ c \in Bytes
    <3>1. i \in Nat /\ i + 1 \in Nat /\ i + 2 \in Nat
      BY <2>1, SMT
    <3> HIDE DEF i
    <3> QED BY <1>0, <3>1
  <2> HIDE DEF from, i
  <2>4. Cids!Bits(data, 8, from, 5) = CutOf(8, a, b, c, 17, 5)
    BY <2>1, <2>2, BitsAre, SMT
  <2> HIDE DEF a, b, c
  <2>7. CutOf(8, a, b, c, 17, 5) = (a \div 2) % 32
    BY <2>3, DigitCut
  <2>8. Cids!Bits(data, 8, from, 5) = (a \div 2) % 32
    BY <2>4, <2>7
  <2> QED BY <2>1, <2>8, SMT DEF from, i, a, b
<1>4. Cids!Bits(data, 8, 5 * (8 * q + 3), 5) = (GroupAt(data, 5 * q + 1) % 2) * 16 + GroupAt(data, 5 * q + 2) \div 16
  <2> DEFINE from == 5 * (8 * q + 3)
             i == 5 * q + 1
  <2>1. from \div 8 = i /\ from % 8 = 7 /\ i \in Nat /\ i + 1 = 5 * q + 2
    BY SMT
  <2>2. 3 * 8 - (from % 8) - 5 = 12
    BY <2>1, SMT
  <2> DEFINE a == GroupAt(data, i)
             b == GroupAt(data, i + 1)
             c == GroupAt(data, i + 2)
  <2>3. a \in Bytes /\ b \in Bytes /\ c \in Bytes
    <3>1. i \in Nat /\ i + 1 \in Nat /\ i + 2 \in Nat
      BY <2>1, SMT
    <3> HIDE DEF i
    <3> QED BY <1>0, <3>1
  <2> HIDE DEF from, i
  <2>4. Cids!Bits(data, 8, from, 5) = CutOf(8, a, b, c, 12, 5)
    BY <2>1, <2>2, BitsAre, SMT
  <2> HIDE DEF a, b, c
  <2>7. CutOf(8, a, b, c, 12, 5) = (a % 2) * 16 + b \div 16
    BY <2>3, DigitCut
  <2>8. Cids!Bits(data, 8, from, 5) = (a % 2) * 16 + b \div 16
    BY <2>4, <2>7
  <2> QED BY <2>1, <2>8, SMT DEF from, i, a, b
<1>5. Cids!Bits(data, 8, 5 * (8 * q + 4), 5) = (GroupAt(data, 5 * q + 2) % 16) * 2 + GroupAt(data, 5 * q + 3) \div 128
  <2> DEFINE from == 5 * (8 * q + 4)
             i == 5 * q + 2
  <2>1. from \div 8 = i /\ from % 8 = 4 /\ i \in Nat /\ i + 1 = 5 * q + 3
    BY SMT
  <2>2. 3 * 8 - (from % 8) - 5 = 15
    BY <2>1, SMT
  <2> DEFINE a == GroupAt(data, i)
             b == GroupAt(data, i + 1)
             c == GroupAt(data, i + 2)
  <2>3. a \in Bytes /\ b \in Bytes /\ c \in Bytes
    <3>1. i \in Nat /\ i + 1 \in Nat /\ i + 2 \in Nat
      BY <2>1, SMT
    <3> HIDE DEF i
    <3> QED BY <1>0, <3>1
  <2> HIDE DEF from, i
  <2>4. Cids!Bits(data, 8, from, 5) = CutOf(8, a, b, c, 15, 5)
    BY <2>1, <2>2, BitsAre, SMT
  <2> HIDE DEF a, b, c
  <2>7. CutOf(8, a, b, c, 15, 5) = (a % 16) * 2 + b \div 128
    BY <2>3, DigitCut
  <2>8. Cids!Bits(data, 8, from, 5) = (a % 16) * 2 + b \div 128
    BY <2>4, <2>7
  <2> QED BY <2>1, <2>8, SMT DEF from, i, a, b
<1>6. Cids!Bits(data, 8, 5 * (8 * q + 5), 5) = (GroupAt(data, 5 * q + 3) \div 4) % 32
  <2> DEFINE from == 5 * (8 * q + 5)
             i == 5 * q + 3
  <2>1. from \div 8 = i /\ from % 8 = 1 /\ i \in Nat /\ i + 1 = 5 * q + 4
    BY SMT
  <2>2. 3 * 8 - (from % 8) - 5 = 18
    BY <2>1, SMT
  <2> DEFINE a == GroupAt(data, i)
             b == GroupAt(data, i + 1)
             c == GroupAt(data, i + 2)
  <2>3. a \in Bytes /\ b \in Bytes /\ c \in Bytes
    <3>1. i \in Nat /\ i + 1 \in Nat /\ i + 2 \in Nat
      BY <2>1, SMT
    <3> HIDE DEF i
    <3> QED BY <1>0, <3>1
  <2> HIDE DEF from, i
  <2>4. Cids!Bits(data, 8, from, 5) = CutOf(8, a, b, c, 18, 5)
    BY <2>1, <2>2, BitsAre, SMT
  <2> HIDE DEF a, b, c
  <2>7. CutOf(8, a, b, c, 18, 5) = (a \div 4) % 32
    BY <2>3, DigitCut
  <2>8. Cids!Bits(data, 8, from, 5) = (a \div 4) % 32
    BY <2>4, <2>7
  <2> QED BY <2>1, <2>8, SMT DEF from, i, a, b
<1>7. Cids!Bits(data, 8, 5 * (8 * q + 6), 5) = (GroupAt(data, 5 * q + 3) % 4) * 8 + GroupAt(data, 5 * q + 4) \div 32
  <2> DEFINE from == 5 * (8 * q + 6)
             i == 5 * q + 3
  <2>1. from \div 8 = i /\ from % 8 = 6 /\ i \in Nat /\ i + 1 = 5 * q + 4
    BY SMT
  <2>2. 3 * 8 - (from % 8) - 5 = 13
    BY <2>1, SMT
  <2> DEFINE a == GroupAt(data, i)
             b == GroupAt(data, i + 1)
             c == GroupAt(data, i + 2)
  <2>3. a \in Bytes /\ b \in Bytes /\ c \in Bytes
    <3>1. i \in Nat /\ i + 1 \in Nat /\ i + 2 \in Nat
      BY <2>1, SMT
    <3> HIDE DEF i
    <3> QED BY <1>0, <3>1
  <2> HIDE DEF from, i
  <2>4. Cids!Bits(data, 8, from, 5) = CutOf(8, a, b, c, 13, 5)
    BY <2>1, <2>2, BitsAre, SMT
  <2> HIDE DEF a, b, c
  <2>7. CutOf(8, a, b, c, 13, 5) = (a % 4) * 8 + b \div 32
    BY <2>3, DigitCut
  <2>8. Cids!Bits(data, 8, from, 5) = (a % 4) * 8 + b \div 32
    BY <2>4, <2>7
  <2> QED BY <2>1, <2>8, SMT DEF from, i, a, b
<1>8. Cids!Bits(data, 8, 5 * (8 * q + 7), 5) = GroupAt(data, 5 * q + 4) % 32
  <2> DEFINE from == 5 * (8 * q + 7)
             i == 5 * q + 4
  <2>1. from \div 8 = i /\ from % 8 = 3 /\ i \in Nat /\ i + 1 = 5 * q + 5
    BY SMT
  <2>2. 3 * 8 - (from % 8) - 5 = 16
    BY <2>1, SMT
  <2> DEFINE a == GroupAt(data, i)
             b == GroupAt(data, i + 1)
             c == GroupAt(data, i + 2)
  <2>3. a \in Bytes /\ b \in Bytes /\ c \in Bytes
    <3>1. i \in Nat /\ i + 1 \in Nat /\ i + 2 \in Nat
      BY <2>1, SMT
    <3> HIDE DEF i
    <3> QED BY <1>0, <3>1
  <2> HIDE DEF from, i
  <2>4. Cids!Bits(data, 8, from, 5) = CutOf(8, a, b, c, 16, 5)
    BY <2>1, <2>2, BitsAre, SMT
  <2> HIDE DEF a, b, c
  <2>7. CutOf(8, a, b, c, 16, 5) = a % 32
    BY <2>3, DigitCut
  <2>8. Cids!Bits(data, 8, from, 5) = a % 32
    BY <2>4, <2>7
  <2> QED BY <2>1, <2>8, SMT DEF from, i, a, b
<1> QED BY <1>1, <1>2, <1>3, <1>4, <1>5, <1>6, <1>7, <1>8

(* Byte p from the digits it went into.                                     *)
LEMMA ByteBack ==
  ASSUME NEW data \in Seq(Bytes), NEW digits \in Seq(Fives), Len(digits) = (8 * Len(data) + 4) \div 5,
         \A j \in 0 .. Len(digits) - 1 : GroupAt(digits, j) = Cids!Bits(data, 8, 5 * j, 5),
         NEW p \in 0 .. Len(data) - 1
  PROVE  Cids!Bits(digits, 5, 8 * p, 8) = data[p + 1]
<1> DEFINE q == p \div 5
           n == Len(digits)
           byte(t) == GroupAt(data, 5 * q + t)
           digit(s) == GroupAt(digits, 8 * q + s)
<1>1. q \in Nat /\ Len(data) \in Nat /\ n \in Nat
  BY SMT
<1>2. data[p + 1] = GroupAt(data, p)
  BY DEF GroupAt
<1>3. \A j \in Nat : GroupAt(data, j) \in Bytes /\ GroupAt(digits, j) \in Fives
  <2>1. 0 \in Bytes /\ 0 \in Fives
    BY DEF Bytes, Fives
  <2> QED BY <2>1, AtIn
<1>4. ASSUME NEW s \in Nat, 8 * q + s < n PROVE digit(s) = Cids!Bits(data, 8, 5 * (8 * q + s), 5)
  <2>1. 8 * q + s \in 0 .. n - 1
    BY <1>1, <1>4, SMT
  <2> HIDE DEF q
  <2> QED BY <2>1
<1>5. \A t \in Nat : byte(t) \in Bytes /\ digit(t) \in Fives
  <2>1. \A t \in Nat : 5 * q + t \in Nat /\ 8 * q + t \in Nat
    BY <1>1, SMT
  <2> HIDE DEF q
  <2> QED BY <1>3, <2>1
<1>6. CASE p % 5 = 0
  <2> DEFINE a == digit(0)
             b == digit(1)
             c == digit(2)
  <2>1. p = 5 * q + 0 /\ 8 * q + 1 < n
    BY <1>6, SMT
  <2>2. (8 * p) \div 5 = 8 * q + 0 /\ 3 * 5 - ((8 * p) % 5) - 8 = 7
    <3>1. 8 * p = 5 * (8 * q + 0) + 0
      BY <2>1, <1>1, SMT
    <3> DEFINE x == 8 * p
               y == 8 * q + 0
    <3>2. x = 5 * y + 0 /\ y \in Nat
      BY <1>1, <3>1, SMT
    <3> HIDE DEF x, y
    <3>3. x \div 5 = y /\ 3 * 5 - (x % 5) - 8 = 7
      BY <3>2, SMT
    <3> QED BY <3>3 DEF x, y
  <2> HIDE DEF q, n
  <2>3. a \in Fives /\ b \in Fives /\ c \in Fives
    BY <1>5, SMT
  <2>4. Cids!Bits(digits, 5, 8 * p, 8) = CutOf(5, a, b, c, 7, 8)
    <3>1. (8 * q + 0) + 1 = 8 * q + 1 /\ (8 * q + 0) + 2 = 8 * q + 2
      BY <1>1, SMT
    <3> DEFINE from == 8 * p
               y == 8 * q + 0
    <3>2. from \div 5 = y /\ 3 * 5 - (from % 5) - 8 = 7
      BY <2>2
    <3>3. a = GroupAt(digits, y) /\ b = GroupAt(digits, y + 1) /\ c = GroupAt(digits, y + 2)
      BY <3>1
    <3> HIDE DEF from, y, a, b, c
    <3>4. Cids!Bits(digits, 5, from, 8) =
            CutOf(5, GroupAt(digits, y), GroupAt(digits, y + 1), GroupAt(digits, y + 2), 7, 8)
      BY <3>2, BitsAre, SMT
    <3> QED BY <3>3, <3>4 DEF from
  <2>6. a = byte(0) \div 8
    <3>1. 8 * q + 0 < n
      BY <1>1, <2>1, SMT
    <3>2. a = Cids!Bits(data, 8, 5 * (8 * q + 0), 5)
      BY <1>4, <3>1, SMT
    <3> QED BY <1>1, <3>2, DigitIs, SMT
  <2>7. b = (byte(0) % 8) * 4 + byte(1) \div 64
    <3>1. 8 * q + 1 < n
      BY <1>1, <2>1, SMT
    <3>2. b = Cids!Bits(data, 8, 5 * (8 * q + 1), 5)
      BY <1>4, <3>1, SMT
    <3> QED BY <1>1, <3>2, DigitIs, SMT
  <2> HIDE DEF a, b, c
  <2>8. Cids!Bits(digits, 5, 8 * p, 8) = a * 8 + b \div 4
    <3>1. CutOf(5, a, b, c, 7, 8) = a * 8 + b \div 4
      BY <2>3, ByteCut
    <3> QED BY <2>4, <3>1
  <2>9. byte(0) \in Bytes /\ byte(1) \in Bytes
    BY <1>5, SMT
  <2>10. byte(0) = GroupAt(data, p)
    BY <2>1
  <2> DEFINE u == byte(0)
             v == byte(1)
  <2>11. /\ u \in Bytes
        /\ v \in Bytes
        /\ a = u \div 8
        /\ b = (u % 8) * 4 + v \div 64
    BY <2>6, <2>7, <2>9
  <2> HIDE DEF u, v
  <2>12. a * 8 + b \div 4 = u
    BY <2>11, Back0
  <2>13. u = byte(0)
    BY DEF u
  <2> QED BY <1>2, <2>8, <2>10, <2>12, <2>13
<1>7. CASE p % 5 = 1
  <2> DEFINE a == digit(1)
             b == digit(2)
             c == digit(3)
  <2>1. p = 5 * q + 1 /\ 8 * q + 3 < n
    BY <1>7, SMT
  <2>2. (8 * p) \div 5 = 8 * q + 1 /\ 3 * 5 - ((8 * p) % 5) - 8 = 4
    <3>1. 8 * p = 5 * (8 * q + 1) + 3
      BY <2>1, <1>1, SMT
    <3> DEFINE x == 8 * p
               y == 8 * q + 1
    <3>2. x = 5 * y + 3 /\ y \in Nat
      BY <1>1, <3>1, SMT
    <3> HIDE DEF x, y
    <3>3. x \div 5 = y /\ 3 * 5 - (x % 5) - 8 = 4
      BY <3>2, SMT
    <3> QED BY <3>3 DEF x, y
  <2> HIDE DEF q, n
  <2>3. a \in Fives /\ b \in Fives /\ c \in Fives
    BY <1>5, SMT
  <2>4. Cids!Bits(digits, 5, 8 * p, 8) = CutOf(5, a, b, c, 4, 8)
    <3>1. (8 * q + 1) + 1 = 8 * q + 2 /\ (8 * q + 1) + 2 = 8 * q + 3
      BY <1>1, SMT
    <3> DEFINE from == 8 * p
               y == 8 * q + 1
    <3>2. from \div 5 = y /\ 3 * 5 - (from % 5) - 8 = 4
      BY <2>2
    <3>3. a = GroupAt(digits, y) /\ b = GroupAt(digits, y + 1) /\ c = GroupAt(digits, y + 2)
      BY <3>1
    <3> HIDE DEF from, y, a, b, c
    <3>4. Cids!Bits(digits, 5, from, 8) =
            CutOf(5, GroupAt(digits, y), GroupAt(digits, y + 1), GroupAt(digits, y + 2), 4, 8)
      BY <3>2, BitsAre, SMT
    <3> QED BY <3>3, <3>4 DEF from
  <2>6. a = (byte(0) % 8) * 4 + byte(1) \div 64
    <3>1. 8 * q + 1 < n
      BY <1>1, <2>1, SMT
    <3>2. a = Cids!Bits(data, 8, 5 * (8 * q + 1), 5)
      BY <1>4, <3>1, SMT
    <3> QED BY <1>1, <3>2, DigitIs, SMT
  <2>7. b = (byte(1) \div 2) % 32
    <3>1. 8 * q + 2 < n
      BY <1>1, <2>1, SMT
    <3>2. b = Cids!Bits(data, 8, 5 * (8 * q + 2), 5)
      BY <1>4, <3>1, SMT
    <3> QED BY <1>1, <3>2, DigitIs, SMT
  <2>8. c = (byte(1) % 2) * 16 + byte(2) \div 16
    <3>1. 8 * q + 3 < n
      BY <1>1, <2>1, SMT
    <3>2. c = Cids!Bits(data, 8, 5 * (8 * q + 3), 5)
      BY <1>4, <3>1, SMT
    <3> QED BY <1>1, <3>2, DigitIs, SMT
  <2> HIDE DEF a, b, c
  <2>9. Cids!Bits(digits, 5, 8 * p, 8) = (a % 4) * 64 + b * 2 + c \div 16
    <3>1. CutOf(5, a, b, c, 4, 8) = (a % 4) * 64 + b * 2 + c \div 16
      BY <2>3, ByteCut
    <3> QED BY <2>4, <3>1
  <2>10. byte(0) \in Bytes /\ byte(1) \in Bytes /\ byte(2) \in Bytes
    BY <1>5, SMT
  <2>11. byte(1) = GroupAt(data, p)
    BY <2>1
  <2> DEFINE u == byte(0)
             v == byte(1)
             w == byte(2)
  <2>12. /\ u \in Bytes
        /\ v \in Bytes
        /\ w \in Bytes
        /\ a = (u % 8) * 4 + v \div 64
        /\ b = (v \div 2) % 32
        /\ c = (v % 2) * 16 + w \div 16
    BY <2>6, <2>7, <2>8, <2>10
  <2> HIDE DEF u, v, w
  <2>13. (a % 4) * 64 + b * 2 + c \div 16 = v
    BY <2>12, Back1
  <2>14. v = byte(1)
    BY DEF v
  <2> QED BY <1>2, <2>9, <2>11, <2>13, <2>14
<1>8. CASE p % 5 = 2
  <2> DEFINE a == digit(3)
             b == digit(4)
             c == digit(5)
  <2>1. p = 5 * q + 2 /\ 8 * q + 4 < n
    BY <1>8, SMT
  <2>2. (8 * p) \div 5 = 8 * q + 3 /\ 3 * 5 - ((8 * p) % 5) - 8 = 6
    <3>1. 8 * p = 5 * (8 * q + 3) + 1
      BY <2>1, <1>1, SMT
    <3> DEFINE x == 8 * p
               y == 8 * q + 3
    <3>2. x = 5 * y + 1 /\ y \in Nat
      BY <1>1, <3>1, SMT
    <3> HIDE DEF x, y
    <3>3. x \div 5 = y /\ 3 * 5 - (x % 5) - 8 = 6
      BY <3>2, SMT
    <3> QED BY <3>3 DEF x, y
  <2> HIDE DEF q, n
  <2>3. a \in Fives /\ b \in Fives /\ c \in Fives
    BY <1>5, SMT
  <2>4. Cids!Bits(digits, 5, 8 * p, 8) = CutOf(5, a, b, c, 6, 8)
    <3>1. (8 * q + 3) + 1 = 8 * q + 4 /\ (8 * q + 3) + 2 = 8 * q + 5
      BY <1>1, SMT
    <3> DEFINE from == 8 * p
               y == 8 * q + 3
    <3>2. from \div 5 = y /\ 3 * 5 - (from % 5) - 8 = 6
      BY <2>2
    <3>3. a = GroupAt(digits, y) /\ b = GroupAt(digits, y + 1) /\ c = GroupAt(digits, y + 2)
      BY <3>1
    <3> HIDE DEF from, y, a, b, c
    <3>4. Cids!Bits(digits, 5, from, 8) =
            CutOf(5, GroupAt(digits, y), GroupAt(digits, y + 1), GroupAt(digits, y + 2), 6, 8)
      BY <3>2, BitsAre, SMT
    <3> QED BY <3>3, <3>4 DEF from
  <2>6. a = (byte(1) % 2) * 16 + byte(2) \div 16
    <3>1. 8 * q + 3 < n
      BY <1>1, <2>1, SMT
    <3>2. a = Cids!Bits(data, 8, 5 * (8 * q + 3), 5)
      BY <1>4, <3>1, SMT
    <3> QED BY <1>1, <3>2, DigitIs, SMT
  <2>7. b = (byte(2) % 16) * 2 + byte(3) \div 128
    <3>1. 8 * q + 4 < n
      BY <1>1, <2>1, SMT
    <3>2. b = Cids!Bits(data, 8, 5 * (8 * q + 4), 5)
      BY <1>4, <3>1, SMT
    <3> QED BY <1>1, <3>2, DigitIs, SMT
  <2> HIDE DEF a, b, c
  <2>8. Cids!Bits(digits, 5, 8 * p, 8) = (a % 16) * 16 + b \div 2
    <3>1. CutOf(5, a, b, c, 6, 8) = (a % 16) * 16 + b \div 2
      BY <2>3, ByteCut
    <3> QED BY <2>4, <3>1
  <2>9. byte(1) \in Bytes /\ byte(2) \in Bytes /\ byte(3) \in Bytes
    BY <1>5, SMT
  <2>10. byte(2) = GroupAt(data, p)
    BY <2>1
  <2> DEFINE u == byte(1)
             v == byte(2)
             w == byte(3)
  <2>11. /\ u \in Bytes
        /\ v \in Bytes
        /\ w \in Bytes
        /\ a = (u % 2) * 16 + v \div 16
        /\ b = (v % 16) * 2 + w \div 128
    BY <2>6, <2>7, <2>9
  <2> HIDE DEF u, v, w
  <2>12. (a % 16) * 16 + b \div 2 = v
    BY <2>11, Back2
  <2>13. v = byte(2)
    BY DEF v
  <2> QED BY <1>2, <2>8, <2>10, <2>12, <2>13
<1>9. CASE p % 5 = 3
  <2> DEFINE a == digit(4)
             b == digit(5)
             c == digit(6)
  <2>1. p = 5 * q + 3 /\ 8 * q + 6 < n
    BY <1>9, SMT
  <2>2. (8 * p) \div 5 = 8 * q + 4 /\ 3 * 5 - ((8 * p) % 5) - 8 = 3
    <3>1. 8 * p = 5 * (8 * q + 4) + 4
      BY <2>1, <1>1, SMT
    <3> DEFINE x == 8 * p
               y == 8 * q + 4
    <3>2. x = 5 * y + 4 /\ y \in Nat
      BY <1>1, <3>1, SMT
    <3> HIDE DEF x, y
    <3>3. x \div 5 = y /\ 3 * 5 - (x % 5) - 8 = 3
      BY <3>2, SMT
    <3> QED BY <3>3 DEF x, y
  <2> HIDE DEF q, n
  <2>3. a \in Fives /\ b \in Fives /\ c \in Fives
    BY <1>5, SMT
  <2>4. Cids!Bits(digits, 5, 8 * p, 8) = CutOf(5, a, b, c, 3, 8)
    <3>1. (8 * q + 4) + 1 = 8 * q + 5 /\ (8 * q + 4) + 2 = 8 * q + 6
      BY <1>1, SMT
    <3> DEFINE from == 8 * p
               y == 8 * q + 4
    <3>2. from \div 5 = y /\ 3 * 5 - (from % 5) - 8 = 3
      BY <2>2
    <3>3. a = GroupAt(digits, y) /\ b = GroupAt(digits, y + 1) /\ c = GroupAt(digits, y + 2)
      BY <3>1
    <3> HIDE DEF from, y, a, b, c
    <3>4. Cids!Bits(digits, 5, from, 8) =
            CutOf(5, GroupAt(digits, y), GroupAt(digits, y + 1), GroupAt(digits, y + 2), 3, 8)
      BY <3>2, BitsAre, SMT
    <3> QED BY <3>3, <3>4 DEF from
  <2>6. a = (byte(2) % 16) * 2 + byte(3) \div 128
    <3>1. 8 * q + 4 < n
      BY <1>1, <2>1, SMT
    <3>2. a = Cids!Bits(data, 8, 5 * (8 * q + 4), 5)
      BY <1>4, <3>1, SMT
    <3> QED BY <1>1, <3>2, DigitIs, SMT
  <2>7. b = (byte(3) \div 4) % 32
    <3>1. 8 * q + 5 < n
      BY <1>1, <2>1, SMT
    <3>2. b = Cids!Bits(data, 8, 5 * (8 * q + 5), 5)
      BY <1>4, <3>1, SMT
    <3> QED BY <1>1, <3>2, DigitIs, SMT
  <2>8. c = (byte(3) % 4) * 8 + byte(4) \div 32
    <3>1. 8 * q + 6 < n
      BY <1>1, <2>1, SMT
    <3>2. c = Cids!Bits(data, 8, 5 * (8 * q + 6), 5)
      BY <1>4, <3>1, SMT
    <3> QED BY <1>1, <3>2, DigitIs, SMT
  <2> HIDE DEF a, b, c
  <2>9. Cids!Bits(digits, 5, 8 * p, 8) = (a % 2) * 128 + b * 4 + c \div 8
    <3>1. CutOf(5, a, b, c, 3, 8) = (a % 2) * 128 + b * 4 + c \div 8
      BY <2>3, ByteCut
    <3> QED BY <2>4, <3>1
  <2>10. byte(2) \in Bytes /\ byte(3) \in Bytes /\ byte(4) \in Bytes
    BY <1>5, SMT
  <2>11. byte(3) = GroupAt(data, p)
    BY <2>1
  <2> DEFINE u == byte(2)
             v == byte(3)
             w == byte(4)
  <2>12. /\ u \in Bytes
        /\ v \in Bytes
        /\ w \in Bytes
        /\ a = (u % 16) * 2 + v \div 128
        /\ b = (v \div 4) % 32
        /\ c = (v % 4) * 8 + w \div 32
    BY <2>6, <2>7, <2>8, <2>10
  <2> HIDE DEF u, v, w
  <2>13. (a % 2) * 128 + b * 4 + c \div 8 = v
    BY <2>12, Back3
  <2>14. v = byte(3)
    BY DEF v
  <2> QED BY <1>2, <2>9, <2>11, <2>13, <2>14
<1>10. CASE p % 5 = 4
  <2> DEFINE a == digit(6)
             b == digit(7)
             c == digit(8)
  <2>1. p = 5 * q + 4 /\ 8 * q + 7 < n
    BY <1>10, SMT
  <2>2. (8 * p) \div 5 = 8 * q + 6 /\ 3 * 5 - ((8 * p) % 5) - 8 = 5
    <3>1. 8 * p = 5 * (8 * q + 6) + 2
      BY <2>1, <1>1, SMT
    <3> DEFINE x == 8 * p
               y == 8 * q + 6
    <3>2. x = 5 * y + 2 /\ y \in Nat
      BY <1>1, <3>1, SMT
    <3> HIDE DEF x, y
    <3>3. x \div 5 = y /\ 3 * 5 - (x % 5) - 8 = 5
      BY <3>2, SMT
    <3> QED BY <3>3 DEF x, y
  <2> HIDE DEF q, n
  <2>3. a \in Fives /\ b \in Fives /\ c \in Fives
    BY <1>5, SMT
  <2>4. Cids!Bits(digits, 5, 8 * p, 8) = CutOf(5, a, b, c, 5, 8)
    <3>1. (8 * q + 6) + 1 = 8 * q + 7 /\ (8 * q + 6) + 2 = 8 * q + 8
      BY <1>1, SMT
    <3> DEFINE from == 8 * p
               y == 8 * q + 6
    <3>2. from \div 5 = y /\ 3 * 5 - (from % 5) - 8 = 5
      BY <2>2
    <3>3. a = GroupAt(digits, y) /\ b = GroupAt(digits, y + 1) /\ c = GroupAt(digits, y + 2)
      BY <3>1
    <3> HIDE DEF from, y, a, b, c
    <3>4. Cids!Bits(digits, 5, from, 8) =
            CutOf(5, GroupAt(digits, y), GroupAt(digits, y + 1), GroupAt(digits, y + 2), 5, 8)
      BY <3>2, BitsAre, SMT
    <3> QED BY <3>3, <3>4 DEF from
  <2>6. a = (byte(3) % 4) * 8 + byte(4) \div 32
    <3>1. 8 * q + 6 < n
      BY <1>1, <2>1, SMT
    <3>2. a = Cids!Bits(data, 8, 5 * (8 * q + 6), 5)
      BY <1>4, <3>1, SMT
    <3> QED BY <1>1, <3>2, DigitIs, SMT
  <2>7. b = byte(4) % 32
    <3>1. 8 * q + 7 < n
      BY <1>1, <2>1, SMT
    <3>2. b = Cids!Bits(data, 8, 5 * (8 * q + 7), 5)
      BY <1>4, <3>1, SMT
    <3> QED BY <1>1, <3>2, DigitIs, SMT
  <2> HIDE DEF a, b, c
  <2>8. Cids!Bits(digits, 5, 8 * p, 8) = (a % 8) * 32 + b
    <3>1. CutOf(5, a, b, c, 5, 8) = (a % 8) * 32 + b
      BY <2>3, ByteCut
    <3> QED BY <2>4, <3>1
  <2>9. byte(3) \in Bytes /\ byte(4) \in Bytes
    BY <1>5, SMT
  <2>10. byte(4) = GroupAt(data, p)
    BY <2>1
  <2> DEFINE u == byte(3)
             v == byte(4)
  <2>11. /\ u \in Bytes
        /\ v \in Bytes
        /\ a = (u % 4) * 8 + v \div 32
        /\ b = v % 32
    BY <2>6, <2>7, <2>9
  <2> HIDE DEF u, v
  <2>12. (a % 8) * 32 + b = v
    BY <2>11, Back4
  <2>13. v = byte(4)
    BY DEF v
  <2> QED BY <1>2, <2>8, <2>10, <2>12, <2>13
<1>11. p % 5 \in {0, 1, 2, 3, 4}
  BY SMT
<1> QED BY <1>6, <1>7, <1>8, <1>9, <1>10, <1>11

LEMMA BitsIn ==
  ASSUME NEW width \in {5, 8}, NEW n \in {5, 8}, NEW groups \in Seq(Bytes), NEW j \in Nat,
         3 * width - ((n * j) % width) - n \in Nat
  PROVE  Cids!Bits(groups, width, n * j, n) \in 0 .. Cids!Power(2, n) - 1
<1> DEFINE i == (n * j) \div width
           k == 3 * width - ((n * j) % width) - n
           three == (GroupAt(groups, i) * Cids!Power(2, width) + GroupAt(groups, i + 1)) * Cids!Power(2, width) + GroupAt(groups, i + 2)
<1>1. i \in Nat
  <2>1. n * j \in Nat /\ width \in Nat \ {0}
    OBVIOUS
  <2> QED BY <2>1, DivMod
<1>2. Cids!Bits(groups, width, n * j, n) = (three \div Cids!Power(2, k)) % Cids!Power(2, n)
  BY DEF Cids!Bits, GroupAt
<1>3. \A t \in Nat : GroupAt(groups, t) \in Nat
  <2>1. 0 \in Bytes /\ Bytes \subseteq Nat
    BY DEF Bytes
  <2> QED BY <2>1, AtIn
<1>4. three \in Nat
  <2>1. i + 1 \in Nat /\ i + 2 \in Nat /\ width \in Nat
    BY <1>1
  <2> HIDE DEF i
  <2>2. GroupAt(groups, i) \in Nat /\ GroupAt(groups, i + 1) \in Nat /\ GroupAt(groups, i + 2) \in Nat /\ Cids!Power(2, width) \in Nat
    BY <1>1, <1>3, <2>1, CidTwoPower
  <2>3. GroupAt(groups, i) * Cids!Power(2, width) + GroupAt(groups, i + 1) \in Nat
    BY <2>2, TimesIn
  <2> DEFINE z == GroupAt(groups, i) * Cids!Power(2, width) + GroupAt(groups, i + 1)
  <2>4. three = z * Cids!Power(2, width) + GroupAt(groups, i + 2)
    OBVIOUS
  <2> HIDE DEF z, three
  <2>5. z * Cids!Power(2, width) \in Nat
    BY <2>2, <2>3, TimesIn DEF z
  <2> QED BY <2>2, <2>4, <2>5
<1>5. Cids!Power(2, k) \in Nat \ {0} /\ Cids!Power(2, n) \in Nat \ {0}
  <2>1. k \in Nat /\ n \in Nat
    OBVIOUS
  <2> HIDE DEF k
  <2> QED BY <2>1, CidTwoPower
<1> DEFINE x == three \div Cids!Power(2, k)
<1> HIDE DEF three, k
<1>6. x \in Nat
  BY <1>4, <1>5, DivMod
<1> HIDE DEF x
<1>7. x % Cids!Power(2, n) \in 0 .. Cids!Power(2, n) - 1
  BY <1>5, <1>6, DivMod
<1> QED BY <1>2, <1>7 DEF x

LEMMA DigitsIn == ASSUME NEW data \in Seq(Bytes), NEW j \in Nat PROVE Cids!Bits(data, 8, 5 * j, 5) \in Fives
<1>1. 3 * 8 - ((5 * j) % 8) - 5 \in Nat
  <2>1. (5 * j) % 8 \in 0 .. 7
    OBVIOUS
  <2> QED BY <2>1
<1>2. 8 \in {5, 8} /\ 5 \in {5, 8}
  OBVIOUS
<1>3. Cids!Bits(data, 8, 5 * j, 5) \in 0 .. Cids!Power(2, 5) - 1
  BY <1>1, <1>2, BitsIn
<1>4. Cids!Power(2, 5) - 1 = 31
  BY Twos, SMT
<1> QED BY <1>3, <1>4 DEF Fives

LEMMA BytesIn == ASSUME NEW digits \in Seq(Fives), NEW j \in Nat PROVE Cids!Bits(digits, 5, 8 * j, 8) \in Bytes
<1>0. digits \in Seq(Bytes)
  <2>1. Fives \subseteq Bytes
    BY SMT DEF Fives, Bytes
  <2> QED BY <2>1
<1>1. 3 * 5 - ((8 * j) % 5) - 8 \in Nat
  <2>1. (8 * j) % 5 \in 0 .. 4
    OBVIOUS
  <2> QED BY <2>1
<1>2. 8 \in {5, 8} /\ 5 \in {5, 8}
  OBVIOUS
<1>3. Cids!Bits(digits, 5, 8 * j, 8) \in 0 .. Cids!Power(2, 8) - 1
  BY <1>0, <1>1, <1>2, BitsIn
<1>4. Cids!Power(2, 8) - 1 = 255
  BY Twos, SMT
<1> QED BY <1>3, <1>4 DEF Bytes

(* What b32decode returns is bytes, and of what b32encode returns it is the *)
(* bytes that were encoded.                                                 *)
LEMMA DecodeIn ==
  ASSUME NEW text, text.digits \in Seq(Fives)
  PROVE  Cids!Decode(text) \in Seq(Bytes)
<1> DEFINE n == (5 * Len(text.digits)) \div 8
           bytes == [k \in 1 .. n |-> Cids!Bits(text.digits, 5, 8 * (k - 1), 8)]
<1>1. n \in Nat
  <2> DEFINE m == Len(text.digits)
  <2>1. 5 * m \in Nat
    OBVIOUS
  <2> HIDE DEF m
  <2>2. (5 * m) \div 8 \in Nat
    BY <2>1
  <2> QED BY <2>2 DEF m
<1>2. \A k \in 1 .. n : Cids!Bits(text.digits, 5, 8 * (k - 1), 8) \in Bytes
  <2>1. \A k \in 1 .. n : k - 1 \in Nat
    BY <1>1
  <2> HIDE DEF n
  <2> QED BY <2>1, BytesIn
<1>3. bytes \in Seq(Bytes)
  <2> HIDE DEF n
  <2>1. bytes \in [1 .. n -> Bytes]
    BY <1>2
  <2> QED BY <1>1, <2>1
<1>4. Cids!Decode(text) \in {<<>>, bytes}
  BY DEF Cids!Decode
<1>5. <<>> \in Seq(Bytes)
  OBVIOUS
<1> QED BY <1>3, <1>4, <1>5

LEMMA DivFive ==
  ASSUME NEW a \in Nat
  PROVE  /\ a = 5 * (a \div 5) + (a % 5) /\ a \div 5 \in Nat
         /\ a % 5 \in 0 .. 4
OBVIOUS

LEMMA DecodeEncode == ASSUME NEW data \in Seq(Bytes) PROVE Cids!Decode(Cids!Encode(data)) = data
<1> DEFINE text == Cids!Encode(data)
           digits == text.digits
           L == Len(data)
           n == (8 * L + 4) \div 5
<1>1. L \in Nat /\ n \in Nat /\ (5 * n) \div 8 = L /\ ~(n % 8 \in {1, 3, 6})
  <2>0. L \in Nat
    OBVIOUS
  <2> HIDE DEF L
  <2>1. L = 5 * (L \div 5) + (L % 5) /\ L % 5 \in 0 .. 4 /\ L \div 5 \in Nat
    BY <2>0, DivFive
  <2> DEFINE q == L \div 5
  <2>2. ASSUME NEW r \in Nat, NEW s \in Nat, L = 5 * q + r, q \in Nat, <<r, s>> \in {<<0, 0>>, <<1, 2>>, <<2, 4>>, <<3, 5>>, <<4, 7>>}
        PROVE  n = 8 * q + s /\ (5 * n) \div 8 = L /\ n % 8 = s
    <3> HIDE DEF q
    <3>1. n = 8 * q + s
      BY <2>2
    <3> HIDE DEF n
    <3>2. (5 * n) \div 8 = L
      <4>1. 5 * n = 40 * q + 5 * s
        BY <3>1, <2>2
      <4> QED BY <2>0, <2>2, <4>1
    <3>3. n % 8 = s
      BY <3>1, <2>2
    <3> QED BY <3>1, <3>2, <3>3
  <2>3. \E r, s \in Nat : L = 5 * q + r /\ <<r, s>> \in {<<0, 0>>, <<1, 2>>, <<2, 4>>, <<3, 5>>, <<4, 7>>}
    <3> DEFINE r == L % 5
               s == IF r = 0 THEN 0 ELSE IF r = 1 THEN 2 ELSE IF r = 2 THEN 4 ELSE IF r = 3 THEN 5 ELSE 7
    <3>1. r \in 0 .. 4 /\ L = 5 * q + r
      BY <2>1
    <3> HIDE DEF r, q
    <3>2. s \in Nat /\ r \in Nat
      BY <3>1
    <3>3. r = 0 \/ r = 1 \/ r = 2 \/ r = 3 \/ r = 4
      BY <3>1
    <3>4. <<r, s>> \in {<<0, 0>>, <<1, 2>>, <<2, 4>>, <<3, 5>>, <<4, 7>>}
      BY <3>3
    <3> HIDE DEF s
    <3> QED BY <3>1, <3>2, <3>4
  <2>4. PICK r \in Nat, s \in Nat : L = 5 * q + r /\ <<r, s>> \in {<<0, 0>>, <<1, 2>>, <<2, 4>>, <<3, 5>>, <<4, 7>>}
    BY <2>3
  <2>5. n = 8 * q + s /\ (5 * n) \div 8 = L /\ n % 8 = s
    BY <2>1, <2>2, <2>4
  <2>6. s \in {0, 2, 4, 5, 7}
    BY <2>4
  <2>7. n \in Nat
    BY <2>0
  <2> HIDE DEF n, q
  <2> QED BY <2>0, <2>5, <2>6, <2>7
<1>2. digits = [k \in 1 .. n |-> Cids!Bits(data, 8, 5 * (k - 1), 5)] /\ text.multibase = "b"
  BY DEF Cids!Encode
<1> HIDE DEF n, text
<1>3. digits \in Seq(Fives) /\ Len(digits) = n
  <2>1. \A k \in 1 .. n : Cids!Bits(data, 8, 5 * (k - 1), 5) \in Fives
    <3>1. \A k \in 1 .. n : k - 1 \in Nat
      BY <1>1
    <3> QED BY <3>1, DigitsIn
  <2>2. digits \in [1 .. n -> Fives]
    BY <1>2, <2>1
  <2> QED BY <1>1, <2>2
<1>4. \A j \in 0 .. n - 1 : GroupAt(digits, j) = Cids!Bits(data, 8, 5 * j, 5)
  <2> TAKE j \in 0 .. n - 1
  <2>1. j + 1 \in 1 .. n /\ j < n /\ (j + 1) - 1 = j
    BY <1>1
  <2> HIDE DEF digits
  <2> QED BY <1>2, <1>3, <2>1 DEF GroupAt
<1> DEFINE back == [k \in 1 .. L |-> Cids!Bits(digits, 5, 8 * (k - 1), 8)]
<1>5. Cids!Decode(text) = back
  BY <1>1, <1>2, <1>3 DEF Cids!Decode
<1>6. \A k \in 1 .. L : back[k] = data[k]
  <2> TAKE k \in 1 .. L
  <2>1. k - 1 \in 0 .. Len(data) - 1 /\ (k - 1) + 1 = k
    BY <1>1
  <2>2. Len(digits) = (8 * Len(data) + 4) \div 5
    BY <1>3 DEF n
  <2>3. \A j \in 0 .. Len(digits) - 1 : GroupAt(digits, j) = Cids!Bits(data, 8, 5 * j, 5)
    BY <1>3, <1>4
  <2> HIDE DEF digits
  <2>4. Cids!Bits(digits, 5, 8 * (k - 1), 8) = data[(k - 1) + 1]
    BY <1>3, <2>1, <2>2, <2>3, ByteBack
  <2> QED BY <2>1, <2>4
<1>7. back = data
  <2>1. data = [k \in 1 .. L |-> data[k]]
    OBVIOUS
  <2>2. back = [k \in 1 .. L |-> back[k]]
    OBVIOUS
  <2> HIDE DEF back, L
  <2> QED BY <1>6, <2>1, <2>2
<1> QED BY <1>5, <1>7 DEF text

-----------------------------------------------------------------------------
(* Integers of seven bits a byte.                                           *)

LEMMA Septets == \A k \in Nat : Cids!Power(128, k) \in Nat \ {0} /\ Cids!Power(128, k + 1) = 128 * Cids!Power(128, k) /\ Cids!Power(128, 0) = 1
<1>1. 128 \in Nat /\ 128 \in Nat \ {0}
  OBVIOUS
<1> QED BY <1>1, CidPowerIs, CidPowerPos

LEMMA SeptetsAreBits == ASSUME NEW k \in Nat PROVE Cids!Power(128, k) = Cids!Power(2, 7 * k)
<1> DEFINE good == {j \in Nat : Cids!Power(128, j) = Cids!Power(2, 7 * j)}
<1>1. 0 \in good
  <2>1. 7 * 0 = 0
    OBVIOUS
  <2> QED BY <2>1, Septets, CidTwoPower
<1>2. ASSUME NEW j \in good PROVE j + 1 \in good
  <2>1. 7 * (j + 1) = 7 * j + 7 /\ 7 * j \in Nat /\ 7 \in Nat /\ 2 \in Nat
    OBVIOUS
  <2>2. Cids!Power(2, 7 * j + 7) = Cids!Power(2, 7 * j) * Cids!Power(2, 7)
    BY <2>1, CidPowerAdds
  <2>3. Cids!Power(2, 7) = 128
    BY Twos, SMT
  <2>4. Cids!Power(128, j + 1) = 128 * Cids!Power(128, j) /\ Cids!Power(128, j) = Cids!Power(2, 7 * j) /\ Cids!Power(128, j) \in Nat
    BY Septets
  <2>5. Cids!Power(2, 7 * (j + 1)) = Cids!Power(128, j) * 128
    BY <2>1, <2>2, <2>3, <2>4
  <2>6. Cids!Power(128, j) * 128 = 128 * Cids!Power(128, j)
    BY <2>4
  <2> QED BY <2>4, <2>5, <2>6
<1>3. good = Nat
  <2> HIDE DEF good
  <2> QED BY <1>1, <1>2, AllNumbers DEF good
<1> QED BY <1>3

LEMMA GroupsIs ==
  ASSUME NEW value \in Nat
  PROVE  /\ Cids!Groups(value) \in Nat \ {0} /\ value < Cids!Power(128, Cids!Groups(value))
         /\ Cids!Groups(value) > 1 => Cids!Power(128, Cids!Groups(value) - 1) <= value
<1> DEFINE enough == {n \in Nat : n # 0 /\ value < Cids!Power(128, n)}
<1>1. value + 1 \in enough
  <2>1. value < Cids!Power(2, value) /\ Cids!Power(2, value) \in Nat /\ Cids!Power(2, 7 * (value + 1)) \in Nat
    BY CidTwoPower
  <2>2. Cids!Power(2, value) <= Cids!Power(2, 7 * (value + 1))
    <3>1. 7 * (value + 1) \in Nat /\ value <= 7 * (value + 1)
      OBVIOUS
    <3> QED BY <3>1, CidTwoGrows
  <2>3. Cids!Power(128, value + 1) = Cids!Power(2, 7 * (value + 1))
    BY SeptetsAreBits
  <2> QED BY <2>1, <2>2, <2>3
<1>2. PICK n \in enough : \A m \in enough : n <= m
  BY <1>1, LeastIsThere
<1>3. n \in 1 .. value + 1
  BY <1>1, <1>2
<1>4. n > 1 => value >= Cids!Power(128, n - 1)
  <2> SUFFICES ASSUME n > 1 PROVE value >= Cids!Power(128, n - 1)
    OBVIOUS
  <2>1. n - 1 \in Nat /\ n - 1 # 0 /\ n - 1 \notin enough
    BY <1>2
  <2>2. Cids!Power(128, n - 1) \in Nat
    BY <2>1, Septets
  <2> QED BY <2>1, <2>2
<1> DEFINE g == Cids!Groups(value)
<1>5. g \in 1 .. value + 1 /\ value < Cids!Power(128, g) /\ (g > 1 => value >= Cids!Power(128, g - 1))
  <2>1. n \in 1 .. value + 1 /\ value < Cids!Power(128, n) /\ (n > 1 => value >= Cids!Power(128, n - 1))
    BY <1>3, <1>4
  <2> QED BY <2>1 DEF Cids!Groups
<1> HIDE DEF g
<1>6. g > 1 => Cids!Power(128, g - 1) \in Nat
  <2>1. g > 1 => g - 1 \in Nat
    BY <1>5
  <2> QED BY <2>1, Septets
<1> QED BY <1>5, <1>6 DEF g

LEMMA UvarintIs ==
  ASSUME NEW value \in Nat
  PROVE  /\ Cids!Uvarint(value) \in Seq(Bytes) /\ Len(Cids!Uvarint(value)) = Cids!Groups(value)
         /\ \A k \in 1 .. Cids!Groups(value) :
              /\ Cids!Uvarint(value)[k] % 128 = (value \div Cids!Power(128, k - 1)) % 128
              /\ Cids!Uvarint(value)[k] < 128 <=> k = Cids!Groups(value)
<1> DEFINE g == Cids!Groups(value)
           septet(k) == (value \div Cids!Power(128, k - 1)) % 128
<1>1. g \in Nat \ {0}
  BY GroupsIs
<1>2. \A k \in 1 .. g : septet(k) \in 0 .. 127
  <2> TAKE k \in 1 .. g
  <2>1. k - 1 \in Nat
    BY <1>1
  <2> DEFINE p == Cids!Power(128, k - 1)
  <2>2. p \in Nat \ {0}
    BY <2>1, Septets
  <2> HIDE DEF p
  <2> DEFINE x == value \div p
  <2>3. x \in Nat
    BY <2>2, DivMod
  <2> HIDE DEF x
  <2>4. x % 128 \in 0 .. 127
    BY <2>3
  <2> QED BY <2>4 DEF x, p
<1>3. Cids!Uvarint(value) = [k \in 1 .. g |-> septet(k) + IF k < g THEN 128 ELSE 0]
  BY DEF Cids!Uvarint
<1> HIDE DEF g, septet
<1>4. ASSUME NEW k \in 1 .. g
      PROVE  /\ Cids!Uvarint(value)[k] \in Bytes /\ Cids!Uvarint(value)[k] % 128 = septet(k)
             /\ Cids!Uvarint(value)[k] < 128 <=> k = g
  <2>1. septet(k) \in 0 .. 127
    BY <1>2
  <2>2. CASE k < g
    <3>1. Cids!Uvarint(value)[k] = septet(k) + 128
      BY <1>3, <2>2
    <3> DEFINE x == septet(k)
    <3> HIDE DEF x
    <3>2. x + 128 \in 0 .. 255 /\ (x + 128) % 128 = x /\ ~(x + 128 < 128)
      BY <2>1 DEF x
    <3> QED BY <1>1, <2>2, <3>1, <3>2 DEF x, Bytes
  <2>3. CASE ~(k < g)
    <3>1. Cids!Uvarint(value)[k] = septet(k)
      <4>1. Cids!Uvarint(value)[k] = septet(k) + 0
        BY <1>3, <2>3
      <4>2. \A y \in 0 .. 127 : y + 0 = y
        OBVIOUS
      <4> QED BY <2>1, <4>1, <4>2
    <3> DEFINE x == septet(k)
    <3> HIDE DEF x
    <3>2. x \in 0 .. 255 /\ x % 128 = x /\ x < 128
      BY <2>1 DEF x
    <3>3. k = g
      BY <1>1, <2>3
    <3> QED BY <3>1, <3>2, <3>3 DEF x, Bytes
  <2> QED BY <2>2, <2>3
<1>5. Cids!Uvarint(value) \in [1 .. g -> Bytes]
  BY <1>3, <1>4
<1>6. Cids!Uvarint(value) \in Seq(Bytes) /\ Len(Cids!Uvarint(value)) = g
  BY <1>1, <1>5
<1> QED BY <1>4, <1>6 DEF g, septet

LEMMA NextSeptet ==
  ASSUME NEW v \in Nat, NEW P \in Nat \ {0}
  PROVE  v % (128 * P) = (v % P) + ((v \div P) % 128) * P
<1> DEFINE q == v \div P
           r == v % P
           t == q \div 128
           s == q % 128
<1>1. v = q * P + r /\ r \in 0 .. P - 1 /\ q \in Nat
  BY DivMod
<1> HIDE DEF q, r
<1>2. q = t * 128 + s /\ s \in 0 .. 127 /\ t \in Nat
  BY <1>1
<1> HIDE DEF t, s
<1>3. s * P \in Nat /\ s * P <= 127 * P
  <2>1. s \in Nat /\ s <= 127
    BY <1>2
  <2> QED BY <2>1, TimesIn, MulLeq
<1>4. v = t * (128 * P) + (s * P + r)
  <2>1. (t * 128 + s) * P = t * (128 * P) + s * P
    BY <1>2
  <2>2. v = (t * 128 + s) * P + r
    BY <1>1, <1>2
  <2> HIDE <1>1
  <2>3. t * (128 * P) \in Nat /\ r \in Int
    BY <1>1, <1>2, TimesIn
  <2> QED BY <1>3, <2>1, <2>2, <2>3
<1> DEFINE D == 128 * P
           R == s * P + r
<1>5. D \in Nat \ {0} /\ R \in 0 .. D - 1
  BY <1>1, <1>3
<1>6. v = t * D + R
  BY <1>4
<1> HIDE DEF D, R
<1>7. v % D = R
  BY <1>2, <1>5, <1>6, ModIs
<1>8. (v % P) + ((v \div P) % 128) * P = r + s * P
  BY DEF r, s, q
<1>9. r + s * P = s * P + r
  BY <1>1, <1>3
<1> QED BY <1>7, <1>8, <1>9 DEF D, R

(* The recursive function behind Joined, and where an integer may end       *)
SumTo(f, data, offset, size) ==
  f = [k \in 0 .. size |-> IF k = 0 THEN 0 ELSE f[k - 1] + (data[offset + k] % 128) * Cids!Power(128, k - 1)]

EndsOf(data, offset) == {n \in 1 .. Len(data) - offset : data[offset + n] < 128}

(* What was written is read, wherever it stands.                            *)
LEMMA UvarintRead ==
  ASSUME ShiftLimit \in Nat \ {0}, NEW value \in Nat, value < Cids!Power(2, ShiftLimit),
         NEW data \in Seq(Bytes), NEW offset \in Nat, offset + Cids!Groups(value) <= Len(data),
         \A k \in 1 .. Cids!Groups(value) : data[offset + k] = Cids!Uvarint(value)[k]
  PROVE  Cids!DecodeUvarint(data, offset) = <<value, offset + Cids!Groups(value)>>
<1> DEFINE g == Cids!Groups(value)
           ends == EndsOf(data, offset)
           size == Cids!Min(ends)
<1>1. g \in Nat \ {0} /\ value < Cids!Power(128, g) /\ (g > 1 => Cids!Power(128, g - 1) <= value)
  BY GroupsIs
<1>2. \A k \in 1 .. g : /\ data[offset + k] % 128 = (value \div Cids!Power(128, k - 1)) % 128
                        /\ data[offset + k] < 128 <=> k = g
  <2> TAKE k \in 1 .. g
  <2>1. data[offset + k] = Cids!Uvarint(value)[k]
    OBVIOUS
  <2>2. /\ Cids!Uvarint(value)[k] % 128 = (value \div Cids!Power(128, k - 1)) % 128
        /\ Cids!Uvarint(value)[k] < 128 <=> k = g
    BY UvarintIs
  <2> QED BY <2>1, <2>2
<1>3. offset + g <= Len(data)
  OBVIOUS
<1> HIDE DEF g
<1>4. g \in ends /\ \A m \in ends : g <= m
  <2>1. g \in 1 .. Len(data) - offset /\ g \in 1 .. g
    BY <1>1, <1>3
  <2>2. ASSUME NEW m \in ends, m < g PROVE FALSE
    <3>1. m \in 1 .. g /\ data[offset + m] < 128 /\ m # g
      BY <1>1, <2>2 DEF EndsOf
    <3> QED BY <1>2, <3>1
  <2>3. ends \subseteq Int
    BY DEF EndsOf
  <2> QED BY <1>1, <1>2, <2>1, <2>2, <2>3 DEF EndsOf
<1>5. size = g
  <2>1. ends \subseteq Int
    BY DEF EndsOf
  <2> HIDE DEF ends
  <2>2. size \in ends /\ \A m \in ends : size <= m
    BY <1>4 DEF Cids!Min
  <2>3. g \in ends /\ g <= size
    BY <1>4, <2>2
  <2> HIDE DEF size
  <2>4. size <= g /\ g \in Int /\ size \in Int
    BY <2>1, <2>2, <2>3
  <2> QED BY <2>3, <2>4
<1>6. ~(7 * (g - 1) >= ShiftLimit)
  <2> SUFFICES ASSUME 7 * (g - 1) >= ShiftLimit PROVE FALSE
    OBVIOUS
  <2>1. g > 1 /\ g - 1 \in Nat /\ 7 * (g - 1) \in Nat /\ ShiftLimit <= 7 * (g - 1)
    BY <1>1
  <2>2. Cids!Power(128, g - 1) = Cids!Power(2, 7 * (g - 1))
    BY <2>1, SeptetsAreBits
  <2>3. Cids!Power(2, ShiftLimit) <= Cids!Power(2, 7 * (g - 1))
    BY <2>1, CidTwoGrows
  <2>4. Cids!Power(2, ShiftLimit) \in Nat /\ Cids!Power(2, 7 * (g - 1)) \in Nat
    BY <2>1, CidTwoPower
  <2> QED BY <1>1, <2>1, <2>2, <2>3, <2>4
<1>7. Cids!DecodeUvarint(data, offset) = <<Cids!Joined(data, offset, size), offset + size>>
  <2>1. Cids!DecodeUvarint(data, offset) =
          IF ends = {} \/ 7 * (size - 1) >= ShiftLimit THEN <<>>
          ELSE <<Cids!Joined(data, offset, size), offset + size>>
    BY DEF Cids!DecodeUvarint, EndsOf
  <2> HIDE DEF ends, size
  <2> QED BY <1>4, <1>5, <1>6, <2>1
<1> DEFINE low == [k \in 0 .. g |-> value % Cids!Power(128, k)]
<1>8. value % Cids!Power(128, 0) = 0
  <2>1. Cids!Power(128, 0) = 1 /\ value % 1 = 0
    BY Septets
  <2> QED BY <2>1
<1>9. ASSUME NEW k \in 1 .. g
      PROVE  value % Cids!Power(128, k) = (value % Cids!Power(128, k - 1)) + (data[offset + k] % 128) * Cids!Power(128, k - 1)
  <2>1. k - 1 \in Nat /\ (k - 1) + 1 = k
    BY <1>1
  <2>2. Cids!Power(128, k) = 128 * Cids!Power(128, k - 1) /\ Cids!Power(128, k - 1) \in Nat \ {0}
    BY <2>1, Septets
  <2>3. value % (128 * Cids!Power(128, k - 1)) =
          (value % Cids!Power(128, k - 1)) + ((value \div Cids!Power(128, k - 1)) % 128) * Cids!Power(128, k - 1)
    <3> DEFINE P == Cids!Power(128, k - 1)
    <3> HIDE DEF P
    <3>1. P \in Nat \ {0}
      BY <2>2 DEF P
    <3>2. value % (128 * P) = (value % P) + ((value \div P) % 128) * P
      BY <3>1, NextSeptet
    <3> QED BY <3>2 DEF P
  <2>4. data[offset + k] % 128 = (value \div Cids!Power(128, k - 1)) % 128
    BY <1>2
  <2> QED BY <2>2, <2>3, <2>4
<1>10. SumTo(low, data, offset, g)
  <2>1. ASSUME NEW k \in 0 .. g
        PROVE  low[k] = IF k = 0 THEN 0 ELSE low[k - 1] + (data[offset + k] % 128) * Cids!Power(128, k - 1)
    <3>1. CASE k = 0
      BY <1>8, <3>1
    <3>2. CASE k # 0
      <4>1. k \in 1 .. g /\ k - 1 \in 0 .. g
        BY <1>1, <3>2
      <4> QED BY <1>9, <3>2, <4>1
    <3> QED BY <3>1, <3>2
  <2>2. low = [k \in 0 .. g |-> low[k]]
    OBVIOUS
  <2> HIDE DEF low
  <2> QED BY <2>1, <2>2 DEF SumTo
<1> DEFINE f == CHOOSE h : SumTo(h, data, offset, g)
<1>11. SumTo(f, data, offset, g)
  <2> HIDE DEF low
  <2> QED BY <1>10
<1> HIDE DEF f
<1>18. Cids!Joined(data, offset, g) = f[g]
  BY DEF Cids!Joined, f, SumTo
<1>12. \A k \in 0 .. g : f[k] = IF k = 0 THEN 0 ELSE f[k - 1] + (data[offset + k] % 128) * Cids!Power(128, k - 1)
  BY <1>11 DEF SumTo
<1> DEFINE good == {k \in Nat : k \in 0 .. g => f[k] = value % Cids!Power(128, k)}
<1>13. 0 \in good
  <2>1. 0 \in 0 .. g
    BY <1>1
  <2> QED BY <1>8, <1>12, <2>1
<1>14. ASSUME NEW k \in good PROVE k + 1 \in good
  <2>1. ASSUME k + 1 \in 0 .. g PROVE f[k + 1] = value % Cids!Power(128, k + 1)
    <3>1. k + 1 \in 1 .. g /\ k \in 0 .. g /\ (k + 1) - 1 = k /\ k + 1 # 0
      <4>1. k \in Nat
        OBVIOUS
      <4> HIDE DEF good
      <4> QED BY <1>1, <2>1, <4>1
    <3>2. f[k + 1] = f[k] + (data[offset + (k + 1)] % 128) * Cids!Power(128, k)
      BY <1>12, <2>1, <3>1
    <3>3. value % Cids!Power(128, k + 1) = (value % Cids!Power(128, k)) + (data[offset + (k + 1)] % 128) * Cids!Power(128, k)
      BY <1>9, <3>1
    <3> QED BY <3>1, <3>2, <3>3
  <2> QED BY <2>1
<1>15. good = Nat
  <2> HIDE DEF good
  <2> QED BY <1>13, <1>14, AllNumbers DEF good
<1>16. f[g] = value % Cids!Power(128, g)
  <2>1. g \in good /\ g \in 0 .. g
    <3> HIDE DEF good
    <3> QED BY <1>1, <1>15
  <2> QED BY <2>1
<1>17. value % Cids!Power(128, g) = value
  <2> DEFINE P == Cids!Power(128, g)
  <2>1. P \in Nat \ {0} /\ value < P
    BY <1>1, Septets
  <2> HIDE DEF P
  <2>2. value = 0 * P + value /\ value \in 0 .. P - 1 /\ 0 \in Nat
    BY <2>1
  <2>3. value % P = value
    BY <2>1, <2>2, ModIs
  <2> QED BY <2>3 DEF P
<1> QED BY <1>5, <1>7, <1>16, <1>17, <1>18 DEF g

-----------------------------------------------------------------------------
(* What is joined, and an integer that stands somewhere in it               *)
LEMMA Joining ==
  ASSUME NEW S, NEW s \in Seq(S), NEW t \in Seq(S)
  PROVE  /\ s \o t \in Seq(S) /\ Len(s \o t) = Len(s) + Len(t)
         /\ \A k \in 1 .. Len(s) : (s \o t)[k] = s[k]
         /\ \A k \in 1 .. Len(t) : (s \o t)[Len(s) + k] = t[k]
OBVIOUS

LEMMA JoiningBytes ==
  ASSUME NEW s \in Seq(Bytes), NEW t \in Seq(Bytes)
  PROVE  /\ s \o t \in Seq(Bytes) /\ Len(s \o t) = Len(s) + Len(t)
         /\ \A k \in 1 .. Len(s) : (s \o t)[k] = s[k]
         /\ \A k \in 1 .. Len(t) : (s \o t)[Len(s) + k] = t[k]
BY Joining

(* The bytes of an integer stand behind an offset.                          *)
Stands(data, offset, value) ==
  /\ offset + Cids!Groups(value) <= Len(data)
  /\ \A k \in 1 .. Cids!Groups(value) : data[offset + k] = Cids!Uvarint(value)[k]

LEMMA StandsAtEnd ==
  ASSUME NEW s \in Seq(Bytes), NEW value \in Nat
  PROVE  /\ s \o Cids!Uvarint(value) \in Seq(Bytes)
         /\ Len(s \o Cids!Uvarint(value)) = Len(s) + Cids!Groups(value) /\ Cids!Groups(value) \in Nat
         /\ Stands(s \o Cids!Uvarint(value), Len(s), value)
<1>1. Cids!Uvarint(value) \in Seq(Bytes) /\ Len(Cids!Uvarint(value)) = Cids!Groups(value) /\ Cids!Groups(value) \in Nat
  BY UvarintIs, GroupsIs
<1> DEFINE t == Cids!Uvarint(value)
           data == s \o t
<1>2. /\ data \in Seq(Bytes) /\ Len(data) = Len(s) + Len(t)
      /\ \A k \in 1 .. Len(t) : data[Len(s) + k] = t[k]
  BY <1>1, Joining
<1> HIDE DEF data
<1>3. Len(s) \in Nat
  OBVIOUS
<1> HIDE DEF t
<1>4. \A k \in 1 .. Cids!Groups(value) : data[Len(s) + k] = t[k]
  BY <1>1, <1>2 DEF t
<1>5. Len(data) = Len(s) + Cids!Groups(value) /\ Len(s) + Cids!Groups(value) <= Len(data)
  BY <1>1, <1>2, <1>3 DEF t
<1> QED BY <1>1, <1>2, <1>4, <1>5 DEF Stands, data, t

LEMMA StandsBefore ==
  ASSUME NEW s \in Seq(Bytes), NEW t \in Seq(Bytes), NEW offset \in Nat, NEW value \in Nat, Stands(s, offset, value)
  PROVE  Stands(s \o t, offset, value)
<1> DEFINE data == s \o t
<1>1. Len(data) = Len(s) + Len(t) /\ \A k \in 1 .. Len(s) : data[k] = s[k]
  BY Joining
<1> HIDE DEF data
<1>2. Len(s) \in Nat /\ Len(t) \in Nat /\ Cids!Groups(value) \in Nat
  <2>1. Cids!Groups(value) \in Nat
    BY GroupsIs
  <2>2. Len(s) \in Nat /\ Len(t) \in Nat
    OBVIOUS
  <2> QED BY <2>1, <2>2
<1>3. offset + Cids!Groups(value) <= Len(s)
  BY DEF Stands
<1>4. ASSUME NEW k \in 1 .. Cids!Groups(value) PROVE data[offset + k] = Cids!Uvarint(value)[k]
  <2>1. offset + k \in 1 .. Len(s)
    BY <1>2, <1>3
  <2>2. s[offset + k] = Cids!Uvarint(value)[k]
    BY DEF Stands
  <2> QED BY <1>1, <2>1, <2>2
<1>5. offset + Cids!Groups(value) <= Len(data)
  BY <1>1, <1>2, <1>3
<1> QED BY <1>4, <1>5 DEF Stands, data

(* An integer that stands somewhere is read there, whatever follows it.     *)
LEMMA StandsIsRead ==
  ASSUME Cids!InputsAssumption, NEW data \in Seq(Bytes), NEW offset \in Nat,
         NEW value \in Nat, value < Cids!Power(2, ShiftLimit), Stands(data, offset, value),
         NEW end, end = offset + Cids!Groups(value)
  PROVE  Cids!DecodeUvarint(data, offset) = <<value, end>>
<1>1. ShiftLimit \in Nat \ {0}
  BY DEF Cids!InputsAssumption
<1>2. offset + Cids!Groups(value) <= Len(data)
  BY DEF Stands
<1>3. \A k \in 1 .. Cids!Groups(value) : data[offset + k] = Cids!Uvarint(value)[k]
  BY DEF Stands
<1> QED BY <1>1, <1>2, <1>3, UvarintRead

-----------------------------------------------------------------------------
(* Four integers, read one after the other                                  *)
LEMMA TwoMore ==
  ASSUME NEW S, NEW s \in Seq(S), NEW v \in S, NEW e \in S
  PROVE  s \o <<v, e>> = Append(Append(s, v), e)
OBVIOUS

LEMMA LastIs ==
  ASSUME NEW S, NEW s \in Seq(S), NEW o \in S
  PROVE  Append(s, o) # <<>> /\ Cids!Last(Append(s, o)) = o /\ Cids!Front(Append(s, o)) = s
<1>1. Cids!Last(Append(s, o)) = o
  BY DEF Cids!Last
<1>2. Cids!Front(Append(s, o)) = s
  BY DEF Cids!Front
<1>3. Len(Append(s, o)) = Len(s) + 1 /\ Len(s) \in Nat /\ Len(<<>>) = 0
  OBVIOUS
<1>4. Len(Append(s, o)) # Len(<<>>)
  BY <1>3
<1> QED BY <1>1, <1>2, <1>4

LEMMA StartOf ==
  ASSUME NEW S, NEW s \in Seq(S), NEW d \in S, NEW e \in S 
  PROVE  SubSeq(Append(Append(s, d), e), 1, Len(s)) = s
<1> DEFINE r == Append(s, d)
<1>1. r \in Seq(S) /\ Len(r) = Len(s) + 1 /\ \A i \in 1 .. Len(s) : r[i] = s[i]
  OBVIOUS
<1>2. Len(s) \in Nat
  OBVIOUS
<1> HIDE DEF r
<1> DEFINE t == Append(r, e)
<1>3. t \in Seq(S) /\ Len(t) = Len(s) + 2 /\ \A i \in 1 .. Len(s) : t[i] = s[i]
  BY <1>1
<1> HIDE DEF t
<1>4. SubSeq(t, 1, Len(s)) \in Seq(S) /\ Len(SubSeq(t, 1, Len(s))) = Len(s)
  BY <1>2, <1>3
<1>5. \A i \in 1 .. Len(s) : SubSeq(t, 1, Len(s))[i] = s[i]
  BY <1>2, <1>3
<1>6. SubSeq(t, 1, Len(s)) = s
  BY <1>4, <1>5, SeqEqual
<1> QED BY <1>6 DEF t, r
LEMMA FurtherReads ==
  ASSUME NEW S, NEW s \in Seq(S), NEW o \in S, NEW data, NEW v \in S, NEW e \in S,
         Cids!DecodeUvarint(data, o) = <<v, e>>
  PROVE  Append(s, v) \in Seq(S) /\ Cids!Further(Append(s, o), data) = Append(Append(s, v), e)
<1> DEFINE read == Append(s, o)
<1>1. read # <<>> /\ Cids!Last(read) = o /\ Cids!Front(read) = s
  BY LastIs
<1>3. <<v, e>> # <<>>
  OBVIOUS
<1> HIDE DEF read
<1>4. Cids!Further(read, data) = s \o <<v, e>>
  BY <1>1, <1>3 DEF Cids!Further
<1> QED BY <1>4, TwoMore DEF read

LEMMA FurtherStops ==
  ASSUME NEW S, NEW s \in Seq(S), NEW o \in S, NEW data, Cids!DecodeUvarint(data, o) = <<>>
  PROVE  Cids!Further(Append(s, o), data) = <<>>
<1> DEFINE read == Append(s, o)
<1>1. read # <<>> /\ Cids!Last(read) = o
  BY LastIs
<1> HIDE DEF read
<1> QED BY <1>1 DEF Cids!Further, read

(* What Header returns, as it is put together                               *)
Five(a, b, c, d, e) == Append(Append(Append(Append(Append(<<>>, a), b), c), d), e)

LEMMA HeaderReads ==
  ASSUME NEW S, 0 \in S, NEW data, NEW v1 \in S, NEW v2 \in S, NEW v3 \in S, NEW v4 \in S,
         NEW o1 \in S, NEW o2 \in S, NEW o3 \in S, NEW o4 \in S,
         Cids!DecodeUvarint(data, 0) = <<v1, o1>>, Cids!DecodeUvarint(data, o1) = <<v2, o2>>,
         Cids!DecodeUvarint(data, o2) = <<v3, o3>>, Cids!DecodeUvarint(data, o3) = <<v4, o4>>
  PROVE  Cids!Header(data) = Five(v1, v2, v3, v4, o4)
<1> DEFINE none == <<>>
           a == Append(none, v1)
           b == Append(a, v2)
           c == Append(b, v3)
           d == Append(c, v4)
<1>0. none \in Seq(S) /\ Append(none, 0) = <<0>>
  OBVIOUS
<1> HIDE DEF none
<1>1. a \in Seq(S) /\ Cids!Further(Append(none, 0), data) = Append(a, o1)
  BY <1>0, FurtherReads
<1> HIDE DEF a
<1>2. b \in Seq(S) /\ Cids!Further(Append(a, o1), data) = Append(b, o2)
  BY <1>1, FurtherReads
<1> HIDE DEF b
<1>3. c \in Seq(S) /\ Cids!Further(Append(b, o2), data) = Append(c, o3)
  BY <1>2, FurtherReads
<1> HIDE DEF c
<1>4. Cids!Further(Append(c, o3), data) = Append(d, o4)
  BY <1>3, FurtherReads
<1> HIDE DEF d
<1>6. Cids!Header(data) = Append(d, o4)
  BY <1>0, <1>1, <1>2, <1>3, <1>4 DEF Cids!Header
<1> QED BY <1>6 DEF Five, none, a, b, c, d

(* An integer is read at an offset, up to an end.                           *)
Reads(data, offset, value, end) == Cids!DecodeUvarint(data, offset) = <<value, end>>

LEMMA HeaderReadsFour ==
  ASSUME NEW data, NEW zero, zero = 0,
         NEW v1, NEW v2, NEW v3, NEW v4, NEW o1, NEW o2, NEW o3, NEW o4,
         Reads(data, zero, v1, o1), Reads(data, o1, v2, o2), Reads(data, o2, v3, o3), Reads(data, o3, v4, o4)
  PROVE  Cids!Header(data) = Five(v1, v2, v3, v4, o4)
<1> DEFINE S == {0, v1, v2, v3, v4, o1, o2, o3, o4}
<1>1. /\ 0 \in S /\ v1 \in S /\ v2 \in S /\ v3 \in S /\ v4 \in S
      /\ o1 \in S /\ o2 \in S /\ o3 \in S /\ o4 \in S
  OBVIOUS
<1> HIDE DEF S
<1>2. /\ Cids!DecodeUvarint(data, 0) = <<v1, o1>> /\ Cids!DecodeUvarint(data, o1) = <<v2, o2>>
      /\ Cids!DecodeUvarint(data, o2) = <<v3, o3>> /\ Cids!DecodeUvarint(data, o3) = <<v4, o4>>
  BY DEF Reads
<1> QED BY <1>1, <1>2, HeaderReads

LEMMA Three == ASSUME NEW a, NEW b, NEW c PROVE <<a, b, c>> = Append(Append(Append(<<>>, a), b), c)
OBVIOUS

LEMMA Appending ==
  ASSUME NEW S, NEW s \in Seq(S), NEW o \in S
  PROVE  /\ Append(s, o) \in Seq(S) /\ Len(Append(s, o)) = Len(s) + 1 /\ Append(s, o)[Len(s) + 1] = o
         /\ \A k \in 1 .. Len(s) : Append(s, o)[k] = s[k]
OBVIOUS

LEMMA TwoAfter ==
  ASSUME NEW S, NEW s \in Seq(S), Len(s) = 3, NEW d \in S, NEW e \in S
  PROVE  /\ SubSeq(Append(Append(s, d), e), 1, 3) = s
         /\ Append(Append(s, d), e)[4] = d /\ Append(Append(s, d), e)[5] = e
<1>1. /\ Append(s, d) \in Seq(S) /\ Len(Append(s, d)) = Len(s) + 1
      /\ Append(s, d)[Len(s) + 1] = d
  BY Appending
<1> DEFINE four == Append(s, d)
<1>2. four \in Seq(S) /\ Len(four) = 4 /\ four[4] = d
  BY <1>1
<1> HIDE DEF four
<1>3. \A longer \in Seq(S) : /\ Append(longer, e)[Len(longer) + 1] = e
                         /\ \A k \in 1 .. Len(longer) : Append(longer, e)[k] = longer[k]
  BY Appending
<1>4. /\ Append(four, e)[Len(four) + 1] = e
      /\ \A k \in 1 .. Len(four) : Append(four, e)[k] = four[k]
  BY <1>2, <1>3
<1>5. 4 \in 1 .. Len(four) /\ Len(four) + 1 = 5
  BY <1>2
<1>6. Append(four, e)[4] = d /\ Append(four, e)[5] = e
  BY <1>2, <1>4, <1>5
<1>7. SubSeq(Append(four, e), 1, 3) = s
  BY StartOf DEF four
<1> QED BY <1>6, <1>7 DEF four

LEMMA FiveIs ==
  ASSUME NEW a, NEW b, NEW c, NEW d, NEW e
  PROVE  /\ SubSeq(Five(a, b, c, d, e), 1, 3) = <<a, b, c>>
         /\ Five(a, b, c, d, e)[4] = d /\ Five(a, b, c, d, e)[5] = e
<1> DEFINE three == <<a, b, c>>
           S == {a, b, c, d, e}
<1>1. three \in Seq(S) /\ Len(three) = 3 /\ d \in S /\ e \in S
  OBVIOUS
<1>2. Five(a, b, c, d, e) = Append(Append(three, d), e)
  BY Three DEF Five
<1> HIDE DEF three, S
<1>3. /\ SubSeq(Append(Append(three, d), e), 1, 3) = three
      /\ Append(Append(three, d), e)[4] = d /\ Append(Append(three, d), e)[5] = e
  BY <1>1, TwoAfter
<1> QED BY <1>2, <1>3 DEF three

-----------------------------------------------------------------------------
(* The offset behind a header is a number, whatever is read.                *)
Offset(data, S, r, k) ==
  r = <<>> \/ \E s \in Seq(S), o \in Nat : Len(s) = k /\ r = Append(s, o)

LEMMA DecodedIn ==
  ASSUME NEW data, NEW S, \A o, n \in Nat : Cids!Joined(data, o, n) \in S, NEW offset \in Nat
  PROVE  Cids!DecodeUvarint(data, offset) = <<>> \/ \E v \in S, e \in Nat : Cids!DecodeUvarint(data, offset) = <<v, e>>
<1> DEFINE ends == EndsOf(data, offset)
           size == Cids!Min(ends)
<1>1. Cids!DecodeUvarint(data, offset) = (IF ends = {} \/ 7 * (size - 1) >= ShiftLimit THEN <<>>
                                     ELSE <<Cids!Joined(data, offset, size), offset + size>>)
  BY DEF Cids!DecodeUvarint, EndsOf
<1>2. ends \subseteq Nat
  BY DEF EndsOf
<1> HIDE DEF ends
<1>3. CASE ends = {}
  BY <1>1, <1>3
<1>4. CASE ends # {}
  <2>1. \E n \in ends : \A m \in ends : n <= m
    BY <1>2, <1>4, LeastIsThere
  <2>2. size \in ends
    BY <2>1 DEF Cids!Min
  <2> HIDE DEF size
  <2>3. size \in Nat /\ offset + size \in Nat
    BY <1>2, <2>2
  <2>4. Cids!Joined(data, offset, size) \in S
    BY <2>3
  <2> QED BY <1>1, <2>3, <2>4
<1> QED BY <1>3, <1>4

LEMMA FurtherIn ==
  ASSUME NEW data, NEW S, Nat \subseteq S, \A o, n \in Nat : Cids!Joined(data, o, n) \in S,
         NEW r, NEW k \in Nat, Offset(data, S, r, k)
  PROVE  Offset(data, S, Cids!Further(r, data), k + 1)
<1>1. CASE r = <<>>
  BY <1>1 DEF Cids!Further, Offset
<1>2. CASE r # <<>>
  <2>1. PICK s \in Seq(S), o \in Nat : Len(s) = k /\ r = Append(s, o)
    BY <1>2 DEF Offset
  <2>2. o \in S
    OBVIOUS
  <2>3. CASE Cids!DecodeUvarint(data, o) = <<>>
    <3>1. Cids!Further(r, data) = <<>>
      BY <2>1, <2>2, <2>3, FurtherStops
    <3> QED BY <3>1 DEF Offset
  <2>4. CASE Cids!DecodeUvarint(data, o) # <<>>
    <3>1. PICK v \in S, e \in Nat : Cids!DecodeUvarint(data, o) = <<v, e>>
      BY <2>4, DecodedIn
    <3>2. e \in S
      OBVIOUS
    <3>3. Append(s, v) \in Seq(S) /\ Cids!Further(r, data) = Append(Append(s, v), e)
      BY <2>1, <2>2, <3>1, <3>2, FurtherReads
    <3>4. Len(Append(s, v)) = k + 1
      BY <2>1, Appending
    <3> QED BY <3>3, <3>4 DEF Offset
  <2> QED BY <2>3, <2>4
<1> QED BY <1>1, <1>2

LEMMA HeaderIn == ASSUME NEW data PROVE Cids!Header(data) = <<>> \/ Cids!Header(data)[5] \in Nat
<1> DEFINE S == Nat \cup {Cids!Joined(data, w[1], w[2]) : w \in Nat \X Nat}
<1>1. Nat \subseteq S
  OBVIOUS
<1>2. \A o, n \in Nat : Cids!Joined(data, o, n) \in S
  <2> TAKE o, n \in Nat
  <2>1. <<o, n>> \in Nat \X Nat /\ <<o, n>>[1] = o /\ <<o, n>>[2] = n
    OBVIOUS
  <2> QED BY <2>1
<1>3. Offset(data, S, <<0>>, 0)
  <2> DEFINE none == <<>>
  <2>1. none \in Seq(S) /\ Len(none) = 0 /\ 0 \in Nat
    OBVIOUS
  <2>2. <<0>> = Append(none, 0)
    OBVIOUS
  <2> HIDE DEF none, S
  <2> QED BY <2>1, <2>2 DEF Offset
<1> HIDE DEF S
<1> DEFINE a == Cids!Further(<<0>>, data)
           b == Cids!Further(a, data)
           c == Cids!Further(b, data)
           d == Cids!Further(c, data)
<1>4. 0 \in Nat /\ 1 \in Nat /\ 2 \in Nat /\ 3 \in Nat /\ 0 + 1 = 1 /\ 1 + 1 = 2 /\ 2 + 1 = 3 /\ 3 + 1 = 4
  OBVIOUS
<1>5. Offset(data, S, a, 1)
  <2>1. Offset(data, S, a, 0 + 1)
    BY <1>1, <1>2, <1>3, <1>4, FurtherIn
  <2> QED BY <1>4, <2>1
<1> HIDE DEF a
<1>6. Offset(data, S, b, 2)
  <2>1. Offset(data, S, b, 1 + 1)
    BY <1>1, <1>2, <1>4, <1>5, FurtherIn
  <2> QED BY <1>4, <2>1
<1> HIDE DEF b
<1>7. Offset(data, S, c, 3)
  <2>1. Offset(data, S, c, 2 + 1)
    BY <1>1, <1>2, <1>4, <1>6, FurtherIn
  <2> QED BY <1>4, <2>1
<1> HIDE DEF c
<1>8. Offset(data, S, d, 4)
  <2>1. Offset(data, S, d, 3 + 1)
    BY <1>1, <1>2, <1>4, <1>7, FurtherIn
  <2> QED BY <1>4, <2>1
<1>9. Cids!Header(data) = d
  BY DEF Cids!Header, a, b, c
<1> HIDE DEF d
<1>10. CASE d # <<>>
  <2>1. PICK s \in Seq(S), o \in Nat : Len(s) = 4 /\ d = Append(s, o)
    BY <1>8, <1>10 DEF Offset
  <2>2. o \in S
    BY <1>1
  <2>3. Append(s, o)[Len(s) + 1] = o
    BY <2>2, Appending
  <2> QED BY <1>9, <2>1, <2>3
<1> QED BY <1>9, <1>10

LEMMA CommitmentIn ==
  ASSUME Cids!InputsAssumption, NEW text, text.digits \in Seq(Fives)
  PROVE  Cids!Commitment(text) \in Seq(Bytes) /\ Len(Cids!Commitment(text)) <= 255
<1> DEFINE data == Cids!Decode(text)
           header == Cids!Header(data)
           n == header[5]
<1>1. data \in Seq(Bytes) /\ Len(data) \in Nat
  <2>1. data \in Seq(Bytes)
    BY DecodeIn
  <2> HIDE DEF data
  <2> QED BY <2>1
<1>2. header = <<>> \/ n \in Nat
  BY HeaderIn
<1>3. \/ Cids!Commitment(text) = <<>>
      \/ header # <<>> /\ n + DigestSize = Len(data) /\ Cids!Commitment(text) = SubSeq(data, n + 1, Len(data))
  BY DEF Cids!Commitment
<1> HIDE DEF data, header, n
<1>4. CASE Cids!Commitment(text) = <<>>
  BY <1>4
<1>5. CASE Cids!Commitment(text) # <<>>
  <2>1. n \in Nat /\ n + DigestSize = Len(data) /\ Cids!Commitment(text) = SubSeq(data, n + 1, Len(data))
    BY <1>2, <1>3, <1>5
  <2>2. DigestSize \in 0 .. 255
    BY DEF Cids!InputsAssumption
  <2>3. SubSeq(data, n + 1, Len(data)) \in Seq(Bytes)
    BY <1>1, <2>1
  <2>4. Len(SubSeq(data, n + 1, Len(data))) = DigestSize
    BY <1>1, <2>1, <2>2
  <2> QED BY <2>1, <2>2, <2>3, <2>4
<1> QED BY <1>4, <1>5

-----------------------------------------------------------------------------
(* The tree: as high as it takes, and what is left of it                    *)
LEMMA CapacityIs == ASSUME NEW h \in Nat, h >= 2 PROVE Cids!Capacity(h) = 127 * Cids!Power(2, h - 2)
<1> DEFINE P == Cids!Power(2, h - 2)
<1>1. h - 2 \in Nat /\ (h - 2) + 2 = h /\ 2 \in Nat
  OBVIOUS
<1>2. P \in Nat
  BY <1>1, CidTwoPower
<1>3. Cids!Power(2, h) = P * Cids!Power(2, 2)
  BY <1>1, CidPowerAdds
<1>4. Cids!Power(2, 2) = 4
  BY Twos, SMT
<1> HIDE DEF P
<1>5. 32 * Cids!Power(2, h) = 128 * P
  BY <1>2, <1>3, <1>4
<1>6. (128 * P) \div 128 = P
  BY <1>2
<1> QED BY <1>2, <1>5, <1>6 DEF Cids!Capacity, P

(* The tree is the smallest that holds the payload, and its height a byte.  *)
LEMMA HeightIs ==
  ASSUME Cids!InputsAssumption, NEW size \in Nat, size >= 127, size < Cids!Power(2, ShiftLimit - 2)
  PROVE  /\ Cids!Height(size) \in Nat /\ Cids!Height(size) \in Bytes /\ Cids!Height(size) >= 2
         /\ Cids!Capacity(Cids!Height(size)) \in Nat /\ Cids!Padding(size) \in Nat /\ Cids!Padding(size) < Cids!Power(2, ShiftLimit)
         /\ Cids!Height(size) > 2 => Cids!Capacity(Cids!Height(size) - 1) < size
<1> DEFINE f == Cids!Fr32Size(size)
           n == f - 1
           b == Cids!BitLength(n)
<1>1. f \in Nat /\ 128 * size <= 127 * f /\ 127 * f <= 128 * size + 126
  BY DEF Cids!Fr32Size
<1> HIDE DEF f
<1>2. n \in Nat \ {0} /\ n >= 127 /\ n < 2 * size /\ f = n + 1
  BY <1>1
<1>3. Cids!Height(size) = b - 5
  BY DEF Cids!Height, f
<1> HIDE DEF n
<1>4. b \in Nat \ {0} /\ n < Cids!Power(2, b) /\ Cids!Power(2, b - 1) <= n
  BY <1>2, CidBitLengthIs
<1> HIDE DEF b
<1>5. b >= 7
  <2> SUFFICES ASSUME b <= 6 PROVE FALSE
    BY <1>4
  <2>1. Cids!Power(2, b) <= Cids!Power(2, 6)
    BY <1>4, CidTwoGrows
  <2>2. Cids!Power(2, 6) = 64 /\ Cids!Power(2, b) \in Nat
    BY <1>4, Twos, CidTwoPower, SMT
  <2> QED BY <1>2, <1>4, <2>1, <2>2
<1> DEFINE P == Cids!Power(2, b - 7)
<1>6. P \in Nat \ {0} /\ Cids!Power(2, b) = 128 * P /\ Cids!Power(2, b - 1) = 64 * P
  <2>1. b - 7 \in Nat /\ (b - 7) + 7 = b /\ (b - 7) + 6 = b - 1 /\ 7 \in Nat /\ 6 \in Nat
    BY <1>4, <1>5
  <2>2. Cids!Power(2, b) = P * Cids!Power(2, 7) /\ Cids!Power(2, b - 1) = P * Cids!Power(2, 6)
    BY <2>1, CidPowerAdds
  <2>3. P \in Nat \ {0}
    BY <2>1, CidTwoPower
  <2>4. Cids!Power(2, 7) = 128 /\ Cids!Power(2, 6) = 64
    BY Twos, SMT
  <2> HIDE DEF P
  <2> QED BY <2>2, <2>3, <2>4
<1> DEFINE h == b - 5
<1>7. h \in Nat /\ h >= 2 /\ h - 2 = b - 7
  BY <1>4, <1>5
<1>8. Cids!Capacity(h) = 127 * P
  BY <1>7, CapacityIs
<1>9. ShiftLimit \in 15 .. 64
  BY DEF Cids!InputsAssumption
<1> DEFINE T == Cids!Power(2, ShiftLimit - 2)
<1>10. T \in Nat /\ Cids!Power(2, ShiftLimit - 1) = 2 * T /\ Cids!Power(2, ShiftLimit) = 4 * T
  <2>1. ShiftLimit - 2 \in Nat /\ (ShiftLimit - 2) + 1 = ShiftLimit - 1
        /\ (ShiftLimit - 1) + 1 = ShiftLimit /\ ShiftLimit - 1 \in Nat
    BY <1>9
  <2>2. T \in Nat /\ Cids!Power(2, (ShiftLimit - 2) + 1) = 2 * T
    BY <2>1, CidTwoPower
  <2>3. Cids!Power(2, (ShiftLimit - 1) + 1) = 2 * Cids!Power(2, ShiftLimit - 1)
    BY <2>1, CidTwoPower
  <2> HIDE DEF T
  <2> QED BY <2>1, <2>2, <2>3
<1>11. h \in Bytes
  <2>1. b - 1 < ShiftLimit
    <3> SUFFICES ASSUME ShiftLimit <= b - 1 PROVE FALSE
      BY <1>4, <1>9
    <3>1. Cids!Power(2, ShiftLimit) <= Cids!Power(2, b - 1)
      BY <1>4, <1>9, CidTwoGrows
    <3>2. size < T
      OBVIOUS
    <3> HIDE DEF T, P
    <3>3. 4 * T <= n /\ n < 2 * size
      BY <1>2, <1>4, <1>6, <1>10, <3>1
    <3> QED BY <1>2, <1>10, <3>2, <3>3
  <2>2. h \in 0 .. 255
    BY <1>4, <1>7, <1>9, <2>1
  <2> QED BY <2>2 DEF Bytes
<1>12. Cids!Padding(size) = 127 * P - size
  BY <1>3, <1>8 DEF Cids!Padding
<1>13. 127 * P - size \in Nat /\ 127 * P - size < Cids!Power(2, ShiftLimit)
  <2>1. size < T
    OBVIOUS
  <2> HIDE DEF P, T
  <2>2. n < 128 * P /\ 64 * P <= n
    BY <1>4, <1>6
  <2>3. 128 * size <= 127 * (n + 1) /\ n + 1 <= 128 * P
    BY <1>1, <1>2, <1>6, <2>2
  <2>4. size <= 127 * P
    BY <1>2, <1>6, <2>3
  <2>5. 127 * P < 2 * size + 2
    BY <1>1, <1>2, <1>6, <2>2
  <2> QED BY <1>6, <1>10, <2>1, <2>4, <2>5
<1>14. h > 2 => Cids!Capacity(h - 1) < size
  <2> SUFFICES ASSUME h > 2 PROVE Cids!Capacity(h - 1) < size
    OBVIOUS
  <2> DEFINE Q == Cids!Power(2, b - 8)
  <2>1. h - 1 \in Nat /\ h - 1 >= 2 /\ (h - 1) - 2 = b - 8 /\ b - 8 \in Nat /\ (b - 8) + 1 = b - 7
    BY <1>4, <1>7
  <2>2. Cids!Capacity(h - 1) = 127 * Q
    BY <2>1, CapacityIs
  <2>3. Q \in Nat /\ P = 2 * Q
    BY <2>1, CidTwoPower
  <2> HIDE DEF P, Q
  <2>4. 128 * Q <= n
    BY <1>4, <1>6, <2>3
  <2>5. 127 * Q < size
    BY <1>1, <1>2, <2>3, <2>4
  <2> QED BY <2>2, <2>5
<1>15. 127 * P \in Nat
  BY <1>6
<1> QED BY <1>3, <1>7, <1>8, <1>11, <1>12, <1>13, <1>14, <1>15

-----------------------------------------------------------------------------
(* What is written can be read.                                             *)
LEMMA StandsAfter ==
  ASSUME NEW s \in Seq(Bytes), NEW t \in Seq(Bytes), NEW value \in Nat, Stands(t, 0, value)
  PROVE  Stands(s \o t, Len(s), value)
<1> DEFINE data == s \o t
<1>1. Len(data) = Len(s) + Len(t) /\ \A k \in 1 .. Len(t) : data[Len(s) + k] = t[k]
  BY Joining
<1> HIDE DEF data
<1>2. Cids!Groups(value) \in Nat
  BY GroupsIs
<1>3. Len(s) \in Nat /\ Len(t) \in Nat
  OBVIOUS
<1>4. Cids!Groups(value) <= Len(t)
  BY <1>2 DEF Stands
<1>5. ASSUME NEW k \in 1 .. Cids!Groups(value) PROVE data[Len(s) + k] = Cids!Uvarint(value)[k]
  <2>1. k \in 1 .. Len(t) /\ 0 + k = k
    BY <1>2, <1>3, <1>4
  <2>2. t[0 + k] = Cids!Uvarint(value)[k]
    BY DEF Stands
  <2> QED BY <1>1, <2>1, <2>2
<1>6. Len(s) + Cids!Groups(value) <= Len(data)
  BY <1>1, <1>2, <1>3, <1>4
<1> QED BY <1>5, <1>6 DEF Stands, data

LEMMA StandsAlone ==
  ASSUME NEW value \in Nat
  PROVE  /\ Cids!Uvarint(value) \in Seq(Bytes) /\ Len(Cids!Uvarint(value)) = Cids!Groups(value) /\ Cids!Groups(value) \in Nat
         /\ Stands(Cids!Uvarint(value), 0, value)
<1>1. Cids!Uvarint(value) \in Seq(Bytes) /\ Len(Cids!Uvarint(value)) = Cids!Groups(value) /\ Cids!Groups(value) \in Nat
  BY UvarintIs, GroupsIs
<1>2. 0 + Cids!Groups(value) <= Len(Cids!Uvarint(value))
  BY <1>1
<1>3. \A k \in 1 .. Cids!Groups(value) : Cids!Uvarint(value)[0 + k] = Cids!Uvarint(value)[k]
  <2> TAKE k \in 1 .. Cids!Groups(value)
  <2>1. 0 + k = k
    BY <1>1
  <2> QED BY <2>1
<1> QED BY <1>1, <1>2, <1>3 DEF Stands

LEMMA TailIs ==
  ASSUME NEW s \in Seq(Bytes), NEW t \in Seq(Bytes)
  PROVE  SubSeq(s \o t, Len(s) + 1, Len(s \o t)) = t
<1> DEFINE data == s \o t
<1>1. /\ data \in Seq(Bytes) /\ Len(data) = Len(s) + Len(t)
      /\ \A k \in 1 .. Len(t) : data[Len(s) + k] = t[k]
  BY Joining
<1> HIDE DEF data
<1>2. Len(s) \in Nat /\ Len(t) \in Nat
  OBVIOUS
<1> DEFINE tail == SubSeq(data, Len(s) + 1, Len(data))
<1>3. tail \in Seq(Bytes) /\ Len(tail) = Len(t) /\ \A k \in 1 .. Len(t) : tail[k] = data[Len(s) + k]
  <2>1. tail \in Seq(Bytes)
    BY <1>1, <1>2
  <2>2. Len(tail) = Len(t)
    BY <1>1, <1>2
  <2>3. ASSUME NEW k \in 1 .. Len(t) PROVE tail[k] = data[Len(s) + k]
    <3>1. tail[k] = data[(Len(s) + 1) + k - 1] /\ (Len(s) + 1) + k - 1 = Len(s) + k
      BY <1>1, <1>2
    <3> QED BY <3>1
  <2> QED BY <2>1, <2>2, <2>3
<1> HIDE DEF tail
<1>4. tail = t
  BY <1>1, <1>3, SeqEqual
<1> QED BY <1>4 DEF tail, data

LEMMA SmallIs == ASSUME Cids!InputsAssumption, NEW value \in Nat, value < 16384 PROVE value < Cids!Power(2, ShiftLimit)
<1>1. ShiftLimit \in Nat /\ 14 \in Nat /\ 14 <= ShiftLimit
  BY DEF Cids!InputsAssumption
<1>2. Cids!Power(2, 14) <= Cids!Power(2, ShiftLimit)
  BY <1>1, CidTwoGrows
<1>3. Cids!Power(2, 14) = 16384
  BY Twos, SMT
<1>4. Cids!Power(2, ShiftLimit) \in Nat
  BY <1>1, CidTwoPower
<1> QED BY <1>2, <1>3, <1>4, SMT

LEMMA FewGroups ==
  ASSUME Cids!InputsAssumption, NEW value \in Nat, value < Cids!Power(2, ShiftLimit)
  PROVE  Cids!Groups(value) \in 1 .. 10
<1> DEFINE g == Cids!Groups(value)
<1>1. g \in Nat \ {0} /\ (g > 1 => Cids!Power(128, g - 1) <= value)
  BY GroupsIs
<1> HIDE DEF g
<1>2. ShiftLimit \in 15 .. 64
  BY DEF Cids!InputsAssumption
<1>3. ASSUME g > 10 PROVE FALSE
  <2>1. g - 1 \in Nat /\ 7 * (g - 1) \in Nat /\ ShiftLimit <= 7 * (g - 1) /\ g > 1 /\ ShiftLimit \in Nat
    BY <1>1, <1>2, <1>3
  <2>2. Cids!Power(2, ShiftLimit) <= Cids!Power(2, 7 * (g - 1))
    BY <2>1, CidTwoGrows
  <2>3. Cids!Power(128, g - 1) = Cids!Power(2, 7 * (g - 1))
    BY <2>1, SeptetsAreBits
  <2>4. Cids!Power(2, ShiftLimit) \in Nat /\ Cids!Power(2, 7 * (g - 1)) \in Nat
    BY <2>1, CidTwoPower
  <2> QED BY <1>1, <2>1, <2>2, <2>3, <2>4
<1> QED BY <1>1, <1>3 DEF g

(* The digest of a CID of version 2, and the CID it is in                   *)
(* (two bytes are enough for the length of a short one)                     *)
Short(digest) == Len(digest) < 16384
DigestOf(p, h, c) == Cids!Uvarint(p) \o <<h>> \o c
DataOf(digest) == Cids!Uvarint(Cids!CidVersion) \o Cids!Uvarint(Cids!Raw) \o Cids!Uvarint(Cids!PadBinTree) \o Cids!Uvarint(Len(digest)) \o digest

LEMMA DigestIs ==
  ASSUME Cids!InputsAssumption, NEW c \in Seq(Bytes), Len(c) <= 255,
         NEW p \in Nat, p < Cids!Power(2, ShiftLimit), NEW h \in Bytes
  PROVE  /\ DigestOf(p, h, c) \in Seq(Bytes) /\ Short(DigestOf(p, h, c))
         /\ Stands(DigestOf(p, h, c), 0, p)
         /\ \E d \in Seq(Bytes) : /\ DigestOf(p, h, c) = d \o c /\ Len(d) = Cids!Groups(p) + 1
                                  /\ d[Cids!Groups(p) + 1] = h
<1> DEFINE u == Cids!Uvarint(p)
           d == u \o <<h>>
<1>1. u \in Seq(Bytes) /\ Len(u) = Cids!Groups(p) /\ Cids!Groups(p) \in 1 .. 10 /\ Stands(u, 0, p)
  BY StandsAlone, FewGroups
<1>2. <<h>> \in Seq(Bytes) /\ Len(<<h>>) = 1 /\ <<h>>[1] = h
  OBVIOUS
<1> DEFINE last == <<h>>
<1>3. DigestOf(p, h, c) = d \o c
  BY DEF DigestOf
<1> HIDE DEF u, last
<1>4. /\ d \in Seq(Bytes) /\ Len(d) = Len(u) + Len(last)
      /\ \A k \in 1 .. Len(last) : d[Len(u) + k] = last[k]
  <2>1. last \in Seq(Bytes)
    BY <1>2 DEF last
  <2>2. d = u \o last
    BY DEF last
  <2>3. /\ u \o last \in Seq(Bytes) /\ Len(u \o last) = Len(u) + Len(last)
        /\ \A k \in 1 .. Len(last) : (u \o last)[Len(u) + k] = last[k]
    BY <1>1, <2>1, JoiningBytes
  <2> HIDE DEF d
  <2> QED BY <2>2, <2>3
<1>5. Len(last) = 1 /\ last[1] = h /\ 1 \in 1 .. 1
  BY <1>2 DEF last
<1>6. Len(d) = Cids!Groups(p) + 1 /\ d[Cids!Groups(p) + 1] = h
  BY <1>1, <1>4, <1>5
<1>7. Stands(d, 0, p)
  <2>1. last \in Seq(Bytes) /\ d = u \o last /\ 0 \in Nat
    BY <1>2 DEF last
  <2> HIDE DEF d
  <2> QED BY <1>1, <2>1, StandsBefore
<1> HIDE DEF d
<1>8. Stands(d \o c, 0, p)
  <2>1. 0 \in Nat
    OBVIOUS
  <2> QED BY <1>4, <1>7, <2>1, StandsBefore
<1>9. d \o c \in Seq(Bytes) /\ Len(d \o c) = Len(d) + Len(c)
  BY <1>4, Joining
<1>10. Len(c) \in Nat
  OBVIOUS
<1>11. Len(d \o c) < 16384
  BY <1>1, <1>6, <1>9, <1>10, SMT
<1>12. \E e \in Seq(Bytes) : d \o c = e \o c /\ Len(e) = Cids!Groups(p) + 1 /\ e[Cids!Groups(p) + 1] = h
  BY <1>4, <1>6
<1> DEFINE whole == d \o c
<1> HIDE DEF whole
<1>13. DigestOf(p, h, c) = whole /\ whole \in Seq(Bytes) /\ Len(whole) < 16384 /\ Stands(whole, 0, p)
  BY <1>3, <1>8, <1>9, <1>11 DEF whole
<1>14. PICK e \in Seq(Bytes) : whole = e \o c /\ Len(e) = Cids!Groups(p) + 1 /\ e[Cids!Groups(p) + 1] = h
  BY <1>12 DEF whole
<1>15. DigestOf(p, h, c) = e \o c
  BY <1>13, <1>14
<1> QED
  <2>1. \E s \in Seq(Bytes) : /\ DigestOf(p, h, c) = s \o c /\ Len(s) = Cids!Groups(p) + 1
                              /\ s[Cids!Groups(p) + 1] = h
    BY <1>14, <1>15
  <2>2. DigestOf(p, h, c) \in Seq(Bytes) /\ Stands(DigestOf(p, h, c), 0, p)
    BY <1>13
  <2>3. Len(DigestOf(p, h, c)) < 16384
    BY <1>13, SMT
  <2>4. Short(DigestOf(p, h, c))
    BY <2>3, SMT DEF Short
  <2> QED BY <2>1, <2>2, <2>4

(* A digest behind any four integers                                        *)
DataWith(v1, v2, v3, v4, digest) == Cids!Uvarint(v1) \o Cids!Uvarint(v2) \o Cids!Uvarint(v3) \o Cids!Uvarint(v4) \o digest

(* An integer that is no overflow when it is read                           *)
Readable(value) == value \in Nat /\ value < Cids!Power(2, ShiftLimit)

(* The header of what was written gives the integers back, and ends where   *)
(* the digest begins.                                                       *)
Written(v1, v2, v3, v4, digest) ==
  \E s \in Seq(Bytes) :
    /\ DataWith(v1, v2, v3, v4, digest) = s \o digest /\ s \o digest \in Seq(Bytes)
    /\ Cids!Header(s \o digest) = Five(v1, v2, v3, v4, Len(s))

LEMMA DataWithIs ==
  ASSUME Cids!InputsAssumption, NEW digest \in Seq(Bytes),
         NEW v1, Readable(v1), NEW v2, Readable(v2), NEW v3, Readable(v3), NEW v4, Readable(v4)
  PROVE  Written(v1, v2, v3, v4, digest)
<1> DEFINE a == Cids!Uvarint(v1)
           b == a \o Cids!Uvarint(v2)
           c == b \o Cids!Uvarint(v3)
           d == c \o Cids!Uvarint(v4)
           data == d \o digest
           zero == 0
<1>1. zero \in Nat /\ zero = 0
  OBVIOUS
<1>2. /\ v1 \in Nat /\ v2 \in Nat /\ v3 \in Nat /\ v4 \in Nat
      /\ v1 < Cids!Power(2, ShiftLimit) /\ v2 < Cids!Power(2, ShiftLimit)
      /\ v3 < Cids!Power(2, ShiftLimit) /\ v4 < Cids!Power(2, ShiftLimit)
  BY DEF Readable
<1>0. DataWith(v1, v2, v3, v4, digest) = d \o digest
  BY DEF DataWith
<1>4. a \in Seq(Bytes) /\ Len(a) = zero + Cids!Groups(v1) /\ Stands(a, zero, v1)
  <2>1. a \in Seq(Bytes) /\ Len(a) = Cids!Groups(v1) /\ Cids!Groups(v1) \in Nat /\ Stands(a, 0, v1)
    BY <1>2, StandsAlone
  <2> HIDE DEF a
  <2> QED BY <2>1
<1> HIDE DEF a, zero
<1>5. b \in Seq(Bytes) /\ Len(b) = Len(a) + Cids!Groups(v2) /\ Stands(b, Len(a), v2)
  BY <1>2, <1>4, StandsAtEnd
<1>6. Stands(b, zero, v1)
  <2>1. Cids!Uvarint(v2) \in Seq(Bytes)
    BY <1>2, StandsAlone
  <2> QED BY <1>2, <1>1, <1>4, <2>1, StandsBefore
<1> HIDE DEF b
<1>7. c \in Seq(Bytes) /\ Len(c) = Len(b) + Cids!Groups(v3) /\ Stands(c, Len(b), v3)
  BY <1>2, <1>5, StandsAtEnd
<1>11. Len(a) \in Nat /\ Len(b) \in Nat /\ Len(c) \in Nat
  BY <1>4, <1>5, <1>7
<1>8. Stands(c, zero, v1) /\ Stands(c, Len(a), v2)
  <2>1. Cids!Uvarint(v3) \in Seq(Bytes)
    BY <1>2, StandsAlone
  <2> QED BY <1>2, <1>1, <1>5, <1>6, <1>11, <2>1, StandsBefore
<1> HIDE DEF c
<1>9. d \in Seq(Bytes) /\ Len(d) = Len(c) + Cids!Groups(v4) /\ Stands(d, Len(c), v4)
  BY <1>2, <1>7, StandsAtEnd
<1>10. Stands(d, zero, v1) /\ Stands(d, Len(a), v2) /\ Stands(d, Len(b), v3)
  <2>1. Cids!Uvarint(v4) \in Seq(Bytes)
    BY <1>2, StandsAlone
  <2> QED BY <1>2, <1>1, <1>7, <1>8, <1>11, <2>1, StandsBefore
<1> HIDE DEF d
<1>12. data \in Seq(Bytes)
  BY <1>9, JoiningBytes
<1>13. Stands(data, zero, v1) /\ Stands(data, Len(a), v2) /\ Stands(data, Len(b), v3) /\ Stands(data, Len(c), v4)
  BY <1>2, <1>1, <1>9, <1>10, <1>11, StandsBefore
<1> HIDE DEF data
<1>16. Cids!DecodeUvarint(data, zero) = <<v1, Len(a)>>
  BY <1>2, <1>1, <1>4, <1>12, <1>13, StandsIsRead
<1>17. Cids!DecodeUvarint(data, Len(a)) = <<v2, Len(b)>>
  BY <1>2, <1>1, <1>5, <1>11, <1>12, <1>13, StandsIsRead
<1>18. Cids!DecodeUvarint(data, Len(b)) = <<v3, Len(c)>>
  BY <1>2, <1>1, <1>7, <1>11, <1>12, <1>13, StandsIsRead
<1>19. Cids!DecodeUvarint(data, Len(c)) = <<v4, Len(d)>>
  BY <1>2, <1>1, <1>9, <1>11, <1>12, <1>13, StandsIsRead
<1>20. Cids!Header(data) = Five(v1, v2, v3, v4, Len(d))
  <2>2. /\ Reads(data, zero, v1, Len(a)) /\ Reads(data, Len(a), v2, Len(b))
        /\ Reads(data, Len(b), v3, Len(c)) /\ Reads(data, Len(c), v4, Len(d))
    BY <1>16, <1>17, <1>18, <1>19 DEF Reads
  <2> QED BY <1>1, <2>2, HeaderReadsFour
<1>21. d \o digest \in Seq(Bytes) /\ Cids!Header(d \o digest) = Five(v1, v2, v3, v4, Len(d))
  BY <1>12, <1>20 DEF data
<1> QED BY <1>0, <1>9, <1>21 DEF Written

LEMMA DataIs ==
  ASSUME Cids!InputsAssumption, NEW digest \in Seq(Bytes), Short(digest)
  PROVE  \E s \in Seq(Bytes) :
           /\ DataOf(digest) = s \o digest /\ s \o digest \in Seq(Bytes)
           /\ Cids!Header(s \o digest) = Five(Cids!CidVersion, Cids!Raw, Cids!PadBinTree, Len(digest), Len(s))
<1>1. Cids!CidVersion \in Nat /\ Cids!Raw \in Nat /\ Cids!PadBinTree \in Nat /\ 0 \in Nat
  BY SMT DEF Cids!CidVersion, Cids!Raw, Cids!PadBinTree
<1>2. Len(digest) \in Nat
  OBVIOUS
<1>3. Cids!CidVersion < 16384 /\ Cids!Raw < 16384 /\ Cids!PadBinTree < 16384 /\ Len(digest) < 16384
  BY SMT DEF Cids!CidVersion, Cids!Raw, Cids!PadBinTree, Short
<1>4. /\ Cids!CidVersion < Cids!Power(2, ShiftLimit) /\ Cids!Raw < Cids!Power(2, ShiftLimit)
      /\ Cids!PadBinTree < Cids!Power(2, ShiftLimit) /\ Len(digest) < Cids!Power(2, ShiftLimit)
  BY <1>1, <1>2, <1>3, SmallIs, SMT
<1>5. DataOf(digest) = DataWith(Cids!CidVersion, Cids!Raw, Cids!PadBinTree, Len(digest), digest)
  BY DEF DataOf, DataWith
<1>6. \E s \in Seq(Bytes) :
        /\ DataWith(Cids!CidVersion, Cids!Raw, Cids!PadBinTree, Len(digest), digest) = s \o digest /\ s \o digest \in Seq(Bytes)
        /\ Cids!Header(s \o digest) = Five(Cids!CidVersion, Cids!Raw, Cids!PadBinTree, Len(digest), Len(s))
  <2> DEFINE n == Len(digest)
             u == Cids!CidVersion
             v == Cids!Raw
             w == Cids!PadBinTree
  <2>1. u \in Nat /\ v \in Nat /\ w \in Nat /\ n \in Nat
    BY <1>1, <1>2
  <2>2. Readable(u) /\ Readable(v) /\ Readable(w) /\ Readable(n)
    BY <1>4, <2>1 DEF Readable
  <2> HIDE DEF n, u, v, w
  <2>3. Written(u, v, w, n, digest)
    BY <2>2, DataWithIs
  <2> QED BY <2>3 DEF n, u, v, w, Written
<1> QED BY <1>5, <1>6

LEMMA DigestAt ==
  ASSUME NEW s \in Seq(Bytes), NEW d \in Seq(Bytes), NEW c \in Seq(Bytes), NEW p \in Nat, NEW h,
         Len(d) = Cids!Groups(p) + 1, d[Cids!Groups(p) + 1] = h
  PROVE  /\ (s \o (d \o c))[Len(s) + Cids!Groups(p) + 1] = h
         /\ SubSeq(s \o (d \o c), Len(s) + Cids!Groups(p) + 2, Len(s \o (d \o c))) = c
<1> DEFINE t == s \o d
<1>1. t \in Seq(Bytes) /\ Len(t) = Len(s) + Len(d) /\ \A k \in 1 .. Len(d) : t[Len(s) + k] = d[k]
  BY JoiningBytes
<1>2. s \o (d \o c) = t \o c
  OBVIOUS
<1> HIDE DEF t
<1> DEFINE data == t \o c
<1>3. \A k \in 1 .. Len(t) : data[k] = t[k]
  BY <1>1, JoiningBytes
<1>4. SubSeq(data, Len(t) + 1, Len(data)) = c
  BY <1>1, TailIs
<1> HIDE DEF data
<1>5. Cids!Groups(p) \in Nat
  BY GroupsIs
<1>6. Len(s) \in Nat
  OBVIOUS
<1> DEFINE g == Cids!Groups(p)
<1> HIDE DEF g
<1>7. Len(d) = g + 1 /\ g \in Nat /\ d[g + 1] = h
  BY <1>5 DEF g
<1> DEFINE x == Len(s)
           y == Len(t)
<1>8. x \in Nat /\ y = x + (g + 1) /\ g + 1 \in 1 .. Len(d)
  <2>1. Len(t) = Len(s) + Len(d)
    BY <1>1
  <2>2. y = x + (g + 1)
    BY <2>1, <1>7
  <2>3. g + 1 \in 1 .. g + 1
    <3> HIDE DEF x, y
    <3> QED BY <1>7
  <2>4. g + 1 \in 1 .. Len(d)
    BY <2>3, <1>7, Zenon
  <2> QED BY <1>6, <2>2, <2>4
<1>9. data[x + g + 1] = h
  <2>1. t[x + (g + 1)] = h
    BY <1>1, <1>7, <1>8
  <2> HIDE DEF x
  <2>2. x + (g + 1) \in 1 .. x + (g + 1) /\ x + (g + 1) = x + g + 1
    BY <1>7, <1>8
  <2>3. data[x + (g + 1)] = t[x + (g + 1)]
    BY <1>3, <1>8, <2>2
  <2> QED BY <2>1, <2>2, <2>3
<1>10. y + 1 = x + g + 2
  <2> HIDE DEF x, y
  <2> QED BY <1>7, <1>8
<1>11. SubSeq(data, Len(s) + g + 2, Len(data)) = c
  BY <1>4, <1>10
<1> QED BY <1>2, <1>9, <1>11 DEF data, g

LEMMA V2SaysBoth ==
  ASSUME Cids!InputsAssumption, NEW text, text.digits \in Seq(Fives), Cids!Commitment(text) # <<>>,
         NEW size \in Nat, size >= 127, size < Cids!Power(2, ShiftLimit - 2)
  PROVE  LET data == Cids!Decode(Cids!V2(text, size))
             header == Cids!Header(data)
             padding == Cids!DecodeUvarint(data, header[5])
             height == data[padding[2] + 1]
         IN /\ SubSeq(header, 1, 3) = <<Cids!CidVersion, Cids!Raw, Cids!PadBinTree>>
            /\ header[5] + header[4] = Len(data)
            /\ SubSeq(data, padding[2] + 2, Len(data)) = Cids!Commitment(text)
            /\ Cids!Capacity(height) - padding[1] = size
            /\ height >= 2 /\ (height > 2 => Cids!Capacity(height - 1) < size)
<1> DEFINE c == Cids!Commitment(text)
           p == Cids!Padding(size)
           h == Cids!Height(size)
           digest == DigestOf(p, h, c)
<1>1. c \in Seq(Bytes) /\ Len(c) <= 255
  BY CommitmentIn
<1>2. /\ h \in Nat /\ h \in Bytes /\ h >= 2 /\ Cids!Capacity(h) \in Nat /\ p \in Nat /\ p < Cids!Power(2, ShiftLimit)
      /\ h > 2 => Cids!Capacity(h - 1) < size
  BY HeightIs
<1>3. p = Cids!Capacity(h) - size
  BY DEF Cids!Padding
<1>4. Cids!V2(text, size) = Cids!Encode(DataOf(digest))
  <2>1. ~(size < 127)
    OBVIOUS
  <2> QED BY <2>1 DEF Cids!V2, DataOf, DigestOf
<1> HIDE DEF c, p, h
<1>5. /\ digest \in Seq(Bytes) /\ Short(digest) /\ Stands(digest, 0, p)
      /\ \E d \in Seq(Bytes) : digest = d \o c /\ Len(d) = Cids!Groups(p) + 1 /\ d[Cids!Groups(p) + 1] = h
  BY <1>1, <1>2, DigestIs
<1> HIDE DEF digest
<1>6. PICK d \in Seq(Bytes) : digest = d \o c /\ Len(d) = Cids!Groups(p) + 1 /\ d[Cids!Groups(p) + 1] = h
  BY <1>5
<1>7. PICK s \in Seq(Bytes) : /\ DataOf(digest) = s \o digest /\ s \o digest \in Seq(Bytes)
                              /\ Cids!Header(s \o digest) = Five(Cids!CidVersion, Cids!Raw, Cids!PadBinTree, Len(digest), Len(s))
  BY <1>5, DataIs
<1> DEFINE data == s \o digest
           g == Cids!Groups(p)
<1>8. data \in Seq(Bytes) /\ Len(data) = Len(s) + Len(digest) /\ Len(s) \in Nat /\ Len(digest) \in Nat
  BY <1>5, JoiningBytes
<1>9. Cids!Decode(Cids!V2(text, size)) = data
  BY <1>4, <1>7, <1>8, DecodeEncode
<1>10. Stands(data, Len(s), p)
  BY <1>2, <1>5, StandsAfter
<1>11. /\ data[Len(s) + g + 1] = h
       /\ SubSeq(data, Len(s) + g + 2, Len(data)) = c
  BY <1>1, <1>2, <1>6, DigestAt
<1>12. Cids!Header(data) = Five(Cids!CidVersion, Cids!Raw, Cids!PadBinTree, Len(digest), Len(s))
  BY <1>7
<1>13. g \in Nat
  BY <1>2, GroupsIs
<1> HIDE DEF data, g
<1>14. Cids!DecodeUvarint(data, Len(s)) = <<p, Len(s) + g>>
  BY <1>2, <1>8, <1>10, StandsIsRead DEF g
<1> DEFINE header == Cids!Header(data)
<1>15. /\ SubSeq(header, 1, 3) = <<Cids!CidVersion, Cids!Raw, Cids!PadBinTree>>
       /\ header[4] = Len(digest) /\ header[5] = Len(s)
  <2> DEFINE n == Len(digest)
             o == Len(s)
             u == Cids!CidVersion
             v == Cids!Raw
             w == Cids!PadBinTree
  <2>1. header = Five(u, v, w, n, o)
    BY <1>12
  <2> HIDE DEF n, o, u, v, w, header
  <2>2. SubSeq(header, 1, 3) = <<u, v, w>> /\ header[4] = n /\ header[5] = o
    BY <2>1, FiveIs
  <2> QED BY <2>2 DEF n, o, u, v, w
<1> HIDE DEF header
<1> DEFINE padding == Cids!DecodeUvarint(data, header[5])
<1>16. padding[1] = p /\ padding[2] = Len(s) + g
  BY <1>14, <1>15
<1> HIDE DEF padding
<1>17. header[5] + header[4] = Len(data)
  BY <1>8, <1>15
<1>18. data[padding[2] + 1] = h /\ SubSeq(data, padding[2] + 2, Len(data)) = c
  BY <1>11, <1>16
<1>19. Cids!Capacity(h) - p = size
  BY <1>2, <1>3
<1> QED BY <1>2, <1>9, <1>15, <1>16, <1>17, <1>18, <1>19 DEF header, padding, c, h

LEMMA BuiltIsEnough == Cids!InputsAssumption /\ Cids!Built => Cids!SaysBoth
<1> SUFFICES ASSUME Cids!InputsAssumption, Cids!Built, Cids!Done PROVE Cids!SaysBoth
  BY DEF Cids!SaysBoth
<1> DEFINE text == cidInput.cid
           size == cidInput.size
<1>1. cidInput \in Inputs /\ cid = Cids!V2(text, size) /\ cid # Cids!Refused
  BY DEF Cids!Built, Cids!Done
<1>2. text.digits \in Seq(Fives) /\ size \in Nat /\ size < Cids!Power(2, ShiftLimit - 2)
  BY <1>1 DEF Cids!InputsAssumption, Fives
<1>3. Cids!Commitment(text) # <<>> /\ ~(size < 127)
  BY <1>1 DEF Cids!V2
<1>4. size >= 127
  BY <1>2, <1>3
<1> HIDE DEF text, size
<1> QED BY <1>1, <1>2, <1>3, <1>4, V2SaysBoth DEF Cids!SaysBoth, text, size

-----------------------------------------------------------------------------
(* In the composition, the conversion that is not the part stays undone.    *)
ConversionsSound ==
  /\ IF part = "cids" THEN Cids!Built ELSE cid = Cids!None
  /\ IF part = "money" THEN Money!Converted ELSE wei = Money!None

LEMMA ConversionsInit == HelpersInit => ConversionsSound
<1> SUFFICES ASSUME HelpersInit PROVE ConversionsSound
  OBVIOUS
<1>1. CASE part = "cids"
  <2>1. Cids!Init /\ wei = Money!None
    BY <1>1 DEF HelpersInit
  <2> QED BY <1>1, <2>1 DEF ConversionsSound, Cids!Init, Cids!Built
<1>2. CASE part = "money"
  <2>1. Money!Init /\ cid = Cids!None
    BY <1>2 DEF HelpersInit
  <2> QED BY <1>2, <2>1, ConvertedInit DEF ConversionsSound
<1>3. CASE part \notin {"cids", "money"}
  BY <1>3 DEF HelpersInit, ConversionsSound
<1> QED BY <1>1, <1>2, <1>3

LEMMA BuiltStep == Cids!Built /\ [Cids!Next]_(Cids!vars) => Cids!Built'
<1> SUFFICES ASSUME Cids!Built, [Cids!Next]_(Cids!vars) PROVE Cids!Built'
  OBVIOUS
<1>1. CASE UNCHANGED Cids!vars
  BY <1>1 DEF Cids!Built, Cids!vars
<1>2. CASE Cids!Convert
  BY <1>2 DEF Cids!Built, Cids!Convert
<1> QED BY <1>1, <1>2 DEF Cids!Next

LEMMA ConversionsStep == ConversionsSound /\ [HelpersNext]_all => ConversionsSound'
<1> SUFFICES ASSUME ConversionsSound, [HelpersNext]_all PROVE ConversionsSound'
  OBVIOUS
<1>1. CASE CidsNext
  <2>1. part = "cids" /\ part' = part /\ Cids!Next /\ wei' = wei
    BY <1>1 DEF CidsNext, money
  <2>2. Cids!Built'
    BY <2>1, BuiltStep DEF ConversionsSound
  <2> QED BY <2>1, <2>2 DEF ConversionsSound
<1>2. CASE MoneyNext
  <2>1. part = "money" /\ part' = part /\ Money!Next /\ cid' = cid
    BY <1>2 DEF MoneyNext, cids
  <2>2. Money!Converted'
    BY <2>1, ConvertedStep DEF ConversionsSound
  <2> QED BY <2>1, <2>2 DEF ConversionsSound
<1>3. ASSUME UNCHANGED <<part, cidInput, cid, sum, wei>> PROVE ConversionsSound'
  <2>1. UNCHANGED Cids!vars /\ UNCHANGED Money!vars
    BY <1>3 DEF Cids!vars, Money!vars
  <2>2. Cids!Built => Cids!Built'
    BY <2>1, BuiltStep
  <2>3. Money!Converted => Money!Converted'
    BY <2>1, ConvertedStep
  <2> QED BY <1>3, <2>2, <2>3 DEF ConversionsSound
<1>4. CASE ~CidsNext /\ ~MoneyNext
  <2>1. UNCHANGED <<part, cidInput, cid, sum, wei>>
    BY <1>4 DEF HelpersNext, AdapterNext, MarketNext, NoncesNext, PiecesNext, StatusNext, SourceNext, all, cids, money
  <2> QED BY <1>3, <2>1
<1> QED BY <1>1, <1>2, <1>4

(* The CID of every piece that is shorter than 2^62 bytes is read back as   *)
(* its commitment and its size, in the smallest tree that holds it, at every*)
(* boundary of the tree and of the encoding; and every amount below half of *)
(* a mantissa, of any number of bits, is sent, priced and shown as typed.   *)
THEOREM ConversionsAreExact == HelpersSpec => []ConversionsExact
<1>1. Cids!InputsAssumption /\ Money!AmountsAssumption
  BY CidsOfPayloads, AmountsOfNumbers DEF CidsOfPayloads, AmountsOfNumbers
<1>2. ConversionsSound => ConversionsExact
  <2> SUFFICES ASSUME ConversionsSound PROVE Cids!SaysBoth /\ Money!SmallAmountsExact
    BY DEF ConversionsExact
  <2>1. Cids!SaysBoth
    <3>1. CASE part = "cids"
      BY <1>1, <3>1, BuiltIsEnough DEF ConversionsSound
    <3>2. CASE part # "cids"
      BY <3>2 DEF ConversionsSound, Cids!SaysBoth, Cids!Done
    <3> QED BY <3>1, <3>2
  <2>2. Money!SmallAmountsExact
    <3>1. CASE part = "money"
      BY <1>1, <3>1, ConvertedIsEnough DEF ConversionsSound
    <3>2. CASE part # "money"
      BY <3>2 DEF ConversionsSound, Money!SmallAmountsExact, Money!Done
    <3> QED BY <3>1, <3>2
  <2> QED BY <2>1, <2>2
<1> QED BY <1>2, ConversionsInit, ConversionsStep, PTL DEF HelpersSpec

(* All of it at once, for the specification that TLC checks.                *)
THEOREM HelpersHold ==
  HelpersSpec => [](ReadComplete /\ MissedOnlyByShifts /\ PiecesExact /\ ConversionsExact /\ LostForGood) /\ ClearWhenTold
<1>1. HelpersSpec => []Nonces!ReadsBehind
  BY NoncesInHelpers, BehindStep, PTL DEF HelpersSpec
<1>2. HelpersSpec => ClearWhenTold
  BY <1>1, NoncesInHelpers, ClearStep, PTL DEF HelpersSpec, ClearWhenTold, Nonces!ClearWhenTold
<1> QED BY <1>2, AdapterInHelpers, StatusInHelpers, ReadsAreComplete, LostIsLost, ReadsMissOnlyShifted, PiecesAreExact,
             ConversionsAreExact, PTL
=============================================================================
