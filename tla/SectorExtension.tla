---------------------------- MODULE SectorExtension ----------------------------
(***************************************************************************)
(* How long claims and sectors of a migrated deal last.                    *)
(*                                                                         *)
(* Adoption extends the term of each V1 claim nearly to the actor's        *)
(* maximum; `sp extend-deal-sectors` then extends the sectors that hold    *)
(* the claims of the V2 deal with sptool, and `migration-status            *)
(* --check-sectors` says whether they last.  All three compute with an     *)
(* epoch, a deal and claims they read some time ago, while epochs pass,    *)
(* the deal is activated, batches and extensions land, and commands die.   *)
(***************************************************************************)
EXTENDS Integers, FiniteSets

CONSTANTS
  Claims, Sectors,
  SectorOf,        \* claim -> the sector that holds it
  TermStart,       \* claim -> the epoch its term began
  Terms,           \* terms (TermMax) a claim may begin with
  Expirations,     \* expirations a sector may begin with
  Duration,        \* terms.duration_epochs of the deal
  MaximumTerm,     \* MAXIMUM_VERIFIED_ALLOCATION_TERM: five years
  Reserve,         \* CLAIM_TERM_RESERVE_EPOCHS: a day
  ActiveMargin,    \* ACTIVE_DEAL_SECTOR_MARGIN_EPOCHS: 30 days
  AcceptedMargin,  \* ACCEPTED_DEAL_SECTOR_MARGIN_EPOCHS: 60 days
  Drift,           \* epochs the node that answers may be ahead of the chain
  Requested,       \* --target-epoch arguments
  MaxSent,         \* bound on the messages on their way
  MaxEpoch         \* bound on time

Never == -1        \* no epoch: nothing was read, requested or recorded

ASSUME EpochsAssumption ==
  /\ SectorOf \in [Claims -> Sectors] /\ TermStart \in [Claims -> Nat]
  /\ Terms \subseteq Nat /\ Expirations \subseteq Nat /\ Requested \subseteq Nat \ {0}
  /\ Duration \in Nat /\ MaximumTerm \in Nat /\ Reserve \in Nat /\ MaxSent \in Nat /\ MaxEpoch \in Nat
  /\ ActiveMargin \in Nat /\ AcceptedMargin \in Nat /\ ActiveMargin <= AcceptedMargin
  /\ Drift \in Nat /\ Drift <= Reserve

VARIABLES
  now,         \* epoch of the chain
  deal,        \* the V2 deal: its state, and the end of its service
  termMax,     \* claim -> its term
  held,        \* claims on the deal's adapter
  batch,       \* adoption batch on its way: its claims, the epoch it was planned at
  refusal,     \* why the last batch that landed was refused, if it was
  expiration,  \* sector -> its expiration
  run,         \* the command that is running, and what it has read
  sent,        \* extension messages that have not landed
  reached,     \* sector -> epoch of the last run whose target it was extended to
  vouched      \* sector -> epoch of the last run that found it long enough

client == <<termMax, held, batch, refusal>>
vars == <<now, deal, client, expiration, run, sent, reached, vouched>>

Epoch == Nat \union {Never}
Deal == [state : {"accepted", "active", "ended"}, end : Nat]
NoDeal == [state |-> "ended", end |-> 0]
Idle == [pc |-> "idle", status |-> FALSE, view |-> NoDeal, current |-> Never,
         requested |-> Never, below |-> {}]
Run == [pc : {"idle", "view", "epoch", "sectors", "listed"}, status : BOOLEAN,
        view : Deal, current : Epoch, requested : Epoch, below : SUBSET Sectors]
Batch == [claims : SUBSET Claims, at : Epoch]
NoBatch == [claims |-> {}, at |-> Never]
Message == [sectors : SUBSET Sectors, to : Nat, at : Epoch]

EndEpoch(c) == TermStart[c] + termMax[c]
Heads == now .. now + Drift

Init ==
  /\ now = 0
  /\ deal = [state |-> "accepted", end |-> 0]
  /\ termMax \in [Claims -> Terms]
  /\ held = {} /\ batch = NoBatch /\ refusal = "none"
  /\ expiration \in [Sectors -> Expirations]
  /\ run = Idle
  /\ sent = {}
  /\ reached = [s \in Sectors |-> Never]
  /\ vouched = [s \in Sectors |-> Never]

-----------------------------------------------------------------------------
(* Time and the V2 deal.                                                    *)

Tick ==
  /\ now < MaxEpoch
  /\ now' = now + 1
  /\ UNCHANGED <<deal, client, expiration, run, sent, reached, vouched>>

Activate ==
  /\ deal.state = "accepted" /\ held # {}
  /\ deal' = [state |-> "active", end |-> now + Duration]
  /\ UNCHANGED <<now, client, expiration, run, sent, reached, vouched>>

(* Rejected, terminated, or over.                                           *)
EndDeal ==
  /\ deal.state # "ended"
  /\ deal' = [deal EXCEPT !.state = "ended"]
  /\ UNCHANGED <<now, client, expiration, run, sent, reached, vouched>>

-----------------------------------------------------------------------------
(* adopt-v1-claims, as far as terms go: ClaimAdoption has the rest.         *)

(* Mutated form: the term is asked for up to the limit.                     *)
TermWithoutReserve(c, current) == current + MaximumTerm - TermStart[c]

(* extension_term_max, and its two errors.                                  *)
ExtensionTermMax(c, current) == current + MaximumTerm - TermStart[c] - Reserve
Extendable(c, current) ==
  /\ EndEpoch(c) > current
  /\ ExtensionTermMax(c, current) > termMax[c]

PlanBatch(claims, current) ==
  /\ batch = NoBatch
  /\ deal.state = "accepted"
  /\ claims # {} /\ \A c \in claims : Extendable(c, current)
  /\ batch' = [claims |-> claims, at |-> current]
  /\ UNCHANGED <<now, deal, termMax, held, refusal, expiration, run, sent, reached, vouched>>

(* The actor's policy (a comment of the code states it): a claim that is    *)
(* not over may get a term that ends within MaximumTerm of the epoch.       *)
Over(c) == EndEpoch(c) <= now
WithinLimit(c) == TermStart[c] + ExtensionTermMax(c, batch.at) <= now + MaximumTerm

Refusal ==
  CASE \E c \in batch.claims : Over(c) -> "over"
    [] \A c \in batch.claims : ~Over(c) /\ WithinLimit(c) -> "none"
    [] OTHER -> "limit"

LandBatch ==
  /\ batch # NoBatch
  /\ batch' = NoBatch
  /\ refusal' = Refusal
  /\ IF Refusal = "none"
       THEN /\ termMax' = [c \in Claims |-> IF c \in batch.claims THEN ExtensionTermMax(c, batch.at) ELSE termMax[c]]
            /\ held' = held \union batch.claims
       ELSE UNCHANGED <<termMax, held>>
  /\ UNCHANGED <<now, deal, expiration, run, sent, reached, vouched>>

-----------------------------------------------------------------------------
(* extend-deal-sectors, and the sector check of migration-status.           *)

(* Mutated form: one margin for everything.                                 *)
OneMarginTarget(d, current) ==
  IF d.state = "active" THEN d.end + ActiveMargin ELSE current + Duration + ActiveMargin

(* sector_target_epoch                                                      *)
Target(d, current) ==
  IF d.state = "active" THEN d.end + ActiveMargin ELSE current + Duration + AcceptedMargin

(* Mutated form: an accepted deal needs no margin.                          *)
RequiredWithoutMargin(d, current) ==
  IF d.state = "active" THEN Target(d, current) ELSE current + Duration

(* sector_required_epoch                                                    *)
Required(d, current) ==
  IF d.state = "active" THEN Target(d, current) ELSE current + Duration + ActiveMargin

TargetEpoch == IF run.requested # Never THEN run.requested ELSE Target(run.view, run.current)
RequiredEpoch == IF run.requested # Never THEN run.requested ELSE Required(run.view, run.current)

(* migration-status reads the epoch first, extend-deal-sectors the deal.    *)
Begin(status, requested) ==
  /\ status => requested = Never
  /\ run' = [Idle EXCEPT !.pc = IF status THEN "epoch" ELSE "view", !.status = status, !.requested = requested]
  /\ UNCHANGED <<now, deal, client, expiration, sent, reached, vouched>>

View ==
  /\ run.pc = "view"
  /\ run' = [run EXCEPT !.pc = IF run.status THEN "sectors" ELSE "epoch", !.view = deal]
  /\ UNCHANGED <<now, deal, client, expiration, sent, reached, vouched>>

ReadEpoch ==
  /\ run.pc = "epoch"
  /\ \E head \in Heads :
       run' = [run EXCEPT !.pc = IF run.status THEN "view" ELSE "sectors", !.current = head]
  /\ UNCHANGED <<now, deal, client, expiration, sent, reached, vouched>>

(* deal_claims and sector_expirations.  A sector that is not live ends the  *)
(* command; migration-status takes its expiration for 0.                    *)
HeldSectors == {SectorOf[c] : c \in held}
Live(s) == expiration[s] > now
Below == {s \in HeldSectors : expiration[s] < RequiredEpoch}

(* "nothing to extend", or "ok".  A verdict with a requested target says    *)
(* nothing of the deal.                                                     *)
SayLongEnough ==
  /\ run.pc = "sectors"
  /\ held # {} /\ \A s \in HeldSectors : Live(s)
  /\ Below = {}
  /\ run' = Idle
  /\ vouched' = [s \in Sectors |-> IF s \in HeldSectors /\ run.requested = Never THEN run.current ELSE vouched[s]]
  /\ UNCHANGED <<now, deal, client, expiration, sent, reached>>

List ==
  /\ run.pc = "sectors" /\ ~run.status
  /\ held # {} /\ \A s \in HeldSectors : Live(s)
  /\ Below # {}
  /\ run' = [run EXCEPT !.pc = "listed", !.below = Below]
  /\ UNCHANGED <<now, deal, client, expiration, sent, reached, vouched>>

(* The preview of sptool passed and was confirmed; with --really-do-it it   *)
(* sends a message for the sectors it does not skip.  When it fails then,   *)
(* part of the message may be sent.                                         *)
Extend ==
  /\ run.pc = "listed" /\ Cardinality(sent) < MaxSent
  /\ \E sectors \in SUBSET run.below \ {{}} :
       sent' = sent \union {[sectors |-> sectors, to |-> TargetEpoch,
                             at |-> IF run.requested = Never THEN run.current ELSE Never]}
  /\ run' = Idle
  /\ UNCHANGED <<now, deal, client, expiration, reached, vouched>>

(* "too early" of migration-status, --print-only, a dry run, an error, a    *)
(* preview that skips every sector, a declined prompt, Ctrl-C.              *)
Stop ==
  /\ run.pc # "idle"
  /\ run' = Idle
  /\ UNCHANGED <<now, deal, client, expiration, sent, reached, vouched>>

(* A message lands.  A sector gets the target when its claims last as long, *)
(* else it is clamped to the end of a claim or stays as it is; none is made *)
(* shorter.                                                                 *)
Land(m) ==
  /\ m \in sent
  /\ sent' = sent \ {m}
  /\ \E new \in [Sectors -> {m.to} \union {EndEpoch(c) : c \in Claims} \union {expiration[s] : s \in Sectors}] :
       /\ \A s \in Sectors :
            \/ new[s] = expiration[s]
            \/ /\ s \in m.sectors /\ new[s] > expiration[s] /\ new[s] <= m.to
               /\ \A c \in Claims : SectorOf[c] = s => new[s] <= EndEpoch(c)
               /\ new[s] = m.to \/ \E c \in Claims : SectorOf[c] = s /\ new[s] = EndEpoch(c)
       /\ expiration' = new
       /\ reached' = [s \in Sectors |->
                        IF s \in m.sectors /\ new[s] >= m.to /\ m.at # Never THEN m.at ELSE reached[s]]
  /\ UNCHANGED <<now, deal, client, run, vouched>>

Lose(m) ==
  /\ sent' = sent \ {m}
  /\ UNCHANGED <<now, deal, client, expiration, run, reached, vouched>>

Next ==
  \/ Tick \/ Activate \/ EndDeal
  \/ \E claims \in SUBSET (Claims \ held), current \in Heads : PlanBatch(claims, current)
  \/ LandBatch
  \/ \E status \in BOOLEAN, requested \in Requested \union {Never} : Begin(status, requested)
  \/ View \/ ReadEpoch \/ SayLongEnough \/ List \/ Extend \/ Stop
  \/ \E m \in sent : Land(m) \/ Lose(m)

Spec == Init /\ [][Next]_vars

-----------------------------------------------------------------------------
(* Properties.                                                              *)

TypeOK ==
  /\ now \in Nat /\ deal \in Deal
  /\ termMax \in [Claims -> Int] /\ held \subseteq Claims
  /\ batch \in Batch /\ refusal \in {"none", "over", "limit"}
  /\ expiration \in [Sectors -> Int]
  /\ run \in Run /\ sent \subseteq Message
  /\ reached \in [Sectors -> Epoch] /\ vouched \in [Sectors -> Epoch]

ServiceStart == deal.end - Duration

(* "so the transaction still passes if it lands a bit later" (service.py):  *)
(* no batch is refused for the terms it asks for, whenever it lands and     *)
(* also when the node that gave the epoch was ahead of the chain.           *)
ExtensionTaken == refusal # "limit"

(* "sectors must outlive the V2 service window by a margin so late          *)
(* activation ... never outruns them" (service.py): sectors that a run      *)
(* found long enough outlive the service of a deal that is activated up to  *)
(* the margin later, whatever has happened while the run was reading.       *)
OutlivesService ==
  \A s \in Sectors :
    vouched[s] # Never /\ deal.state = "active" /\ ServiceStart <= vouched[s] + ActiveMargin
    => expiration[s] >= deal.end

(* "keeps sectors extended to the target from showing up as too short again *)
(* on the next run" (service.py): for as long as the two margins differ,    *)
(* and for ever when the deal is activated by then, a sector that reached   *)
(* the target of a run is not listed by a later one.                        *)
NotShortAgain ==
  \A s \in Sectors :
    /\ reached[s] # Never
    /\ \/ deal.state = "accepted" /\ now <= reached[s] + (AcceptedMargin - ActiveMargin)
       \/ deal.state = "active" /\ ServiceStart <= reached[s] + (AcceptedMargin - ActiveMargin)
    => expiration[s] >= Required(deal, now)

-----------------------------------------------------------------------------
(* The inductive invariant.  A deal is only ever seen as it is or was: an   *)
(* active one keeps its end, an ended one stays so.                         *)
ViewRead == run.pc \in {"sectors", "listed"} \/ (run.pc = "epoch" /\ ~run.status)
EpochRead == run.pc \in {"sectors", "listed"} \/ (run.pc = "view" /\ run.status)

RunSound ==
  /\ EpochRead => run.current # Never
  /\ ViewRead => /\ run.view.state = "ended" => deal.state = "ended"
                 /\ run.view.state = "active" =>
                      deal.state = "ended" \/ (deal.state = "active" /\ deal.end = run.view.end)

BatchSound == batch # NoBatch => batch.at <= now + Drift

(* An epoch that was enough for the deal, with the margin, at a given time. *)
Lasts(epoch, at, margin, service) ==
  \/ deal.state = "ended"
  \/ epoch >= at + Duration + margin
  \/ deal.state = "active" /\ epoch >= deal.end + service

SentSound == \A m \in sent : m.at # Never => Lasts(m.to, m.at, AcceptedMargin, ActiveMargin)
ReachedSound ==
  \A s \in Sectors : reached[s] # Never => Lasts(expiration[s], reached[s], AcceptedMargin, ActiveMargin)
VouchedSound ==
  \A s \in Sectors : vouched[s] # Never => Lasts(expiration[s], vouched[s], ActiveMargin, 0)

TermsInv ==
  TypeOK /\ RunSound /\ BatchSound /\ SentSound /\ ReachedSound /\ VouchedSound /\ ExtensionTaken
=============================================================================
