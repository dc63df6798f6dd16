------------------------------- MODULE SubmitDdo -------------------------------
(***************************************************************************)
(* client submit-ddo: the pieces of a deal handed to the Curio market of   *)
(* the SP, one DDO deal a piece.                                           *)
(*                                                                         *)
(* A session reads from the evidence adapter, piece by piece, which pieces *)
(* are accepted, asks the client, and then asks Curio for the status of    *)
(* each of the others and posts what Curio does not know.  Requests and    *)
(* answers get lost, sessions die and are started again, in several        *)
(* terminals at once; meanwhile the SP places pieces and its deals fail.   *)
(* --print-only and the checks of the manifest change nothing and are left *)
(* out, and all endpoints of the SP are taken to be one Curio.             *)
(***************************************************************************)
EXTENDS Integers

CONSTANTS
  Sessions,    \* terminals in which submit-ddo is run
  N,           \* pieces of the deal, in canonical order
  Faults,      \* bound on requests, answers and sessions lost
  Failures     \* bound on DDO deals that fail in Curio

ASSUME NumbersAssumption == N \in Nat /\ Faults \in Nat /\ Failures \in Nat

Pieces == 1 .. N

VARIABLES
  deal,        \* the market's state of the deal, as far as submit-ddo tells it apart
  accepted,    \* pieces whose placement the evidence adapter has accepted
  curio,       \* the DDO deals Curio knows
  session,     \* local variables of the sessions
  faults, failures   \* what may still go wrong

vars == <<deal, accepted, curio, session, faults, failures>>

Statuses == {"submitted", "complete", "failed"}

(* Mutated form: an identifier made up by the session.                      *)
SessionIdentifier(s, p) == [by |-> s, piece |-> p]

(* piece_identifier: chain, market, deal and piece determine it; of these   *)
(* only the piece differs here.                                             *)
Identifier(s, p) == [by |-> "deal", piece |-> p]

(* todo is pieces_to_submit, left the part the loop has still to come to,   *)
(* at the row of the first loop.                                            *)
Session == [pc : {"idle", "read", "endpoint", "confirm", "query", "post", "done", "failed"},
            at : 1 .. N + 1, todo : SUBSET Pieces, left : SUBSET Pieces]

At(s, step) == session[s].pc = step
Goto(s, step) == session' = [session EXCEPT ![s].pc = step]

First(p, set) == p \in set /\ \A q \in set : p <= q
InCurio(p) == \E d \in curio : d.piece = p
Known(id) == {d \in curio : d.id = id}

Init ==
  /\ deal = "ACCEPTED"
  /\ accepted = {}
  /\ curio = {}
  /\ session = [s \in Sessions |-> [pc |-> "idle", at |-> 1, todo |-> {}, left |-> {}]]
  /\ faults = Faults
  /\ failures = Failures

-----------------------------------------------------------------------------
(* The session.                                                             *)

Fault == faults > 0 /\ faults' = faults - 1
NoFault == UNCHANGED faults

(* _validate_deal                                                           *)
Start(s) ==
  /\ session[s].pc \in {"idle", "done", "failed"}
  /\ deal = "ACCEPTED"
  /\ session' = [session EXCEPT ![s] = [pc |-> "read", at |-> 1, todo |-> {}, left |-> {}]]
  /\ UNCHANGED <<deal, accepted, curio, faults, failures>>

RowsRead(at) == at > N

(* is_piece_accepted, row after row                                         *)
ReadRow(s) ==
  /\ At(s, "read") /\ ~RowsRead(session[s].at)
  /\ session' = [session EXCEPT ![s].at = @ + 1,
                                ![s].todo = @ \union ({session[s].at} \ accepted)]
  /\ UNCHANGED <<deal, accepted, curio, faults, failures>>

(* "All pieces are already accepted.", or on to the endpoint                *)
EndOfRows(s) ==
  /\ At(s, "read") /\ RowsRead(session[s].at)
  /\ session' = [session EXCEPT ![s].pc = IF session[s].todo = {} THEN "done" ELSE "endpoint",
                                ![s].left = session[s].todo]
  /\ UNCHANGED <<deal, accepted, curio, faults, failures>>

(* find_curio_market_endpoint: one that passes the preflight, or none       *)
FindEndpoint(s) ==
  /\ At(s, "endpoint")
  /\ \/ Goto(s, "confirm") /\ NoFault
     \/ Goto(s, "failed") /\ Fault
  /\ UNCHANGED <<deal, accepted, curio, failures>>

Confirm(s) ==
  /\ At(s, "confirm")
  /\ \/ Goto(s, "query") /\ NoFault
     \/ Goto(s, "failed") /\ Fault      \* declined
  /\ UNCHANGED <<deal, accepted, curio, failures>>

PieceHandled(s, p) ==
  session' = [session EXCEPT ![s].left = @ \ {p},
                             ![s].pc = IF session[s].left = {p} THEN "done" ELSE "query"]

(* Mutated forms: a request that failed leaves the piece behind; 404 alone  *)
(* is the answer for an unknown deal.                                       *)
CarryOn(s, p) == PieceHandled(s, p)
Only404(code) == code = 404

(* CurioMarketError and ClickException leave the loop.                      *)
Raise(s, p) == Goto(s, "failed")

(* get_deal_status_or_none: the other codes are raised.                     *)
TakenForAbsent(code) == code \in {401, 404}

(* Curio's answer: the deal, or 401 or 404 for one it does not know.  When  *)
(* things go wrong it is 401 for a known deal (a signature that is not of   *)
(* its minute), or an error or no answer at all, for which 500 stands.      *)
Answered(id, code) ==
  \/ code \in (IF Known(id) = {} THEN {401, 404} ELSE {200}) /\ NoFault
  \/ code \in {401, 500} /\ Fault

Query(s) ==
  /\ At(s, "query")
  /\ \E p \in Pieces, code \in {200, 401, 404, 500} :
       LET id == Identifier(s, p) IN
       /\ First(p, session[s].left)
       /\ Answered(id, code)
       /\ \/ code = 200 /\ \E d \in Known(id) : d.status = "failed" /\ Raise(s, p)
          \/ code = 200 /\ \E d \in Known(id) : d.status # "failed" /\ PieceHandled(s, p)
          \/ TakenForAbsent(code) /\ Goto(s, "post")
          \/ code # 200 /\ ~TakenForAbsent(code) /\ Raise(s, p)
  /\ UNCHANGED <<deal, accepted, curio, failures>>

(* POST /deal.  Curio refuses an identifier it knows.                       *)
Post(s) ==
  /\ At(s, "post")
  /\ \E p \in Pieces :
       LET id  == Identifier(s, p)
           new == [id |-> id, piece |-> p, status |-> "submitted"]
       IN /\ First(p, session[s].left)
          /\ \/ Known(id) = {} /\ NoFault /\ curio' = curio \union {new} /\ PieceHandled(s, p)
             \/ Known(id) = {} /\ Fault /\ curio' = curio \union {new} /\ Raise(s, p)
             \/ Known(id) # {} /\ NoFault /\ UNCHANGED curio /\ Raise(s, p)
             \/ Fault /\ UNCHANGED curio /\ Raise(s, p)
  /\ UNCHANGED <<deal, accepted, failures>>

Die(s) ==
  /\ session[s].pc \notin {"idle", "done", "failed"}
  /\ Goto(s, "idle") /\ Fault
  /\ UNCHANGED <<deal, accepted, curio, failures>>

Step(s) == ReadRow(s) \/ EndOfRows(s) \/ FindEndpoint(s) \/ Confirm(s) \/ Query(s) \/ Post(s)

-----------------------------------------------------------------------------
(* Curio, the SP and the market.                                            *)

SetStatus(d, status) == curio' = (curio \ {d}) \union {[d EXCEPT !.status = status]}

Place(d) ==
  /\ d.status = "submitted" /\ SetStatus(d, "complete")
  /\ accepted' = accepted \union {d.piece}
  /\ UNCHANGED <<deal, session, faults, failures>>

FailDdo(d) ==
  /\ d.status = "submitted" /\ SetStatus(d, "failed")
  /\ failures > 0 /\ failures' = failures - 1
  /\ UNCHANGED <<deal, accepted, session, faults>>

(* The SP may place a piece without Curio's market, with the payloads of    *)
(* sp get-piece-notifications.                                              *)
PlaceDirectly(p) ==
  /\ accepted' = accepted \union {p}
  /\ UNCHANGED <<deal, curio, session, faults, failures>>

(* The deal goes on to ACTIVE with all of its pieces, or it is ended.       *)
LeaveAccepted ==
  /\ deal = "ACCEPTED"
  /\ \/ accepted = Pieces /\ deal' = "ACTIVE"
     \/ deal' = "EARLY_TERMINATED"
  /\ UNCHANGED <<accepted, curio, session, faults, failures>>

Next ==
  \/ \E s \in Sessions : Start(s) \/ Step(s) \/ Die(s)
  \/ \E d \in curio : Place(d) \/ FailDdo(d)
  \/ \E p \in Pieces : PlaceDirectly(p)
  \/ LeaveAccepted

Spec == Init /\ [][Next]_vars

(* Somebody runs the command again and again in some terminal, and a run    *)
(* that is not killed goes on.  Nothing is assumed of the SP.               *)
FairSpec == Spec /\ \E s \in Sessions : WF_vars(Start(s)) /\ WF_vars(Step(s))

-----------------------------------------------------------------------------
(* Properties.                                                              *)

TypeOK ==
  /\ deal \in {"ACCEPTED", "ACTIVE", "EARLY_TERMINATED"}
  /\ accepted \subseteq Pieces
  /\ curio \subseteq [id : [by : Sessions \union {"deal"}, piece : Pieces], piece : Pieces, status : Statuses]
  /\ session \in [Sessions -> Session]
  /\ faults \in Nat /\ failures \in Nat

(* "Deterministic identifier makes the command safe to rerun": no piece is  *)
(* given to Curio twice, not by two sessions that both found it absent, nor *)
(* after an answer that was lost.                                           *)
OneDealPerPiece == \A d, e \in curio : d.piece = e.piece => d = e

(* A session that says "Done." has left no piece behind: each one was       *)
(* accepted, or Curio has a deal for it.                                    *)
DoneIsTrue ==
  \A s \in Sessions : At(s, "done") =>
    \A p \in Pieces : IF p \in session[s].todo THEN InCurio(p) ELSE p \in accepted

Handled == \A p \in Pieces : p \in accepted \/ InCurio(p)

(* "Each manifest piece is submitted as a DDO deal", however many runs it   *)
(* takes, unless the deal ends before.                                      *)
EventuallyHandled == <>(Handled \/ deal # "ACCEPTED")

(* It does, if Curio fails none of the DDO deals.                           *)
HandledUnlessFailed == [](failures = Failures) => EventuallyHandled

(* The inductive invariant: what the session has passed by is accepted or   *)
(* known to Curio, and Curio's deals have the identifiers of their pieces.  *)
Passed(s) ==
  LET t == session[s] IN
  /\ At(s, "read") => t.todo \subseteq 1 .. t.at - 1 /\ (1 .. t.at - 1) \intersect Pieces \subseteq t.todo \union accepted
  /\ t.pc \in {"endpoint", "confirm", "query", "post", "done"} => Pieces \ t.todo \subseteq accepted
  /\ t.pc \in {"endpoint", "confirm", "query", "post"} =>
       t.left \subseteq t.todo /\ \A p \in t.todo \ t.left : InCurio(p)
  /\ At(s, "done") => \A p \in t.todo : InCurio(p)

SubmitSound ==
  /\ TypeOK
  /\ OneDealPerPiece
  /\ \A d \in curio : d.id = [by |-> "deal", piece |-> d.piece]
  /\ \A s \in Sessions : Passed(s)
=============================================================================
