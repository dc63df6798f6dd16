---------------------------- MODULE SubmitDdo_proofs ----------------------------
(* One DDO deal a piece, and "Done." only when no piece was left behind:    *)
(* for any number of pieces, sessions, lost requests and failed deals.      *)
EXTENDS SubmitDdo, TLAPS

Ddo == [id : [by : Sessions \union {"deal"}, piece : Pieces], piece : Pieces, status : Statuses]

CurioSound ==
  /\ curio \subseteq Ddo
  /\ OneDealPerPiece
  /\ \A d \in curio : d.id = [by |-> "deal", piece |-> d.piece]

(* What the other actors may do to a session's findings: nothing is taken   *)
(* back.                                                                    *)
Grown == accepted \subseteq accepted' /\ \A p \in Pieces : InCurio(p) => InCurio(p)'

LEMMA SoundInit == Init => SubmitSound
<1> SUFFICES ASSUME Init PROVE SubmitSound
  OBVIOUS
<1>1. TypeOK
  BY NumbersAssumption DEF Init, TypeOK, Session, Pieces
<1>2. \A s \in Sessions : Passed(s)
  BY NumbersAssumption DEF Init, Passed, At
<1> QED BY <1>1, <1>2 DEF Init, SubmitSound, OneDealPerPiece

LEMMA CurioKnows ==
  ASSUME \A d \in curio : d.id = [by |-> "deal", piece |-> d.piece],
         NEW s, NEW p, NEW d \in Known(Identifier(s, p))
  PROVE  d \in curio /\ d.piece = p
<1>1. d \in curio /\ [by |-> "deal", piece |-> d.piece] = [by |-> "deal", piece |-> p]
  BY DEF Known, Identifier
<1>2. [by |-> "deal", piece |-> d.piece].piece = [by |-> "deal", piece |-> p].piece
  BY <1>1
<1> QED BY <1>1, <1>2

LEMMA StatusStep ==
  ASSUME CurioSound, NEW d \in curio, NEW status \in Statuses, SetStatus(d, status)
  PROVE  CurioSound' /\ \A p \in Pieces : InCurio(p) => InCurio(p)'
<1> DEFINE new == [d EXCEPT !.status = status]
<1>1. new \in Ddo /\ new.id = d.id /\ new.piece = d.piece
  BY DEF CurioSound, Ddo
<1>2. curio' = (curio \ {d}) \union {new}
  BY DEF SetStatus
<1> HIDE DEF new
<1>3. OneDealPerPiece'
  BY <1>1, <1>2 DEF CurioSound, OneDealPerPiece
<1>4. \A p \in Pieces : InCurio(p) => InCurio(p)'
  BY <1>1, <1>2 DEF InCurio
<1> QED BY <1>1, <1>2, <1>3, <1>4 DEF CurioSound

(* A deal that Curio does not know by its identifier is a deal for a piece  *)
(* it has none for.                                                         *)
LEMMA NewDdo ==
  ASSUME CurioSound, NEW s \in Sessions, NEW p \in Pieces, Known(Identifier(s, p)) = {},
         curio' = curio \union {[id |-> Identifier(s, p), piece |-> p, status |-> "submitted"]}
  PROVE  CurioSound' /\ InCurio(p)' /\ \A q \in Pieces : InCurio(q) => InCurio(q)'
<1> DEFINE new == [id |-> Identifier(s, p), piece |-> p, status |-> "submitted"]
<1>1. new \in Ddo /\ new.piece = p /\ new.id = [by |-> "deal", piece |-> p]
  BY DEF Ddo, Identifier, Statuses
<1>2. \A d \in curio : d.piece # p
  BY DEF CurioSound, Known, Identifier
<1>3. curio' = curio \union {new}
  OBVIOUS
<1> HIDE DEF new
<1> QED BY <1>1, <1>2, <1>3 DEF CurioSound, OneDealPerPiece, InCurio

LEMMA CurioStep ==
  ASSUME SubmitSound, [Next]_vars
  PROVE  CurioSound' /\ Grown /\ accepted' \subseteq Pieces
<1>1. CurioSound /\ accepted \subseteq Pieces
  BY DEF SubmitSound, CurioSound, TypeOK, Ddo
<1>2. CASE UNCHANGED curio
  <2>1. accepted \subseteq accepted' /\ accepted' \subseteq Pieces
    BY <1>1 DEF Next, vars, Start, Step, ReadRow, EndOfRows, FindEndpoint, Confirm, Query, Post, Die,
                Place, FailDdo, PlaceDirectly, LeaveAccepted, SubmitSound, TypeOK
  <2> QED BY <1>1, <1>2, <2>1 DEF CurioSound, OneDealPerPiece, Grown, InCurio
<1>3. ASSUME NEW s \in Sessions, Post(s), curio' # curio PROVE CurioSound' /\ Grown
  <2>1. PICK p \in Pieces :
          /\ Known(Identifier(s, p)) = {}
          /\ curio' = curio \union {[id |-> Identifier(s, p), piece |-> p, status |-> "submitted"]}
    BY <1>3 DEF Post
  <2> QED BY <1>1, <1>3, <2>1, NewDdo DEF Grown, Post
<1>4. ASSUME NEW d \in curio, Place(d) PROVE CurioSound' /\ Grown /\ accepted' \subseteq Pieces
  BY <1>1, <1>4, StatusStep DEF Place, Grown, Statuses, CurioSound, Ddo
<1>5. ASSUME NEW d \in curio, FailDdo(d) PROVE CurioSound' /\ Grown
  BY <1>1, <1>5, StatusStep DEF FailDdo, Grown, Statuses
<1>6. ASSUME curio' # curio
      PROVE  \/ \E s \in Sessions : Post(s)
             \/ \E d \in curio : Place(d) \/ FailDdo(d)
  BY <1>6 DEF Next, vars, Start, Step, ReadRow, EndOfRows, FindEndpoint, Confirm, Query, Die,
              PlaceDirectly, LeaveAccepted
<1>7. \A s \in Sessions : Post(s) => accepted' = accepted
  BY DEF Post
<1>8. \A d \in curio : FailDdo(d) => accepted' = accepted
  BY DEF FailDdo
<1> QED BY <1>1, <1>2, <1>3, <1>4, <1>5, <1>6, <1>7, <1>8

(* The findings of a session that does not move stay true.                  *)
LEMMA OthersKeep ==
  ASSUME NEW s \in Sessions, session[s] \in Session, Passed(s), Grown, session'[s] = session[s]
  PROVE  Passed(s)'
<1>1. session[s].todo \subseteq Pieces /\ session[s].left \subseteq Pieces
  BY DEF Session
<1>2. \A p \in Pieces : p \in accepted => p \in accepted'
  BY DEF Grown
<1>3. \A p \in Pieces : InCurio(p) => InCurio(p)'
  BY DEF Grown
<1> QED BY <1>1, <1>2, <1>3 DEF Passed, At

(* Steps that only change pc and leave the findings as they are.            *)
LEMMA GotoKeeps ==
  ASSUME TypeOK, NEW s \in Sessions, Passed(s), Grown,
         NEW step \in {"confirm", "query", "post", "failed", "idle"}, Goto(s, step),
         step \in {"confirm", "query", "post"} => session[s].pc \in {"endpoint", "confirm", "query"}
  PROVE  session' \in [Sessions -> Session] /\ Passed(s)'
<1>1. session[s] \in Session
  BY DEF TypeOK
<1>2. session' = [session EXCEPT ![s] = [session[s] EXCEPT !.pc = step]]
  BY DEF Goto
<1>3. [session[s] EXCEPT !.pc = step] \in Session
  BY <1>1 DEF Session
<1>4. /\ session'[s].pc = step /\ session'[s].todo = session[s].todo
      /\ session'[s].left = session[s].left /\ session'[s].at = session[s].at
  BY <1>1, <1>2 DEF TypeOK, Session
<1>5. session[s].todo \subseteq Pieces
  BY <1>1 DEF Session
<1> QED BY <1>2, <1>3, <1>4, <1>5 DEF TypeOK, Passed, At, Grown

(* The piece at the head of the loop is with Curio: the loop goes on.       *)
LEMMA HandledKeeps ==
  ASSUME TypeOK, NEW s \in Sessions, Passed(s), Grown, session[s].pc \in {"query", "post"},
         NEW p \in Pieces, p \in session[s].left, InCurio(p)', PieceHandled(s, p)
  PROVE  session' \in [Sessions -> Session] /\ Passed(s)'
<1> DEFINE step == IF session[s].left = {p} THEN "done" ELSE "query"
<1>1. session[s] \in Session
  BY DEF TypeOK
<1>2. /\ session' \in [Sessions -> Session]
      /\ session'[s].pc = step /\ session'[s].todo = session[s].todo
      /\ session'[s].left = session[s].left \ {p} /\ session'[s].at = session[s].at
  BY <1>1 DEF TypeOK, PieceHandled, Session
<1>3. /\ Pieces \ session[s].todo \subseteq accepted
      /\ session[s].left \subseteq session[s].todo
      /\ \A q \in session[s].todo \ session[s].left : InCurio(q)
  BY DEF Passed
<1>4. session[s].todo \subseteq Pieces
  BY <1>1 DEF Session
<1>5. Pieces \ session[s].todo \subseteq accepted'
  BY <1>3 DEF Grown
<1>6. \A q \in session[s].todo \ (session[s].left \ {p}) : InCurio(q)'
  BY <1>3, <1>4 DEF Grown
<1> HIDE DEF InCurio
<1> QED BY <1>2, <1>3, <1>5, <1>6 DEF Passed, At

LEMMA SessionStep ==
  ASSUME SubmitSound, Next, Grown, NEW s \in Sessions, Start(s) \/ Step(s) \/ Die(s)
  PROVE  session' \in [Sessions -> Session] /\ \A t \in Sessions : Passed(t)'
<1>1. TypeOK /\ Passed(s) /\ session[s] \in Session
  BY DEF SubmitSound, TypeOK
<1>2. session' \in [Sessions -> Session] /\ Passed(s)'
  <2>1. CASE Start(s)
    <3>1. session'[s] = [pc |-> "read", at |-> 1, todo |-> {}, left |-> {}]
      BY <1>1, <2>1 DEF Start, TypeOK
    <3>2. [pc |-> "read", at |-> 1, todo |-> {}, left |-> {}] \in Session
      BY NumbersAssumption DEF Session
    <3> QED BY <1>1, <2>1, <3>1, <3>2 DEF Start, TypeOK, Passed, At
  <2>2. CASE ReadRow(s)
    <3> DEFINE row == session[s].at
    <3>1. row \in Pieces /\ row + 1 \in 1 .. N + 1
      BY <1>1, <2>2, NumbersAssumption DEF ReadRow, RowsRead, Session, Pieces
    <3>2. /\ session' \in [Sessions -> Session] /\ session'[s].pc = "read" /\ session'[s].at = row + 1
          /\ session'[s].todo = session[s].todo \union ({row} \ accepted)
      BY <1>1, <2>2, <3>1 DEF ReadRow, TypeOK, Session, At
    <3>3. /\ session[s].todo \subseteq 1 .. row - 1
          /\ (1 .. row - 1) \intersect Pieces \subseteq session[s].todo \union accepted
          /\ accepted' = accepted
      BY <1>1, <2>2 DEF Passed, ReadRow, At
    <3>4. 1 .. (row + 1) - 1 = (1 .. row - 1) \union {row}
      BY <3>1 DEF Pieces
    <3> HIDE DEF row
    <3> QED BY <3>2, <3>3, <3>4 DEF Passed, At
  <2>3. CASE EndOfRows(s)
    <3> DEFINE step == IF session[s].todo = {} THEN "done" ELSE "endpoint"
    <3>1. /\ session' \in [Sessions -> Session] /\ session'[s].pc = step
          /\ session'[s].todo = session[s].todo /\ session'[s].left = session[s].todo
      BY <1>1, <2>3 DEF EndOfRows, TypeOK, Session
    <3>2. Pieces \subseteq session[s].todo \union accepted'
      BY <1>1, <2>3, NumbersAssumption DEF Passed, EndOfRows, RowsRead, Session, Pieces, At
    <3> QED BY <3>1, <3>2 DEF Passed, At
  <2>4. CASE FindEndpoint(s)
    BY <1>1, <2>4, GotoKeeps DEF FindEndpoint, At
  <2>5. CASE Confirm(s)
    BY <1>1, <2>5, GotoKeeps DEF Confirm, At
  <2>6. CASE Query(s)
    <3>1. PICK p \in Pieces :
            /\ p \in session[s].left
            /\ \/ \E d \in Known(Identifier(s, p)) : PieceHandled(s, p)
               \/ Goto(s, "post")
               \/ Goto(s, "failed")
      BY <2>6 DEF Query, First, Raise
    <3>2. ASSUME NEW d \in Known(Identifier(s, p)) PROVE InCurio(p)'
      <4>1. d \in curio /\ d.piece = p
        BY <3>2, CurioKnows DEF SubmitSound
      <4> QED BY <4>1 DEF InCurio, Grown
    <3>3. session[s].pc = "query"
      BY <2>6 DEF Query, At
    <3>4. CASE \E d \in Known(Identifier(s, p)) : PieceHandled(s, p)
      <4>1. InCurio(p)' /\ PieceHandled(s, p)
        BY <3>2, <3>4
      <4> QED BY <1>1, <3>1, <3>3, <4>1, HandledKeeps
    <3>5. CASE Goto(s, "post") \/ Goto(s, "failed")
      BY <1>1, <3>3, <3>5, GotoKeeps
    <3> QED BY <3>1, <3>4, <3>5
  <2>7. CASE Post(s)
    <3>1. PICK p \in Pieces :
            /\ p \in session[s].left
            /\ \/ PieceHandled(s, p) /\ curio' = curio \union {[id |-> Identifier(s, p), piece |-> p, status |-> "submitted"]}
               \/ Goto(s, "failed")
      <4>1. PICK p \in Pieces :
              LET id  == Identifier(s, p)
                  new == [id |-> id, piece |-> p, status |-> "submitted"]
              IN /\ First(p, session[s].left)
                 /\ \/ Known(id) = {} /\ NoFault /\ curio' = curio \union {new} /\ PieceHandled(s, p)
                    \/ Known(id) = {} /\ Fault /\ curio' = curio \union {new} /\ Raise(s, p)
                    \/ Known(id) # {} /\ NoFault /\ UNCHANGED curio /\ Raise(s, p)
                    \/ Fault /\ UNCHANGED curio /\ Raise(s, p)
        BY <2>7 DEF Post
      <4>2. p \in session[s].left
        BY <4>1 DEF First
      <4>3. \/ PieceHandled(s, p) /\ curio' = curio \union {[id |-> Identifier(s, p), piece |-> p, status |-> "submitted"]}
            \/ Goto(s, "failed")
        BY <4>1 DEF Raise
      <4> QED BY <4>2, <4>3
    <3>2. ASSUME curio' = curio \union {[id |-> Identifier(s, p), piece |-> p, status |-> "submitted"]}
          PROVE  InCurio(p)'
      <4> DEFINE new == [id |-> Identifier(s, p), piece |-> p, status |-> "submitted"]
      <4>1. new.piece = p /\ new \in curio'
        BY <3>2
      <4> HIDE DEF new
      <4> QED BY <4>1 DEF InCurio
    <3>3. session[s].pc = "post"
      BY <2>7 DEF Post, At
    <3>4. CASE Goto(s, "failed")
      BY <1>1, <3>4, GotoKeeps
    <3>5. CASE PieceHandled(s, p) /\ InCurio(p)'
      BY <1>1, <3>1, <3>3, <3>5, HandledKeeps
    <3> QED BY <3>1, <3>2, <3>4, <3>5
  <2>8. CASE Die(s)
    BY <1>1, <2>8, GotoKeeps DEF Die
  <2> QED BY <2>1, <2>2, <2>3, <2>4, <2>5, <2>6, <2>7, <2>8 DEF Step
<1>3. ASSUME NEW t \in Sessions, t # s PROVE session'[t] = session[t]
  <2> USE <1>1, <1>3 DEF TypeOK, Goto, Raise, PieceHandled
  <2>1. CASE Start(s)
    BY <2>1 DEF Start
  <2>2. CASE ReadRow(s) \/ EndOfRows(s)
    BY <2>2 DEF ReadRow, EndOfRows
  <2>3. CASE FindEndpoint(s) \/ Confirm(s) \/ Die(s)
    BY <2>3 DEF FindEndpoint, Confirm, Die
  <2>4. CASE Query(s)
    BY <2>4 DEF Query
  <2>5. CASE Post(s)
    BY <2>5 DEF Post
  <2> QED BY <2>1, <2>2, <2>3, <2>4, <2>5 DEF Step
<1>4. \A t \in Sessions : session[t] \in Session /\ Passed(t)
  BY DEF SubmitSound, TypeOK
<1> QED BY <1>2, <1>3, <1>4, OthersKeep

LEMMA SoundStep == SubmitSound /\ [Next]_vars => SubmitSound'
<1> SUFFICES ASSUME SubmitSound, [Next]_vars PROVE SubmitSound'
  OBVIOUS
<1>1. CurioSound' /\ Grown /\ accepted' \subseteq Pieces
  BY CurioStep
<1>2. deal' \in {"ACCEPTED", "ACTIVE", "EARLY_TERMINATED"} /\ faults' \in Nat /\ failures' \in Nat
  <2> USE DEF SubmitSound, TypeOK
  <2>1. faults' \in Nat
    <3>1. \A s \in Sessions : Query(s) => NoFault \/ Fault
      BY DEF Query, Answered
    <3>2. \A s \in Sessions : Post(s) => NoFault \/ Fault
      BY DEF Post
    <3>3. NoFault \/ Fault
      BY <3>1, <3>2 DEF Next, vars, Start, Step, ReadRow, EndOfRows, FindEndpoint, Confirm, Die,
                        Place, FailDdo, PlaceDirectly, LeaveAccepted, NoFault
    <3> QED BY <3>3 DEF Fault, NoFault
  <2>2. failures' \in Nat
    <3>1. CASE \E s \in Sessions : Query(s) \/ Post(s)
      <4>1. \A s \in Sessions : Query(s) => failures' = failures
        BY DEF Query
      <4>2. \A s \in Sessions : Post(s) => failures' = failures
        BY DEF Post
      <4> QED BY <3>1, <4>1, <4>2
    <3>2. CASE \E d \in curio : FailDdo(d)
      BY <3>2 DEF FailDdo
    <3>3. CASE ~(\E s \in Sessions : Query(s) \/ Post(s)) /\ ~(\E d \in curio : FailDdo(d))
      BY <3>3 DEF Next, vars, Start, Step, ReadRow, EndOfRows, FindEndpoint, Confirm, Die,
                  Place, PlaceDirectly, LeaveAccepted
    <3> QED BY <3>1, <3>2, <3>3
  <2>3. deal' \in {"ACCEPTED", "ACTIVE", "EARLY_TERMINATED"}
    BY DEF Next, vars, Start, Step, ReadRow, EndOfRows, FindEndpoint, Confirm, Query, Post, Die,
           Place, FailDdo, PlaceDirectly, LeaveAccepted
  <2> QED BY <2>1, <2>2, <2>3
<1>3. session' \in [Sessions -> Session] /\ \A s \in Sessions : Passed(s)'
  <2>1. CASE \E s \in Sessions : Start(s) \/ Step(s) \/ Die(s)
    BY <1>1, <2>1, SessionStep DEF Next
  <2>2. CASE session' = session
    BY <1>1, <2>2, OthersKeep DEF SubmitSound, TypeOK
  <2>3. session' = session \/ \E s \in Sessions : Start(s) \/ Step(s) \/ Die(s)
    BY DEF Next, vars, Place, FailDdo, PlaceDirectly, LeaveAccepted
  <2> QED BY <2>1, <2>2, <2>3
<1> QED BY <1>1, <1>2, <1>3 DEF SubmitSound, TypeOK, CurioSound, Ddo

(* No piece is given to Curio twice.                                        *)
THEOREM PiecesOnce == Spec => []OneDealPerPiece
<1>1. SubmitSound => OneDealPerPiece
  BY DEF SubmitSound
<1> QED BY <1>1, SoundInit, SoundStep, PTL DEF Spec

(* "Done." is true.                                                         *)
THEOREM DoneIsProved == Spec => []DoneIsTrue
<1>1. SubmitSound => DoneIsTrue
  BY DEF SubmitSound, DoneIsTrue, Passed, At
<1> QED BY <1>1, SoundInit, SoundStep, PTL DEF Spec

(* The types of the variables.                                              *)
THEOREM SubmitTypes == Spec => []TypeOK
<1>1. SubmitSound => TypeOK
  BY DEF SubmitSound
<1> QED BY <1>1, SoundInit, SoundStep, PTL DEF Spec
=============================================================================
