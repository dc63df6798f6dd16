-------------------------------- MODULE PieceSet -------------------------------
(***************************************************************************)
(* The commitment to the pieces of a deal, and the notifications that      *)
(* place them.                                                             *)
(*                                                                         *)
(* The client proposes a deal with the commitment of its manifest; the SP  *)
(* fetches the manifest from its URL, where it may have changed since,     *)
(* checks it against the deal and seals each piece with a notification:    *)
(* index, number of pieces and the siblings on the way to the root of a    *)
(* Merkle tree.  The evidence adapter takes a piece only if the            *)
(* notification leads from it to the commitment of the deal.               *)
(* keccak is a constructor: different arguments give different hashes.     *)
(***************************************************************************)
EXTENDS Integers, SequencesExt, FiniteSets

CONSTANT Manifests    \* sequences of pieces, [digest, size]

PiecesAssumption == Manifests \subseteq Seq([digest : Int, size : Nat])

VARIABLES
  deal,       \* manifest_hash and requested_size_bytes of the deal
  proposed,   \* the manifest they were computed from
  fetched,    \* what the SP goes by: a manifest that passed the checks, or <<>>
  accepted    \* the adapter's placements, <<index, piece>>

vars == <<deal, proposed, fetched, accepted>>

-----------------------------------------------------------------------------
(* PieceSet.__init__                                                        *)

(* Mutated form: rows in the order of their sizes alone.                    *)
BySize(p, q) == p.size < q.size

Before(p, q) == p.digest < q.digest \/ (p.digest = q.digest /\ p.size < q.size)

(* The pieces up to the i-th one, when they are sorted                      *)
UpTo(pieces, i) ==
  {j \in DOMAIN pieces : Before(pieces[j], pieces[i]) \/ (j <= i /\ ~Before(pieces[i], pieces[j]))}

Rows(pieces) ==
  LET place == [i \in DOMAIN pieces |-> Cardinality(UpTo(pieces, i))]
  IN  [k \in DOMAIN pieces |-> pieces[CHOOSE i \in DOMAIN pieces : place[i] = k]]

(* At least one piece, and no two rows alike                                *)
Valid(pieces) ==
  /\ pieces # <<>>
  /\ \A k \in 2 .. Len(pieces) : Rows(pieces)[k - 1] # Rows(pieces)[k]

SizeBytes(rows) == SumFunction([i \in DOMAIN rows |-> rows[i].size])

(* _leaf, _node, _EMPTY_LEAF; indices are those of the code, from 0         *)
Leaf(index, row) == <<"Leaf", index, row.digest, row.size>>
Node(left, right) == <<"Node", left, right>>
EmptyLeaf == <<"Empty">>

(* width *= 2, from 1, until the leaves fit                                 *)
Doubled(n) == LET width[d \in 0 .. n] == IF d = 0 THEN 1 ELSE 2 * width[d - 1] IN width
Depth(n) == CHOOSE d \in 0 .. n : Doubled(n)[d] >= n /\ \A e \in 0 .. d - 1 : Doubled(n)[e] < n

(* _build_tree: Levels(rows)[d][i] is the node i of depth d above the leaves*)
Levels(rows) ==
  LET n == Len(rows)
      width == [d \in 0 .. Depth(n) |-> Doubled(n)[Depth(n) - d]]
      level[d \in 0 .. Depth(n)] ==
        [i \in 0 .. width[d] - 1 |->
           IF d = 0 THEN IF i < n THEN Leaf(i, rows[i + 1]) ELSE EmptyLeaf
           ELSE Node(level[d - 1][2 * i], level[d - 1][2 * i + 1])]
  IN level

Root(rows) == Levels(rows)[Depth(Len(rows))][0]

Hash(count, bytes, root) == <<"Commitment", count, bytes, root>>

Commitment(rows) == Hash(Len(rows), SizeBytes(rows), Root(rows))

(* index >> depth, for every depth up to some, and index ^ 1                *)
Shifted(index, n) == LET shift[k \in 0 .. n] == IF k = 0 THEN index ELSE shift[k - 1] \div 2 IN shift
Sibling(i) == IF i % 2 = 0 THEN i + 1 ELSE i - 1

Proof(rows, index) ==
  LET depth == Depth(Len(rows))
  IN  [k \in 1 .. depth |-> Levels(rows)[k - 1][Sibling(Shifted(index, depth)[k - 1])]]

Notification(rows, index) == [index |-> index, count |-> Len(rows), proof |-> Proof(rows, index)]

-----------------------------------------------------------------------------
(* The evidence adapter, not under src/: the notification's path from the   *)
(* sealed piece, and the commitment it ends in.                             *)

Path(note, piece) ==
  LET depth == Len(note.proof)
      at[k \in 0 .. depth] ==
        IF k = 0 THEN Leaf(note.index, piece)
        ELSE IF Shifted(note.index, depth)[k - 1] % 2 = 0 THEN Node(at[k - 1], note.proof[k])
        ELSE Node(note.proof[k], at[k - 1])
  IN at[depth]

Opens(note, piece) ==
  /\ note.index < note.count
  /\ Hash(note.count, deal.size, Path(note, piece)) = deal.hash

-----------------------------------------------------------------------------

NoDeal == [hash |-> <<>>, size |-> 0]

Init ==
  /\ deal = NoDeal
  /\ proposed = <<>>
  /\ fetched = <<>>
  /\ accepted = {}

(* propose_deal: the commitment of the manifest the client has              *)
Propose(m) ==
  /\ deal = NoDeal
  /\ Valid(m)
  /\ deal' = [hash |-> Commitment(Rows(m)), size |-> SizeBytes(Rows(m))]
  /\ proposed' = m
  /\ UNCHANGED <<fetched, accepted>>

(* The checks of get-piece-notifications, submit-ddo and onboard-data       *)
Passes(m) ==
  Valid(m) /\ Commitment(Rows(m)) = deal.hash /\ SizeBytes(Rows(m)) = deal.size

(* A manifest that does not pass ends the command.                          *)
Fetch(m) ==
  /\ deal # NoDeal
  /\ fetched' = IF Passes(m) THEN m ELSE <<>>
  /\ UNCHANGED <<deal, proposed, accepted>>

(* A sector with some piece of the manifest, notified under some index      *)
Notify(index, piece) ==
  /\ Opens(Notification(Rows(fetched), index), piece)
  /\ accepted' = accepted \union {<<index, piece>>}
  /\ UNCHANGED <<deal, proposed, fetched>>

Next ==
  \/ \E m \in Manifests : Propose(m) \/ Fetch(m)
  \/ \E index \in 0 .. Len(fetched) - 1 : \E piece \in ToSet(fetched) : Notify(index, piece)

Spec == Init /\ [][Next]_vars

-----------------------------------------------------------------------------
(* Properties.                                                              *)

(* A manifest passes if, and only if, it lists the pieces of the deal, each *)
(* once: in whatever order, and no other set of pieces has the commitment.  *)
CheckIsExact ==
  deal # NoDeal =>
    \A m \in Manifests :
      Passes(m) <=> ToSet(m) = ToSet(proposed) /\ Len(m) = Len(proposed) /\ IsInjective(m)

(* The notification the SP computes for a piece is accepted, for every      *)
(* index of a set of any size, and under no index is another piece accepted.*)
NotificationsOpen ==
  \A k \in 1 .. Len(fetched), piece \in ToSet(fetched) :
    Opens(Notification(Rows(fetched), k - 1), piece) <=> piece = Rows(fetched)[k]

(* Once the adapter has a placement for every index, every piece of the     *)
(* client's manifest is placed: as many bytes as were requested.            *)
WholeWhenFull ==
  {a[1] : a \in accepted} = 0 .. Len(proposed) - 1 =>
    /\ {a[2] : a \in accepted} = ToSet(proposed)
    /\ SizeBytes(SetToSeq({a[2] : a \in accepted})) = deal.size

(* All of it: the check is exact, and what it lets through is placed whole. *)
SetIsExact == CheckIsExact /\ NotificationsOpen /\ WholeWhenFull

-----------------------------------------------------------------------------
(* The inductive invariant: the deal is that of the proposed manifest, what *)
(* was fetched passed the check, and under each index the adapter took the  *)
(* piece of that row.                                                       *)

DealOf(m) == [hash |-> Commitment(Rows(m)), size |-> SizeBytes(Rows(m))]

PlacedInRow(a) ==
  /\ a[1] \in 0 .. Len(proposed) - 1
  /\ a = <<a[1], Rows(proposed)[a[1] + 1]>>

PiecesSound ==
  /\ IF proposed = <<>> THEN deal = NoDeal ELSE proposed \in Manifests /\ Valid(proposed) /\ deal = DealOf(proposed)
  /\ fetched # <<>> => deal # NoDeal /\ fetched \in Manifests /\ Passes(fetched)
  /\ \A a \in accepted : PlacedInRow(a)
=============================================================================
