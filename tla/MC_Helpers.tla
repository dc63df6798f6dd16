------------------------------- MODULE MC_Helpers -------------------------------
(* The helpers in a small instance.                                         *)
EXTENDS Helpers, TLC

CONSTANTS c1, c2, c3

(* Two V1 deals of a claim each; a plan of three claims of different sizes. *)
MCClaimsOf == 1 :> {c1} @@ 2 :> {c2}
MCAllocations == {c1, c2, c3}
MCSizeOf == c1 :> 1 @@ c2 :> 2 @@ c3 :> 3

(* Manifests of up to three of four pieces in every order, with repetitions,*)
(* and longer ones, in a few orders, for trees of depth three.  Two digests *)
(* of equal size, and two pieces that differ in the size alone.             *)
Piece(d, s) == [digest |-> d, size |-> s]
SomePieces == {Piece(1, 1), Piece(2, 1), Piece(2, 2), Piece(3, 2)}
Long == << Piece(1, 1), Piece(2, 1), Piece(2, 2), Piece(3, 2), Piece(4, 1) >>
Back(s) == [k \in 1 .. Len(s) |-> s[Len(s) + 1 - k]]

MCManifests ==
  UNION {[1 .. n -> SomePieces] : n \in 1 .. 3}
  \union {SubSeq(Long, 1, 4), Back(SubSeq(Long, 1, 4)), Long, Back(Long)}

(* Payloads at and beside the capacities of trees up to eight megabytes,    *)
(* and between them, so that paddings need one to three bytes; CIDs that    *)
(* are whole, torn, too long, of another kind, or written at length.        *)
Payloads ==
  {127 * 2 ^ k + j : k \in 0 .. 16, j \in {-1, 0, 1}}
  \union {127 * k + j : k \in {3, 5}, j \in {-1, 0, 1}} \union {380, 1000, 0}

Cid == INSTANCE CidConverter WITH input <- cidInput, Inputs <- {}

V1(version, codec, hash, size, tail) ==
  Cid!Encode(version \o Cid!Uvarint(codec) \o Cid!Uvarint(hash) \o Cid!Uvarint(size) \o tail)
Whole == V1(<<1>>, Cid!Unsealed, Cid!Sha2Trunc254, 2, <<200, 7>>)

MCInputs ==
  [size : Payloads,
   cid : {Whole, [Whole EXCEPT !.multibase = "z"],
          [Whole EXCEPT !.digits = SubSeq(@, 1, Len(@) - 1)],
          [Whole EXCEPT !.digits = Append(@, 0)],
          V1(<<1>>, Cid!Unsealed, Cid!Sha2Trunc254, 2, <<0, 255>>),
          V1(<<129, 0>>, Cid!Unsealed, Cid!Sha2Trunc254, 2, <<200, 7>>),
          V1(<<129, 128, 128, 128, 0>>, Cid!Unsealed, Cid!Sha2Trunc254, 2, <<200, 7>>),
          V1(<<1>>, Cid!Raw, Cid!Sha2Trunc254, 2, <<200, 7>>),
          V1(<<1>>, Cid!Unsealed, Cid!PadBinTree, 2, <<200, 7>>),
          V1(<<1>>, Cid!Unsealed, Cid!Sha2Trunc254, 3, <<200, 7, 1>>),
          V1(<<1>>, Cid!Unsealed, Cid!Sha2Trunc254, 2, <<200>>),
          V1(<<1>>, Cid!Unsealed, Cid!Sha2Trunc254, 2, <<200, 7, 0>>),
          Cid!Encode(<<1, 129>>)}]

(* Amounts with up to four decimals, around the powers of two and ten.      *)
MCTyped ==
  [n : (0 .. 40) \union {99, 101, 110, 127, 128, 129, 290, 333, 511, 512, 513, 999, 1001, 1023, 1025, 1999},
   d : 0 .. 4]
=============================================================================
