------------------------------ MODULE CidConverter ------------------------------
(***************************************************************************)
(* Piece CIDs: from the commitment and the payload size of a piece to the  *)
(* CID that says both (FRC-0069), which Curio and the evidence adapter go  *)
(* by.                                                                     *)
(*                                                                         *)
(* A piece is a payload, spread so that 127 bytes take 128, in a tree of   *)
(* nodes of 32 bytes whose width is a power of two.  Version 1 of its CID  *)
(* has the root alone; version 2 adds the height of the tree and how many  *)
(* bytes of it are padding.  Bytes are 0 .. 255, a CID is a multibase and  *)
(* digits of five bits.  Where bytes are read, <<>> stands for a           *)
(* ValueError.                                                             *)
(***************************************************************************)
EXTENDS Powers, SequencesExt

CONSTANTS
  Inputs,       \* [cid, size]: a CID as version 1 of a piece, and a payload size
  DigestSize,   \* bytes of a commitment: 32
  ShiftLimit    \* bits of an integer that is read: 64

(* No payload has 2^62 bytes, the files of a deal fit in a sector.          *)
InputsAssumption ==
  /\ DigestSize \in 0 .. 255 /\ ShiftLimit \in 15 .. 64
  /\ Inputs \subseteq [cid : [multibase : STRING, digits : Seq(0 .. 31)], size : Nat]
  /\ \A arguments \in Inputs : arguments.size < Power(2, ShiftLimit - 2)

VARIABLES
  input,  \* arguments of piece_cid_v1_to_v2
  cid     \* and what it returns; None before

vars == <<input, cid>>

(* No CID yet, and a ValueError                                             *)
None == [multibase |-> "none", digits |-> <<>>]
Refused == [multibase |-> "refused", digits |-> <<>>]

-----------------------------------------------------------------------------
(* _encode_uvarint: seven bits a byte, the lowest first, and a bit that says*)
(* that there are more.                                                     *)
Groups(value) == CHOOSE n \in 1 .. value + 1 : value < Power(128, n) /\ (n > 1 => value >= Power(128, n - 1))
Uvarint(value) ==
  [k \in 1 .. Groups(value) |->
     ((value \div Power(128, k - 1)) % 128) + IF k < Groups(value) THEN 128 ELSE 0]

(* _decode_uvarint: value and next offset                                   *)
Joined(data, offset, size) ==
  LET value[k \in 0 .. size] ==
        IF k = 0 THEN 0 ELSE value[k - 1] + (data[offset + k] % 128) * Power(128, k - 1)
  IN value[size]
DecodeUvarint(data, offset) ==
  LET ends == {n \in 1 .. Len(data) - offset : data[offset + n] < 128}
      size == Min(ends)
  IN IF ends = {} \/ 7 * (size - 1) >= ShiftLimit THEN <<>>
     ELSE <<Joined(data, offset, size), offset + size>>

-----------------------------------------------------------------------------
(* base32 of RFC 4648, in lower case and without its padding                *)

(* The number that bits [from, from + n) of groups of some width are       *)
Bits(groups, width, from, n) ==
  LET i == from \div width
      Group(j) == IF j < Len(groups) THEN groups[j + 1] ELSE 0
      three == (Group(i) * Power(2, width) + Group(i + 1)) * Power(2, width) + Group(i + 2)
  IN (three \div Power(2, 3 * width - (from % width) - n)) % Power(2, n)

Encode(data) ==
  [multibase |-> "b", digits |-> [k \in 1 .. (8 * Len(data) + 4) \div 5 |-> Bits(data, 8, 5 * (k - 1), 5)]]

(* b32decode refuses the lengths that end within a byte's first digit, and  *)
(* does not look at the bits that are left over.                            *)
Decode(text) ==
  LET n == Len(text.digits)
  IN IF text.multibase # "b" \/ n % 8 \in {1, 3, 6} THEN <<>>
     ELSE [k \in 1 .. (5 * n) \div 8 |-> Bits(text.digits, 5, 8 * (k - 1), 8)]

-----------------------------------------------------------------------------
(* piece_cid_v1_to_v2                                                       *)

CidVersion == 1
Raw == 85                 \* 0x55
Unsealed == 61697         \* 0xF101
Sha2Trunc254 == 4114      \* 0x1012
PadBinTree == 4113        \* 0x1011

(* Four integers read one after the other, and the offset behind them       *)
Further(read, data) ==
  IF read = <<>> THEN <<>>
  ELSE LET next == DecodeUvarint(data, Last(read))
       IN IF next = <<>> THEN <<>> ELSE Front(read) \o next
Header(data) == Further(Further(Further(Further(<<0>>, data), data), data), data)

(* _extract_piece_commitment_v1                                             *)
Commitment(text) ==
  LET data == Decode(text)
      header == Header(data)
  IN IF \/ header = <<>>
        \/ SubSeq(header, 1, 4) # <<CidVersion, Unsealed, Sha2Trunc254, DigestSize>>
        \/ header[5] + DigestSize # Len(data)
       THEN <<>>
       ELSE SubSeq(data, header[5] + 1, Len(data))

(* The payload with two bits more for every 254: ceil(size * 128 / 127)     *)
Fr32Size(size) == (size * 128 + 126) \div 127

(* Mutated form: as high as it takes to hold one byte more.                 *)
HeightOfNext(size) == BitLength(Fr32Size(size)) - 5

(* _piece_tree_height_and_padding, of a payload of 127 bytes or more        *)
Height(size) == BitLength(Fr32Size(size) - 1) - 5
Capacity(height) == ((32 * Power(2, height)) \div 128) * 127
Padding(size) == Capacity(Height(size)) - size

(* padded_piece_size_for_payload                                            *)
PaddedPieceSize(size) == 32 * Power(2, Height(size))

V2(text, size) ==
  LET commitment == Commitment(text)
      digest == Uvarint(Padding(size)) \o <<Height(size)>> \o commitment
  IN IF commitment = <<>> \/ size < 127 THEN Refused
     ELSE Encode(Uvarint(CidVersion) \o Uvarint(Raw)
                 \o Uvarint(PadBinTree) \o Uvarint(Len(digest)) \o digest)

-----------------------------------------------------------------------------
Init == input \in Inputs /\ cid = None

Convert ==
  /\ cid = None
  /\ cid' = V2(input.cid, input.size)
  /\ UNCHANGED input

Next == Convert

Spec == Init /\ [][Next]_vars

-----------------------------------------------------------------------------
(* Properties.                                                              *)

Done == cid \notin {None, Refused}

(* Inductive: what is returned is the CID of the arguments.                 *)
Built == input \in Inputs /\ cid \in {None, V2(input.cid, input.size)}

(* "Equivalent to go-fil-commcid PieceCidV2FromV1()": who reads the CID as  *)
(* FRC-0069 says, finds in it the commitment of version 1 and the size of   *)
(* the payload, of which no other CID of the tool has both.  And the tree is*)
(* the smallest one that holds the payload, at and on both sides of every   *)
(* boundary: the size that submit_ddo compares with the manifest's, worked  *)
(* out in integers where the Go library counts bits.                        *)
SaysBoth ==
  Done =>
    LET data == Decode(cid)
        header == Header(data)
        padding == DecodeUvarint(data, header[5])
        height == data[padding[2] + 1]
    IN /\ SubSeq(header, 1, 3) = <<CidVersion, Raw, PadBinTree>>
       /\ header[5] + header[4] = Len(data)
       /\ SubSeq(data, padding[2] + 2, Len(data)) = Commitment(input.cid)
       /\ Capacity(height) - padding[1] = input.size
       /\ height >= 2 /\ (height > 2 => Capacity(height - 1) < input.size)
=============================================================================
