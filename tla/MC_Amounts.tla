------------------------------- MODULE MC_Amounts -------------------------------
(* The question a comment of to_wei answers for 1.1 ETH, asked of mantissas *)
(* of 11 bits and tokens of up to 4 decimals: as with 18 decimals and 53    *)
(* bits, an amount like 1.1 has more wei than a mantissa can tell apart.    *)
EXTENDS Amounts

(* 0.1, 0.2, ... 4.0                                                       *)
MCTyped == [n : 1 .. 40, d : {1}]
=============================================================================
