--------------------------------- MODULE Amounts --------------------------------
(***************************************************************************)
(* Amounts of tokens: typed as decimal numbers, sent in whole "wei", shown *)
(* as decimal numbers again.                                               *)
(*                                                                         *)
(* click gives a typed amount as the nearest double, Python multiplies and *)
(* divides doubles rounding to the nearest, ties to even.  A double is     *)
(* [m, e], the number m * 2^e with m of Bits bits; its exponent has no     *)
(* bounds here.                                                            *)
(***************************************************************************)
EXTENDS Powers

CONSTANTS
  Bits,        \* of the mantissa: 53
  Typed,       \* [n, d]: the amount n / 10^d as it is typed
  Decimals,    \* of the tokens: 6 for USDC, 18 for FIL
  SectorSizes, \* values of get_sector_size_bytes
  TiB          \* bytes

AmountsAssumption ==
  /\ Bits \in Nat \ {0} /\ TiB \in Nat \ {0}
  /\ Typed \subseteq [n : Nat, d : Nat] /\ Decimals \subseteq Nat /\ SectorSizes \subseteq Nat

VARIABLES
  input,  \* [op, typed, decimals, size]
  result  \* what the conversion returns, None before

vars == <<input, result>>

None == -2
Refused == -1  \* a ValueError

-----------------------------------------------------------------------------
(* The integer nearest to a / b, and the even one of two                    *)
Nearest(a, b) ==
  LET q == a \div b
      r == a % b
  IN IF 2 * r > b \/ (2 * r = b /\ q % 2 = 1) THEN q + 1 ELSE q

Up(k) == IF k > 0 THEN Power(2, k) ELSE 1

(* The double nearest to a / b                                              *)
Double(a, b) ==
  LET e0 == BitLength(a) - BitLength(b) - Bits
      Scaled(e) == <<a * Up(-e), b * Up(e)>>
      Fits(e) == Scaled(e)[1] \div Scaled(e)[2] < Power(2, Bits)
      e == IF Fits(e0) THEN e0 ELSE e0 + 1
  IN IF a = 0 THEN [m |-> 0, e |-> 0]
     ELSE [m |-> Nearest(Scaled(e)[1], Scaled(e)[2]), e |-> e]

(* The product with an integer that is itself a double                      *)
Times(x, k) ==
  LET product == Double(x.m * k, 1) IN [m |-> product.m, e |-> product.e + x.e]

Whole(x) == x.m % Up(-x.e) = 0
Truncated(x) == (x.m * Up(x.e)) \div Up(-x.e)

-----------------------------------------------------------------------------
(* to_wei                                                                   *)

(* Mutated form: the fraction is cut off.                                   *)
CutOff(typed, decimals) == Truncated(Times(Double(typed.n, Power(10, typed.d)), Power(10, decimals)))

ToWei(typed, decimals) ==
  LET amount == Times(Double(typed.n, Power(10, typed.d)), Power(10, decimals))
  IN IF Whole(amount) THEN Truncated(amount) ELSE Refused

(* str_from_wei: the digits it shows, as an integer.                        *)

Shown(wei, decimals) ==
  LET x == Double(wei, Power(10, decimals))
  IN Nearest(x.m * Up(x.e) * Power(10, decimals), Up(-x.e))

(* price_per_TiB_tokens_to_per_sector_wei                                   *)

SectorPrice(typed, decimals, size) ==
  LET price == ToWei(typed, decimals)
      sectors == TiB \div size
  IN IF size <= 0 THEN Refused
     ELSE IF TiB % size # 0 \/ price = Refused \/ price % sectors # 0 THEN Refused
     ELSE price \div sectors

-----------------------------------------------------------------------------
Init ==
  /\ input \in [op : {"to_wei", "price", "show"}, typed : Typed, decimals : Decimals, size : SectorSizes]
  /\ result = None

(* An amount that is sent: a deposit, a withdrawal, the minimum price       *)
Send ==
  /\ input.op = "to_wei"
  /\ result' = ToWei(input.typed, input.decimals)

(* The price of an offer, or the highest one of a proposal                  *)
Price ==
  /\ input.op = "price"
  /\ result' = SectorPrice(input.typed, input.decimals, input.size)

(* An amount of the chain in a question or in a list                        *)
Show ==
  /\ input.op = "show" /\ input.typed.d = 0
  /\ result' = Shown(input.typed.n, input.decimals)

Next == result = None /\ UNCHANGED input /\ (Send \/ Price \/ Show)

Spec == Init /\ [][Next]_vars

-----------------------------------------------------------------------------
(* Properties.                                                              *)

(* A whole number of wei was typed, or is shown, and not refused.           *)
Done ==
  /\ result \notin {None, Refused}
  /\ input.op # "show" => (input.typed.n * Power(10, input.decimals)) % Power(10, input.typed.d) = 0

(* The number of wei that was typed                                         *)
Exact(wei) == wei * Power(10, input.typed.d) = input.typed.n * Power(10, input.decimals)

(* The amount, in wei, is below half of what a mantissa holds.              *)
Small ==
  IF input.op = "show" THEN input.typed.n < Power(2, Bits - 1)
  ELSE input.typed.n * Power(10, input.decimals) < Power(2, Bits - 1) * Power(10, input.typed.d)

(* Below 2^52 wei, which are 4.5 billion USDC, a sum that is sent is the    *)
(* one that was typed or none: two roundings, of the typed amount and of    *)
(* the product, never pass the check "Precision lost" with another sum.  So *)
(* is the price of a sector: as many of them as a TiB has sectors cost what *)
(* was typed for the TiB.  And the sum that is shown to be confirmed is the *)
(* one on the chain to the last digit, although it went through a double.   *)
SmallAmountsExact ==
  Done /\ Small =>
    CASE input.op = "to_wei" -> Exact(result)
      [] input.op = "price" -> Exact(result * (TiB \div input.size))
      [] input.op = "show" -> result = input.typed.n

(* Inductive: the arguments do not change, the result is the conversion's.  *)
Converted ==
  /\ input \in [op : {"to_wei", "price", "show"}, typed : Typed, decimals : Decimals, size : SectorSizes]
  /\ \/ result = None
     \/ input.op = "to_wei" /\ result = ToWei(input.typed, input.decimals)
     \/ input.op = "price" /\ result = SectorPrice(input.typed, input.decimals, input.size)
     \/ input.op = "show" /\ result = Shown(input.typed.n, input.decimals)

(* "converts 1.1 ETH -> 1100000000000000000 wei" (utils.py): the result is  *)
(* the amount that was typed, whatever the decimals of the token.  A sum    *)
(* above 2^53 wei is a whole number once rounded, and passes the check.     *)
ToWeiConverts == Done /\ input.op = "to_wei" => Exact(result)
=============================================================================
