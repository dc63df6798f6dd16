---------------------------- MODULE ClientDeals_proofs ----------------------------
(***************************************************************************)
(* What the commands of the client promise of their deals and deposits,    *)
(* for any number of deals, manifests, prices and disturbances.            *)
(***************************************************************************)
EXTENDS ClientDeals, FiniteSetTheorems, NaturalsInduction, WellFoundedInduction, TLAPS

(* Sums.  What a sum over a finite set is comes from the definition of the  *)
(* community modules, which is recursive: by induction over numbers and     *)
(* over the subsets of a set, as there is a first number and a smallest set *)
(* for which a statement fails.                                             *)

LEMMA LeastIsThere ==
  ASSUME NEW ids, ids \subseteq Nat, ids # {}
  PROVE  \E i \in ids : \A j \in ids : i <= j
<1>1. PICK i \in ids : \A j \in ids : <<j, i>> \notin OpToRel(<, Nat)
  BY NatLessThanWellFounded, WFMin
<1>2. \A j \in ids : ~ (j < i)
  BY <1>1 DEF OpToRel
<1> QED BY <1>2

(* Induction over numbers, and over the subsets of a finite set, for a set  *)
(* of those that are good.                                                  *)
LEMMA AllNumbers ==
  ASSUME NEW good \in SUBSET Nat, 0 \in good, \A n \in good : n + 1 \in good
  PROVE  good = Nat
<1> SUFFICES ASSUME Nat \ good # {} PROVE FALSE
  OBVIOUS
<1>1. PICK n \in Nat \ good : \A m \in Nat \ good : n <= m
  BY LeastIsThere
<1>2. n - 1 \in Nat /\ ~(n <= n - 1)
  BY <1>1
<1>3. n - 1 \in good
  BY <1>1, <1>2
<1>4. (n - 1) + 1 = n
  OBVIOUS
<1> QED BY <1>1, <1>3, <1>4

LEMMA AllSubsets ==
  ASSUME NEW S, IsFiniteSet(S), NEW good \in SUBSET SUBSET S, {} \in good,
         \A s \in SUBSET S : s # {} /\ (\A x \in s : s \ {x} \in good) => s \in good
  PROVE  good = SUBSET S
<1> SUFFICES ASSUME (SUBSET S) \ good # {} PROVE FALSE
  OBVIOUS
<1> DEFINE sizes == {Cardinality(s) : s \in (SUBSET S) \ good}
<1>1. \A s \in SUBSET S : IsFiniteSet(s) /\ Cardinality(s) \in Nat
  BY FS_Subset, FS_CardinalityType
<1>2. sizes \subseteq Nat /\ sizes # {}
  BY <1>1
<1>3. PICK n \in sizes : \A m \in sizes : n <= m
  BY <1>2, LeastIsThere
<1>4. PICK s \in (SUBSET S) \ good : n = Cardinality(s)
  BY <1>3
<1>5. ASSUME NEW x \in s PROVE s \ {x} \in good
  <2>1. Cardinality(s \ {x}) = n - 1 /\ n \in Nat
    BY <1>1, <1>4, FS_RemoveElement
  <2>2. n - 1 \notin sizes
    BY <1>3, <2>1
  <2> QED BY <1>4, <2>1, <2>2
<1> QED BY <1>4, <1>5

-----------------------------------------------------------------------------
(* Sums of what a function gives the elements of a finite set.              *)

Chosen(s) == CHOOSE x \in s : TRUE
SumStep(f, g, s) == IF s = {} THEN 0 ELSE f[Chosen(s)] + g[s \ {Chosen(s)}]
Summing(f, g, S) == g = [s \in SUBSET S |-> SumStep(f, g, s)]

LEMMA ChosenIsThere == ASSUME NEW s, s # {} PROVE Chosen(s) \in s
BY DEF Chosen

LEMMA SummingExists ==
  ASSUME NEW S, IsFiniteSet(S), NEW f
  PROVE  \E g : Summing(f, g, S)
<1> DEFINE Small(n) == {s \in SUBSET S : Cardinality(s) <= n}
           good == {n \in Nat : \E g : g = [s \in Small(n) |-> SumStep(f, g, s)]}
<1>1. \A s \in SUBSET S : IsFiniteSet(s) /\ Cardinality(s) \in Nat
  BY FS_Subset, FS_CardinalityType
<1>2. 0 \in good
  <2>1. \A s \in Small(0) : s = {}
    BY <1>1, FS_EmptySet
  <2> DEFINE g == [s \in Small(0) |-> 0]
  <2>2. g = [s \in Small(0) |-> SumStep(f, g, s)]
    BY <2>1 DEF SumStep
  <2> QED BY <2>2
<1>3. ASSUME NEW n \in good PROVE n + 1 \in good
  <2>1. PICK g : g = [s \in Small(n) |-> SumStep(f, g, s)]
    OBVIOUS
  <2> DEFINE h == [s \in Small(n + 1) |-> SumStep(f, g, s)]
  <2>2. ASSUME NEW s \in Small(n + 1) PROVE SumStep(f, g, s) = SumStep(f, h, s)
    <3>1. CASE s = {}
      BY <3>1 DEF SumStep
    <3>2. CASE s # {}
      <4> DEFINE t == s \ {Chosen(s)}
      <4>1. Chosen(s) \in s
        BY <3>2, ChosenIsThere
      <4>2. Cardinality(t) = Cardinality(s) - 1 /\ t \in SUBSET S
        BY <1>1, <4>1, FS_RemoveElement
      <4>3. t \in Small(n) /\ t \in Small(n + 1)
        BY <1>1, <4>2
      <4> HIDE DEF t
      <4>4. g[t] = SumStep(f, g, t) /\ h[t] = SumStep(f, g, t)
        BY <2>1, <4>3
      <4> QED BY <3>2, <4>4 DEF SumStep, t
    <3> QED BY <3>1, <3>2
  <2>3. h = [s \in Small(n + 1) |-> SumStep(f, h, s)]
    BY <2>2
  <2> HIDE DEF h, Small
  <2>4. \E k : k = [s \in Small(n + 1) |-> SumStep(f, k, s)]
    BY <2>3, Zenon
  <2>5. n + 1 \in Nat
    OBVIOUS
  <2> QED BY <2>4, <2>5, Zenon
<1>4. good = Nat
  <2> HIDE DEF good
  <2> QED BY <1>2, <1>3, AllNumbers DEF good
<1>5. Cardinality(S) \in good
  BY <1>1, <1>4
<1>6. Small(Cardinality(S)) = SUBSET S
  BY <1>1, FS_Subset
<1>7. PICK g : g = [s \in Small(Cardinality(S)) |-> SumStep(f, g, s)]
  BY <1>5
<1> QED BY <1>6, <1>7 DEF Summing

SumOver(f, S) == CHOOSE g : Summing(f, g, S)

LEMMA SumIsSumOver == ASSUME NEW f, NEW S PROVE SumFunctionOnSet(f, S) = SumOver(f, S)[S]
BY DEF SumFunctionOnSet, FoldFunctionOnSet, MapThenFoldSet, SumOver, Summing, SumStep, Chosen

(* All sums over subsets of D: they come from one function, and it does not *)
(* matter which element is taken first.                                     *)
LEMMA SumRecurs ==
  ASSUME NEW S, IsFiniteSet(S), NEW f, NEW s \in SUBSET S
  PROVE  SumOver(f, S)[s] = IF s = {} THEN 0 ELSE f[Chosen(s)] + SumOver(f, S)[s \ {Chosen(s)}]
<1>1. Summing(f, SumOver(f, S), S)
  BY SummingExists, Zenon DEF SumOver
<1> QED BY <1>1 DEF Summing, SumStep

LEMMA SumOfSubset ==
  ASSUME NEW D, IsFiniteSet(D), NEW f \in [D -> Nat], NEW S \in SUBSET D
  PROVE  SumFunctionOnSet(f, S) = SumOver(f, D)[S]
<1> DEFINE good == {s \in SUBSET S : SumOver(f, S)[s] = SumOver(f, D)[s]}
<1>0. IsFiniteSet(S)
  BY FS_Subset
<1>1. {} \in good
  <2>1. {} \in SUBSET S /\ {} \in SUBSET D
    OBVIOUS
  <2>2. SumOver(f, S)[{}] = 0
    BY <1>0, <2>1, SumRecurs
  <2>3. SumOver(f, D)[{}] = 0
    BY <2>1, SumRecurs
  <2> QED BY <2>1, <2>2, <2>3
<1>2. ASSUME NEW s \in SUBSET S, s # {}, \A x \in s : s \ {x} \in good PROVE s \in good
  <2>1. Chosen(s) \in s
    BY <1>2, ChosenIsThere
  <2>2. SumOver(f, S)[s] = f[Chosen(s)] + SumOver(f, S)[s \ {Chosen(s)}]
    BY <1>0, <1>2, SumRecurs
  <2>3. SumOver(f, D)[s] = f[Chosen(s)] + SumOver(f, D)[s \ {Chosen(s)}]
    <3>1. s \in SUBSET D /\ s # {}
      BY <1>2
    <3> HIDE DEF good
    <3> QED BY <3>1, SumRecurs
  <2>4. SumOver(f, S)[s \ {Chosen(s)}] = SumOver(f, D)[s \ {Chosen(s)}]
    BY <1>2, <2>1
  <2> QED BY <2>2, <2>3, <2>4
<1>3. good = SUBSET S
  <2>1. good \in SUBSET SUBSET S
    OBVIOUS
  <2> HIDE DEF good
  <2> QED BY <2>1, <1>0, <1>1, <1>2, AllSubsets
<1>4. S \in good
  BY <1>3
<1> QED BY <1>4, SumIsSumOver

(* The sum, one element after the other: the one that is chosen, and any.   *)
LEMMA SumOneByOne ==
  ASSUME NEW D, IsFiniteSet(D), NEW f \in [D -> Nat], NEW S \in SUBSET D
  PROVE  SumFunctionOnSet(f, S) = IF S = {} THEN 0 ELSE f[Chosen(S)] + SumFunctionOnSet(f, S \ {Chosen(S)})
<1>1. SumFunctionOnSet(f, S) = SumOver(f, D)[S]
  BY SumOfSubset
<1>2. SumFunctionOnSet(f, S \ {Chosen(S)}) = SumOver(f, D)[S \ {Chosen(S)}]
  BY SumOfSubset
<1>3. SumOver(f, D)[S] = IF S = {} THEN 0 ELSE f[Chosen(S)] + SumOver(f, D)[S \ {Chosen(S)}]
  BY SumRecurs
<1> QED BY <1>1, <1>2, <1>3

LEMMA SumIsNat ==
  ASSUME NEW D, IsFiniteSet(D), NEW f \in [D -> Nat], NEW S \in SUBSET D
  PROVE  SumFunctionOnSet(f, S) \in Nat
<1> DEFINE good == {s \in SUBSET D : SumFunctionOnSet(f, s) \in Nat}
<1>1. {} \in good
  <2>1. {} \in SUBSET D
    OBVIOUS
  <2>2. SumFunctionOnSet(f, {}) = 0
    BY <2>1, SumOneByOne
  <2> QED BY <2>1, <2>2
<1>2. ASSUME NEW s \in SUBSET D, s # {}, \A x \in s : s \ {x} \in good PROVE s \in good
  <2>1. Chosen(s) \in s
    BY <1>2, ChosenIsThere
  <2>2. SumFunctionOnSet(f, s) = f[Chosen(s)] + SumFunctionOnSet(f, s \ {Chosen(s)})
    BY <1>2, SumOneByOne
  <2> QED BY <1>2, <2>1, <2>2
<1>3. good = SUBSET D
  <2>1. good \in SUBSET SUBSET D
    OBVIOUS
  <2> HIDE DEF good
  <2> QED BY <2>1, <1>1, <1>2, AllSubsets
<1> QED BY <1>3

LEMMA SumWithout ==
  ASSUME NEW D, IsFiniteSet(D), NEW f \in [D -> Nat], NEW S \in SUBSET D, NEW c \in S
  PROVE  SumFunctionOnSet(f, S) = f[c] + SumFunctionOnSet(f, S \ {c})
<1> DEFINE good == {s \in SUBSET D : \A x \in s : SumFunctionOnSet(f, s) = f[x] + SumFunctionOnSet(f, s \ {x})}
<1>1. {} \in good
  OBVIOUS
<1>2. ASSUME NEW s \in SUBSET D, s # {}, \A x \in s : s \ {x} \in good PROVE s \in good
  <2> DEFINE y == Chosen(s)
  <2>1. y \in s
    BY <1>2, ChosenIsThere
  <2>2. SumFunctionOnSet(f, s) = f[y] + SumFunctionOnSet(f, s \ {y})
    BY <1>2, SumOneByOne
  <2> HIDE DEF y
  <2>3. ASSUME NEW x \in s, x # y PROVE SumFunctionOnSet(f, s) = f[x] + SumFunctionOnSet(f, s \ {x})
    <3> DEFINE t == (s \ {x}) \ {y}
    <3>1. (s \ {y}) \ {x} = t /\ t \in SUBSET D
      OBVIOUS
    <3> HIDE DEF t
    <3>2. SumFunctionOnSet(f, s \ {y}) = f[x] + SumFunctionOnSet(f, t)
      BY <1>2, <2>1, <2>3, <3>1
    <3>3. SumFunctionOnSet(f, s \ {x}) = f[y] + SumFunctionOnSet(f, t)
      BY <1>2, <2>1, <2>3 DEF t
    <3>4. SumFunctionOnSet(f, t) \in Nat
      BY <3>1, SumIsNat
    <3>5. f[x] \in Nat /\ f[y] \in Nat
      BY <2>1
    <3> QED BY <2>2, <3>2, <3>3, <3>4, <3>5
  <2> QED BY <2>2, <2>3
<1>3. good = SUBSET D
  <2>1. good \in SUBSET SUBSET D
    OBVIOUS
  <2> HIDE DEF good
  <2> QED BY <2>1, <1>1, <1>2, AllSubsets
<1> QED BY <1>3

LEMMA SumGrows ==
  ASSUME NEW D, IsFiniteSet(D), NEW f \in [D -> Nat], NEW S \in SUBSET D, NEW T \in SUBSET S
  PROVE  SumFunctionOnSet(f, T) <= SumFunctionOnSet(f, S)
<1> DEFINE good == {s \in SUBSET D : \A t \in SUBSET s : SumFunctionOnSet(f, t) <= SumFunctionOnSet(f, s)}
<1>0. \A s \in SUBSET D : SumFunctionOnSet(f, s) \in Nat
  BY SumIsNat
<1>1. {} \in good
  BY <1>0
<1>2. ASSUME NEW s \in SUBSET D, s # {}, \A x \in s : s \ {x} \in good PROVE s \in good
  <2>1. ASSUME NEW t \in SUBSET s, t # s PROVE SumFunctionOnSet(f, t) <= SumFunctionOnSet(f, s)
    <3>1. PICK x \in s : x \notin t
      BY <2>1
    <3>2. SumFunctionOnSet(f, s) = f[x] + SumFunctionOnSet(f, s \ {x})
      BY SumWithout
    <3>3. SumFunctionOnSet(f, t) <= SumFunctionOnSet(f, s \ {x})
      BY <1>2, <3>1
    <3>4. f[x] \in Nat /\ SumFunctionOnSet(f, t) \in Nat /\ SumFunctionOnSet(f, s \ {x}) \in Nat
      BY <1>0
    <3> QED BY <3>2, <3>3, <3>4
  <2> QED BY <1>0, <2>1
<1>3. good = SUBSET D
  <2>1. good \in SUBSET SUBSET D
    OBVIOUS
  <2>2. \A s \in SUBSET D : s # {} /\ (\A x \in s : s \ {x} \in good) => s \in good
    BY <1>2
  <2> HIDE DEF good
  <2> QED BY <2>1, <2>2, <1>1, AllSubsets
<1> QED BY <1>3

(* One sum is at most another if each of its amounts is, and so is the sum  *)
(* of a part.                                                               *)
LEMMA SumAtMost ==
  ASSUME NEW D, IsFiniteSet(D), NEW E, IsFiniteSet(E), NEW f \in [D -> Nat], NEW g \in [E -> Nat],
         NEW S \in SUBSET D, S \subseteq E, \A x \in S : f[x] <= g[x]
  PROVE  SumFunctionOnSet(f, S) <= SumFunctionOnSet(g, S)
<1> DEFINE good == {s \in SUBSET S : SumFunctionOnSet(f, s) <= SumFunctionOnSet(g, s)}
<1>0. IsFiniteSet(S)
  BY FS_Subset
<1>1. \A s \in SUBSET S : SumFunctionOnSet(f, s) \in Nat /\ SumFunctionOnSet(g, s) \in Nat
  BY SumIsNat
<1>2. {} \in good
  <2>1. {} \in SUBSET D /\ {} \in SUBSET E
    OBVIOUS
  <2>2. SumFunctionOnSet(f, {}) = 0 /\ SumFunctionOnSet(g, {}) = 0
    BY <2>1, SumOneByOne
  <2> QED BY <2>2
<1>3. ASSUME NEW s \in SUBSET S, s # {}, \A x \in s : s \ {x} \in good PROVE s \in good
  <2> DEFINE x == Chosen(s)
  <2>1. x \in s
    BY <1>3, ChosenIsThere
  <2>2. s \in SUBSET D /\ s \in SUBSET E
    BY <1>3
  <2>3. SumFunctionOnSet(f, s) = f[x] + SumFunctionOnSet(f, s \ {x})
    BY <1>3, <2>2, SumOneByOne
  <2>4. SumFunctionOnSet(g, s) = g[x] + SumFunctionOnSet(g, s \ {x})
    BY <1>3, <2>2, SumOneByOne
  <2> HIDE DEF x
  <2>5. SumFunctionOnSet(f, s \ {x}) <= SumFunctionOnSet(g, s \ {x})
    BY <1>3, <2>1
  <2>6. /\ SumFunctionOnSet(f, s \ {x}) \in Nat /\ SumFunctionOnSet(g, s \ {x}) \in Nat
        /\ f[x] \in Nat /\ g[x] \in Nat /\ f[x] <= g[x]
    BY <1>1, <2>1
  <2> QED BY <2>3, <2>4, <2>5, <2>6
<1>4. good = SUBSET S
  <2>1. good \in SUBSET SUBSET S
    OBVIOUS
  <2>2. \A s \in SUBSET S : s # {} /\ (\A x \in s : s \ {x} \in good) => s \in good
    BY <1>3
  <2> HIDE DEF good
  <2> QED BY <2>1, <2>2, <1>0, <1>2, AllSubsets
<1> QED BY <1>4

LEMMA SumOfPart ==
  ASSUME NEW T, IsFiniteSet(T), NEW S \in SUBSET T, NEW f \in [S -> Nat], NEW g \in [T -> Nat],
         \A x \in S : f[x] <= g[x]
  PROVE  SumFunction(f) \in Nat /\ SumFunction(g) \in Nat /\ SumFunction(f) <= SumFunction(g)
<1>0. IsFiniteSet(S)
  BY FS_Subset
<1>1. SumFunction(f) = SumFunctionOnSet(f, S) /\ SumFunction(g) = SumFunctionOnSet(g, T)
  BY DEF SumFunction
<1>2. SumFunctionOnSet(f, S) \in Nat /\ SumFunctionOnSet(g, S) \in Nat /\ SumFunctionOnSet(g, T) \in Nat
  BY <1>0, SumIsNat
<1>3. SumFunctionOnSet(f, S) <= SumFunctionOnSet(g, S)
  BY <1>0, SumAtMost
<1>4. SumFunctionOnSet(g, S) <= SumFunctionOnSet(g, T)
  BY SumGrows
<1> QED BY <1>1, <1>2, <1>3, <1>4

(* One more amount: the sum has grown by it, at least.                      *)
LEMMA SumWithOneMore ==
  ASSUME NEW T, IsFiniteSet(T), NEW c \in T, NEW S, S = T \ {c}, NEW f \in [S -> Nat], NEW g \in [T -> Nat],
         \A x \in S : f[x] <= g[x]
  PROVE  SumFunction(f) \in Nat /\ SumFunction(g) \in Nat /\ SumFunction(f) + g[c] <= SumFunction(g)
<1>0. IsFiniteSet(S) /\ S \in SUBSET T
  BY FS_Subset
<1>1. SumFunction(f) = SumFunctionOnSet(f, S) /\ SumFunction(g) = SumFunctionOnSet(g, T)
  BY DEF SumFunction
<1>2. SumFunctionOnSet(g, T) = g[c] + SumFunctionOnSet(g, S)
  BY SumWithout
<1>3. SumFunctionOnSet(f, S) <= SumFunctionOnSet(g, S)
  BY <1>0, SumAtMost
<1>4. SumFunctionOnSet(f, S) \in Nat /\ SumFunctionOnSet(g, S) \in Nat /\ g[c] \in Nat
  BY <1>0, SumIsNat
<1> QED BY <1>1, <1>2, <1>3, <1>4

-----------------------------------------------------------------------------
(* Amounts.                                                                 *)

LEMMA CeilBounds ==
  ASSUME NEW a \in Nat, NEW b \in Nat \ {0}
  PROVE  /\ Ceil(a, b) \in Nat
         /\ b * Ceil(a, b) >= a
         /\ \A k \in Nat : a <= b * k => Ceil(a, b) <= k
<1> DEFINE n == a + b - 1
           q == n \div b
<1>1. n \in Nat
  OBVIOUS
<1>2. q \in Int /\ b * q <= n /\ n < b * q + b
  BY <1>1
<1>3. q >= 0
  BY <1>1, <1>2
<1>4. ASSUME NEW k \in Nat, a <= b * k PROVE q <= k
  BY <1>1, <1>2, <1>4
<1> QED BY <1>2, <1>3, <1>4 DEF Ceil

(* What a deposit is, and what it is at most at a higher price, for longer. *)
LEMMA AmountIsNat ==
  ASSUME DealsAssumption, NEW size \in Nat, NEW p \in Nat, NEW m \in Nat
  PROVE  DepositAmount(size, p, m) \in Nat
<1>1. size * p * m \in Nat /\ Sector \in Nat \ {0}
  BY DEF DealsAssumption
<1> QED BY <1>1, CeilBounds DEF DepositAmount

LEMMA ProductAtMost ==
  ASSUME NEW a \in Nat, NEW b \in Nat, NEW k \in Nat, a <= b
  PROVE  a * k <= b * k
OBVIOUS

LEMMA DepositAtMost ==
  ASSUME DealsAssumption, NEW size \in Nat, NEW p \in Nat, NEW q \in Nat, p <= q,
         NEW m \in Nat, NEW n \in Nat, m <= n
  PROVE  DepositAmount(size, p, m) <= n * DepositAmount(size, q, 1)
<1> DEFINE a == size * p * m
           b == size * q * 1
           c == Ceil(b, Sector)
<1>1. a \in Nat /\ b \in Nat /\ Sector \in Nat \ {0}
  BY DEF DealsAssumption
<1>2. a <= b * n
  <2>1. size * p \in Nat /\ size * q \in Nat /\ b = size * q
    OBVIOUS
  <2>2. size * p <= size * q
    <3>1. p * size <= q * size
      BY ProductAtMost
    <3> QED BY <3>1
  <2>3. (size * p) * m <= (size * q) * m
    BY <2>1, <2>2, ProductAtMost
  <2>4. m * (size * q) <= n * (size * q)
    BY <2>1, ProductAtMost
  <2> DEFINE x == size * p
             y == size * q
  <2>5. x * m <= y * m /\ m * y <= n * y /\ x \in Nat /\ y \in Nat
    BY <2>1, <2>3, <2>4
  <2>6. a = x * m /\ b = y
    BY <2>1
  <2> HIDE DEF x, y, a, b
  <2>7. y * m = m * y /\ y * n = n * y
    BY <2>5
  <2>8. x * m \in Nat /\ m * y \in Nat /\ n * y \in Nat
    BY <2>5
  <2> QED BY <2>5, <2>6, <2>7, <2>8
<1> HIDE DEF a, b
<1>3. c \in Nat /\ b <= Sector * c
  BY <1>1, CeilBounds
<1>4. \A k \in Nat : a <= Sector * k => Ceil(a, Sector) <= k
  BY <1>1, CeilBounds
<1> HIDE DEF c
<1>5. a <= Sector * (n * c)
  <2>1. Sector * c \in Nat
    BY <1>1, <1>3
  <2>2. b * n <= (Sector * c) * n
    BY <1>1, <1>3, <2>1, ProductAtMost
  <2>3. (Sector * c) * n = Sector * (n * c)
    BY <1>1, <1>3
  <2>4. b * n \in Nat /\ Sector * (n * c) \in Nat
    BY <1>1, <1>3
  <2> QED BY <1>1, <1>2, <2>2, <2>3, <2>4
<1>6. Ceil(a, Sector) <= n * c
  BY <1>3, <1>4, <1>5
<1> QED BY <1>6 DEF DepositAmount, a, b, c

LEMMA LongestTime ==
  ASSUME DealsAssumption
  PROVE  Max(Months) \in Months /\ \A m \in Months : m <= Max(Months)
<1>1. Months \subseteq Nat /\ Months # {} /\ IsFiniteSet(Months)
  BY DEF DealsAssumption
<1> DEFINE good == {s \in SUBSET Months : s = {} \/ \E x \in s : \A y \in s : x >= y}
<1>2. ASSUME NEW s \in SUBSET Months, s # {}, \A x \in s : s \ {x} \in good PROVE s \in good
  <2>1. PICK z \in s : TRUE
    BY <1>2
  <2>2. CASE s \ {z} = {}
    <3>1. \A y \in s : z >= y
      BY <2>2, <1>1
    <3> QED BY <2>1, <3>1
  <2>3. CASE s \ {z} # {}
    <3>1. PICK x \in s \ {z} : \A y \in s \ {z} : x >= y
      BY <1>2, <2>1, <2>3
    <3>2. x \in Nat /\ z \in Nat /\ \A y \in s : y \in Nat
      BY <1>1, <2>1
    <3>3. CASE x >= z
      BY <3>1, <3>3
    <3>4. CASE z >= x
      BY <3>1, <3>2, <3>4
    <3> QED BY <3>2, <3>3, <3>4
  <2> QED BY <2>2, <2>3
<1>3. good = SUBSET Months
  <2>1. good \in SUBSET SUBSET Months /\ {} \in good
    OBVIOUS
  <2>2. \A s \in SUBSET Months : s # {} /\ (\A x \in s : s \ {x} \in good) => s \in good
    BY <1>2
  <2> HIDE DEF good
  <2> QED BY <2>1, <2>2, <1>1, AllSubsets
<1>4. \E x \in Months : \A y \in Months : x >= y
  BY <1>1, <1>3
<1>5. Max(Months) \in Months /\ \A y \in Months : Max(Months) >= y
  BY <1>4 DEF Max
<1> QED BY <1>1, <1>5

-----------------------------------------------------------------------------
(* What the deals cost.                                                     *)

LEMMA DealsAreFinite ==
  ASSUME DealsAssumption, TypeOK
  PROVE  /\ IsFiniteSet(Known) /\ Known \subseteq Indices
         /\ \A d \in Known : deals[d] \in Deal
         /\ Railed \subseteq Known /\ IsFiniteSet(Railed)
<1>1. Known = 1 .. Len(deals) /\ Len(deals) \in Nat /\ Len(deals) <= MaxDeals
  BY DEF TypeOK, Known
<1>2. IsFiniteSet(Known)
  BY <1>1, FS_Interval
<1>3. Railed \subseteq Known
  BY DEF Railed
<1>4. IsFiniteSet(Railed)
  BY <1>2, <1>3, FS_Subset
<1>5. \A d \in Known : deals[d] \in Deal
  BY DEF TypeOK, Known
<1>6. Known \subseteq Indices
  BY <1>1 DEF Indices, DealsAssumption
<1> QED BY <1>2, <1>3, <1>4, <1>5, <1>6

LEMMA CostsOfDeal ==
  ASSUME DealsAssumption, TypeOK, NEW d \in Known
  PROVE  /\ deals[d].size \in Nat /\ deals[d].price \in Nat /\ deals[d].dearest \in Nat
         /\ MostOf(d) \in Nat /\ MonthlyCost(d) \in Nat
         /\ \A m \in Months : DepositAmount(deals[d].size, deals[d].price, m) \in Nat
<1>1. deals[d].size \in Nat /\ deals[d].price \in Nat /\ deals[d].dearest \in Nat
  BY DealsAreFinite DEF Deal, DealsAssumption
<1>2. Max(Months) \in Nat /\ Months \subseteq Nat
  BY LongestTime DEF DealsAssumption
<1>3. DepositAmount(deals[d].size, deals[d].dearest, 1) \in Nat
  BY <1>1, AmountIsNat
<1>4. MonthlyCost(d) \in Nat
  BY <1>1, AmountIsNat DEF MonthlyCost
<1>5. \A m \in Months : DepositAmount(deals[d].size, deals[d].price, m) \in Nat
  BY <1>1, <1>2, AmountIsNat
<1>6. MostOf(d) \in Nat
  BY <1>2, <1>3 DEF MostOf
<1> QED BY <1>1, <1>4, <1>5, <1>6

(* A deposit for deals with a rail is not more than all of them cost.       *)
LEMMA RequiredAtMost ==
  ASSUME DealsAssumption, TypeOK, \A d \in Known : deals[d].price <= deals[d].dearest,
         NEW covers \in SUBSET Railed, NEW m \in Months
  PROVE  Required(covers, m) \in Nat /\ Most \in Nat /\ Required(covers, m) <= Most
<1> DEFINE f == [d \in covers |-> DepositAmount(deals[d].size, deals[d].price, m)]
           g == [d \in Railed |-> MostOf(d)]
<1>1. Railed \subseteq Known /\ IsFiniteSet(Railed)
  BY DealsAreFinite
<1>2. f \in [covers -> Nat] /\ g \in [Railed -> Nat]
  BY <1>1, CostsOfDeal
<1>3. m \in Nat /\ Max(Months) \in Nat /\ m <= Max(Months)
  BY LongestTime DEF DealsAssumption
<1>4. ASSUME NEW d \in covers PROVE f[d] <= g[d]
  <2>1. d \in Known
    BY <1>1
  <2>2. DepositAmount(deals[d].size, deals[d].price, m) <= Max(Months) * DepositAmount(deals[d].size, deals[d].dearest, 1)
    BY <1>3, <2>1, CostsOfDeal, DepositAtMost
  <2> QED BY <2>2 DEF MostOf
<1> HIDE DEF f, g
<1>5. SumFunction(f) \in Nat /\ SumFunction(g) \in Nat /\ SumFunction(f) <= SumFunction(g)
  BY <1>1, <1>2, <1>4, SumOfPart
<1> QED BY <1>5 DEF Required, Most, f, g

LEMMA MostIsAtMost ==
  ASSUME DealsAssumption, TypeOK, Available <= Most
  PROVE  NeverOverfunded
<1> DEFINE f == [d \in Railed |-> MostOf(d)]
           g == [d \in Known |-> MostOf(d)]
<1>1. Railed \subseteq Known /\ IsFiniteSet(Known)
  BY DealsAreFinite
<1>2. f \in [Railed -> Nat] /\ g \in [Known -> Nat]
  BY <1>1, CostsOfDeal
<1>3. \A d \in Railed : f[d] <= g[d]
  BY <1>1, CostsOfDeal
<1>4. g = [d \in Known |-> Max(Months) * DepositAmount(deals[d].size, deals[d].dearest, 1)]
  BY DEF MostOf
<1>5. f = [d \in Railed |-> MostOf(d)]
  OBVIOUS
<1> HIDE DEF f, g
<1>6. SumFunction(f) \in Nat /\ SumFunction(g) \in Nat /\ SumFunction(f) <= SumFunction(g)
  BY <1>1, <1>2, <1>3, SumOfPart
<1>7. Available \in Int
  BY DEF TypeOK, Available
<1>8. Available <= SumFunction(g)
  BY <1>5, <1>6, <1>7 DEF Most
<1> QED BY <1>4, <1>8 DEF NeverOverfunded

-----------------------------------------------------------------------------
(* Steps.  What they do to the deals: those that are there keep what they   *)
(* were proposed with, new ones have no rail.                               *)

DealsKept ==
  /\ deals' \in Seq(Deal) /\ Len(deals) <= Len(deals') /\ Len(deals') <= MaxDeals
  /\ \A d \in Known :
       /\ deals'[d].hash = deals[d].hash /\ deals'[d].adapter = deals[d].adapter
       /\ deals'[d].size = deals[d].size
       /\ deals'[d].price = deals[d].price /\ deals'[d].dearest = deals[d].dearest
       /\ deals[d].rail => deals'[d].rail
       /\ deals'[d].watched => deals[d].watched
  /\ \A d \in Known' \ Known : deals'[d].price <= deals'[d].dearest /\ ~deals'[d].rail

RailsKept == \A d \in Known : deals'[d].rail = deals[d].rail

LEMMA DealsStay ==
  ASSUME TypeOK, deals' = deals
  PROVE  DealsKept /\ RailsKept
BY DEF TypeOK, DealsKept, RailsKept, Known

(* One deal changes, and keeps what it was proposed with.                   *)
LEMMA OneDealChanges ==
  ASSUME DealsAssumption, TypeOK, NEW d \in Known, NEW e \in Deal, deals' = [deals EXCEPT ![d] = e],
         e.hash = deals[d].hash, e.adapter = deals[d].adapter, e.size = deals[d].size,
         e.price = deals[d].price, e.dearest = deals[d].dearest,
         deals[d].rail => e.rail, e.watched => deals[d].watched
  PROVE  /\ DealsKept /\ Known' = Known /\ deals'[d] = e
         /\ \A c \in Known : c # d => deals'[c] = deals[c]
         /\ e.rail = deals[d].rail => RailsKept
<1>1. deals \in Seq(Deal) /\ d \in DOMAIN deals
  BY DEF TypeOK, Known
<1>2. deals' \in Seq(Deal) /\ Len(deals') = Len(deals) /\ Known' = Known
  BY <1>1 DEF Known
<1>3. deals'[d] = e /\ \A c \in Known : c # d => deals'[c] = deals[c]
  BY <1>1 DEF Known
<1>4. Len(deals) <= Len(deals') /\ Len(deals') <= MaxDeals
  BY <1>1, <1>2 DEF TypeOK, DealsAssumption
<1>5. DealsKept
  BY <1>2, <1>3, <1>4 DEF DealsKept
<1>6. e.rail = deals[d].rail => RailsKept
  BY <1>3 DEF RailsKept
<1> QED BY <1>2, <1>3, <1>5, <1>6

LEMMA KnownStay ==
  ASSUME TypeOK, DealsKept
  PROVE  Known \subseteq Known' /\ Railed \subseteq Railed'
<1>1. Known = 1 .. Len(deals) /\ Known' = 1 .. Len(deals') /\ Len(deals) \in Nat /\ Len(deals') \in Nat
  BY DEF TypeOK, Known, DealsKept
<1>2. Len(deals) <= Len(deals')
  BY DEF DealsKept
<1>3. Known \subseteq Known'
  BY <1>1, <1>2
<1> QED BY <1>3 DEF Railed, DealsKept

(* A wallet's command, its transaction and the deals may change: what the   *)
(* others know stays true, and no mismatch goes unnoticed.                  *)
LEMMA Moves ==
  ASSUME DealsAssumption, DealsSound, NEW w \in Wallets, NEW s \in Session, NEW tx \in Transaction \cup {<<>>},
         session' = [session EXCEPT ![w] = s], sent' = [sent EXCEPT ![w] = tx],
         adapter' \in Adapters, account' \in [funds : Nat, lockup : Nat, owed : Nat],
         faults' \in [FaultKinds -> Nat], faults'["deals"] <= faults["deals"],
         told \subseteq told', told' \subseteq Known',
         DealsKept, Meant(w, s, tx)', MeantTx(w, tx), FundsSound',
         \A d \in Known' \ Known : deals'[d].watched => s.pc = "created" /\ s.deal = d,
         session[w].pc = "created" =>
           \/ s.pc = "created" /\ s.deal = session[w].deal
           \/ ~deals'[session[w].deal].watched
           \/ deals[session[w].deal].hash = Type(deals[session[w].deal].adapter)
           \/ session[w].deal \in told'
  PROVE  DealsSound'
<1>0. TypeOK
  BY DEF DealsSound
<1>1. Known \subseteq Known' /\ Railed \subseteq Railed'
  BY <1>0, KnownStay
<1>2. /\ session \in [Wallets -> Session] /\ session' \in [Wallets -> Session]
      /\ sent \in [Wallets -> Transaction \cup {<<>>}] /\ sent' \in [Wallets -> Transaction \cup {<<>>}]
      /\ session'[w] = s /\ sent'[w] = tx
      /\ \A v \in Wallets : v # w => session'[v] = session[v] /\ sent'[v] = sent[v]
  BY <1>0 DEF TypeOK
<1>3. TypeOK'
  BY <1>2 DEF TypeOK, DealsKept
<1>4. faults'["deals"] <= MaxDeals
  <2>1. faults["deals"] \in Nat /\ faults'["deals"] \in Nat
    BY <1>0 DEF TypeOK, FaultKinds
  <2>2. faults["deals"] <= MaxDeals /\ MaxDeals \in Nat
    BY DEF DealsSound, DealsAssumption
  <2> QED BY <2>1, <2>2
<1>5. \A d \in Known' : deals'[d].price <= deals'[d].dearest
  BY DEF DealsKept, DealsSound
<1>6. ASSUME NEW v \in Wallets PROVE Meant(v, session[v], sent[v])' /\ MeantTx(v, sent'[v])
  <2>1. CASE v = w
    BY <2>1, <1>2
  <2>2. CASE v # w
    <3>1. Meant(v, session[v], sent[v]) /\ MeantTx(v, sent[v])
      BY DEF DealsSound
    <3>2. session'[v] = session[v] /\ sent'[v] = sent[v]
      BY <1>2, <2>2
    <3>3. session[v].pc = "created" => session[v].deal \in Known' /\ deals'[session[v].deal].hash = Type(session[v].adapter)
      BY <3>1, <1>1 DEF Meant, DealsKept
    <3>4. session[v].kind = "deposit" => session[v].covers \subseteq Railed'
      BY <3>1, <1>1 DEF Meant
    <3> QED BY <3>1, <3>2, <3>3, <3>4 DEF Meant
  <2> QED BY <2>1, <2>2
<1>7. ASSUME NEW d \in Known', deals'[d].watched, deals'[d].hash # Type(deals'[d].adapter)
      PROVE  d \in told' \/ \E v \in Wallets : session'[v].pc = "created" /\ session'[v].deal = d
  <2>1. CASE d \notin Known
    BY <2>1, <1>2, <1>7
  <2>2. CASE d \in Known
    <3>1. deals[d].watched /\ deals[d].hash # Type(deals[d].adapter)
      BY <2>2, <1>7 DEF DealsKept
    <3>2. d \in told \/ \E v \in Wallets : session[v].pc = "created" /\ session[v].deal = d
      BY <2>2, <3>1 DEF DealsSound, MismatchTold, At
    <3>3. CASE d \in told
      BY <3>3
    <3>4. ASSUME NEW v \in Wallets, session[v].pc = "created", session[v].deal = d
          PROVE  d \in told' \/ \E u \in Wallets : session'[u].pc = "created" /\ session'[u].deal = d
      <4>1. CASE v = w
        BY <4>1, <3>1, <3>4, <1>2, <1>7
      <4>2. CASE v # w
        BY <4>2, <3>4, <1>2
      <4> QED BY <4>1, <4>2
    <3> QED BY <3>2, <3>3, <3>4
  <2> QED BY <2>1, <2>2
<1>8. MismatchTold'
  BY <1>7 DEF MismatchTold, At
<1> QED BY <1>3, <1>4, <1>5, <1>6, <1>8 DEF DealsSound

(* What the deals cost stays the same if no rail is set.                    *)
LEMMA CostsStay ==
  ASSUME DealsAssumption, TypeOK, DealsKept, RailsKept
  PROVE  /\ Most' = Most
         /\ \A covers \in SUBSET Known : \A m : Required(covers, m)' = Required(covers, m)
<1>1. Known \subseteq Known'
  BY KnownStay
<1>2. Railed' = Railed
  <2>1. ASSUME NEW d \in Railed' PROVE d \in Railed
    BY <2>1 DEF Railed, DealsKept, RailsKept
  <2>2. ASSUME NEW d \in Railed PROVE d \in Railed'
    BY <1>1 DEF Railed, RailsKept
  <2> QED BY <2>1, <2>2
<1>3. \A d \in Known : MostOf(d)' = MostOf(d)
  BY DEF DealsKept, MostOf
<1>4. [d \in Railed |-> MostOf(d)]' = [d \in Railed |-> MostOf(d)]
  BY <1>2, <1>3 DEF Railed
<1>5. Most' = Most
  BY <1>4 DEF Most
<1>6. ASSUME NEW covers \in SUBSET Known, NEW m
      PROVE  Required(covers, m)' = Required(covers, m)
  <2>1. [d \in covers |-> DepositAmount(deals[d].size, deals[d].price, m)]'
          = [d \in covers |-> DepositAmount(deals[d].size, deals[d].price, m)]
    BY DEF DealsKept
  <2> QED BY <2>1 DEF Required
<1> QED BY <1>5, <1>6

LEMMA FundsAreNumbers ==
  ASSUME DealsAssumption, DealsSound
  PROVE  /\ Available \in Int /\ Most \in Nat
         /\ account.funds \in Nat /\ account.lockup \in Nat /\ account.owed \in Nat
         /\ session["client"] \in Session /\ session["client"].missing \in Nat
         /\ sent["client"] # <<>> => sent["client"] \in Transaction /\ sent["client"].missing \in Nat
<1>1. TypeOK /\ \A d \in Known : deals[d].price <= deals[d].dearest
  BY DEF DealsSound
<1>2. account.funds \in Nat /\ account.lockup \in Nat /\ account.owed \in Nat
  BY <1>1 DEF TypeOK
<1>3. "client" \in Wallets
  BY DEF Wallets
<1>4. session["client"] \in Session
  BY <1>1, <1>3 DEF TypeOK
<1>5. session["client"].missing \in Nat
  BY <1>4 DEF Session
<1>6. ASSUME sent["client"] # <<>> PROVE sent["client"] \in Transaction /\ sent["client"].missing \in Nat
  <2>1. sent["client"] \in Transaction
    BY <1>1, <1>3, <1>6 DEF TypeOK
  <2> QED BY <2>1 DEF Transaction
<1>7. Most \in Nat
  <2>1. {} \in SUBSET Railed /\ \E m \in Months : TRUE
    BY DEF DealsAssumption
  <2> QED BY <1>1, <2>1, RequiredAtMost
<1>8. Available \in Int
  BY <1>2 DEF Available
<1> QED BY <1>2, <1>4, <1>5, <1>6, <1>7, <1>8

(* What a deposit is for has its rail, and a price.                         *)
LEMMA CoveredHasRail ==
  ASSUME DealsAssumption, DealsSound, NEW w \in Wallets, NEW s, NEW tx, Meant(w, s, tx),
         s.kind = "deposit" \/ s.pc = "deposit"
  PROVE  /\ s.covers \in SUBSET Railed /\ s.covers \in SUBSET Known /\ s.months \in Months
         /\ Required(s.covers, s.months) \in Nat /\ Required(s.covers, s.months) <= Most
<1>1. s.covers \in SUBSET Railed /\ s.months \in Months
  BY DEF Meant
<1>2. s.covers \in SUBSET Known
  BY <1>1 DEF Railed
<1>3. TypeOK /\ \A d \in Known : deals[d].price <= deals[d].dearest
  BY DEF DealsSound
<1> QED BY <1>1, <1>2, <1>3, RequiredAtMost

(* The funds of a step that leaves the account and the rails alone.         *)
LEMMA FundsStay ==
  ASSUME DealsAssumption, DealsSound, DealsKept, RailsKept, account' = account,
         NEW w \in Wallets, NEW s \in Session, NEW tx \in Transaction \cup {<<>>},
         session' = [session EXCEPT ![w] = s], sent' = [sent EXCEPT ![w] = tx],
         w = "client" => /\ FundsFor(s)
                         /\ s.kind = "deposit" \/ s.pc = "deposit" => s.covers \in SUBSET Known
                         /\ tx # <<>> /\ tx.kind = "deposit" => Available + tx.missing <= Most
  PROVE  FundsSound'
<1>0. TypeOK /\ FundsSound
  BY DEF DealsSound
<1>1. "client" \in Wallets
  BY DEF Wallets
<1>2. Most' = Most /\ \A covers \in SUBSET Known : \A m : Required(covers, m)' = Required(covers, m)
  BY <1>0, CostsStay
<1>3. Available' = Available
  BY DEF Available
<1>4. ASSUME NEW t, FundsFor(t), t.kind = "deposit" \/ t.pc = "deposit" => t.covers \in SUBSET Known
      PROVE  FundsFor(t)'
  <2>1. t.kind = "deposit" \/ t.pc = "deposit" => Required(t.covers, t.months)' = Required(t.covers, t.months)
    BY <1>2, <1>4
  <2> QED BY <1>2, <1>3, <1>4, <2>1 DEF FundsFor, Enough
<1>5. CASE w = "client"
  <2>1. session'["client"] = s /\ sent'["client"] = tx
    BY <1>0, <1>1, <1>5 DEF TypeOK
  <2>2. FundsFor(s)'
    BY <1>4, <1>5
  <2> QED BY <1>0, <1>2, <1>3, <1>5, <2>1, <2>2 DEF FundsSound
<1>6. CASE w # "client"
  <2>1. session'["client"] = session["client"] /\ sent'["client"] = sent["client"]
    BY <1>0, <1>1, <1>6 DEF TypeOK
  <2>2. Meant("client", session["client"], sent["client"])
    BY <1>1 DEF DealsSound
  <2>3. FundsFor(session["client"])'
    <3>1. session["client"].kind = "deposit" \/ session["client"].pc = "deposit" => session["client"].covers \in SUBSET Known
      BY <1>1, <2>2, CoveredHasRail
    <3>2. FundsFor(session["client"])
      BY <1>0 DEF FundsSound
    <3> QED BY <3>1, <3>2, <1>2, <1>3, <2>1 DEF FundsFor, Enough
  <2> QED BY <1>0, <1>2, <1>3, <2>1, <2>3 DEF FundsSound
<1> QED BY <1>5, <1>6

(* A command goes one step on, nothing else changes.                        *)
LEMMA OneStep ==
  ASSUME DealsAssumption, DealsSound, NEW w \in Wallets, NEW s \in Session, NEW tx \in Transaction \cup {<<>>},
         session' = [session EXCEPT ![w] = s], sent' = [sent EXCEPT ![w] = tx],
         adapter' # adapter => adapter' \in Adapters, deals' = deals, account' = account, told \subseteq told', told' \subseteq Known,
         faults' \in [FaultKinds -> Nat], faults'["deals"] <= faults["deals"],
         Meant(w, s, tx), MeantTx(w, tx),
         w = "client" => FundsFor(s) /\ (tx # <<>> /\ tx.kind = "deposit" => Available + tx.missing <= Most),
         session[w].pc = "created" =>
           \/ s.pc = "created" /\ s.deal = session[w].deal
           \/ deals[session[w].deal].hash = Type(deals[session[w].deal].adapter)
           \/ session[w].deal \in told'
  PROVE  DealsSound'
<1>0. TypeOK
  BY DEF DealsSound
<1>1. DealsKept /\ RailsKept /\ Known' = Known
  BY <1>0, DealsStay DEF Known
<1>2. s.kind = "deposit" \/ s.pc = "deposit" => s.covers \in SUBSET Known
  BY CoveredHasRail
<1>3. FundsSound'
  BY <1>1, <1>2, FundsStay
<1>4. Meant(w, s, tx)'
  BY <1>1 DEF Meant, Railed
<1>5. adapter' \in Adapters /\ account' \in [funds : Nat, lockup : Nat, owed : Nat]
  BY <1>0 DEF TypeOK
<1> QED BY <1>1, <1>3, <1>4, <1>5, Moves

(* What is known of a wallet.                                               *)
LEMMA WalletFacts ==
  ASSUME DealsSound, NEW w \in Wallets
  PROVE  /\ session[w] \in Session /\ sent[w] \in Transaction \cup {<<>>}
         /\ Meant(w, session[w], sent[w]) /\ MeantTx(w, sent[w])
         /\ session = [session EXCEPT ![w] = session[w]] /\ sent = [sent EXCEPT ![w] = sent[w]]
         /\ faults \in [FaultKinds -> Nat] /\ faults["deals"] \in Nat
BY DEF DealsSound, TypeOK, FaultKinds

LEMMA FaultFacts ==
  ASSUME DealsSound, NEW kind \in {"stop", "evict", "withdraw", "adapter"}, Fault(kind)
  PROVE  faults' \in [FaultKinds -> Nat] /\ faults'["deals"] <= faults["deals"]
<1>1. faults \in [FaultKinds -> Nat] /\ {"all", "deals", kind} \subseteq FaultKinds
  BY DEF DealsSound, TypeOK, FaultKinds
<1>2. faults[kind] > 0 /\ faults["all"] > 0
      /\ faults' = [faults EXCEPT ![kind] = faults[kind] - 1, !["all"] = faults["all"] - 1]
  BY DEF Fault
<1>3. faults[kind] - 1 \in Nat /\ faults["all"] - 1 \in Nat /\ faults["deals"] \in Nat
  BY <1>1, <1>2
<1>4. faults' \in [FaultKinds -> Nat]
  BY <1>1, <1>2, <1>3
<1>5. faults'["deals"] = faults["deals"]
  BY <1>1, <1>2
<1> QED BY <1>3, <1>4, <1>5

(* A command goes on without a transaction, and not after its new deal.     *)
LEMMA GoesOn ==
  ASSUME DealsAssumption, DealsSound, NEW w \in Wallets, NEW s \in Session, Becomes(w, s),
         UNCHANGED <<chain, sent, told>>, faults' \in [FaultKinds -> Nat], faults'["deals"] <= faults["deals"],
         Meant(w, s, sent[w]), w = "client" => FundsFor(s), ~At(w, "created")
  PROVE  DealsSound'
<1>1. sent' = [sent EXCEPT ![w] = sent[w]] /\ sent[w] \in Transaction \cup {<<>>} /\ MeantTx(w, sent[w])
  BY WalletFacts
<1>2. told' \subseteq Known
  BY DEF DealsSound, TypeOK
<1>3. w = "client" => (sent[w] # <<>> /\ sent[w].kind = "deposit" => Available + sent[w].missing <= Most)
  BY DEF DealsSound, FundsSound
<1>4. session' = [session EXCEPT ![w] = s] /\ adapter' = adapter /\ deals' = deals /\ account' = account /\ told' = told
  BY DEF Becomes, chain
<1>5. session[w].pc # "created"
  BY DEF At
<1> QED BY <1>1, <1>2, <1>3, <1>4, <1>5, OneStep

(* A command that ends without a word on its effect.                        *)
LEMMA IdleFacts ==
  ASSUME DealsAssumption
  PROVE  /\ Idle \in Session /\ FundsFor(Idle)
         /\ \A w, tx : Meant(w, Idle, tx)
<1>1. Idle \in Session
  BY DEF Idle, Session, Pcs, Kinds, DealsAssumption
<1>2. FundsFor(Idle)
  BY DEF Idle, FundsFor
<1>3. \A w, tx : Meant(w, Idle, tx)
  BY DEF Idle, Meant
<1> QED BY <1>1, <1>2, <1>3

LEMMA StopsSound ==
  ASSUME DealsAssumption, DealsSound, NEW w \in Wallets, Stops(w), ~At(w, "created"),
         UNCHANGED <<chain, sent, told>>, faults' \in [FaultKinds -> Nat], faults'["deals"] <= faults["deals"]
  PROVE  DealsSound'
BY IdleFacts, GoesOn DEF Stops

-----------------------------------------------------------------------------
(* The steps of the commands.                                               *)

(* The transaction of a step that sends one.                                *)
LEMMA TxFacts ==
  ASSUME DealsSound, NEW w \in Wallets, session[w].kind \in Kinds
  PROVE  Tx(session[w]) \in Transaction
<1>1. session[w] \in Session
  BY WalletFacts
<1> QED BY <1>1 DEF Session, Tx, Transaction

LEMMA TransactSound ==
  ASSUME DealsAssumption, DealsSound, NEW w \in Wallets, Transact(w), UNCHANGED <<chain, told, faults>>,
         session[w].pc \in {"proposal", "set", "end", "deposit"}
  PROVE  DealsSound'
<1> DEFINE me == session[w]
           s == [me EXCEPT !.pc = "waiting"]
<1>1. me \in Session /\ Meant(w, me, sent[w])
  BY WalletFacts
<1>2. faults' \in [FaultKinds -> Nat] /\ faults'["deals"] <= faults["deals"] /\ told' = told
  BY WalletFacts
<1>3. ~At(w, "created")
  BY DEF At
<1>4. CASE ~Accepts(me)
  <2>1. Stops(w) /\ UNCHANGED <<chain, sent, told>>
    BY <1>4 DEF Transact
  <2> QED BY <1>2, <1>3, <2>1, StopsSound
<1>5. CASE Accepts(me)
  <2>1. session' = [session EXCEPT ![w] = s] /\ sent' = [sent EXCEPT ![w] = Tx(me)]
    BY <1>5 DEF Transact, Becomes
  <2>2. me.kind \in Kinds
    BY <1>1 DEF Meant, Kinds
  <2>3. Tx(me) \in Transaction
    BY <2>2, TxFacts
  <2>4. s \in Session
    BY <1>1 DEF Session, Pcs
  <2>5. Tx(s) = Tx(me) /\ s.pc = "waiting" /\ s.kind = me.kind /\ s.covers = me.covers /\ s.months = me.months
        /\ s.missing = me.missing /\ s.clean = me.clean
    BY <1>1 DEF Session, Tx
  <2>6. Meant(w, s, Tx(me))
    BY <1>1, <2>5 DEF Meant
  <2>7. MeantTx(w, Tx(me))
    BY <1>1 DEF Meant, MeantTx, Tx
  <2>8. w = "client" => FundsFor(me)
    BY DEF DealsSound, FundsSound
  <2>9. w = "client" => FundsFor(s)
    BY <1>1, <2>5, <2>8 DEF FundsFor, Enough, Meant
  <2>10. w = "client" /\ Tx(me).kind = "deposit" => Available + Tx(me).missing <= Most
    BY <1>1, <2>8 DEF Tx, FundsFor, Meant
  <2>11. told' \subseteq Known
    BY <1>2 DEF DealsSound, TypeOK
  <2>12. adapter' = adapter /\ deals' = deals /\ account' = account
    BY DEF chain
  <2>13. session[w].pc # "created"
    BY <1>3 DEF At
  <2> HIDE DEF s, me
  <2> QED BY <1>2, <2>1, <2>3, <2>4, <2>6, <2>7, <2>9, <2>10, <2>11, <2>12, <2>13, OneStep
<1> QED BY <1>4, <1>5

LEMMA ReadAdapterSound ==
  ASSUME DealsAssumption, DealsSound, NEW w \in Wallets, ReadAdapter(w)
  PROVE  DealsSound'
<1> DEFINE me == session[w]
           s == [me EXCEPT !.pc = "proposal", !.adapter = adapter]
<1>1. me \in Session /\ Meant(w, me, sent[w]) /\ adapter \in Adapters
  BY WalletFacts DEF DealsSound, TypeOK
<1>2. me.pc = "adapter"
  BY DEF ReadAdapter, At
<1>3. s \in Session
  BY <1>1 DEF Session, Pcs
<1>4. s.pc = "proposal" /\ s.adapter = adapter /\ s.kind = me.kind /\ s.max = me.max
  BY <1>1 DEF Session
<1>5. me.kind = "propose" /\ me.max \in Limits
  BY <1>1, <1>2 DEF Meant
<1>6. Meant(w, s, sent[w])
  BY <1>1, <1>4, <1>5 DEF Meant
<1>7. FundsFor(s)
  BY <1>4 DEF FundsFor
<1>8. Becomes(w, s) /\ UNCHANGED <<chain, sent, told, faults>> /\ ~At(w, "created")
  BY <1>2 DEF ReadAdapter, At
<1>9. faults' \in [FaultKinds -> Nat] /\ faults'["deals"] <= faults["deals"]
  BY <1>8, WalletFacts
<1> HIDE DEF s, me
<1> QED BY <1>3, <1>6, <1>7, <1>8, <1>9, GoesOn

LEMMA SendsSound ==
  ASSUME DealsAssumption, DealsSound,
         \/ \E w \in Wallets : SendProposal(w)
         \/ SetAdapter \/ EndDeal \/ SendDeposit
  PROVE  DealsSound'
<1>0. "client" \in Wallets /\ "admin" \in Wallets
  BY DEF Wallets
<1>1. ASSUME NEW w \in Wallets, SendProposal(w) PROVE DealsSound'
  BY <1>1, TransactSound DEF SendProposal, At
<1>2. CASE SetAdapter
  BY <1>0, <1>2, TransactSound DEF SetAdapter, At
<1>3. CASE EndDeal
  BY <1>0, <1>3, TransactSound DEF EndDeal, At
<1>4. CASE SendDeposit
  BY <1>0, <1>4, TransactSound DEF SendDeposit, At
<1> QED BY <1>1, <1>2, <1>3, <1>4

(* The command says so if the adapter is not the one it read.               *)
LEMMA CheckAdapterSound ==
  ASSUME DealsAssumption, DealsSound, NEW w \in Wallets, CheckAdapter(w)
  PROVE  DealsSound'
<1> DEFINE me == session[w]
           s == [Idle EXCEPT !.pc = "done", !.kind = me.kind, !.deal = me.deal, !.covers = me.covers,
                             !.months = me.months, !.clean = me.clean]
<1>1. me \in Session /\ Meant(w, me, sent[w]) /\ me.pc = "created"
  BY WalletFacts DEF CheckAdapter, At
<1>2. me.kind = "propose" /\ me.deal \in Known /\ deals[me.deal].hash = Type(me.adapter)
  BY <1>1 DEF Meant
<1>3. told \subseteq Known
  BY DEF DealsSound, TypeOK
<1>4. adapter' = adapter /\ deals' = deals /\ account' = account
      /\ sent' = [sent EXCEPT ![w] = sent[w]] /\ sent[w] \in Transaction \cup {<<>>}
      /\ MeantTx(w, sent[w]) /\ faults' \in [FaultKinds -> Nat] /\ faults'["deals"] <= faults["deals"]
  BY WalletFacts DEF CheckAdapter, chain
<1>5. w = "client" => (sent[w] # <<>> /\ sent[w].kind = "deposit" => Available + sent[w].missing <= Most)
  BY DEF DealsSound, FundsSound
<1>6. CASE AdapterAsRead(w)
  <2>1. session' = [session EXCEPT ![w] = s] /\ told' = told
    BY <1>6 DEF CheckAdapter, Done, Becomes
  <2>2. deals[me.deal].hash = Type(deals[me.deal].adapter)
    BY <1>2, <1>6 DEF AdapterAsRead
  <2>3. s \in Session
    BY <1>1 DEF Session, Idle, Pcs
  <2>4. s.pc = "done" /\ s.kind = "propose"
    BY <1>2 DEF Idle
  <2>5. Meant(w, s, sent[w]) /\ FundsFor(s)
    BY <2>4 DEF Meant, FundsFor
  <2> HIDE DEF s
  <2> QED BY <1>3, <1>4, <1>5, <2>1, <2>2, <2>3, <2>5, OneStep
<1>7. CASE ~AdapterAsRead(w)
  <2>1. session' = [session EXCEPT ![w] = Idle] /\ told' = told \cup {me.deal}
    BY <1>7 DEF CheckAdapter, Stops, Becomes
  <2>2. me.deal \in told' /\ told \subseteq told' /\ told' \subseteq Known
    BY <1>2, <1>3, <2>1
  <2>3. Idle \in Session /\ FundsFor(Idle) /\ Meant(w, Idle, sent[w])
    BY IdleFacts
  <2> QED BY <1>4, <1>5, <2>1, <2>2, <2>3, OneStep
<1> QED BY <1>6, <1>7

LEMMA DeclineSound ==
  ASSUME DealsAssumption, DealsSound, NEW w \in Wallets, Decline(w)
  PROVE  DealsSound'
<1> DEFINE me == session[w]
           s == [me EXCEPT !.pc = "done", !.missing = 0, !.clean = FALSE]
<1>1. me \in Session /\ Meant(w, me, sent[w]) /\ ~At(w, "created")
  BY WalletFacts DEF Decline, At
<1>2. faults' \in [FaultKinds -> Nat] /\ faults'["deals"] <= faults["deals"] /\ UNCHANGED <<chain, sent, told>>
  BY FaultFacts DEF Decline
<1>3. CASE Stops(w)
  BY <1>1, <1>2, <1>3, StopsSound
<1>4. CASE At(w, "deposit") /\ Becomes(w, s)
  <2>1. s \in Session
    BY <1>1 DEF Session, Pcs
  <2>2. s.pc = "done" /\ s.clean = FALSE /\ s.kind = me.kind /\ s.covers = me.covers /\ s.months = me.months
    BY <1>1 DEF Session
  <2>3. Meant(w, s, sent[w])
    BY <1>1, <2>2 DEF Meant
  <2>4. FundsFor(s)
    BY <2>2 DEF FundsFor, Enough
  <2> HIDE DEF s
  <2> QED BY <1>1, <1>2, <1>4, <2>1, <2>3, <2>4, GoesOn
<1> QED BY <1>3, <1>4 DEF Decline

(* A command that is gone watches no deal.                                  *)
LEMMA LeavesSound ==
  ASSUME DealsAssumption, DealsSound, NEW w \in Wallets, NoEvent(w) \/ Crash(w)
  PROVE  DealsSound'
<1> DEFINE me == session[w]
           d == me.deal
<1>1. /\ me \in Session /\ Meant(w, me, sent[w]) /\ MeantTx(w, sent[w]) /\ sent[w] \in Transaction \cup {<<>>}
      /\ sent = [sent EXCEPT ![w] = sent[w]]
  BY WalletFacts
<1>2. /\ faults' \in [FaultKinds -> Nat] /\ faults'["deals"] <= faults["deals"]
      /\ adapter' = adapter /\ account' = account /\ sent' = sent /\ told' = told
      /\ deals' = Unwatched(w) /\ session' = [session EXCEPT ![w] = Idle]
  BY FaultFacts DEF NoEvent, Crash, Stops, Becomes
<1>3. TypeOK /\ told \subseteq Known /\ adapter \in Adapters /\ account \in [funds : Nat, lockup : Nat, owed : Nat]
  BY DEF DealsSound, TypeOK
<1>4. Idle \in Session /\ FundsFor(Idle) /\ Meant(w, Idle, sent[w]) /\ Meant(w, Idle, sent[w])'
  BY IdleFacts DEF Idle, Meant
<1>5. w = "client" => (sent[w] # <<>> /\ sent[w].kind = "deposit" => Available + sent[w].missing <= Most)
  BY DEF DealsSound, FundsSound
<1>6. CASE me.pc # "created"
  <2>1. deals' = deals
    BY <1>2, <1>6 DEF Unwatched, At
  <2> QED BY <1>1, <1>2, <1>3, <1>4, <1>5, <1>6, <2>1, OneStep
<1>7. CASE me.pc = "created"
  <2>1. d \in Known
    BY <1>1, <1>7 DEF Meant
  <2>2. deals' = [deals EXCEPT ![d].watched = FALSE]
    BY <1>2, <1>7 DEF Unwatched, At
  <2>3. deals \in Seq(Deal) /\ deals[d] \in Deal
    BY <1>3, <2>1 DEF TypeOK, Known
  <2>4. PICK e \in Deal : deals' = [deals EXCEPT ![d] = e] /\ e = [deals[d] EXCEPT !.watched = FALSE]
    BY <2>2, <2>3 DEF Deal
  <2>5. e.hash = deals[d].hash /\ e.adapter = deals[d].adapter /\ e.size = deals[d].size /\ e.price = deals[d].price
        /\ e.dearest = deals[d].dearest /\ e.rail = deals[d].rail /\ e.watched = FALSE
    BY <2>3, <2>4 DEF Deal
  <2>6. DealsKept /\ RailsKept /\ Known' = Known /\ ~deals'[d].watched
    BY <1>3, <2>1, <2>4, <2>5, OneDealChanges
  <2>7. Idle.kind # "deposit" /\ Idle.pc # "deposit"
    BY DEF Idle
  <2>8. FundsSound'
    BY <1>1, <1>2, <1>4, <1>5, <2>6, <2>7, FundsStay
  <2>9. told \subseteq told' /\ told' \subseteq Known'
    BY <1>2, <1>3, <2>6
  <2> QED BY <1>1, <1>2, <1>3, <1>4, <2>6, <2>8, <2>9, Moves
<1> QED BY <1>6, <1>7

LEMMA BeginSound ==
  ASSUME DealsAssumption, DealsSound, NEW w \in Wallets, NEW s \in Session, Becomes(w, s), ~Running(w),
         UNCHANGED <<chain, sent, told>>, faults' \in [FaultKinds -> Nat], faults'["deals"] <= faults["deals"],
         Meant(w, s, sent[w]), s.pc \in {"adapter", "set", "end", "account"}
  PROVE  DealsSound'
<1>1. ~At(w, "created")
  BY DEF Running, At
<1>2. FundsFor(s)
  BY DEF FundsFor
<1> QED BY <1>1, <1>2, GoesOn

LEMMA BeginProposeSound ==
  ASSUME DealsAssumption, DealsSound, NEW w \in Wallets, NEW max \in Limits, NEW m \in Manifests, BeginPropose(w, max, m)
  PROVE  DealsSound'
<1> DEFINE s == [Idle EXCEPT !.pc = "adapter", !.max = max, !.size = m.size, !.kind = "propose"]
<1>1. /\ faults' \in [FaultKinds -> Nat] /\ faults'["deals"] <= faults["deals"]
      /\ ~Running(w) /\ UNCHANGED <<chain, sent, told>>
  BY WalletFacts DEF BeginPropose
<1>2. ~At(w, "created")
  BY <1>1 DEF Running, At
<1>3. CASE ValidManifest(m)
  <2>1. Becomes(w, s)
    BY <1>3 DEF BeginPropose, FetchManifest
  <2>2. m.size \in Nat /\ Idle \in Session
    BY IdleFacts DEF DealsAssumption
  <2>3. s \in Session
    BY <2>2 DEF Session, Idle, Pcs, Kinds
  <2>4. s.pc = "adapter" /\ s.kind = "propose" /\ s.max = max
    BY DEF Idle
  <2> HIDE DEF s
  <2>5. Meant(w, s, sent[w])
    BY <2>4 DEF Meant
  <2> QED BY <1>1, <2>1, <2>3, <2>4, <2>5, BeginSound
<1>4. CASE ~ValidManifest(m)
  <2>1. Stops(w)
    BY <1>4 DEF BeginPropose, FetchManifest
  <2> QED BY <1>1, <1>2, <2>1, StopsSound
<1> QED BY <1>3, <1>4

LEMMA BeginSetAdapterSound ==
  ASSUME DealsAssumption, DealsSound, NEW a \in Adapters, BeginSetAdapter(a)
  PROVE  DealsSound'
<1> DEFINE s == [Idle EXCEPT !.pc = "set", !.adapter = a, !.kind = "set"]
<1>1. /\ faults' \in [FaultKinds -> Nat] /\ faults'["deals"] <= faults["deals"] /\ "admin" \in Wallets
      /\ ~Running("admin") /\ UNCHANGED <<chain, sent, told>> /\ Becomes("admin", s)
  BY FaultFacts DEF BeginSetAdapter, Wallets
<1>2. Idle \in Session
  BY IdleFacts
<1>3. s \in Session
  BY <1>2 DEF Session, Idle, Pcs, Kinds
<1>4. s.pc = "set" /\ s.kind = "set" /\ s.adapter = a
  BY DEF Idle
<1> HIDE DEF s
<1>5. Meant("admin", s, sent["admin"])
  BY <1>4 DEF Meant
<1> QED BY <1>1, <1>3, <1>4, <1>5, BeginSound

LEMMA BeginEndSound ==
  ASSUME DealsAssumption, DealsSound, NEW d \in Known, TerminateDeal(d) \/ FinalizeDeal(d)
  PROVE  DealsSound'
<1>1. PICK kind, states : kind \in {"reject", "terminate", "finalize"} /\ BeginEnd(d, states, kind)
  BY DEF TerminateDeal, FinalizeDeal, EndWith
<1> DEFINE s == [Idle EXCEPT !.pc = "end", !.deal = d, !.kind = kind]
<1>2. /\ faults' \in [FaultKinds -> Nat] /\ faults'["deals"] <= faults["deals"] /\ "admin" \in Wallets
  BY <1>1, WalletFacts DEF BeginEnd, Wallets
<1>3. ~Running("admin") /\ UNCHANGED <<chain, sent, told>> /\ Becomes("admin", s)
  BY <1>1 DEF BeginEnd
<1>4. d \in 0 .. MaxDeals
  <2>1. TypeOK
    BY DEF DealsSound
  <2>2. d \in Indices /\ MaxDeals \in Nat
    BY <2>1, DealsAreFinite DEF DealsAssumption
  <2> QED BY <2>2 DEF Indices
<1>5. Idle \in Session
  BY IdleFacts
<1>6. s \in Session
  BY <1>1, <1>4, <1>5 DEF Session, Idle, Pcs, Kinds
<1>7. s.pc = "end" /\ s.kind = kind
  BY DEF Idle
<1> HIDE DEF s
<1>8. Meant("admin", s, sent["admin"])
  BY <1>1, <1>7 DEF Meant
<1> QED BY <1>1, <1>2, <1>3, <1>6, <1>7, <1>8, BeginSound

LEMMA BeginDepositSound ==
  ASSUME DealsAssumption, DealsSound, NEW covers \in SUBSET Indices, NEW months \in Months, BeginDeposit(covers, months)
  PROVE  DealsSound'
<1> DEFINE s == [Idle EXCEPT !.pc = "account", !.covers = covers, !.months = months, !.kind = "deposit"]
<1>1. /\ faults' \in [FaultKinds -> Nat] /\ faults'["deals"] <= faults["deals"] /\ "client" \in Wallets
      /\ ~Running("client") /\ UNCHANGED <<chain, sent, told>> /\ Becomes("client", s) /\ sent["client"] = <<>>
  BY WalletFacts DEF BeginDeposit, Wallets, Clear
<1>2. covers \subseteq Railed
  BY DEF BeginDeposit, EligibleDeals, Eligible, Railed
<1>3. Idle \in Session
  BY IdleFacts
<1>4. s \in Session
  BY <1>3 DEF Session, Idle, Pcs, Kinds
<1>5. s.pc = "account" /\ s.kind = "deposit" /\ s.covers = covers /\ s.months = months
  BY DEF Idle
<1> HIDE DEF s
<1>6. Meant("client", s, sent["client"])
  BY <1>1, <1>2, <1>5 DEF Meant
<1> QED BY <1>1, <1>4, <1>5, <1>6, BeginSound

(* What is missing brings the account to what is required, which is at most *)
(* what the deals cost.                                                     *)
LEMMA ReadAccountSound ==
  ASSUME DealsAssumption, DealsSound, ReadAccount
  PROVE  DealsSound'
<1> DEFINE me == session["client"]
           missing == Required(me.covers, me.months) - AvailableFunds
           done == [me EXCEPT !.pc = "done", !.clean = TRUE]
           asks == [me EXCEPT !.pc = "deposit", !.missing = missing, !.clean = TRUE]
<1>1. /\ "client" \in Wallets /\ me \in Session /\ Meant("client", me, sent["client"]) /\ me.pc = "account"
      /\ faults' \in [FaultKinds -> Nat] /\ faults'["deals"] <= faults["deals"] /\ UNCHANGED <<chain, sent, told>>
  BY WalletFacts DEF ReadAccount, Wallets, At
<1>2. me.kind = "deposit" /\ sent["client"] = <<>>
  BY <1>1 DEF Meant
<1>3. Required(me.covers, me.months) \in Nat /\ Required(me.covers, me.months) <= Most
  BY <1>1, <1>2, CoveredHasRail
<1>4. Available \in Int /\ Most \in Nat /\ AvailableFunds = Available
  BY FundsAreNumbers DEF AvailableFunds, Available
<1>5. ~At("client", "created")
  BY <1>1 DEF At
<1>6. CASE Sufficient(missing)
  <2>1. Becomes("client", done)
    BY <1>6 DEF ReadAccount
  <2>2. done \in Session
    BY <1>1 DEF Session, Pcs
  <2>3. done.pc = "done" /\ done.kind = "deposit" /\ done.covers = me.covers /\ done.months = me.months
    BY <1>1, <1>2 DEF Session
  <2>4. Available >= Required(me.covers, me.months)
    BY <1>3, <1>4, <1>6 DEF Sufficient
  <2>5. Meant("client", done, sent["client"])
    BY <1>1, <1>2, <2>3 DEF Meant
  <2>6. FundsFor(done)
    BY <2>3, <2>4 DEF FundsFor, Enough
  <2> HIDE DEF done, me
  <2> QED BY <1>1, <1>5, <2>1, <2>2, <2>5, <2>6, GoesOn
<1>7. CASE ~Sufficient(missing)
  <2>1. Becomes("client", asks)
    BY <1>7 DEF ReadAccount
  <2>2. missing \in Nat /\ Available + missing = Required(me.covers, me.months)
    BY <1>3, <1>4, <1>7 DEF Sufficient
  <2> HIDE DEF missing
  <2>3. asks \in Session
    BY <1>1, <2>2 DEF Session, Pcs
  <2>4. asks.pc = "deposit" /\ asks.kind = "deposit" /\ asks.covers = me.covers /\ asks.months = me.months
        /\ asks.missing = missing
    BY <1>1, <1>2 DEF Session
  <2>5. Meant("client", asks, sent["client"])
    BY <1>1, <1>2, <2>4 DEF Meant
  <2>6. FundsFor(asks)
    BY <1>3, <2>2, <2>4 DEF FundsFor, Enough
  <2> HIDE DEF asks, me
  <2> QED BY <1>1, <1>5, <2>1, <2>3, <2>5, <2>6, GoesOn
<1> QED BY <1>6, <1>7

(* A transaction that did nothing to the deals is gone.                      *)
LEMMA TxGone ==
  ASSUME DealsAssumption, DealsSound, NEW w \in Wallets, sent[w] # <<>>, sent' = [sent EXCEPT ![w] = <<>>],
         adapter' # adapter => adapter' \in Adapters, deals' = deals, account' = account, told' = told,
         faults' \in [FaultKinds -> Nat], faults'["deals"] <= faults["deals"],
         session' = IF At(w, "waiting") THEN [session EXCEPT ![w] = Idle] ELSE session
  PROVE  DealsSound'
<1> DEFINE me == session[w]
<1>1. me \in Session /\ Meant(w, me, sent[w]) /\ session = [session EXCEPT ![w] = me]
  BY WalletFacts
<1>2. told' \subseteq Known /\ MeantTx(w, <<>>)
  BY DEF DealsSound, TypeOK, MeantTx
<1>3. CASE me.pc = "waiting"
  <2>1. session' = [session EXCEPT ![w] = Idle]
    BY <1>3 DEF At
  <2>2. Idle \in Session /\ FundsFor(Idle) /\ Meant(w, Idle, <<>>)
    BY IdleFacts
  <2> QED BY <1>1, <1>2, <1>3, <2>1, <2>2, OneStep
<1>4. CASE me.pc # "waiting"
  <2>1. session' = [session EXCEPT ![w] = me]
    BY <1>1, <1>4 DEF At
  <2>2. Meant(w, me, <<>>)
    BY <1>1, <1>4 DEF Meant
  <2>3. w = "client" => FundsFor(me)
    BY DEF DealsSound, FundsSound
  <2> HIDE DEF me
  <2>4. session[w].pc = "created" => me.pc = "created" /\ me.deal = session[w].deal
    BY DEF me
  <2> QED BY <1>1, <1>2, <2>1, <2>2, <2>3, <2>4, OneStep
<1> QED BY <1>3, <1>4

LEMMA DropSound ==
  ASSUME DealsAssumption, DealsSound, NEW w \in Wallets, Drop(w)
  PROVE  DealsSound'
<1>1. /\ faults' \in [FaultKinds -> Nat] /\ faults'["deals"] <= faults["deals"]
      /\ adapter' = adapter /\ deals' = deals /\ account' = account /\ told' = told
      /\ sent[w] # <<>> /\ sent' = [sent EXCEPT ![w] = <<>>]
  BY FaultFacts DEF Drop, chain
<1>2. session' = IF At(w, "waiting") THEN [session EXCEPT ![w] = Idle] ELSE session
  BY DEF Drop, Stops, Becomes
<1> QED BY <1>1, <1>2, TxGone

-----------------------------------------------------------------------------
(* A transaction lands.                                                     *)

LEMMA LandsSound ==
  ASSUME DealsAssumption, DealsSound, NEW w \in Wallets, NEW s \in Session,
         sent' = [sent EXCEPT ![w] = <<>>], session' = [session EXCEPT ![w] = s],
         told' = told, faults' = faults, adapter' \in Adapters,
         account' \in [funds : Nat, lockup : Nat, owed : Nat], DealsKept, FundsSound',
         \/ session[w].pc # "waiting" /\ s = session[w]
         \/ session[w].pc = "waiting" /\ Meant(w, s, <<>>)',
         \A d \in Known' \ Known : deals'[d].watched => s.pc = "created" /\ s.deal = d
  PROVE  DealsSound'
<1>1. TypeOK /\ Meant(w, session[w], sent[w]) /\ faults \in [FaultKinds -> Nat] /\ faults["deals"] \in Nat
  BY WalletFacts DEF DealsSound
<1>2. Known \subseteq Known' /\ Railed \subseteq Railed'
  BY <1>1, KnownStay
<1>3. told \subseteq told' /\ told' \subseteq Known'
  BY <1>1, <1>2 DEF TypeOK
<1>4. MeantTx(w, <<>>)
  BY DEF MeantTx
<1>5. Meant(w, s, <<>>)'
  <2>1. CASE session[w].pc # "waiting" /\ s = session[w]
    <3>1. Meant(w, s, sent[w])
      BY <1>1, <2>1
    <3>2. s.pc = "created" => s.deal \in Known' /\ deals'[s.deal].hash = Type(s.adapter)
      BY <3>1, <1>2 DEF Meant, DealsKept
    <3>3. s.kind = "deposit" => s.covers \subseteq Railed'
      BY <3>1, <1>2 DEF Meant
    <3> QED BY <2>1, <3>1, <3>2, <3>3 DEF Meant
  <2> QED BY <2>1
<1>6. session[w].pc = "created" => s.pc = "created" /\ s.deal = session[w].deal
  OBVIOUS
<1>7. faults' \in [FaultKinds -> Nat] /\ faults'["deals"] <= faults["deals"]
  BY <1>1
<1> QED BY <1>3, <1>4, <1>5, <1>6, <1>7, Moves

LEMMA LandEndSound ==
  ASSUME DealsAssumption, DealsSound, NEW w \in Wallets, Land(w), Accepts(sent[w]),
         sent[w].kind \in {"reject", "terminate", "finalize"}
  PROVE  DealsSound'
<1> DEFINE me == session[w]
           tx == sent[w]
           d == tx.deal
<1>0. TypeOK /\ me \in Session /\ Meant(w, me, tx) /\ session = [session EXCEPT ![w] = me]
  BY WalletFacts DEF DealsSound
<1>1. d \in Known
  BY DEF Accepts
<1>2. PICK state \in {"REJECTED", "EARLY_TERMINATED", "FINALIZED"} :
        deals' = [deals EXCEPT ![d].state = state] /\ adapter' = adapter /\ account' = account
  BY DEF Land, Effect, Ends
<1>3. sent' = [sent EXCEPT ![w] = <<>>] /\ told' = told /\ faults' = faults
  BY DEF Land
<1>4. PICK s : s = IF me.pc = "waiting" THEN Idle ELSE me
  OBVIOUS
<1>5. session' = [session EXCEPT ![w] = s]
  BY <1>0, <1>4 DEF Land, At, Stops, Becomes
<1>6. deals \in Seq(Deal) /\ deals[d] \in Deal /\ d \in DOMAIN deals
  BY <1>0, <1>1 DEF TypeOK, Known
<1>7. PICK e \in Deal : deals' = [deals EXCEPT ![d] = e] /\ e = [deals[d] EXCEPT !.state = state]
  BY <1>2, <1>6 DEF Deal
<1>8. e.hash = deals[d].hash /\ e.adapter = deals[d].adapter /\ e.size = deals[d].size /\ e.price = deals[d].price
      /\ e.dearest = deals[d].dearest /\ e.rail = deals[d].rail /\ e.watched = deals[d].watched
  BY <1>6, <1>7 DEF Deal
<1>9. DealsKept /\ RailsKept /\ Known' = Known
  BY <1>0, <1>1, <1>7, <1>8, OneDealChanges
<1>10. s \in Session /\ (me.pc = "waiting" => Meant(w, s, <<>>)' /\ FundsFor(s) /\ s.kind # "deposit" /\ s.pc # "deposit")
  <2>1. CASE me.pc = "waiting"
    <3>1. s = Idle
      BY <1>4, <2>1
    <3>2. s.pc = "idle" /\ s.kind = "none"
      BY <3>1 DEF Idle
    <3>3. Meant(w, s, <<>>)'
      BY <3>2 DEF Meant
    <3> QED BY <3>1, <3>2, <3>3, IdleFacts
  <2>2. CASE me.pc # "waiting"
    BY <1>0, <1>4, <2>2
  <2> QED BY <2>1, <2>2
<1>11. FundsSound'
  <2>1. CASE w # "client"
    BY <1>2, <1>3, <1>5, <1>9, <1>10, <2>1, FundsStay
  <2>2. CASE w = "client"
    <3>1. FundsFor(me) /\ (me.kind = "deposit" \/ me.pc = "deposit" => me.covers \in SUBSET Known)
      BY <1>0, <2>2, CoveredHasRail DEF DealsSound, FundsSound
    <3>2. FundsFor(s) /\ (s.kind = "deposit" \/ s.pc = "deposit" => s.covers \in SUBSET Known)
      BY <1>4, <1>10, <3>1
    <3> QED BY <1>2, <1>3, <1>5, <1>9, <1>10, <3>2, FundsStay
  <2> QED BY <2>1, <2>2
<1>12. adapter' \in Adapters /\ account' \in [funds : Nat, lockup : Nat, owed : Nat]
  BY <1>0, <1>2 DEF TypeOK
<1>13. \/ session[w].pc # "waiting" /\ s = session[w]
       \/ session[w].pc = "waiting" /\ Meant(w, s, <<>>)'
  BY <1>4, <1>10
<1> QED BY <1>3, <1>5, <1>9, <1>10, <1>11, <1>12, <1>13, LandsSound

LEMMA LandProposalSound ==
  ASSUME DealsAssumption, DealsSound, NEW w \in Wallets, Land(w), Accepts(sent[w]), sent[w].kind = "propose"
  PROVE  DealsSound'
<1> DEFINE me == session[w]
           tx == sent[w]
           mine == me.pc = "waiting"
           created == [me EXCEPT !.pc = "created", !.deal = Len(deals) + 1]
<1>0. /\ TypeOK /\ me \in Session /\ Meant(w, me, tx) /\ MeantTx(w, tx) /\ session = [session EXCEPT ![w] = me]
      /\ tx # <<>> /\ tx \in Transaction \cup {<<>>} /\ faults["deals"] \in Nat
  BY WalletFacts DEF DealsSound, Land
<1>1. tx \in Transaction /\ tx.adapter \in Adapters /\ tx.max \in Limits
  BY <1>0 DEF MeantTx
<1>2. tx.size \in Nat
  BY <1>1 DEF Transaction
<1>3. Len(deals) < faults["deals"] /\ faults["deals"] <= MaxDeals /\ MaxDeals \in Nat
  BY DEF Accepts, DealsSound, DealsAssumption
<1>4. PICK price \in {p \in Prices : p <= tx.max} : deals' = Append(deals, NewDeal(tx, price, mine))
  BY DEF Land, Effect, At
<1>5. adapter' = adapter /\ account' = account /\ sent' = [sent EXCEPT ![w] = <<>>] /\ told' = told /\ faults' = faults
  BY DEF Land, Effect
<1>6. PICK new \in Deal : new = NewDeal(tx, price, mine)
  <2>1. adapter \in Adapters
    BY <1>0 DEF TypeOK
  <2>2. Type(tx.adapter) \in Types
    BY DEF Type, Types
  <2>3. mine \in BOOLEAN
    BY DEF mine
  <2> HIDE DEF mine
  <2>4. NewDeal(tx, price, mine) \in Deal
    BY <1>1, <1>2, <2>1, <2>2, <2>3 DEF NewDeal, Deal
  <2> QED BY <2>4
<1>7. new.hash = Type(tx.adapter) /\ new.price <= new.dearest /\ ~new.rail /\ (new.watched => mine)
  BY <1>6 DEF NewDeal
<1> DEFINE n == Len(deals) + 1
<1>8. /\ deals \in Seq(Deal) /\ Len(deals) \in Nat /\ deals' \in Seq(Deal) /\ Len(deals') = n
      /\ Known = 1 .. Len(deals) /\ Known' = 1 .. n
      /\ deals'[n] = new /\ \A d \in Known : deals'[d] = deals[d]
  BY <1>0, <1>4, <1>6 DEF TypeOK, Known
<1>9. Len(deals) <= Len(deals') /\ Len(deals') <= MaxDeals
  BY <1>0, <1>3, <1>8
<1>10. Known' \ Known = {n}
  BY <1>8
<1> HIDE DEF n
<1>11. DealsKept /\ RailsKept
  BY <1>7, <1>8, <1>9, <1>10 DEF DealsKept, RailsKept
<1>12. PICK s : s = IF mine THEN created ELSE me
  OBVIOUS
<1>13. session' = [session EXCEPT ![w] = s]
  BY <1>0, <1>12 DEF Land, At, Becomes
<1>14. CASE mine
  <2>1. n \in 0 .. MaxDeals
    BY <1>3, <1>8, <1>9 DEF n
  <2>2. s = [me EXCEPT !.pc = "created", !.deal = n]
    BY <1>12, <1>14 DEF n
  <2>3. s \in Session
    BY <1>0, <2>1, <2>2 DEF Session, Pcs
  <2>4. tx = Tx(me)
    BY <1>0, <1>14 DEF Meant
  <2>5. me.kind = "propose" /\ me.adapter = tx.adapter /\ me.max = tx.max
    BY <2>4 DEF Tx
  <2>6. s.pc = "created" /\ s.deal = n /\ s.kind = "propose" /\ s.adapter = tx.adapter /\ s.max = tx.max
    BY <1>0, <2>2, <2>5 DEF Session
  <2>7. n \in Known' /\ deals'[n].hash = Type(s.adapter)
    BY <1>7, <1>8, <1>10, <2>6
  <2>8. Meant(w, s, <<>>)'
    BY <1>1, <2>6, <2>7 DEF Meant
  <2>9. FundsFor(s) /\ s.kind # "deposit" /\ s.pc # "deposit"
    BY <2>6 DEF FundsFor
  <2>10. FundsSound'
    BY <1>5, <1>11, <1>13, <2>3, <2>9, FundsStay
  <2>11. adapter' \in Adapters /\ account' \in [funds : Nat, lockup : Nat, owed : Nat]
    BY <1>0, <1>5 DEF TypeOK
  <2> QED BY <1>5, <1>10, <1>11, <1>13, <1>14, <2>3, <2>6, <2>8, <2>10, <2>11, LandsSound
<1>15. CASE ~mine
  <2>1. s = me /\ s \in Session
    BY <1>0, <1>12, <1>15
  <2>2. w = "client" => FundsFor(s)
    BY <2>1 DEF DealsSound, FundsSound
  <2>3. s.kind = "deposit" \/ s.pc = "deposit" => s.covers \in SUBSET Known
    BY <1>0, <2>1, CoveredHasRail
  <2>4. FundsSound'
    BY <1>5, <1>11, <1>13, <2>1, <2>2, <2>3, FundsStay
  <2>5. adapter' \in Adapters /\ account' \in [funds : Nat, lockup : Nat, owed : Nat]
    BY <1>0, <1>5 DEF TypeOK
  <2>6. \A d \in Known' \ Known : ~deals'[d].watched
    BY <1>7, <1>8, <1>10, <1>15
  <2> QED BY <1>5, <1>11, <1>13, <1>15, <2>1, <2>4, <2>5, <2>6, LandsSound
<1> QED BY <1>14, <1>15

(* The deposit was meant for what is there: now it is there.                *)
LEMMA LandDepositSound ==
  ASSUME DealsAssumption, DealsSound, NEW w \in Wallets, Land(w), sent[w].kind = "deposit"
  PROVE  DealsSound'
<1> DEFINE me == session["client"]
           tx == sent["client"]
           done == [Idle EXCEPT !.pc = "done", !.kind = me.kind, !.deal = me.deal, !.covers = me.covers,
                                !.months = me.months, !.clean = me.clean]
<1>0. /\ TypeOK /\ tx # <<>> /\ w = "client" /\ tx \in Transaction /\ tx.missing \in Nat
      /\ me \in Session /\ Meant("client", me, tx) /\ session = [session EXCEPT !["client"] = me]
      /\ me.missing \in Nat
  <2>1. w = "client"
    BY WalletFacts DEF MeantTx, Land
  <2> QED BY <2>1, WalletFacts, FundsAreNumbers DEF DealsSound, Land
<1>1. Accepts(tx)
  BY <1>0 DEF Accepts
<1>2. /\ adapter' = adapter /\ deals' = deals /\ account' = [account EXCEPT !.funds = account.funds + tx.missing]
      /\ sent' = [sent EXCEPT !["client"] = <<>>] /\ told' = told /\ faults' = faults
  BY <1>0, <1>1 DEF Land, Effect
<1>3. /\ account \in [funds : Nat, lockup : Nat, owed : Nat]
      /\ account' \in [funds : Nat, lockup : Nat, owed : Nat]
      /\ Available \in Int /\ Available' = Available + tx.missing
  <2>1. account \in [funds : Nat, lockup : Nat, owed : Nat]
    BY <1>0 DEF TypeOK
  <2>2. tx.missing \in Nat
    BY <1>0 DEF Transaction
  <2>3. PICK more \in Nat : more = tx.missing
    BY <2>2
  <2>4. account' = [account EXCEPT !.funds = account.funds + more]
    BY <1>2, <2>3
  <2>5. account' \in [funds : Nat, lockup : Nat, owed : Nat]
        /\ account'.funds = account.funds + more /\ account'.lockup = account.lockup
    BY <2>1, <2>4
  <2> QED BY <2>1, <2>3, <2>5 DEF Available
<1>4. DealsKept /\ RailsKept /\ Known' = Known
  BY <1>0, <1>2, DealsStay DEF Known
<1>5. Most' = Most /\ \A covers \in SUBSET Known : \A m : Required(covers, m)' = Required(covers, m)
  BY <1>0, <1>4, CostsStay
<1>6. Available' <= Most'
  BY <1>0, <1>3, <1>5 DEF DealsSound, FundsSound
<1>7. FundsFor(me)
  BY DEF DealsSound, FundsSound
<1>8. PICK covers, months :
        /\ covers = me.covers /\ months = me.months
        /\ me.kind = "deposit" => /\ covers \in SUBSET Known /\ Required(covers, months) \in Nat
                                 /\ Required(covers, months)' = Required(covers, months)
  <2>1. PICK covers, months : covers = me.covers /\ months = me.months
    OBVIOUS
  <2>2. me.kind = "deposit" => covers \in SUBSET Known /\ Required(covers, months) \in Nat
    <3>1. "client" \in Wallets
      BY DEF Wallets
    <3> QED BY <1>0, <2>1, <3>1, CoveredHasRail
  <2> QED BY <1>5, <2>1, <2>2
<1>9. PICK s : s = IF me.pc = "waiting" THEN done ELSE me
  OBVIOUS
<1>10. session' = [session EXCEPT !["client"] = s]
  BY <1>0, <1>1, <1>9 DEF Land, At, Done, Becomes
<1>11. session'["client"] = s /\ sent'["client"] = <<>>
  BY <1>0, <1>2, <1>10 DEF TypeOK
<1>12. CASE me.pc = "waiting"
  <2>1. tx = Tx(me)
    BY <1>0, <1>12 DEF Meant
  <2>2. me.kind = "deposit" /\ me.missing = tx.missing
    BY <1>0, <2>1 DEF Tx
  <2>3. s \in Session
    BY <1>0, <1>9, <1>12 DEF Session, Idle, Pcs
  <2>4. s.pc = "done" /\ s.kind = "deposit" /\ s.covers = covers /\ s.months = months /\ s.clean = me.clean
    BY <1>0, <1>8, <1>9, <1>12, <2>2 DEF Idle
  <2>5. me.clean => Available + tx.missing >= Required(covers, months)
    BY <1>7, <1>8, <1>12, <2>2 DEF FundsFor, Enough
  <2>6. FundsFor(s)'
    BY <1>3, <1>8, <2>2, <2>4, <2>5 DEF FundsFor, Enough
  <2>7. FundsSound'
    BY <1>6, <1>11, <2>6 DEF FundsSound
  <2>8. covers \subseteq Railed /\ months \in Months
    BY <1>0, <1>8, <2>2 DEF Meant
  <2>9. Meant(w, s, <<>>)'
    BY <1>0, <1>2, <2>4, <2>8 DEF Meant, Railed, Known
  <2> QED BY <1>0, <1>2, <1>3, <1>4, <1>10, <1>12, <2>3, <2>7, <2>9, LandsSound DEF TypeOK
<1>13. CASE me.pc # "waiting"
  <2>1. s = me /\ me.pc # "deposit"
    BY <1>0, <1>9, <1>13 DEF Meant
  <2>2. me.pc = "done" /\ me.kind = "deposit" /\ me.clean => Available >= Required(covers, months)
    BY <1>7, <1>8 DEF FundsFor, Enough
  <2>3. s.covers = covers /\ s.months = months /\ s.pc # "deposit" /\ s.pc # "waiting"
        /\ s.pc = me.pc /\ s.kind = me.kind /\ s.clean = me.clean
    BY <1>8, <1>13, <2>1
  <2>4. FundsFor(s)'
    BY <1>0, <1>3, <1>8, <2>2, <2>3 DEF FundsFor, Enough
  <2>5. FundsSound'
    BY <1>6, <1>11, <2>4 DEF FundsSound
  <2> QED BY <1>0, <1>2, <1>3, <1>4, <1>10, <1>13, <2>1, <2>5, LandsSound DEF TypeOK
<1> QED BY <1>12, <1>13

LEMMA LandSound ==
  ASSUME DealsAssumption, DealsSound, NEW w \in Wallets, Land(w)
  PROVE  DealsSound'
<1> DEFINE tx == sent[w]
<1>1. tx # <<>> /\ tx \in Transaction
  BY WalletFacts DEF Land
<1>2. tx.kind \in Kinds
  BY <1>1 DEF Transaction
<1>3. CASE Accepts(tx) /\ tx.kind \in {"propose", "deposit", "reject", "terminate", "finalize"}
  BY <1>3, LandProposalSound, LandDepositSound, LandEndSound
<1>4. CASE ~Accepts(tx) \/ tx.kind = "set"
  <2>1. adapter' # adapter => adapter' \in Adapters
    BY <1>1, <1>4, WalletFacts DEF Land, Effect, chain, MeantTx
  <2>2. deals' = deals /\ account' = account
    BY <1>4 DEF Land, Effect, chain
  <2>3. /\ sent' = [sent EXCEPT ![w] = <<>>] /\ told' = told
        /\ faults' \in [FaultKinds -> Nat] /\ faults'["deals"] <= faults["deals"]
    BY WalletFacts DEF Land
  <2>4. session' = IF At(w, "waiting") THEN [session EXCEPT ![w] = Idle] ELSE session
    BY <1>4 DEF Land, Stops, Becomes
  <2> QED BY <1>1, <2>1, <2>2, <2>3, <2>4, TxGone
<1> QED BY <1>2, <1>3, <1>4 DEF Kinds

-----------------------------------------------------------------------------
(* What others do to the deals and the account.  The client's command may   *)
(* no longer rely on what it read.                                          *)

LEMMA OthersMove ==
  ASSUME DealsAssumption, DealsSound, NEW s \in {session["client"], [session["client"] EXCEPT !.clean = FALSE]},
         session' = [session EXCEPT !["client"] = s], adapter' = adapter, sent' = sent, told' = told,
         faults' \in [FaultKinds -> Nat], faults'["deals"] <= faults["deals"],
         account' \in [funds : Nat, lockup : Nat, owed : Nat], DealsKept, Known' = Known, FundsSound'
  PROVE  DealsSound'
<1> DEFINE me == session["client"]
           tx == sent["client"]
<1>1. "client" \in Wallets
  BY DEF Wallets
<1>2. /\ TypeOK /\ me \in Session /\ Meant("client", me, tx) /\ MeantTx("client", tx)
      /\ tx \in Transaction \cup {<<>>} /\ sent' = [sent EXCEPT !["client"] = tx]
  BY <1>1, WalletFacts DEF DealsSound
<1>3. s \in Session
  BY <1>2 DEF Session
<1>4. /\ s.pc = me.pc /\ s.kind = me.kind /\ s.max = me.max /\ s.adapter = me.adapter /\ s.deal = me.deal
      /\ s.covers = me.covers /\ s.months = me.months /\ s.size = me.size /\ s.missing = me.missing
  BY <1>2 DEF Session
<1>5. Tx(s) = Tx(me)
  BY <1>4 DEF Tx
<1>6. PICK t : t = tx
  OBVIOUS
<1>7. Railed \subseteq Railed'
  BY <1>2, KnownStay
<1>8. s.pc = "created" => s.deal \in Known' /\ deals'[s.deal].hash = Type(s.adapter)
  BY <1>2, <1>4, <1>7 DEF Meant, DealsKept
<1>9. s.kind = "deposit" => s.covers \subseteq Railed'
  BY <1>2, <1>4, <1>7 DEF Meant
<1>10. Meant("client", s, t)'
  <2>1. Meant("client", me, t)
    BY <1>2, <1>6
  <2> HIDE DEF me, tx
  <2> QED BY <1>4, <1>5, <1>8, <1>9, <2>1 DEF Meant
<1>11. told' \subseteq Known' /\ adapter' \in Adapters
  BY <1>2 DEF TypeOK
<1>12. \A d \in Known' \ Known : deals'[d].watched => s.pc = "created" /\ s.deal = d
  OBVIOUS
<1>13. session["client"].pc = "created" => s.pc = "created" /\ s.deal = session["client"].deal
  BY <1>4
<1>14. MeantTx("client", t) /\ t \in Transaction \cup {<<>>} /\ sent' = [sent EXCEPT !["client"] = t]
  BY <1>2, <1>6
<1> QED BY <1>1, <1>3, <1>10, <1>11, <1>12, <1>13, <1>14, Moves

LEMMA FundsFall ==
  ASSUME DealsAssumption, DealsSound, DealsKept, RailsKept, NEW s,
         \/ s = session["client"] /\ Available' = Available
         \/ s = [session["client"] EXCEPT !.clean = FALSE] /\ Available' \in Int /\ Available' <= Available,
         session' = [session EXCEPT !["client"] = s], sent' = sent
  PROVE  FundsSound'
<1>1. "client" \in Wallets /\ TypeOK /\ FundsSound
  BY DEF Wallets, DealsSound
<1>2. PICK me, tx : me = session["client"] /\ tx = sent["client"]
  OBVIOUS
<1>3. /\ me \in Session /\ me.missing \in Nat /\ Available \in Int /\ Most \in Nat
      /\ tx # <<>> => tx.missing \in Nat
      /\ Meant("client", me, tx) /\ FundsFor(me)
  BY <1>1, <1>2, FundsAreNumbers, WalletFacts DEF FundsSound
<1>4. session'["client"] = s /\ sent'["client"] = tx
  BY <1>1, <1>2 DEF TypeOK
<1>5. Most' = Most /\ \A covers \in SUBSET Known : \A m : Required(covers, m)' = Required(covers, m)
  BY <1>1, CostsStay
<1>6. Available' \in Int /\ Available' <= Available
  BY <1>3
<1>7. tx # <<>> /\ tx.kind = "deposit" => Available' + tx.missing <= Most'
  <2>1. tx # <<>> /\ tx.kind = "deposit" => Available + tx.missing <= Most
    BY <1>1, <1>2 DEF FundsSound
  <2> QED BY <1>3, <1>5, <1>6, <2>1
<1>8. Available' <= Most'
  BY <1>1, <1>3, <1>5, <1>6 DEF FundsSound
<1>9. FundsFor(s)'
  <2>1. CASE s = session["client"] /\ Available' = Available
    <3>1. s = me
      BY <1>2, <2>1
    <3>2. s.kind = "deposit" \/ s.pc = "deposit" => s.covers \in SUBSET Known
      BY <1>1, <1>3, <3>1, CoveredHasRail
    <3> QED BY <1>3, <1>5, <2>1, <3>1, <3>2 DEF FundsFor, Enough
  <2>2. CASE s = [session["client"] EXCEPT !.clean = FALSE]
    <3>1. s.clean = FALSE /\ s.pc = me.pc /\ s.missing = me.missing
      BY <1>2, <1>3, <2>2 DEF Session
    <3>2. s.pc = "deposit" => Available' + s.missing <= Most'
      BY <1>3, <1>5, <1>6, <3>1 DEF FundsFor
    <3> QED BY <3>1, <3>2 DEF FundsFor, Enough
  <2> QED BY <2>1, <2>2
<1> QED BY <1>4, <1>7, <1>8, <1>9 DEF FundsSound

(* A month is paid for with every rail that is set: the account gets no     *)
(* more than the deal costs at most.                                        *)
LEMMA RailSetSound ==
  ASSUME DealsAssumption, DealsSound, NEW d \in Known, ~deals[d].rail,
         deals' = [deals EXCEPT ![d].rail = TRUE],
         account' = [account EXCEPT !.funds = @ + MonthlyCost(d)],
         UNCHANGED <<adapter, session, sent, told, faults>>
  PROVE  DealsSound'
<1>1. "client" \in Wallets /\ TypeOK /\ FundsSound
  BY DEF Wallets, DealsSound
<1>2. /\ deals[d] \in Deal /\ MonthlyCost(d) \in Nat /\ MostOf(d) \in Nat
      /\ deals[d].size \in Nat /\ deals[d].price \in Nat /\ deals[d].dearest \in Nat
  BY <1>1, DealsAreFinite, CostsOfDeal
<1>3. PICK e \in Deal : deals' = [deals EXCEPT ![d] = e] /\ e = [deals[d] EXCEPT !.rail = TRUE]
  BY <1>2 DEF Deal
<1>4. /\ e.hash = deals[d].hash /\ e.adapter = deals[d].adapter /\ e.size = deals[d].size /\ e.price = deals[d].price
      /\ e.dearest = deals[d].dearest /\ e.rail = TRUE /\ e.watched = deals[d].watched
  BY <1>2, <1>3 DEF Deal
<1>5. DealsKept /\ Known' = Known /\ deals'[d] = e /\ \A c \in Known : c # d => deals'[c] = deals[c]
  BY <1>1, <1>3, <1>4, OneDealChanges
<1>6. /\ account' \in [funds : Nat, lockup : Nat, owed : Nat]
      /\ Available \in Int /\ Available' = Available + MonthlyCost(d)
  <2>1. account \in [funds : Nat, lockup : Nat, owed : Nat]
    BY <1>1 DEF TypeOK
  <2>2. /\ account' \in [funds : Nat, lockup : Nat, owed : Nat]
        /\ account'.funds = account.funds + MonthlyCost(d) /\ account'.lockup = account.lockup
    BY <1>2, <2>1
  <2> QED BY <1>2, <2>1, <2>2 DEF Available
<1>7. Railed = Railed' \ {d} /\ d \in Railed' /\ IsFiniteSet(Railed')
  <2>1. IsFiniteSet(Railed) /\ Railed \subseteq Known
    BY <1>1, DealsAreFinite
  <2>2. ASSUME NEW c \in Railed' PROVE c = d \/ c \in Railed
    BY <1>5, <2>2 DEF Railed
  <2>3. ASSUME NEW c \in Railed PROVE c \in Railed' /\ c # d
    BY <1>5, <2>3, KnownStay, <1>1 DEF Railed
  <2>4. d \in Railed'
    BY <1>4, <1>5 DEF Railed
  <2>5. Railed' = Railed \cup {d}
    BY <2>2, <2>3, <2>4
  <2>6. IsFiniteSet(Railed')
    BY <2>1, <2>5, FS_AddElement
  <2> QED BY <2>2, <2>3, <2>4, <2>6
<1>8. \A c \in Known : MostOf(c)' = MostOf(c)
  BY <1>4, <1>5 DEF MostOf, DealsKept
<1>9. MonthlyCost(d) <= MostOf(d)
  <2>1. Max(Months) \in Nat /\ 1 <= Max(Months)
    BY LongestTime DEF DealsAssumption
  <2>2. deals[d].price <= deals[d].dearest
    BY DEF DealsSound
  <2>3. DepositAmount(deals[d].size, deals[d].price, 1) <= Max(Months) * DepositAmount(deals[d].size, deals[d].dearest, 1)
    BY <1>2, <2>1, <2>2, DepositAtMost
  <2> QED BY <2>3 DEF MonthlyCost, MostOf
<1>10. Most \in Nat /\ Most' \in Nat /\ Most + MostOf(d) <= Most'
  <2>1. PICK S, T : S = Railed /\ T = Railed'
    OBVIOUS
  <2> DEFINE f == [c \in S |-> MostOf(c)]
             g == [c \in T |-> MostOf(c)]
  <2>2. S = T \ {d} /\ d \in T /\ IsFiniteSet(T) /\ S \in SUBSET T /\ T \in SUBSET Known
    BY <1>5, <1>7, <2>1 DEF Railed
  <2>3. f \in [S -> Nat] /\ g \in [T -> Nat]
    BY <1>1, <2>2, CostsOfDeal
  <2>4. (\A c \in S : f[c] <= g[c]) /\ g[d] = MostOf(d)
    BY <2>2, <2>3
  <2>5. f = [c \in Railed |-> MostOf(c)] /\ g = [c \in Railed |-> MostOf(c)]'
    BY <1>8, <2>1, <2>2
  <2> HIDE DEF f, g
  <2>6. SumFunction(f) \in Nat /\ SumFunction(g) \in Nat /\ SumFunction(f) + g[d] <= SumFunction(g)
    BY <2>2, <2>3, <2>4, SumWithOneMore
  <2>7. Most = SumFunction(f) /\ Most' = SumFunction(g)
    BY <2>5 DEF Most
  <2> QED BY <2>4, <2>6, <2>7
<1>11. \A k \in Nat : Available + k <= Most => Available' + k <= Most'
  <2> DEFINE x == Available
             y == Available'
             c == MonthlyCost(d)
             a == MostOf(d)
             b == Most
             z == Most'
  <2>1. x \in Int /\ y = x + c /\ c \in Nat /\ a \in Nat /\ c <= a /\ b \in Nat /\ z \in Nat /\ b + a <= z
    BY <1>2, <1>6, <1>9, <1>10
  <2> HIDE DEF x, y, c, a, b, z
  <2>2. \A k \in Nat : x + k <= b => y + k <= z
    BY <2>1
  <2> QED BY <2>2 DEF x, y, b, z
<1>12. PICK me, tx : me = session["client"] /\ tx = sent["client"]
  OBVIOUS
<1>13. /\ me \in Session /\ me.missing \in Nat
       /\ tx # <<>> => tx.missing \in Nat
       /\ Meant("client", me, tx) /\ FundsFor(me)
  BY <1>1, <1>12, FundsAreNumbers, WalletFacts DEF FundsSound
<1>14. FundsFor(me)'
  <2>1. me.pc = "deposit" => Available' + me.missing <= Most'
    BY <1>11, <1>13 DEF FundsFor
  <2>2. me.kind = "deposit" \/ me.pc = "deposit" =>
          Required(me.covers, me.months) \in Nat /\ Required(me.covers, me.months)' = Required(me.covers, me.months)
    <3>1. ASSUME NEW covers \in SUBSET Known, NEW m PROVE Required(covers, m)' = Required(covers, m)
      <4>1. [c \in covers |-> DepositAmount(deals[c].size, deals[c].price, m)]'
              = [c \in covers |-> DepositAmount(deals[c].size, deals[c].price, m)]
        BY <1>5 DEF DealsKept
      <4> QED BY <4>1 DEF Required
    <3> QED BY <1>1, <1>13, <3>1, CoveredHasRail
  <2>3. Available + me.missing <= Available' + me.missing /\ Available <= Available'
    BY <1>2, <1>6, <1>13
  <2>4. me.pc = "deposit" \/ (me.pc = "waiting" /\ me.kind = "deposit") => Enough(me, Available + me.missing)'
    BY <1>2, <1>6, <1>13, <2>2, <2>3 DEF FundsFor, Enough
  <2>5. me.pc = "done" /\ me.kind = "deposit" => Enough(me, Available)'
    BY <1>2, <1>6, <1>13, <2>2, <2>3 DEF FundsFor, Enough
  <2> QED BY <2>1, <2>4, <2>5 DEF FundsFor
<1>15. FundsSound'
  <2>1. Available' <= Most'
    BY <1>1, <1>2, <1>6, <1>9, <1>10 DEF FundsSound
  <2>2. tx # <<>> /\ tx.kind = "deposit" => Available' + tx.missing <= Most'
    BY <1>1, <1>11, <1>12, <1>13 DEF FundsSound
  <2>3. session'["client"] = me /\ sent'["client"] = tx
    BY <1>12
  <2> QED BY <1>14, <2>1, <2>2, <2>3 DEF FundsSound
<1>16. session' = [session EXCEPT !["client"] = session["client"]]
       /\ faults' \in [FaultKinds -> Nat] /\ faults'["deals"] <= faults["deals"]
  BY <1>1, WalletFacts
<1>17. session["client"] \in {session["client"], [session["client"] EXCEPT !.clean = FALSE]}
  OBVIOUS
<1> QED BY <1>5, <1>6, <1>15, <1>16, <1>17, OthersMove

(* Everything else makes the account have less at its disposal, or nothing. *)
LEMMA FallSound ==
  ASSUME DealsAssumption, DealsSound, DealsKept, RailsKept, Known' = Known, NEW s,
         \/ s = session["client"] /\ account'.funds - account'.lockup = account.funds - account.lockup
         \/ /\ s = [session["client"] EXCEPT !.clean = FALSE]
            /\ account'.funds - account'.lockup <= account.funds - account.lockup,
         session' = [session EXCEPT !["client"] = s], UNCHANGED <<adapter, sent, told>>,
         account' \in [funds : Nat, lockup : Nat, owed : Nat],
         faults' \in [FaultKinds -> Nat], faults'["deals"] <= faults["deals"]
  PROVE  DealsSound'
<1>1. Available' \in Int
  BY DEF Available
<1>2. FundsSound'
  BY <1>1, FundsFall DEF Available
<1>3. s \in {session["client"], [session["client"] EXCEPT !.clean = FALSE]}
  OBVIOUS
<1> QED BY <1>2, <1>3, OthersMove

LEMMA ProgressSound ==
  ASSUME DealsAssumption, DealsSound, NEW d \in Known, Progress(d)
  PROVE  DealsSound'
<1> DEFINE posts == [deals[d] EXCEPT !.posted = TRUE]
           starts == [deals[d] EXCEPT !.state = "ACTIVE"]
           cost == MonthlyCost(d)
<1>1. /\ TypeOK /\ "client" \in Wallets /\ deals \in Seq(Deal) /\ d \in DOMAIN deals /\ deals[d] \in Deal
      /\ account \in [funds : Nat, lockup : Nat, owed : Nat] /\ cost \in Nat
  <2>1. TypeOK
    BY DEF DealsSound
  <2> QED BY <2>1, DealsAreFinite, CostsOfDeal DEF TypeOK, Wallets, Known
<1>2. /\ UNCHANGED <<adapter, sent, told>> /\ session = [session EXCEPT !["client"] = session["client"]]
      /\ faults' \in [FaultKinds -> Nat] /\ faults'["deals"] <= faults["deals"]
  BY <1>1, WalletFacts DEF Progress
<1>3. CASE ~deals[d].rail /\ deals' = [deals EXCEPT ![d].rail = TRUE] /\ UNCHANGED session
           /\ account' = [account EXCEPT !.funds = @ + MonthlyCost(d)]
  BY <1>3, RailSetSound DEF Progress
<1>4. CASE deals' = [deals EXCEPT ![d].posted = TRUE] /\ UNCHANGED <<account, session>>
  <2>1. PICK e \in Deal : deals' = [deals EXCEPT ![d] = e] /\ e = posts
    BY <1>1, <1>4 DEF Deal
  <2>2. /\ e.hash = deals[d].hash /\ e.adapter = deals[d].adapter /\ e.size = deals[d].size /\ e.price = deals[d].price
        /\ e.dearest = deals[d].dearest /\ e.rail = deals[d].rail /\ e.watched = deals[d].watched
    BY <1>1, <2>1 DEF Deal
  <2>3. DealsKept /\ Known' = Known /\ RailsKept
    BY <1>1, <2>1, <2>2, OneDealChanges
  <2> QED BY <1>1, <1>2, <1>4, <2>3, FallSound
<1>5. CASE /\ deals' = [deals EXCEPT ![d].state = "ACTIVE"]
           /\ account' = [account EXCEPT !.lockup = @ + account.owed + MonthlyCost(d), !.owed = 0]
           /\ session' = [session EXCEPT !["client"].clean = FALSE]
  <2>1. PICK e \in Deal : deals' = [deals EXCEPT ![d] = e] /\ e = starts
    BY <1>1, <1>5 DEF Deal
  <2>2. /\ e.hash = deals[d].hash /\ e.adapter = deals[d].adapter /\ e.size = deals[d].size /\ e.price = deals[d].price
        /\ e.dearest = deals[d].dearest /\ e.rail = deals[d].rail /\ e.watched = deals[d].watched
    BY <1>1, <2>1 DEF Deal
  <2>3. DealsKept /\ Known' = Known /\ RailsKept
    BY <1>1, <2>1, <2>2, OneDealChanges
  <2>4. /\ account' \in [funds : Nat, lockup : Nat, owed : Nat]
        /\ account'.funds - account'.lockup <= account.funds - account.lockup
    <3>1. account.funds \in Nat /\ account.lockup \in Nat /\ account.owed \in Nat
      BY <1>1
    <3> DEFINE lockup == account.lockup + account.owed + cost
    <3>2. lockup \in Nat /\ lockup >= account.lockup
      BY <1>1, <3>1
    <3> HIDE DEF lockup
    <3>3. account' = [account EXCEPT !.lockup = lockup, !.owed = 0]
      BY <1>5 DEF lockup
    <3>4. account'.funds = account.funds /\ account'.lockup = lockup /\ account' \in [funds : Nat, lockup : Nat, owed : Nat]
      BY <1>1, <3>2, <3>3
    <3> QED BY <3>1, <3>2, <3>4
  <2>5. session' = [session EXCEPT !["client"] = [session["client"] EXCEPT !.clean = FALSE]]
    BY <1>5
  <2> QED BY <1>1, <1>2, <2>3, <2>4, <2>5, FallSound
<1> QED BY <1>3, <1>4, <1>5 DEF Progress

LEMMA AccrueSound ==
  ASSUME DealsAssumption, DealsSound, Accrue
  PROVE  DealsSound'
<1>1. TypeOK /\ "client" \in Wallets /\ account \in [funds : Nat, lockup : Nat, owed : Nat]
  BY DEF DealsSound, TypeOK, Wallets
<1>2. /\ UNCHANGED <<adapter, sent, told>> /\ session' = [session EXCEPT !["client"] = session["client"]]
      /\ faults' \in [FaultKinds -> Nat] /\ faults'["deals"] <= faults["deals"] /\ deals' = deals
  BY <1>1, WalletFacts DEF Accrue
<1>3. account' \in [funds : Nat, lockup : Nat, owed : Nat]
      /\ account'.funds - account'.lockup = account.funds - account.lockup
  BY <1>1 DEF Accrue
<1>4. DealsKept /\ RailsKept /\ Known' = Known
  BY <1>1, <1>2, DealsStay DEF Known
<1> QED BY <1>2, <1>3, <1>4, FallSound

LEMMA WithdrawSound ==
  ASSUME DealsAssumption, DealsSound, NEW amount \in Withdrawals, Withdraw(amount)
  PROVE  DealsSound'
<1>1. TypeOK /\ "client" \in Wallets /\ account \in [funds : Nat, lockup : Nat, owed : Nat] /\ amount \in Nat
  BY DEF DealsSound, TypeOK, Wallets, DealsAssumption
<1>2. /\ UNCHANGED <<adapter, sent, told>>
      /\ session' = [session EXCEPT !["client"] = [session["client"] EXCEPT !.clean = FALSE]]
      /\ faults' \in [FaultKinds -> Nat] /\ faults'["deals"] <= faults["deals"] /\ deals' = deals
  BY <1>1, FaultFacts DEF Withdraw
<1>3. account' \in [funds : Nat, lockup : Nat, owed : Nat]
      /\ account'.funds - account'.lockup <= account.funds - account.lockup
  BY <1>1 DEF Withdraw, Available
<1>4. DealsKept /\ RailsKept /\ Known' = Known
  BY <1>1, <1>2, DealsStay DEF Known
<1> QED BY <1>2, <1>3, <1>4, FallSound

-----------------------------------------------------------------------------

LEMMA InitSound ==
  ASSUME DealsAssumption, Init
  PROVE  DealsSound
<1>1. Known = {} /\ deals = <<>> /\ Len(deals) = 0
  BY DEF Init, Known
<1>2. faults \in [FaultKinds -> Nat] /\ faults["deals"] <= MaxDeals
  BY DEF Init, DealsAssumption
<1>3. session = [w \in Wallets |-> Idle] /\ sent = [w \in Wallets |-> <<>>] /\ "client" \in Wallets
  BY DEF Init, Wallets
<1>4. TypeOK
  <2>1. adapter \in Adapters
    BY DEF Init, DealsAssumption
  <2>2. session \in [Wallets -> Session]
    BY <1>3, IdleFacts
  <2>3. sent \in [Wallets -> Transaction \cup {<<>>}]
    BY <1>3
  <2>4. deals \in Seq(Deal) /\ Len(deals) <= MaxDeals
    BY <1>1 DEF DealsAssumption
  <2>5. account \in [funds : Nat, lockup : Nat, owed : Nat] /\ told \subseteq Known
    BY DEF Init
  <2> QED BY <1>2, <2>1, <2>2, <2>3, <2>4, <2>5 DEF TypeOK
<1>5. ASSUME NEW w \in Wallets PROVE Meant(w, session[w], sent[w]) /\ MeantTx(w, sent[w])
  BY <1>3, IdleFacts DEF MeantTx
<1>6. FundsSound
  <2>1. \A d \in Known : deals[d].price <= deals[d].dearest
    BY <1>1
  <2>2. Most \in Nat
    <3>1. {} \in SUBSET Railed /\ \E m \in Months : TRUE
      BY DEF DealsAssumption
    <3> QED BY <1>4, <2>1, <3>1, RequiredAtMost
  <2>3. Available = 0
    BY DEF Init, Available
  <2>4. FundsFor(session["client"]) /\ sent["client"] = <<>>
    BY <1>3, IdleFacts
  <2> QED BY <2>2, <2>3, <2>4 DEF FundsSound
<1>7. MismatchTold
  BY <1>1 DEF MismatchTold
<1> QED BY <1>1, <1>2, <1>4, <1>5, <1>6, <1>7 DEF DealsSound

LEMMA NextSound ==
  ASSUME DealsAssumption, DealsSound, [Next]_vars
  PROVE  DealsSound'
<1>1. ASSUME NEW w \in Wallets, Step(w) PROVE DealsSound'
  BY <1>1, ReadAdapterSound, SendsSound, CheckAdapterSound DEF Step
<1>2. ASSUME NEW w \in Wallets, Decline(w) \/ NoEvent(w) \/ Crash(w) PROVE DealsSound'
  BY <1>2, DeclineSound, LeavesSound
<1>3. ASSUME NEW w \in Wallets, Land(w) \/ Drop(w) PROVE DealsSound'
  BY <1>3, LandSound, DropSound
<1>4. ASSUME NEW max \in Limits, NEW m \in Manifests, ProposeDeal(max, m) \/ ProposeDealForOffer(max, m)
      PROVE  DealsSound'
  BY <1>4, BeginProposeSound DEF ProposeDeal, ProposeDealForOffer, Wallets
<1>5. CASE AdminStep \/ ClientStep
  BY <1>5, SendsSound, ReadAccountSound DEF AdminStep, ClientStep
<1>6. ASSUME NEW a \in Adapters, BeginSetAdapter(a) PROVE DealsSound'
  BY <1>6, BeginSetAdapterSound
<1>7. ASSUME NEW d \in Known, Progress(d) \/ TerminateDeal(d) \/ FinalizeDeal(d) PROVE DealsSound'
  BY <1>7, ProgressSound, BeginEndSound
<1>8. ASSUME NEW covers \in SUBSET Indices, NEW months \in Months, BeginDeposit(covers, months) PROVE DealsSound'
  BY <1>8, BeginDepositSound
<1>9. CASE Accrue
  BY <1>9, AccrueSound
<1>10. ASSUME NEW amount \in Withdrawals, Withdraw(amount) PROVE DealsSound'
  BY <1>10, WithdrawSound
<1>11. CASE UNCHANGED vars
  <2>1. TypeOK /\ "client" \in Wallets
    BY DEF DealsSound, Wallets
  <2>2. DealsKept /\ RailsKept /\ Known' = Known
    BY <1>11, <2>1, DealsStay DEF vars, Known
  <2>3. session' = [session EXCEPT !["client"] = session["client"]]
    BY <1>11, <2>1, WalletFacts DEF vars
  <2>4. account' \in [funds : Nat, lockup : Nat, owed : Nat] /\ account' = account
    BY <1>11, <2>1 DEF TypeOK, vars
  <2>5. UNCHANGED <<adapter, sent, told>> /\ faults' \in [FaultKinds -> Nat] /\ faults'["deals"] <= faults["deals"]
    BY <1>11, <2>1, WalletFacts DEF vars
  <2> QED BY <2>2, <2>3, <2>4, <2>5, FallSound
<1> QED BY <1>1, <1>2, <1>3, <1>4, <1>5, <1>6, <1>7, <1>8, <1>9, <1>10, <1>11 DEF Next

(* The invariant the theorems rest on: what every command knows at its      *)
(* step, what the pending deposits bring, and who looks at each new deal.   *)
LEMMA DealsInvariant == Spec => []DealsSound
<1>1. Init => DealsSound
  BY DealsAssumption, InitSound
<1>2. DealsSound /\ [Next]_vars => DealsSound'
  BY DealsAssumption, NextSound
<1> QED BY <1>1, <1>2, PTL DEF Spec

(* The variables have their types; there are never more deals than may be.  *)
THEOREM DealsTyped == Spec => []TypeOK
<1>1. DealsSound => TypeOK
  BY DEF DealsSound
<1> QED BY <1>1, DealsInvariant, PTL

(* propose-deal reads the adapter before its transaction and again after:   *)
(* a deal that got another type of adapter than its manifest hash is for is *)
(* reported, or still will be, unless its command is gone.                  *)
THEOREM MismatchIsTold == Spec => []MismatchTold
<1>1. DealsSound => MismatchTold
  BY DEF DealsSound
<1> QED BY <1>1, DealsInvariant, PTL

(* deposit-for-deals, when done, leaves what its deals require at disposal, *)
(* if nothing was locked or withdrawn since it read the account.            *)
THEOREM DepositsCover == Spec => []CoveredWhenDone
<1>1. DealsSound => CoveredWhenDone
  BY DEF DealsSound, FundsSound, FundsFor, Enough, CoveredWhenDone, At
<1> QED BY <1>1, DealsInvariant, PTL

(* Deposits never pile up, whichever commands die between a deposit and its *)
(* block and are run again: the command waits for what is pending before it *)
(* reads the account, so that no deposit is counted twice as missing.       *)
THEOREM DepositsNeverPileUp == Spec => []NeverOverfunded
<1>1. DealsSound => NeverOverfunded
  BY DealsAssumption, MostIsAtMost DEF DealsSound, FundsSound
<1> QED BY <1>1, DealsInvariant, PTL
=============================================================================
