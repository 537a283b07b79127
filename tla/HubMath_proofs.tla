---------------------------- MODULE HubMath_proofs ----------------------------
(***************************************************************************)
(* Proofs about HubMath for every amount, price and fee, and about the     *)
(* sums of amounts that the ledgers are stated with.                       *)
(*                                                                         *)
(* The sums are those of the library, a fold over a finite set.  What a    *)
(* fold computes takes induction over the set, and the induction theorems  *)
(* have an operator as parameter; SmallestCounterexample says the same     *)
(* with a set in its place.                                                *)
(***************************************************************************)
EXTENDS HubMath, FiniteSetsExt, FiniteSetTheorems, WellFoundedInduction, TLAPS

\* Truncating division: the quotient is the largest natural number whose
\* product with the divisor stays within the dividend.
LEMMA DivFloor ==
  ASSUME NEW a \in Nat, NEW b \in Nat \ {0}
  PROVE  /\ a \div b \in Nat
         /\ (a \div b) * b <= a
         /\ a < (a \div b) * b + b
  BY SMT

\* A dividend within q * b has a quotient within q.
LEMMA DivUpper ==
  ASSUME NEW a \in Nat, NEW b \in Nat \ {0}, NEW q \in Nat, a <= q * b
  PROVE  a \div b <= q
<1>1. SUFFICES ASSUME a \div b >= q + 1 PROVE FALSE
  BY DivFloor
<1>2. (a \div b) * b >= (q + 1) * b
  BY <1>1, DivFloor, SMT
<1>3. QED
  BY <1>2, DivFloor, SMT

\* A dividend of at least q * b has a quotient of at least q.
LEMMA DivLower ==
  ASSUME NEW a \in Nat, NEW b \in Nat \ {0}, NEW q \in Nat, q * b <= a
  PROVE  q <= a \div b
<1>1. SUFFICES ASSUME q >= (a \div b) + 1 PROVE FALSE
  BY DivFloor
<1>2. q * b >= ((a \div b) + 1) * b
  BY <1>1, DivFloor, SMT
<1>3. QED
  BY <1>2, DivFloor, SMT

\* Multiplication by a natural number is monotone.
LEMMA MulMono ==
  ASSUME NEW a \in Nat, NEW b \in Nat, NEW c \in Nat, a <= b
  PROVE  /\ a * c \in Nat
         /\ a * c <= b * c
  BY SMT

\* A fee of at most 100% lies between 0 and the amount: requestSubscription
\* and claimRedemption never underflow when they subtract it.
THEOREM FeeWithinAmountThm ==
  \A amount, bps \in Nat : FeeWithinAmount(amount, bps)
<1>1. SUFFICES ASSUME NEW amount \in Nat, NEW bps \in Nat, bps <= BPS_DENOMINATOR
               PROVE (amount * bps) \div BPS_DENOMINATOR \in 0 .. amount
  BY DEF FeeWithinAmount, getMintFees, getRedemptionFees
<1>2. BPS_DENOMINATOR \in Nat \ {0}
  BY HubMathAssumption
<1>3. amount * bps \in Nat /\ amount * bps <= amount * BPS_DENOMINATOR
  BY <1>1, <1>2, SMT
<1>4. (amount * bps) \div BPS_DENOMINATOR <= amount
  BY <1>2, <1>3, DivUpper
<1>5. QED
  BY <1>2, <1>3, <1>4, DivFloor

\* A deposit of at least BPS_DENOMINATOR always pays some of a non-zero fee.
THEOREM FeeNotRoundedAwayThm ==
  \A amount, bps \in Nat : FeeNotRoundedAway(amount, bps)
<1>1. SUFFICES ASSUME NEW amount \in Nat, NEW bps \in Nat,
                      amount >= BPS_DENOMINATOR, bps > 0
               PROVE (amount * bps) \div BPS_DENOMINATOR > 0
  BY DEF FeeNotRoundedAway, getMintFees
<1>2. BPS_DENOMINATOR \in Nat \ {0}
  BY HubMathAssumption
<1>3. amount * bps \in Nat /\ 1 * BPS_DENOMINATOR <= amount * bps
  BY <1>1, <1>2, SMT
<1>4. 1 <= (amount * bps) \div BPS_DENOMINATOR
  BY <1>2, <1>3, DivLower
<1>5. QED
  BY <1>2, <1>3, <1>4, DivFloor

\* Minting at a price and redeeming the USDX at the same price never pays
\* out more collateral than was deposited.
THEOREM RoundTripNoProfitThm ==
  \A depositAmt, price \in Nat : RoundTripNoProfit(depositAmt, price)
<1>1. SUFFICES ASSUME NEW depositAmt \in Nat, NEW price \in Nat, price > 0
               PROVE getRedemptionAmountForRwa(
                        getMintAmountForPrice(depositAmt, price), price)
                       <= depositAmt
  BY DEF RoundTripNoProfit
<1> DEFINE D == decimalsMultiplier
           U == PRICE_UNIT
           x == depositAmt
           minted == ((x * D) * U) \div price
           value == (minted * price) \div U
<1>2. D \in Nat \ {0} /\ U \in Nat \ {0}
  BY HubMathAssumption
<1>3. x * D \in Nat /\ (x * D) * U \in Nat
  BY <1>2, SMT
<1>4. minted \in Nat /\ minted * price <= (x * D) * U
  BY <1>1, <1>3, DivFloor
<1>5. minted * price \in Nat
  BY <1>4, SMT
<1> HIDE DEF minted
<1>6. value \in Nat /\ value <= x * D
  BY <1>2, <1>3, <1>4, <1>5, DivUpper, DivFloor
<1> HIDE DEF value
<1>7. value \div D <= x
  BY <1>2, <1>6, DivUpper
<1>8. QED
  BY <1>7 DEF minted, value, getRedemptionAmountForRwa, getMintAmountForPrice,
              scaleUp, scaleDown

\* Redeeming USDX and subscribing the proceeds at the same price never
\* returns more USDX than was burned.
THEOREM ReverseRoundTripNoProfitThm ==
  \A rwaAmount, price \in Nat : ReverseRoundTripNoProfit(rwaAmount, price)
<1>1. SUFFICES ASSUME NEW rwaAmount \in Nat, NEW price \in Nat, price > 0
               PROVE getMintAmountForPrice(
                        getRedemptionAmountForRwa(rwaAmount, price), price)
                       <= rwaAmount
  BY DEF ReverseRoundTripNoProfit
<1> DEFINE D == decimalsMultiplier
           U == PRICE_UNIT
           value == (rwaAmount * price) \div U
           paid == value \div D
<1>2. D \in Nat \ {0} /\ U \in Nat \ {0}
  BY HubMathAssumption
<1>3. rwaAmount * price \in Nat
  BY SMT
<1>4. value \in Nat /\ value * U <= rwaAmount * price
  BY <1>2, <1>3, DivFloor
<1> HIDE DEF value
<1>5. paid \in Nat /\ paid * D <= value
  BY <1>2, <1>4, DivFloor
<1> HIDE DEF paid
<1>6. paid * D \in Nat
  BY <1>2, <1>5, SMT
<1>7. (paid * D) * U <= value * U /\ (paid * D) * U \in Nat
  BY <1>2, <1>4, <1>5, <1>6, MulMono
<1>8. (paid * D) * U <= rwaAmount * price
  BY <1>2, <1>3, <1>4, <1>7, SMT
<1>9. ((paid * D) * U) \div price <= rwaAmount
  BY <1>1, <1>7, <1>8, DivUpper
<1>10. QED
  BY <1>9 DEF paid, value, getRedemptionAmountForRwa, getMintAmountForPrice,
              scaleUp, scaleDown

\* The fee of a whole deposit is that of its two parts, or one unit more: what
\* the two remainders add up to is less than twice the divisor.
THEOREM SplitFeeThm ==
  \A a, b, bps \in Nat : SplitFee(a, b, bps)
<1>1. SUFFICES ASSUME NEW a \in Nat, NEW b \in Nat, NEW bps \in Nat
               PROVE SplitFee(a, b, bps)
  OBVIOUS
<1> DEFINE D == BPS_DENOMINATOR
           p == (a * bps) \div D
           q == (b * bps) \div D
           whole == ((a + b) * bps) \div D
<1>2. D \in Nat \ {0}
  BY HubMathAssumption
<1>3. a * bps \in Nat /\ b * bps \in Nat /\ (a + b) * bps = a * bps + b * bps
  BY SMT
<1>4. p \in Nat /\ p * D <= a * bps /\ a * bps < p * D + D
  BY <1>2, <1>3, DivFloor
<1>5. q \in Nat /\ q * D <= b * bps /\ b * bps < q * D + D
  BY <1>2, <1>3, DivFloor
<1>6. (a + b) * bps \in Nat
  BY <1>3
<1> HIDE DEF p, q
<1>7. /\ (p + q) * D = p * D + q * D /\ (p + q + 2) * D = p * D + q * D + D + D
      /\ p * D \in Nat /\ q * D \in Nat
  <2> HIDE DEF D
  <2>1. (p + q) * D = p * D + q * D
    BY <1>2, <1>4, <1>5, SMT
  <2>2. (p + q + 2) * D = p * D + q * D + D + D
    BY <1>2, <1>4, <1>5, SMT
  <2>3. p * D \in Nat /\ q * D \in Nat
    BY <1>2, <1>4, <1>5, MulMono
  <2> QED BY <2>1, <2>2, <2>3
<1>8. p + q <= whole
  <2>1. p + q \in Nat /\ (p + q) * D <= (a + b) * bps
    BY <1>3, <1>4, <1>5, <1>7
  <2> QED BY <1>2, <1>6, <2>1, DivLower
<1>9. whole \in Nat /\ whole * D <= (a + b) * bps
  BY <1>2, <1>6, DivFloor
<1> HIDE DEF whole
<1>10. whole < p + q + 2
  <2>1. SUFFICES ASSUME p + q + 2 <= whole PROVE FALSE
    BY <1>4, <1>5, <1>9
  <2>2. (p + q + 2) * D <= whole * D
    BY <1>2, <1>4, <1>5, <1>9, <2>1, MulMono
  <2>3. (a + b) * bps < p * D + q * D + D + D
    BY <1>2, <1>3, <1>4, <1>5, <1>7
  <2> QED BY <1>2, <1>3, <1>7, <1>9, <2>2, <2>3
<1>11. whole - (p + q) \in 0 .. 1
  BY <1>4, <1>5, <1>8, <1>9, <1>10
<1>12. QED
  BY <1>11 DEF p, q, whole, SplitFee, getMintFees
-----------------------------------------------------------------------------
(* Sums                                                                    *)

\* The element a fold takes out of a set first.
Pick(s) == CHOOSE x \in s : TRUE

Rest(s) == s \ {Pick(s)}

\* g maps the subsets of S to their sums, as the library's folds define them.
IsSum(f, g, S) ==
  g = [s \in SUBSET S |-> IF s = {} THEN 0 ELSE f[Pick(s)] + g[Rest(s)]]

SumOver(f, S) == CHOOSE g : IsSum(f, g, S)

LEMMA SumUnfolded ==
  ASSUME NEW f, NEW S
  PROVE  SumFunctionOnSet(f, S) = SumOver(f, S)[S]
BY Zenon DEF SumFunctionOnSet, FoldFunctionOnSet, MapThenFoldSet, SumOver, IsSum, Pick, Rest

\* Induction, in the form the provers can use: a set of subsets of a finite
\* set that is not empty has a smallest member.
LEMMA SmallestCounterexample ==
  ASSUME NEW S, IsFiniteSet(S), NEW T, T \subseteq SUBSET S, T # {}
  PROVE  \E s \in T : \A r \in T : ~(r \subseteq s /\ r # s)
<1>1. IsWellFoundedOn(StrictSubsetOrdering(S), SUBSET S)
  BY FS_StrictSubsetOrderingWellFounded, FS_FiniteSubsetsOfFinite
<1>2. \E s \in T : \A r \in T : <<r, s>> \notin StrictSubsetOrdering(S)
  BY <1>1, WFMin
<1> QED BY <1>2 DEF StrictSubsetOrdering

LEMMA PickedFromSet ==
  ASSUME NEW s, s # {}
  PROVE  Pick(s) \in s /\ Rest(s) \subseteq s /\ Rest(s) # s
BY DEF Pick, Rest

\* Two sums of the same numbers agree.
LEMMA SumsAgree ==
  ASSUME NEW U, IsFiniteSet(U), NEW R, NEW S, U \subseteq R, U \subseteq S,
         NEW f, NEW h, \A x \in U : f[x] = h[x],
         NEW g, IsSum(f, g, R), NEW k, IsSum(h, k, S)
  PROVE  g[U] = k[U]
<1> DEFINE T == {s \in SUBSET U : g[s] # k[s]}
<1>1. SUFFICES ASSUME T # {} PROVE FALSE
  OBVIOUS
<1>2. PICK s \in T : \A r \in T : ~(r \subseteq s /\ r # s)
  <2>1. T \subseteq SUBSET U
    OBVIOUS
  <2> HIDE DEF T
  <2> QED BY <1>1, <2>1, SmallestCounterexample
<1>3. s \subseteq U /\ s \in SUBSET R /\ s \in SUBSET S /\ g[s] # k[s]
  BY <1>2
<1>4. g[s] = IF s = {} THEN 0 ELSE f[Pick(s)] + g[Rest(s)]
  BY <1>3 DEF IsSum
<1>5. k[s] = IF s = {} THEN 0 ELSE h[Pick(s)] + k[Rest(s)]
  BY <1>3 DEF IsSum
<1>6. s # {}
  BY <1>3, <1>4, <1>5
<1>7. Pick(s) \in s /\ Rest(s) \subseteq s /\ Rest(s) # s
  BY <1>6, PickedFromSet
<1>8. g[Rest(s)] = k[Rest(s)]
  BY <1>2, <1>3, <1>7
<1> QED BY <1>3, <1>4, <1>5, <1>7, <1>8

\* Every finite set has its sums: those of a set are made from those of the
\* smaller ones.
LEMMA SumsExist ==
  ASSUME NEW S, IsFiniteSet(S), NEW f
  PROVE  \E g : IsSum(f, g, S)
<1> DEFINE T == {s \in SUBSET S : ~ \E g : IsSum(f, g, s)}
<1>1. SUFFICES ASSUME T # {} PROVE FALSE
  OBVIOUS
<1>2. PICK s \in T : \A r \in T : ~(r \subseteq s /\ r # s)
  <2>1. T \subseteq SUBSET S
    OBVIOUS
  <2> HIDE DEF T
  <2> QED BY <1>1, <2>1, SmallestCounterexample
<1> DEFINE g == [u \in SUBSET s |->
                   IF u = {} THEN 0 ELSE f[Pick(u)] + SumOver(f, Rest(u))[Rest(u)]]
<1>3. ASSUME NEW u \in SUBSET s, u # s PROVE IsSum(f, SumOver(f, u), u)
  <2>1. \E k : IsSum(f, k, u)
    BY <1>2, <1>3
  <2> QED BY <2>1 DEF SumOver
<1>4. ASSUME NEW u \in SUBSET s, u # s PROVE g[u] = SumOver(f, u)[u]
  <2>1. IsSum(f, SumOver(f, u), u)
    BY <1>3, <1>4
  <2>2. SumOver(f, u)[u] = IF u = {} THEN 0 ELSE f[Pick(u)] + SumOver(f, u)[Rest(u)]
    <3> HIDE DEF g, T
    <3> QED BY <2>1, Zenon DEF IsSum
  <2>3. CASE u = {}
    BY <2>2, <2>3
  <2>4. CASE u # {}
    <3>1. Rest(u) \subseteq u /\ Rest(u) # u
      BY <2>4, PickedFromSet
    <3>2. Rest(u) \in SUBSET s /\ Rest(u) # s
      BY <1>4, <3>1
    <3>3. IsSum(f, SumOver(f, Rest(u)), Rest(u)) /\ IsFiniteSet(Rest(u))
      BY <1>2, <1>3, <3>2, FS_Subset
    <3>4. SumOver(f, u)[Rest(u)] = SumOver(f, Rest(u))[Rest(u)]
      BY <2>1, <3>1, <3>3, SumsAgree
    <3> QED BY <2>2, <2>4, <3>4
  <2> QED BY <2>3, <2>4
<1>5. ASSUME NEW u \in SUBSET s
      PROVE  g[u] = IF u = {} THEN 0 ELSE f[Pick(u)] + g[Rest(u)]
  <2>1. CASE u = {}
    BY <2>1
  <2>2. CASE u # {}
    <3>1. Rest(u) \in SUBSET s /\ Rest(u) # s
      BY <2>2, PickedFromSet
    <3>2. g[Rest(u)] = SumOver(f, Rest(u))[Rest(u)]
      BY <1>4, <3>1
    <3> QED BY <2>2, <3>2
  <2> QED BY <2>1, <2>2
<1>6. IsSum(f, g, s)
  <2>1. g = [u \in SUBSET s |-> g[u]]
    OBVIOUS
  <2> HIDE DEF g
  <2> QED BY <1>5, <2>1 DEF IsSum
<1> QED BY <1>2, <1>6

LEMMA SumsAre ==
  ASSUME NEW S, IsFiniteSet(S), NEW f
  PROVE  IsSum(f, SumOver(f, S), S)
BY SumsExist DEF SumOver

\* How the library sums.
LEMMA SumUnwinds ==
  ASSUME NEW S, IsFiniteSet(S), NEW f
  PROVE  SumFunctionOnSet(f, S)
           = IF S = {} THEN 0 ELSE f[Pick(S)] + SumFunctionOnSet(f, Rest(S))
<1>1. IsSum(f, SumOver(f, S), S)
  BY SumsAre
<1>2. SumOver(f, S)[S] = IF S = {} THEN 0 ELSE f[Pick(S)] + SumOver(f, S)[Rest(S)]
  BY <1>1, Zenon DEF IsSum
<1>3. CASE S = {}
  BY <1>2, <1>3, SumUnfolded
<1>4. CASE S # {}
  <2>1. Rest(S) \subseteq S
    BY <1>4, PickedFromSet
  <2>2. IsFiniteSet(Rest(S)) /\ IsSum(f, SumOver(f, Rest(S)), Rest(S))
    BY <2>1, FS_Subset, SumsAre
  <2>3. SumOver(f, S)[Rest(S)] = SumOver(f, Rest(S))[Rest(S)]
    BY <1>1, <2>1, <2>2, SumsAgree
  <2> QED BY <1>2, <1>4, <2>3, SumUnfolded
<1> QED BY <1>3, <1>4

LEMMA SumSameNumbers ==
  ASSUME NEW S, IsFiniteSet(S), NEW f, NEW h, \A x \in S : f[x] = h[x]
  PROVE  SumFunctionOnSet(f, S) = SumFunctionOnSet(h, S)
BY SumsAre, SumsAgree, SumUnfolded

LEMMA SumOfNone ==
  ASSUME NEW f
  PROVE  SumFunctionOnSet(f, {}) = 0
BY SumUnwinds, FS_EmptySet

LEMMA SumIsInt ==
  ASSUME NEW S, IsFiniteSet(S), NEW f, \A x \in S : f[x] \in Int
  PROVE  SumFunctionOnSet(f, S) \in Int
<1> DEFINE T == {s \in SUBSET S : SumFunctionOnSet(f, s) \notin Int}
<1>1. SUFFICES ASSUME T # {} PROVE FALSE
  OBVIOUS
<1>2. PICK s \in T : \A r \in T : ~(r \subseteq s /\ r # s)
  <2>1. T \subseteq SUBSET S
    OBVIOUS
  <2> HIDE DEF T
  <2> QED BY <1>1, <2>1, SmallestCounterexample
<1>3. IsFiniteSet(s) /\ s \subseteq S
  BY <1>2, FS_Subset
<1>4. SumFunctionOnSet(f, s) = IF s = {} THEN 0 ELSE f[Pick(s)] + SumFunctionOnSet(f, Rest(s))
  BY <1>3, SumUnwinds
<1>5. CASE s = {}
  BY <1>2, <1>4, <1>5
<1>6. CASE s # {}
  <2>1. Pick(s) \in s /\ Rest(s) \subseteq s /\ Rest(s) # s
    BY <1>6, PickedFromSet
  <2>2. Rest(s) \in SUBSET S /\ Rest(s) \notin T
    BY <1>2, <1>3, <2>1
  <2>3. SumFunctionOnSet(f, Rest(s)) \in Int /\ f[Pick(s)] \in Int
    BY <1>3, <2>1, <2>2
  <2> QED BY <1>2, <1>4, <1>6, <2>3
<1> QED BY <1>5, <1>6

\* Amounts have an amount as their sum.
LEMMA SumIsNat ==
  ASSUME NEW S, IsFiniteSet(S), NEW f, \A x \in S : f[x] \in Nat
  PROVE  SumFunctionOnSet(f, S) \in Nat
<1> DEFINE T == {s \in SUBSET S : SumFunctionOnSet(f, s) \notin Nat}
<1>1. SUFFICES ASSUME T # {} PROVE FALSE
  OBVIOUS
<1>2. PICK s \in T : \A r \in T : ~(r \subseteq s /\ r # s)
  <2>1. T \subseteq SUBSET S
    OBVIOUS
  <2> HIDE DEF T
  <2> QED BY <1>1, <2>1, SmallestCounterexample
<1>3. IsFiniteSet(s) /\ s \subseteq S
  BY <1>2, FS_Subset
<1>4. SumFunctionOnSet(f, s) = IF s = {} THEN 0 ELSE f[Pick(s)] + SumFunctionOnSet(f, Rest(s))
  BY <1>3, SumUnwinds
<1>5. CASE s = {}
  BY <1>2, <1>4, <1>5
<1>6. CASE s # {}
  <2>1. Pick(s) \in s /\ Rest(s) \subseteq s /\ Rest(s) # s
    BY <1>6, PickedFromSet
  <2>2. Rest(s) \in SUBSET S /\ Rest(s) \notin T
    BY <1>2, <1>3, <2>1
  <2>3. SumFunctionOnSet(f, Rest(s)) \in Nat /\ f[Pick(s)] \in Nat
    BY <1>3, <2>1, <2>2
  <2> QED BY <1>2, <1>4, <1>6, <2>3
<1> QED BY <1>5, <1>6

\* Whichever number is taken out first.
LEMMA SumTakesOut ==
  ASSUME NEW S, IsFiniteSet(S), NEW f, \A x \in S : f[x] \in Int, NEW x \in S
  PROVE  SumFunctionOnSet(f, S) = f[x] + SumFunctionOnSet(f, S \ {x})
<1> DEFINE T == {s \in SUBSET S : \E y \in s : SumFunctionOnSet(f, s)
                                              # f[y] + SumFunctionOnSet(f, s \ {y})}
<1>1. SUFFICES ASSUME T # {} PROVE FALSE
  OBVIOUS
<1>2. PICK s \in T : \A r \in T : ~(r \subseteq s /\ r # s)
  <2>1. T \subseteq SUBSET S
    OBVIOUS
  <2> HIDE DEF T
  <2> QED BY <1>1, <2>1, SmallestCounterexample
<1>3. PICK y \in s : SumFunctionOnSet(f, s) # f[y] + SumFunctionOnSet(f, s \ {y})
  BY <1>2
<1>4. s \subseteq S /\ IsFiniteSet(s) /\ s # {}
  BY <1>2, <1>3, FS_Subset
<1>5. Pick(s) \in s /\ Rest(s) = s \ {Pick(s)}
      /\ SumFunctionOnSet(f, s) = f[Pick(s)] + SumFunctionOnSet(f, Rest(s))
  BY <1>4, PickedFromSet, SumUnwinds DEF Rest
<1>6. y # Pick(s)
  BY <1>3, <1>5
<1> DEFINE c == Pick(s)
           both == (s \ {c}) \ {y}
<1> HIDE DEF c
<1>7. \A r \in SUBSET s : r # s =>
        \A z \in r : SumFunctionOnSet(f, r) = f[z] + SumFunctionOnSet(f, r \ {z})
  BY <1>2, <1>4
<1> HIDE DEF T
<1>8. SumFunctionOnSet(f, s \ {c}) = f[y] + SumFunctionOnSet(f, both)
  BY <1>5, <1>6, <1>7 DEF c
<1>9. SumFunctionOnSet(f, s \ {y}) = f[c] + SumFunctionOnSet(f, (s \ {y}) \ {c})
  BY <1>5, <1>6, <1>7 DEF c
<1>10. (s \ {y}) \ {c} = both
  OBVIOUS
<1>11. f[y] \in Int /\ f[c] \in Int /\ SumFunctionOnSet(f, both) \in Int
  <2>1. both \subseteq S /\ IsFiniteSet(both)
    BY <1>4, FS_Subset
  <2>2. SumFunctionOnSet(f, both) \in Int
    BY <2>1, SumIsInt
  <2> QED BY <1>4, <1>5, <2>2 DEF c
<1> HIDE DEF both
<1>12. SumFunctionOnSet(f, s) = f[y] + SumFunctionOnSet(f, s \ {y})
  <2>1. SumFunctionOnSet(f, s) = f[c] + SumFunctionOnSet(f, s \ {c})
    BY <1>5 DEF c
  <2>2. SumFunctionOnSet(f, s \ {y}) = f[c] + SumFunctionOnSet(f, both)
    BY <1>9, <1>10
  <2> QED BY <1>8, <1>11, <2>1, <2>2
<1> QED BY <1>3, <1>12

\* The sum of two disjoint sets.
LEMMA SumSplits ==
  ASSUME NEW S, IsFiniteSet(S), NEW f, \A x \in S : f[x] \in Int, NEW B \in SUBSET S
  PROVE  SumFunctionOnSet(f, S) = SumFunctionOnSet(f, B) + SumFunctionOnSet(f, S \ B)
<1> DEFINE T == {b \in SUBSET S : SumFunctionOnSet(f, S)
                                    # SumFunctionOnSet(f, b) + SumFunctionOnSet(f, S \ b)}
<1>1. SUFFICES ASSUME T # {} PROVE FALSE
  OBVIOUS
<1>2. PICK b \in T : \A r \in T : ~(r \subseteq b /\ r # b)
  <2>1. T \subseteq SUBSET S
    OBVIOUS
  <2> HIDE DEF T
  <2> QED BY <1>1, <2>1, SmallestCounterexample
<1>3. \A r \in SUBSET S : SumFunctionOnSet(f, r) \in Int
  <2> SUFFICES ASSUME NEW r \in SUBSET S PROVE SumFunctionOnSet(f, r) \in Int
    OBVIOUS
  <2>1. IsFiniteSet(r)
    BY FS_Subset
  <2> QED BY <2>1, SumIsInt
<1>4. b # {}
  <2>1. SumFunctionOnSet(f, S) = SumFunctionOnSet(f, {}) + SumFunctionOnSet(f, S \ {})
    <3>1. S \ {} = S
      OBVIOUS
    <3>2. SumFunctionOnSet(f, {}) = 0 /\ SumFunctionOnSet(f, S) \in Int
      BY <1>3, SumOfNone
    <3> QED BY <3>1, <3>2
  <2> QED BY <1>2, <2>1
<1>5. PICK x : x \in b
  BY <1>4
<1>6. x \in S /\ b \in SUBSET S /\ f[x] \in Int
  BY <1>2, <1>5
<1>7. SumFunctionOnSet(f, S) = SumFunctionOnSet(f, b \ {x}) + SumFunctionOnSet(f, S \ (b \ {x}))
  <2>1. b \ {x} \in SUBSET S /\ b \ {x} \subseteq b /\ b \ {x} # b
    BY <1>5, <1>6
  <2> QED BY <1>2, <2>1
<1>8. SumFunctionOnSet(f, b) = f[x] + SumFunctionOnSet(f, b \ {x})
  <2>1. IsFiniteSet(b) /\ \A z \in b : f[z] \in Int
    BY <1>6, FS_Subset
  <2> QED BY <1>5, <2>1, SumTakesOut
<1>9. SumFunctionOnSet(f, S \ (b \ {x})) = f[x] + SumFunctionOnSet(f, S \ b)
  <2>1. /\ IsFiniteSet(S \ (b \ {x})) /\ \A z \in S \ (b \ {x}) : f[z] \in Int
        /\ x \in S \ (b \ {x})
    BY <1>6, FS_Subset
  <2>2. (S \ (b \ {x})) \ {x} = S \ b
    BY <1>5
  <2> QED BY <2>1, <2>2, SumTakesOut
<1>10. /\ SumFunctionOnSet(f, b \ {x}) \in Int /\ SumFunctionOnSet(f, S \ b) \in Int
  BY <1>3, <1>6
<1>11. SumFunctionOnSet(f, S) = SumFunctionOnSet(f, b) + SumFunctionOnSet(f, S \ b)
  <2> HIDE DEF T
  <2> QED BY <1>6, <1>7, <1>8, <1>9, <1>10
<1> QED BY <1>2, <1>11

\* Adding to every number of a set adds the sum of what is added.
LEMMA SumAdds ==
  ASSUME NEW S, IsFiniteSet(S), NEW f, NEW d, NEW h,
         \A x \in S : f[x] \in Int /\ d[x] \in Int /\ h[x] = f[x] + d[x]
  PROVE  SumFunctionOnSet(h, S) = SumFunctionOnSet(f, S) + SumFunctionOnSet(d, S)
<1> DEFINE T == {s \in SUBSET S : SumFunctionOnSet(h, s)
                                    # SumFunctionOnSet(f, s) + SumFunctionOnSet(d, s)}
<1>1. SUFFICES ASSUME T # {} PROVE FALSE
  OBVIOUS
<1>2. PICK s \in T : \A r \in T : ~(r \subseteq s /\ r # s)
  <2>1. T \subseteq SUBSET S
    OBVIOUS
  <2> HIDE DEF T
  <2> QED BY <1>1, <2>1, SmallestCounterexample
<1>3. s \subseteq S /\ IsFiniteSet(s)
  BY <1>2, FS_Subset
<1>4. s # {}
  <2>1. /\ SumFunctionOnSet(h, {}) = 0 /\ SumFunctionOnSet(f, {}) = 0
        /\ SumFunctionOnSet(d, {}) = 0
    BY SumOfNone
  <2>2. SumFunctionOnSet(h, {}) = SumFunctionOnSet(f, {}) + SumFunctionOnSet(d, {})
    BY <2>1
  <2> QED BY <1>2, <2>2, Zenon
<1>5. PICK x : x \in s
  BY <1>4
<1>6. /\ SumFunctionOnSet(f, s) = f[x] + SumFunctionOnSet(f, s \ {x})
      /\ SumFunctionOnSet(d, s) = d[x] + SumFunctionOnSet(d, s \ {x})
  BY <1>3, <1>5, SumTakesOut
<1>7. SumFunctionOnSet(h, s) = h[x] + SumFunctionOnSet(h, s \ {x})
  <2>1. \A y \in s : h[y] \in Int
    BY <1>3
  <2> QED BY <1>3, <1>5, <2>1, SumTakesOut
<1>8. SumFunctionOnSet(h, s \ {x}) = SumFunctionOnSet(f, s \ {x}) + SumFunctionOnSet(d, s \ {x})
  <2>1. s \ {x} \in SUBSET S /\ s \ {x} \subseteq s /\ s \ {x} # s
    BY <1>3, <1>5
  <2> QED BY <1>2, <2>1
<1>9. SumFunctionOnSet(f, s \ {x}) \in Int /\ SumFunctionOnSet(d, s \ {x}) \in Int
  <2>1. IsFiniteSet(s \ {x}) /\ \A y \in s \ {x} : f[y] \in Int /\ d[y] \in Int
    BY <1>3, FS_Subset
  <2> QED BY <2>1, SumIsInt
<1>10. f[x] \in Int /\ d[x] \in Int /\ h[x] = f[x] + d[x]
  BY <1>3, <1>5
<1>11. SumFunctionOnSet(h, s) = SumFunctionOnSet(f, s) + SumFunctionOnSet(d, s)
  <2> HIDE DEF T
  <2> QED BY <1>6, <1>7, <1>8, <1>9, <1>10
<1> QED BY <1>2, <1>11

\* Adding to the numbers of a part of the set.
LEMMA SumAddsInPart ==
  ASSUME NEW S, IsFiniteSet(S), NEW B \in SUBSET S, NEW f, NEW d, NEW h,
         \A x \in S : f[x] \in Int,
         \A x \in B : d[x] \in Int /\ h[x] = f[x] + d[x],
         \A x \in S \ B : h[x] = f[x]
  PROVE  SumFunctionOnSet(h, S) = SumFunctionOnSet(f, S) + SumFunctionOnSet(d, B)
<1>1. IsFiniteSet(B) /\ IsFiniteSet(S \ B)
  BY FS_Subset
<1>2. \A x \in S : h[x] \in Int
  OBVIOUS
<1>3. SumFunctionOnSet(h, S) = SumFunctionOnSet(h, B) + SumFunctionOnSet(h, S \ B)
  BY <1>2, SumSplits
<1>4. SumFunctionOnSet(f, S) = SumFunctionOnSet(f, B) + SumFunctionOnSet(f, S \ B)
  BY SumSplits
<1>5. SumFunctionOnSet(h, B) = SumFunctionOnSet(f, B) + SumFunctionOnSet(d, B)
  BY <1>1, SumAdds
<1>6. SumFunctionOnSet(h, S \ B) = SumFunctionOnSet(f, S \ B)
  BY <1>1, SumSameNumbers
<1>7. /\ SumFunctionOnSet(f, B) \in Int /\ SumFunctionOnSet(d, B) \in Int
  BY <1>1, SumIsInt
<1>8. SumFunctionOnSet(f, S \ B) \in Int
  BY <1>1, SumIsInt
<1> QED BY <1>3, <1>4, <1>5, <1>6, <1>7, <1>8

\* Adding to one number.
LEMMA SumAddsToOne ==
  ASSUME NEW S, IsFiniteSet(S), NEW f, \A x \in S : f[x] \in Int, NEW y \in S,
         NEW h, NEW d \in Int, h[y] = f[y] + d, \A x \in S \ {y} : h[x] = f[x]
  PROVE  SumFunctionOnSet(h, S) = SumFunctionOnSet(f, S) + d
<1>1. SumFunctionOnSet(f, S) = f[y] + SumFunctionOnSet(f, S \ {y})
  BY SumTakesOut
<1>2. SumFunctionOnSet(h, S) = h[y] + SumFunctionOnSet(h, S \ {y})
  <2>1. \A x \in S : h[x] \in Int
    OBVIOUS
  <2> QED BY <2>1, SumTakesOut
<1>3. IsFiniteSet(S \ {y})
  BY FS_Subset
<1>4. SumFunctionOnSet(h, S \ {y}) = SumFunctionOnSet(f, S \ {y})
  BY <1>3, SumSameNumbers
<1>5. SumFunctionOnSet(f, S \ {y}) \in Int
  BY <1>3, SumIsInt
<1> QED BY <1>1, <1>2, <1>4, <1>5
=============================================================================
