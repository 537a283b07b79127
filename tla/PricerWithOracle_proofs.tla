------------------------ MODULE PricerWithOracle_proofs ------------------------
(***************************************************************************)
(* What holds of the two oracles and of a pricer over either of them, for  *)
(* every window, limit, price and number of updates.                       *)
(*                                                                         *)
(* An oracle moves in one way only, OracleMoves: a window or more after    *)
(* its last price, within its limit.  That its prices are spaced and       *)
(* bounded follows by adding one price to the log.                         *)
(*                                                                         *)
(* That the pricer's latest price is its newest, and no newer than the     *)
(* oracle's, holds together or not at all: catching up makes the oracle's  *)
(* price the latest without comparing timestamps.  It needs MaxAhead = 0,  *)
(* that no price is added with a timestamp in the future.                  *)
(* Ids and what is known under them do not depend on timestamps.           *)
(*                                                                         *)
(* The comparison with Chainlink: the round stored with the last price is  *)
(* the one the next answer is compared with, and two changes within a      *)
(* limit of each other, each truncated, come from moves within the limit   *)
(* and two basis points.                                                   *)
(***************************************************************************)
EXTENDS PricerWithOracle, Pricer_proofs, SequenceTheorems

Window == MIN_PRICE_UPDATE_WINDOW

\* The limit an oracle checks a new price against.
WithinLimit(old, new) ==
  IF setup = "ExternalComparison"
    THEN Abs(signedChangeBps(old, new)) <= MAX_ABSOLUTE_DIFF_BPS
    ELSE getPriceChangeBps(old, new) <= MAX_CHANGE_DIFF_BPS

OracleMoves ==
  /\ rwaPrice' \in Nat \ {0}
  /\ now - priceTimestamp >= Window
  /\ WithinLimit(rwaPrice, rwaPrice')
  /\ priceTimestamp' = now
  /\ rwaPriceLog' = Append(rwaPriceLog, PriceInfo(rwaPrice', now))
  /\ UNCHANGED now

OracleRests == UNCHANGED oracleVars /\ now' \in {now, now + 1}

OracleBase == OracleTypeOK /\ LogAgrees
-----------------------------------------------------------------------------
(* Steps of the oracle                                                     *)

LEMMA OracleSetsMoves ==
  ASSUME OracleBase, NEW price \in Nat, OracleSetsPrice(price), UNCHANGED now
  PROVE  OracleMoves /\ rwaPrice' = price
<1>1. now \in Nat /\ priceTimestamp \in Nat /\ Window \in Nat
  BY RateCheckAssumption DEF OracleBase, OracleTypeOK, Window
<1>2. CASE setup = "RateCheck" /\ SetPrice(price)
  BY <1>1, <1>2 DEF SetPrice, OracleMoves, WithinLimit, Window
<1>3. CASE setup = "ExternalComparison" /\ SetPriceCompared(price)
  BY <1>1, <1>3 DEF SetPriceCompared, WithinAbsoluteLimit, OracleMoves, WithinLimit, Window
<1> QED BY <1>2, <1>3 DEF OracleSetsPrice

LEMMA OracleSteps ==
  ASSUME OracleBase, [Next]_vars
  PROVE  (OracleMoves \/ OracleRests) /\ UNCHANGED setup
<1>1. ASSUME NEW price \in AddedPrices, NEW t \in Timestamps,
             AddPriceAndUpdateOracle(price, t), UNCHANGED now
      PROVE  OracleMoves \/ OracleRests
  <2>1. CASE IsLatest(t)
    BY <1>1, <2>1, OracleSetsMoves, PricerAssumption
       DEF AddPriceAndUpdateOracle, UpdateOraclePrice
  <2>2. CASE ~IsLatest(t)
    BY <1>1, <2>2 DEF AddPriceAndUpdateOracle, comparisonVars, OracleRests
  <2> QED BY <2>1, <2>2
<1>2. CASE PricerCalls
  BY <1>1, <1>2 DEF PricerCalls, AddLatestOraclePrice, comparisonVars, OracleRests
<1>3. CASE DirectSetPrice
  BY <1>3, OracleSetsMoves, RateCheckAssumption DEF DirectSetPrice
<1>4. CASE Corrections \/ WorldMoves \/ UNCHANGED vars
  BY <1>4 DEF Corrections, WorldMoves, Tick, vars, comparisonVars, OracleRests, oracleVars
<1> QED BY <1>2, <1>3, <1>4
        DEF Next, PricerCalls, DirectSetPrice, Corrections, WorldMoves, vars

LEMMA OracleInitial == Init => OracleBase
<1> SUFFICES ASSUME Init PROVE OracleBase
  OBVIOUS
<1>1. OracleInit
  BY DEF Init, OracleStarts, ComparisonInit
<1>2. rwaPrice \in Nat \ {0} /\ now = 1 /\ priceTimestamp = 1
  BY <1>1, RateCheckAssumption DEF OracleInit
<1>3. rwaPriceLog = <<PriceInfo(rwaPrice, priceTimestamp)>>
  BY <1>1 DEF OracleInit
<1> QED BY <1>2, <1>3 DEF OracleBase, OracleTypeOK, LogAgrees, PriceInfo

LEMMA OracleBaseKept ==
  ASSUME OracleBase, OracleMoves \/ OracleRests
  PROVE  OracleBase'
<1>1. CASE OracleRests
  BY <1>1 DEF OracleRests, OracleBase, OracleTypeOK, LogAgrees, oracleVars
<1>2. CASE OracleMoves
  <2> DEFINE info == PriceInfo(rwaPrice', now)
  <2>1. info \in [price : Nat \ {0}, timestamp : Nat \ {0}]
    BY <1>2 DEF OracleMoves, OracleBase, OracleTypeOK, PriceInfo
  <2>2. rwaPriceLog \in Seq([price : Nat \ {0}, timestamp : Nat \ {0}])
        /\ rwaPriceLog' = Append(rwaPriceLog, info)
    BY <1>2 DEF OracleMoves, OracleBase, OracleTypeOK
  <2> HIDE DEF info
  <2>3. /\ rwaPriceLog' \in Seq([price : Nat \ {0}, timestamp : Nat \ {0}])
        /\ rwaPriceLog' # <<>> /\ rwaPriceLog'[Len(rwaPriceLog')] = info
    BY <2>1, <2>2
  <2> QED BY <1>2, <2>3 DEF info, OracleMoves, OracleBase, OracleTypeOK, LogAgrees
<1> QED BY <1>1, <1>2

\* What a new price does to the log.
LEMMA LogGrows ==
  ASSUME OracleBase, OracleMoves
  PROVE  /\ Len(rwaPriceLog) \in Nat \ {0} /\ Len(rwaPriceLog') = Len(rwaPriceLog) + 1
         /\ \A i \in 1 .. Len(rwaPriceLog) :
              /\ rwaPriceLog'[i] = rwaPriceLog[i]
              /\ rwaPriceLog[i].price \in Nat \ {0}
              /\ rwaPriceLog[i].timestamp \in Nat
         /\ rwaPriceLog[Len(rwaPriceLog)] = PriceInfo(rwaPrice, priceTimestamp)
         /\ rwaPriceLog'[Len(rwaPriceLog) + 1] = PriceInfo(rwaPrice', now)
<1>1. /\ rwaPriceLog \in Seq([price : Nat \ {0}, timestamp : Nat \ {0}])
      /\ rwaPriceLog # <<>>
      /\ rwaPriceLog[Len(rwaPriceLog)] = PriceInfo(rwaPrice, priceTimestamp)
      /\ rwaPriceLog' = Append(rwaPriceLog, PriceInfo(rwaPrice', now))
  BY DEF OracleBase, OracleTypeOK, LogAgrees, OracleMoves
<1>2. Len(rwaPriceLog) \in Nat \ {0}
  BY <1>1, EmptySeq
<1>3. \A i \in 1 .. Len(rwaPriceLog) :
        rwaPriceLog[i] \in [price : Nat \ {0}, timestamp : Nat \ {0}]
  BY <1>1, ElementOfSeq
<1> DEFINE info == PriceInfo(rwaPrice', now)
<1>4. info \in [price : Nat \ {0}, timestamp : Nat \ {0}]
  BY DEF OracleMoves, OracleBase, OracleTypeOK, PriceInfo
<1> HIDE DEF info
<1>5. /\ Len(rwaPriceLog') = Len(rwaPriceLog) + 1
      /\ \A i \in 1 .. Len(rwaPriceLog) : rwaPriceLog'[i] = rwaPriceLog[i]
      /\ rwaPriceLog'[Len(rwaPriceLog) + 1] = info
  <2>1. rwaPriceLog' = Append(rwaPriceLog, info)
    BY <1>1 DEF info
  <2> QED BY <1>1, <1>4, <2>1
<1>6. \A i \in 1 .. Len(rwaPriceLog) :
        rwaPriceLog[i].price \in Nat \ {0} /\ rwaPriceLog[i].timestamp \in Nat
  BY <1>3
<1> QED BY <1>1, <1>2, <1>5, <1>6 DEF info
-----------------------------------------------------------------------------
(* Spacing                                                                 *)

\* One more window for one more update.
LEMMA OneMoreWindow ==
  ASSUME NEW n \in Nat, NEW i \in Nat, NEW w \in Nat, NEW t \in Nat, NEW last \in Nat,
         NEW first \in Nat, last - first >= (n - i) * w, t - last >= w
  PROVE  t - first >= (n + 1 - i) * w
<1>1. (n + 1 - i) * w = (n - i) * w + w
  BY SMT
<1>2. (n - i) * w \in Int
  BY SMT
<1> QED BY <1>1, <1>2

LEMMA SpacingKept ==
  ASSUME OracleBase, UpdatesAreSpaced, OracleMoves \/ OracleRests
  PROVE  UpdatesAreSpaced'
<1>1. CASE OracleRests
  BY <1>1 DEF OracleRests, UpdatesAreSpaced, oracleVars
<1>2. CASE OracleMoves
  <2> DEFINE n == Len(rwaPriceLog)
  <2>1. /\ n \in Nat \ {0} /\ Len(rwaPriceLog') = n + 1
        /\ \A i \in 1 .. n : /\ rwaPriceLog'[i].timestamp = rwaPriceLog[i].timestamp
                             /\ rwaPriceLog[i].timestamp \in Nat
        /\ rwaPriceLog[n].timestamp = priceTimestamp
        /\ rwaPriceLog'[n + 1].timestamp = now
    BY <1>2, LogGrows DEF PriceInfo
  <2>2. now \in Nat /\ priceTimestamp \in Nat /\ Window \in Nat /\ now - priceTimestamp >= Window
    BY <1>2, RateCheckAssumption DEF OracleMoves, OracleBase, OracleTypeOK, Window
  <2> HIDE DEF n
  <2>3. \A i, j \in 1 .. n :
          i < j => rwaPriceLog[j].timestamp - rwaPriceLog[i].timestamp >= (j - i) * Window
    BY DEF UpdatesAreSpaced, Window, n
  <2>4. ASSUME NEW i \in 1 .. n
        PROVE  now - rwaPriceLog[i].timestamp >= (n + 1 - i) * Window
    <3>1. CASE i = n
      <4>1. (n + 1 - n) * Window = Window
        BY <2>1, <2>2
      <4> QED BY <2>1, <2>2, <3>1, <4>1
    <3>2. CASE i # n
      <4>1. i \in Nat /\ n \in 1 .. n /\ i < n
        BY <2>1, <3>2
      <4>2. priceTimestamp - rwaPriceLog[i].timestamp >= (n - i) * Window
        BY <2>1, <2>3, <4>1
      <4> QED BY <2>1, <2>2, <4>1, <4>2, OneMoreWindow
    <3> QED BY <3>1, <3>2
  <2>5. ASSUME NEW i \in 1 .. n + 1, NEW j \in 1 .. n + 1, i < j
        PROVE  rwaPriceLog'[j].timestamp - rwaPriceLog'[i].timestamp >= (j - i) * Window
    <3>1. i \in 1 .. n
      BY <2>1, <2>5
    <3>2. CASE j \in 1 .. n
      BY <2>1, <2>3, <2>5, <3>1, <3>2
    <3>3. CASE j = n + 1
      BY <2>1, <2>4, <3>1, <3>3
    <3> QED BY <2>1, <2>5, <3>2, <3>3
  <2> QED BY <2>1, <2>5 DEF UpdatesAreSpaced, Window
<1> QED BY <1>1, <1>2

\* Two prices k updates apart lie k windows apart in time, whoever sets them
\* and through whichever contract.  (RWAOracleRateCheck.sol:75-77,
\* RWAOracleExternalComparisonCheck.sol:155-157.)
THEOREM UpdatesSpaced == Spec => []UpdatesAreSpaced
<1> DEFINE Inv == OracleBase /\ UpdatesAreSpaced
<1>1. Init => Inv
  <2>1. Init => Len(rwaPriceLog) = 1
    BY DEF Init, OracleStarts, ComparisonInit, OracleInit
  <2>2. Len(rwaPriceLog) = 1 => UpdatesAreSpaced
    BY DEF UpdatesAreSpaced
  <2> QED BY <2>1, <2>2, OracleInitial
<1>2. Inv /\ [Next]_vars => Inv'
  BY OracleSteps, OracleBaseKept, SpacingKept
<1> QED BY <1>1, <1>2, PTL DEF Spec
-----------------------------------------------------------------------------
(* Limits                                                                  *)

LEMMA DivisionFacts ==
  ASSUME NEW a \in Nat, NEW b \in Nat \ {0}
  PROVE  /\ a \div b \in Nat /\ a % b \in 0 .. b - 1
         /\ a = (a \div b) * b + (a % b)
<1>1. a \div b \in Nat
  BY SMT
<1>2. a % b \in 0 .. b - 1
  BY SMT
<1>3. a = (a \div b) * b + (a % b)
  BY SMT
<1> QED BY <1>1, <1>2, <1>3

LEMMA ProductIsNat ==
  ASSUME NEW a \in Nat, NEW b \in Nat
  PROVE  a * b \in Nat
BY SMT

LEMMA LargerProduct ==
  ASSUME NEW a \in Nat, NEW b \in Nat, NEW c \in Nat, a <= b
  PROVE  a * c <= b * c
BY SMT

\* A quotient rounded up that stays within a limit: so does the quantity.
LEMMA RoundedUpWithin ==
  ASSUME NEW x \in Nat, NEW y \in Nat, NEW d \in Nat \ {0}, NEW limit \in Nat,
         mulDivUp(x, y, d) <= limit
  PROVE  x * y <= limit * d
<1> DEFINE a == x * y
           q == a \div d
           r == a % d
<1>1. a \in Nat
  BY ProductIsNat
<1>2. q \in Nat /\ r \in 0 .. d - 1 /\ a = q * d + r
  BY <1>1, DivisionFacts
<1>3. q + (IF r > 0 THEN 1 ELSE 0) <= limit
  BY DEF mulDivUp
<1> HIDE DEF a, q, r
<1>4. CASE r = 0
  BY <1>2, <1>3, <1>4, LargerProduct, ProductIsNat DEF a
<1>5. CASE r > 0
  <2>1. q + 1 <= limit /\ q + 1 \in Nat
    BY <1>2, <1>3, <1>5
  <2>2. (q + 1) * d <= limit * d
    BY <2>1, LargerProduct
  <2>3. (q + 1) * d = q * d + d
    BY <1>2, SMT
  <2>4. q * d \in Nat /\ limit * d \in Nat
    BY <1>2, ProductIsNat
  <2> QED BY <1>2, <2>2, <2>3, <2>4 DEF a
<1> QED BY <1>2, <1>4, <1>5

\* One rounded down: the quantity stays below one more than the limit.
LEMMA RoundedDownWithin ==
  ASSUME NEW a \in Nat, NEW d \in Nat \ {0}, NEW limit \in Nat, a \div d <= limit
  PROVE  a < (limit + 1) * d
<1> DEFINE q == a \div d
           r == a % d
<1>1. q \in Nat /\ r \in 0 .. d - 1 /\ a = q * d + r /\ q <= limit
  BY DivisionFacts
<1> HIDE DEF q, r
<1>2. (q + 1) * d <= (limit + 1) * d
  BY <1>1, LargerProduct
<1>3. (q + 1) * d = q * d + d
  BY <1>1, SMT
<1>4. q * d \in Nat /\ (limit + 1) * d \in Nat
  BY <1>1, ProductIsNat
<1> QED BY <1>1, <1>2, <1>3, <1>4

LEMMA RateCheckLimit ==
  ASSUME NEW old \in Nat \ {0}, NEW new \in Nat,
         getPriceChangeBps(old, new) <= MAX_CHANGE_DIFF_BPS
  PROVE  /\ (new - old) * BPS_DENOMINATOR <= MAX_CHANGE_DIFF_BPS * old
         /\ (old - new) * BPS_DENOMINATOR <= MAX_CHANGE_DIFF_BPS * old
<1> DEFINE change == IF new > old THEN new - old ELSE old - new
           D == BPS_DENOMINATOR
           limit == MAX_CHANGE_DIFF_BPS
<1>1. D \in Nat \ {0} /\ limit \in Nat /\ change \in Nat
  BY RateCheckAssumption
<1>2. change * D <= limit * old
  <2>1. mulDivUp(change, D, old) <= limit
    BY DEF getPriceChangeBps
  <2> HIDE DEF change, D, limit
  <2> QED BY <1>1, <2>1, RoundedUpWithin
<1>3. change * D \in Nat
  BY <1>1, ProductIsNat
<1>4. (0 - change) * D = 0 - change * D
  BY <1>1, SMT
<1>5. {new - old, old - new} = {change, 0 - change}
  BY <1>1
<1>6. limit * old \in Nat
  BY <1>1, ProductIsNat
<1> HIDE DEF change, D, limit
<1>7. (0 - change) * D <= limit * old
  BY <1>2, <1>3, <1>4, <1>6
<1>8. \A x \in {new - old, old - new} : x * D <= limit * old
  BY <1>2, <1>5, <1>7
<1> QED BY <1>8 DEF D, limit

LEMMA ComparisonLimit ==
  ASSUME NEW old \in Nat \ {0}, NEW new \in Nat,
         Abs(signedChangeBps(old, new)) <= MAX_ABSOLUTE_DIFF_BPS
  PROVE  Abs(new - old) * BPS_DENOMINATOR < (MAX_ABSOLUTE_DIFF_BPS + 1) * old
<1> DEFINE D == BPS_DENOMINATOR
           limit == MAX_ABSOLUTE_DIFF_BPS
           x == (new - old) * D
<1>1. D \in Nat \ {0} /\ limit \in Nat
  BY RateCheckAssumption, ComparisonAssumption
<1>2. signedChangeBps(old, new) = IF x < 0 THEN 0 - ((0 - x) \div old) ELSE x \div old
  BY DEF signedChangeBps, truncatedDiv
<1>3. CASE new >= old
  <2>1. new - old \in Nat /\ Abs(new - old) = new - old
    BY <1>3 DEF Abs
  <2>2. x \in Nat
    BY <1>1, <2>1, ProductIsNat
  <2>3. x \div old \in Nat
    BY <2>2, DivisionFacts
  <2>4. Abs(signedChangeBps(old, new)) = x \div old
    BY <1>2, <2>2, <2>3 DEF Abs
  <2> HIDE DEF x
  <2>5. x < (limit + 1) * old
    BY <1>1, <2>2, <2>4, RoundedDownWithin
  <2> QED BY <2>1, <2>5 DEF x
<1>4. CASE new < old
  <2> DEFINE y == (old - new) * D
  <2>1. old - new \in Nat /\ Abs(new - old) = old - new
    BY <1>4 DEF Abs
  <2>2. y \in Nat /\ 0 - x = y /\ x \in Int
    <3>1. y \in Nat
      BY <1>1, <2>1, ProductIsNat
    <3>2. 0 - (new - old) * D = (old - new) * D
      BY <1>1, SMT
    <3>3. x \in Int
      BY <1>1, SMT
    <3> QED BY <3>1, <3>2, <3>3
  <2>3. y \div old \in Nat
    BY <2>2, DivisionFacts
  <2>4. Abs(signedChangeBps(old, new)) = y \div old
    <3>1. CASE x < 0
      <4>1. signedChangeBps(old, new) = 0 - (y \div old)
        BY <1>2, <2>2, <3>1
      <4> HIDE DEF x, y
      <4> QED BY <2>3, <4>1 DEF Abs
    <3>2. CASE ~(x < 0)
      <4>1. old - new >= 1 /\ y = (old - new) * D
        BY <1>4
      <4>2. y > 0
        BY <1>1, <4>1, SMT
      <4> HIDE DEF x, y
      <4> QED BY <2>2, <3>2, <4>2
    <3> QED BY <3>1, <3>2
  <2> HIDE DEF x, y
  <2>5. y < (limit + 1) * old
    BY <1>1, <2>2, <2>3, <2>4, RoundedDownWithin
  <2> QED BY <2>1, <2>5 DEF y
<1> QED BY <1>3, <1>4

\* The price at position i of the log and the one after it.
StepWithin(log, i) ==
  LET old == log[i].price
      new == log[i + 1].price
  IN  IF setup = "ExternalComparison"
        THEN Abs(new - old) * BPS_DENOMINATOR < (MAX_ABSOLUTE_DIFF_BPS + 1) * old
        ELSE /\ (new - old) * BPS_DENOMINATOR <= MAX_CHANGE_DIFF_BPS * old
             /\ (old - new) * BPS_DENOMINATOR <= MAX_CHANGE_DIFF_BPS * old

PricesMoveWithinBounds == RateCheckedPricesAreBounded /\ ComparedPricesAreBounded

LEMMA PositionByPosition ==
  PricesMoveWithinBounds <=> \A i \in 1 .. Len(rwaPriceLog) - 1 : StepWithin(rwaPriceLog, i)
BY DEF PricesMoveWithinBounds, RateCheckedPricesAreBounded, ComparedPricesAreBounded,
       ChangesAreBounded, MovesWithinLimit, StepWithin

LEMMA PositionByPositionNext ==
  ASSUME UNCHANGED setup
  PROVE  PricesMoveWithinBounds'
           <=> \A i \in 1 .. Len(rwaPriceLog') - 1 : StepWithin(rwaPriceLog', i)
BY DEF PricesMoveWithinBounds, RateCheckedPricesAreBounded, ComparedPricesAreBounded,
       ChangesAreBounded, MovesWithinLimit, StepWithin

LEMMA LimitsKept ==
  ASSUME OracleBase, PricesMoveWithinBounds, OracleMoves \/ OracleRests, UNCHANGED setup
  PROVE  PricesMoveWithinBounds'
<1>1. CASE OracleRests
  <2>1. \A i \in 1 .. Len(rwaPriceLog') - 1 : StepWithin(rwaPriceLog', i)
    BY <1>1, PositionByPosition DEF OracleRests, oracleVars
  <2> QED BY <2>1, PositionByPositionNext
<1>2. CASE OracleMoves
  <2> DEFINE n == Len(rwaPriceLog)
  <2>1. /\ n \in Nat \ {0} /\ Len(rwaPriceLog') = n + 1
        /\ \A i \in 1 .. n : rwaPriceLog'[i] = rwaPriceLog[i]
        /\ rwaPriceLog[n].price = rwaPrice /\ rwaPriceLog'[n + 1].price = rwaPrice'
    BY <1>2, LogGrows DEF PriceInfo
  <2>2. rwaPrice \in Nat \ {0} /\ rwaPrice' \in Nat /\ WithinLimit(rwaPrice, rwaPrice')
    BY <1>2 DEF OracleMoves, OracleBase, OracleTypeOK
  <2> HIDE DEF n
  <2>3. n \in 1 .. n
    BY <2>1
  <2>4. StepWithin(rwaPriceLog', n)
    BY <2>1, <2>2, <2>3, RateCheckLimit, ComparisonLimit DEF StepWithin, WithinLimit
  <2>5. ASSUME NEW i \in 1 .. n - 1 PROVE StepWithin(rwaPriceLog', i)
    <3>1. i \in 1 .. n /\ i + 1 \in 1 .. n
      BY <2>1
    <3>2. StepWithin(rwaPriceLog, i)
      BY PositionByPosition DEF n
    <3> QED BY <2>1, <3>1, <3>2 DEF StepWithin
  <2>6. ASSUME NEW i \in 1 .. (n + 1) - 1 PROVE StepWithin(rwaPriceLog', i)
    <3>1. i = n \/ i \in 1 .. n - 1
      BY <2>1
    <3> QED BY <2>4, <2>5, <3>1
  <2> QED BY <2>1, <2>6, PositionByPositionNext
<1> QED BY <1>1, <1>2

LEMMA PricesMoveWithinBoundsHolds == Spec => []PricesMoveWithinBounds
<1> DEFINE Inv == OracleBase /\ PricesMoveWithinBounds
<1>1. Init => Inv
  <2>1. Init => Len(rwaPriceLog) = 1
    BY DEF Init, OracleStarts, ComparisonInit, OracleInit
  <2>2. Len(rwaPriceLog) = 1 => PricesMoveWithinBounds
    BY PositionByPosition
  <2> QED BY <2>1, <2>2, OracleInitial
<1>2. Inv /\ [Next]_vars => Inv'
  BY OracleSteps, OracleBaseKept, LimitsKept
<1> QED BY <1>1, <1>2, PTL DEF Spec

\* Each price of a RWAOracleRateCheck lies exactly within its limit of the one
\* before.  (RWAOracleRateCheck.sol:23-25, 70-90.)
THEOREM RateCheckBounded == Spec => []RateCheckedPricesAreBounded
<1>1. PricesMoveWithinBounds => RateCheckedPricesAreBounded
  BY DEF PricesMoveWithinBounds
<1> QED BY <1>1, PricesMoveWithinBoundsHolds, PTL

\* Each price of a RWAOracleExternalComparisonCheck lies within its limit of
\* the one before up to what one basis point loses by truncation.
\* (RWAOracleExternalComparisonCheck.sol:160-166, 252-258.)
THEOREM ComparisonBounded == Spec => []ComparedPricesAreBounded
<1>1. PricesMoveWithinBounds => ComparedPricesAreBounded
  BY DEF PricesMoveWithinBounds
<1> QED BY <1>1, PricesMoveWithinBoundsHolds, PTL
-----------------------------------------------------------------------------
(* The pricer beside its oracle                                            *)

InSync == PricerCore /\ OracleBase /\ LatestNotNewerThanOracle

LEMMA InSyncInitial == Init => InSync
<1> SUFFICES ASSUME Init PROVE InSync
  OBVIOUS
<1>1. OracleBase
  BY OracleInitial
<1>2. CASE setup = "Pricer"
  <2>1. PricerCore
    BY <1>2, PricerInitial DEF Init, PricerInvariant
  <2> QED BY <1>1, <1>2, <2>1 DEF InSync, LatestNotNewerThanOracle
<1>3. CASE setup # "Pricer"
  <2>1. /\ rwaPrice \in Nat \ {0} /\ priceTimestamp \in Nat
        /\ PriceInfo(rwaPrice, priceTimestamp) = [price |-> rwaPrice, timestamp |-> priceTimestamp]
    BY <1>1 DEF OracleBase, OracleTypeOK, PriceInfo
  <2>2. /\ currentPriceId = 1 /\ latestPriceId = 1 /\ priceIds = <<1>>
        /\ prices = [[id \in AllPriceIds |-> NoPrice]
                       EXCEPT ![1] = [price |-> rwaPrice, timestamp |-> priceTimestamp]]
    BY <1>3, <2>1 DEF Init, PricerStarts
  <2>3. 1 \in AllPriceIds /\ AllPriceIds \subseteq Nat
    BY PricerAssumption, PricerWithOracleAssumption DEF AllPriceIds
  <2>4. /\ prices[1] = [price |-> rwaPrice, timestamp |-> priceTimestamp]
        /\ \A id \in AllPriceIds : id # 1 => prices[id] = [price |-> 0, timestamp |-> 0]
        /\ prices \in [AllPriceIds -> [price : Nat, timestamp : Nat]]
    BY <2>1, <2>2, <2>3 DEF NoPrice
  <2>5. PricerTypeOK
    BY <2>2, <2>3, <2>4 DEF PricerTypeOK
  <2>6. PriceIdsAreDense
    <3>1. \A id \in AllPriceIds : prices[id].price # 0 <=> id \in 1 .. 1
      BY <2>1, <2>3, <2>4
    <3>2. <<1>> = [i \in 1 .. 1 |-> i]
      OBVIOUS
    <3> QED BY <2>2, <3>1, <3>2 DEF PriceIdsAreDense, getPrice
  <2>7. LatestIsNewest /\ LatestNotNewerThanOracle
    BY <2>1, <2>2, <2>4 DEF LatestIsNewest, LatestNotNewerThanOracle
  <2> QED BY <1>1, <2>5, <2>6, <2>7 DEF InSync, PricerCore
<1> QED BY <1>2, <1>3

\* addPrice passes a newer price on at `now`, which its timestamp does not
\* exceed.
LEMMA AddedInSync ==
  ASSUME MaxAhead = 0, InSync, setup # "Pricer", UNCHANGED <<now, setup>>,
         NEW price \in AddedPrices, NEW t \in Timestamps, t <= now + MaxAhead,
         AddPriceAndUpdateOracle(price, t)
  PROVE  PricerCore' /\ LatestNotNewerThanOracle'
<1>1. PricerCore /\ PricerTypeOK /\ OracleBase /\ now \in Nat /\ priceTimestamp \in Nat
  BY DEF InSync, PricerCore, OracleBase, OracleTypeOK
<1>2. AddPrice(price, t)
  BY DEF AddPriceAndUpdateOracle
<1>3. PricerCore'
  BY <1>1, <1>2, AddPriceKeepsCore
<1>4. /\ price \in Nat \ {0} /\ t \in Nat /\ RecordPrice(price, t)
      /\ IsLatest(t) <=> t > prices[latestPriceId].timestamp
      /\ latestPriceId' = IF t > prices[latestPriceId].timestamp
                            THEN currentPriceId' ELSE latestPriceId
  BY <1>1, <1>2, AddPriceMovesLatest
<1>5. /\ prices'[currentPriceId'].timestamp = t
      /\ latestPriceId # currentPriceId + 1 /\ latestPriceId \in AllPriceIds
      /\ prices'[latestPriceId] = prices[latestPriceId]
  <2>1. latestPriceId # currentPriceId + 1 /\ latestPriceId \in AllPriceIds
    BY <1>1, IdRange
  <2>2. /\ currentPriceId' = currentPriceId + 1
        /\ prices'[currentPriceId + 1] = [price |-> price, timestamp |-> t]
        /\ \A id \in AllPriceIds : id # currentPriceId + 1 => prices'[id] = prices[id]
    BY <1>1, <1>4, PriceRecorded
  <2> QED BY <2>1, <2>2
<1>6. CASE IsLatest(t)
  <2>1. OracleMoves
    BY <1>1, <1>4, <1>6, OracleSetsMoves DEF AddPriceAndUpdateOracle, UpdateOraclePrice
  <2>2. priceTimestamp' = now /\ t <= now
    BY <1>1, <1>4, <2>1 DEF OracleMoves
  <2> QED BY <1>3, <1>4, <1>5, <1>6, <2>2 DEF LatestNotNewerThanOracle
<1>7. CASE ~IsLatest(t)
  <2>1. UNCHANGED priceTimestamp
    BY <1>7 DEF AddPriceAndUpdateOracle, comparisonVars, oracleVars
  <2> QED BY <1>3, <1>4, <1>5, <1>7, <2>1 DEF InSync, LatestNotNewerThanOracle
<1> QED BY <1>6, <1>7

\* Catching up adds no price older than the latest.
LEMMA CaughtUpInSync ==
  ASSUME InSync, setup # "Pricer", AddLatestOraclePrice
  PROVE  PricerCore' /\ LatestNotNewerThanOracle'
<1>1. /\ PricerTypeOK /\ PriceIdsAreDense /\ LatestIsNewest
      /\ rwaPrice \in Nat \ {0} /\ priceTimestamp \in Nat
      /\ prices[latestPriceId].timestamp <= priceTimestamp
  BY DEF InSync, PricerCore, OracleBase, OracleTypeOK, LatestNotNewerThanOracle
<1>2. /\ RecordPrice(rwaPrice, priceTimestamp) /\ latestPriceId' = currentPriceId'
      /\ UNCHANGED priceTimestamp
  BY DEF AddLatestOraclePrice, comparisonVars, oracleVars
<1>3. PricerTypeOK' /\ PriceIdsAreDense' /\ LatestIsNewest'
  BY <1>1, <1>2, RecordKeepsIds, RecordKeepsNewest
<1>4. prices'[latestPriceId'].timestamp = priceTimestamp
  <2>1. /\ currentPriceId' = currentPriceId + 1
        /\ prices'[currentPriceId + 1] = [price |-> rwaPrice, timestamp |-> priceTimestamp]
    BY <1>1, <1>2, PriceRecorded
  <2> QED BY <1>2, <2>1
<1> QED BY <1>1, <1>2, <1>3, <1>4 DEF PricerCore, LatestNotNewerThanOracle

LEMMA InSyncKept ==
  ASSUME MaxAhead = 0, InSync, [Next]_vars
  PROVE  InSync'
<1>1. OracleBase' /\ UNCHANGED setup /\ OracleBase /\ PricerCore
  BY OracleSteps, OracleBaseKept DEF InSync
<1>2. CASE setup = "Pricer" /\ PricerCalls
  <2>1. PICK price \in AddedPrices, t \in Timestamps : AddPrice(price, t)
    BY <1>2 DEF PricerCalls
  <2> QED BY <1>1, <1>2, <2>1, AddPriceKeepsCore DEF InSync, LatestNotNewerThanOracle
<1>3. CASE setup # "Pricer" /\ PricerCalls
  <2>1. UNCHANGED <<now, setup>>
    BY <1>3 DEF PricerCalls
  <2>2. CASE AddLatestOraclePrice
    BY <1>1, <1>3, <2>2, CaughtUpInSync DEF InSync
  <2>3. ASSUME NEW price \in AddedPrices, NEW t \in {u \in Timestamps : u <= now + MaxAhead},
               AddPriceAndUpdateOracle(price, t)
        PROVE  InSync'
    BY <1>1, <1>3, <2>1, <2>3, AddedInSync DEF InSync
  <2> QED BY <1>3, <2>2, <2>3 DEF PricerCalls
<1>4. CASE Corrections
  <2>1. PICK id \in AllPriceIds, price \in AddedPrices : UpdatePrice(id, price)
    BY <1>4 DEF Corrections
  <2>2. /\ PricerCore' /\ UNCHANGED latestPriceId
        /\ \A i \in AllPriceIds : prices'[i].timestamp = prices[i].timestamp
    BY <1>1, <2>1, UpdatePriceKeepsCore
  <2>3. latestPriceId \in AllPriceIds
    BY <1>1, IdRange DEF PricerCore
  <2>4. UNCHANGED priceTimestamp
    BY <1>4 DEF Corrections, comparisonVars, oracleVars
  <2> QED BY <1>1, <2>2, <2>3, <2>4 DEF InSync, LatestNotNewerThanOracle
<1>5. CASE DirectSetPrice \/ WorldMoves \/ UNCHANGED vars
  <2>1. UNCHANGED pricerVars
    BY <1>5 DEF DirectSetPrice, WorldMoves, vars
  <2>2. PricerCore'
    BY <1>1, <2>1 DEF pricerVars, PricerCore, PricerTypeOK, PriceIdsAreDense,
                      getPrice, LatestIsNewest, AllPriceIds
  <2>3. OracleMoves \/ OracleRests
    BY <1>1, OracleSteps
  <2>4. priceTimestamp' >= priceTimestamp /\ priceTimestamp \in Nat /\ priceTimestamp' \in Nat
    <3>1. priceTimestamp \in Nat /\ now \in Nat /\ Window \in Nat
      BY <1>1, RateCheckAssumption DEF OracleBase, OracleTypeOK, Window
    <3>2. CASE OracleMoves
      BY <3>1, <3>2 DEF OracleMoves
    <3>3. CASE OracleRests
      BY <3>1, <3>3 DEF OracleRests, oracleVars
    <3> QED BY <2>3, <3>2, <3>3
  <2>5. prices'[latestPriceId'].timestamp = prices[latestPriceId].timestamp
        /\ prices[latestPriceId].timestamp \in Nat
    BY <1>1, <2>1, IdRange DEF pricerVars, PricerCore
  <2> QED BY <1>1, <2>2, <2>4, <2>5 DEF InSync, LatestNotNewerThanOracle
<1> QED BY <1>2, <1>3, <1>4, <1>5 DEF Next

\* As long as no price is added with a timestamp in the future, the latest
\* price is the newest one the pricer knows, and no newer than the oracle's:
\* what PricerWithOracle.sol:91-92 relies on to skip a check.
THEOREM LatestInStep ==
  ASSUME MaxAhead = 0
  PROVE  Spec => [](LatestIsNewest /\ PriceIdsAreDense /\ LatestNotNewerThanOracle)
<1>1. InSync => LatestIsNewest /\ PriceIdsAreDense /\ LatestNotNewerThanOracle
  BY DEF InSync, PricerCore
<1>2. Init => InSync
  BY InSyncInitial
<1>3. InSync /\ [Next]_vars => InSync'
  BY InSyncKept
<1> QED BY <1>1, <1>2, <1>3, PTL DEF Spec
-----------------------------------------------------------------------------
(* The ids, whatever timestamps are added                                  *)

\* The part of the invariant that holds for every MaxAhead.
IdsInOrder == PricerTypeOK /\ PriceIdsAreDense /\ OracleBase

\* The pricer's newest price as either contract records it.
Recorded ==
  \E price \in Nat \ {0}, t \in Nat :
    RecordPrice(price, t) /\ latestPriceId' \in {latestPriceId, currentPriceId'}

LEMMA PricerMoves ==
  ASSUME IdsInOrder, [Next]_vars
  PROVE  \/ Recorded
         \/ \E id \in AllPriceIds, price \in AddedPrices : UpdatePrice(id, price)
         \/ UNCHANGED pricerVars
<1>1. PricerTypeOK /\ rwaPrice \in Nat \ {0} /\ priceTimestamp \in Nat
  BY DEF IdsInOrder, OracleBase, OracleTypeOK
<1>2. ASSUME NEW price \in AddedPrices, NEW t \in Timestamps, AddPrice(price, t)
      PROVE  Recorded
  BY <1>1, <1>2, AddPriceMovesLatest DEF Recorded
<1>3. CASE AddLatestOraclePrice
  BY <1>1, <1>3 DEF AddLatestOraclePrice, Recorded
<1>4. CASE PricerCalls
  BY <1>2, <1>3, <1>4 DEF PricerCalls, AddPriceAndUpdateOracle
<1>5. CASE Corrections
  BY <1>5 DEF Corrections
<1>6. CASE DirectSetPrice \/ WorldMoves \/ UNCHANGED vars
  BY <1>6 DEF DirectSetPrice, WorldMoves, vars
<1> QED BY <1>4, <1>5, <1>6 DEF Next

LEMMA IdsInitial == Init => IdsInOrder
BY InSyncInitial DEF InSync, PricerCore, IdsInOrder

LEMMA IdsKept ==
  ASSUME IdsInOrder, [Next]_vars
  PROVE  IdsInOrder'
<1>1. PricerTypeOK /\ PriceIdsAreDense /\ OracleBase'
  BY OracleSteps, OracleBaseKept DEF IdsInOrder
<1>2. CASE Recorded
  <2>1. PICK price \in Nat \ {0}, t \in Nat :
          RecordPrice(price, t) /\ latestPriceId' \in {latestPriceId, currentPriceId'}
    BY <1>2 DEF Recorded
  <2> QED BY <1>1, <2>1, RecordKeepsIds DEF IdsInOrder
<1>3. ASSUME NEW id \in AllPriceIds, NEW price \in AddedPrices, UpdatePrice(id, price)
      PROVE  IdsInOrder'
  BY <1>1, <1>3, UpdateKeepsIds DEF IdsInOrder
<1>4. CASE UNCHANGED pricerVars
  BY <1>1, <1>4 DEF pricerVars, IdsInOrder, PricerTypeOK, PriceIdsAreDense, getPrice, AllPriceIds
<1> QED BY <1>2, <1>3, <1>4, PricerMoves

LEMMA IdsInOrderHolds == Spec => []IdsInOrder
BY IdsInitial, IdsKept, PTL DEF Spec

\* The storage of the pricer and of either oracle keeps its type, and the
\* oracle's history ends with the price in force.
\* (Pricer.sol:27-37, RWAOracleRateCheck.sol:33-36.)
THEOREM OracleTypeCorrect == Spec => []TypeOK
<1>1. IdsInOrder => TypeOK
  BY DEF IdsInOrder, OracleBase, TypeOK
<1> QED BY <1>1, IdsInOrderHolds, PTL

\* A price is known under exactly the ids 1 .. currentPriceId, whether it came
\* from a caller or from the oracle, and whatever timestamps were added.
\* (Pricer.sol:64-81, PricerWithOracle.sol:60-107.)
THEOREM IdsDense == Spec => []PriceIdsAreDense
<1>1. IdsInOrder => PriceIdsAreDense
  BY DEF IdsInOrder
<1> QED BY <1>1, IdsInOrderHolds, PTL

\* A priceId given out keeps its timestamp and stays priced, over an oracle
\* too.  (Pricer.sol:70-104, PricerWithOracle.sol:60-107.)
THEOREM KnownPricesKeptOverOracle == Spec => KnownPricesStay
<1>1. IdsInOrder /\ [Next]_vars
        => [\A id \in 1 .. currentPriceId :
              /\ prices'[id].timestamp = prices[id].timestamp
              /\ prices'[id].price # 0]_pricerVars
  <2> SUFFICES ASSUME IdsInOrder, [Next]_vars, ~UNCHANGED pricerVars,
                      NEW id \in 1 .. currentPriceId
               PROVE  prices'[id].timestamp = prices[id].timestamp /\ prices'[id].price # 0
    OBVIOUS
  <2>1. PricerTypeOK /\ PriceIdsAreDense
    BY DEF IdsInOrder
  <2>2. CASE Recorded
    BY <2>1, <2>2, RecordKeepsKnownPrices DEF Recorded
  <2>3. ASSUME NEW i \in AllPriceIds, NEW price \in AddedPrices, UpdatePrice(i, price)
        PROVE  prices'[id].timestamp = prices[id].timestamp /\ prices'[id].price # 0
    BY <2>1, <2>3, UpdateKeepsKnownPrices
  <2> QED BY <2>2, <2>3, PricerMoves
<1> QED BY <1>1, IdsInOrderHolds, PTL DEF Spec, KnownPricesStay
-----------------------------------------------------------------------------
(* The two contracts together                                              *)

\* Whenever the latest price moves to another id, the oracle has that price at
\* the end of the same call.  (PricerWithOracle.sol:60-107.)
THEOREM LatestIsTheOracles == Spec => LatestFollowsOracle
<1>1. IdsInOrder /\ [Next]_vars
        => [latestPriceId' # latestPriceId /\ setup # "Pricer"
              => prices'[latestPriceId'].price = rwaPrice']_vars
  <2> SUFFICES ASSUME IdsInOrder, Next, latestPriceId' # latestPriceId, setup # "Pricer"
               PROVE  prices'[latestPriceId'].price = rwaPrice'
    OBVIOUS
  <2>1. PricerTypeOK /\ OracleBase /\ rwaPrice \in Nat /\ priceTimestamp \in Nat
    BY DEF IdsInOrder, OracleBase, OracleTypeOK
  <2>2. PricerCalls /\ UNCHANGED now
    BY DEF Next, PricerCalls, Corrections, UpdatePrice, DirectSetPrice, WorldMoves, pricerVars
  <2>3. ASSUME NEW price \in AddedPrices, NEW t \in Timestamps,
               AddPriceAndUpdateOracle(price, t)
        PROVE  prices'[latestPriceId'].price = rwaPrice'
    <3>1. /\ price \in Nat /\ t \in Nat /\ RecordPrice(price, t) /\ IsLatest(t)
          /\ latestPriceId' = currentPriceId'
      BY <2>1, <2>3, AddPriceMovesLatest DEF AddPriceAndUpdateOracle
    <3>2. rwaPrice' = price
      BY <2>1, <2>2, <2>3, <3>1, OracleSetsMoves DEF AddPriceAndUpdateOracle, UpdateOraclePrice
    <3>3. prices'[currentPriceId'] = [price |-> price, timestamp |-> t]
      BY <2>1, <3>1, PriceRecorded
    <3> QED BY <3>1, <3>2, <3>3
  <2>4. CASE AddLatestOraclePrice
    <3>1. RecordPrice(rwaPrice, priceTimestamp) /\ latestPriceId' = currentPriceId'
          /\ rwaPrice' = rwaPrice
      BY <2>4 DEF AddLatestOraclePrice, comparisonVars, oracleVars
    <3>2. prices'[currentPriceId'] = [price |-> rwaPrice, timestamp |-> priceTimestamp]
      BY <2>1, <3>1, PriceRecorded
    <3> QED BY <3>1, <3>2
  <2> QED BY <2>2, <2>3, <2>4 DEF PricerCalls
<1> QED BY <1>1, IdsInOrderHolds, PTL DEF Spec, LatestFollowsOracle

LEMMA WithinLimitMoves ==
  ASSUME NEW old \in Nat \ {0}, NEW new \in Nat, WithinLimit(old, new)
  PROVE  MovesWithinLimit(old, new)
<1>1. CASE setup = "ExternalComparison"
  BY <1>1, ComparisonLimit DEF WithinLimit, MovesWithinLimit
<1>2. CASE setup # "ExternalComparison"
  <2>1. /\ (new - old) * BPS_DENOMINATOR <= MAX_CHANGE_DIFF_BPS * old
        /\ (old - new) * BPS_DENOMINATOR <= MAX_CHANGE_DIFF_BPS * old
    BY <1>2, RateCheckLimit DEF WithinLimit
  <2>2. Abs(new - old) \in {new - old, old - new}
    BY DEF Abs
  <2> QED BY <1>2, <2>1, <2>2 DEF MovesWithinLimit
<1> QED BY <1>1, <1>2

\* A price added through the pricer lies within the oracle's limit of what was
\* the pricer's latest price until then, however far direct calls and
\* corrections drove the two apart before.  The guard gives that the two
\* prices are equal when the oracle checks its limit.
\* (README.md:31, PricerWithOracle.sol:60-119, RWAOracleRateCheck.sol:70-90,
\* RWAOracleExternalComparisonCheck.sol:160-166.)
THEOREM AddedPricesBounded == Spec => AddedPricesAreBounded
<1>1. IdsInOrder /\ [Next]_vars
        => [latestPriceId' # latestPriceId /\ rwaPriceLog' # rwaPriceLog
              => MovesWithinLimit(getPrice(latestPriceId), prices'[latestPriceId'].price)]_vars
  <2> SUFFICES ASSUME IdsInOrder, Next, latestPriceId' # latestPriceId,
                      rwaPriceLog' # rwaPriceLog
               PROVE  MovesWithinLimit(getPrice(latestPriceId), prices'[latestPriceId'].price)
    OBVIOUS
  <2>1. PricerTypeOK /\ OracleBase /\ rwaPrice \in Nat \ {0}
    BY DEF IdsInOrder, OracleBase, OracleTypeOK
  <2>2. PricerCalls /\ UNCHANGED now
    BY DEF Next, PricerCalls, Corrections, UpdatePrice, DirectSetPrice, WorldMoves, pricerVars
  <2>3. PICK price \in AddedPrices, t \in Timestamps : AddPriceAndUpdateOracle(price, t)
    BY <2>2 DEF PricerCalls, AddLatestOraclePrice, comparisonVars, oracleVars
  <2>4. /\ price \in Nat /\ t \in Nat /\ RecordPrice(price, t) /\ IsLatest(t)
        /\ latestPriceId' = currentPriceId'
    BY <2>1, <2>3, AddPriceMovesLatest DEF AddPriceAndUpdateOracle
  <2>5. getPrice(latestPriceId) = rwaPrice /\ OracleSetsPrice(price)
    BY <2>3, <2>4 DEF AddPriceAndUpdateOracle, UpdateOraclePrice
  <2>6. WithinLimit(rwaPrice, price)
    BY <2>1, <2>2, <2>4, <2>5, OracleSetsMoves DEF OracleMoves
  <2>7. prices'[currentPriceId'] = [price |-> price, timestamp |-> t]
    BY <2>1, <2>4, PriceRecorded
  <2>8. prices'[latestPriceId'].price = price
    BY <2>4, <2>7
  <2>9. MovesWithinLimit(rwaPrice, price)
    BY <2>1, <2>4, <2>6, WithinLimitMoves
  <2> QED BY <2>5, <2>8, <2>9
<1> QED BY <1>1, IdsInOrderHolds, PTL DEF Spec, AddedPricesAreBounded
-----------------------------------------------------------------------------
(* Ties                                                                    *)

LoggedIn(log, t) == \E i \in 1 .. Len(log) : log[i].timestamp = t

LEMMA LoggedStays ==
  ASSUME OracleBase, OracleMoves \/ OracleRests, NEW t, LoggedIn(rwaPriceLog, t)
  PROVE  LoggedIn(rwaPriceLog', t)
<1>1. CASE OracleMoves
  BY <1>1, LogGrows DEF LoggedIn
<1>2. CASE OracleRests
  BY <1>2 DEF OracleRests, oracleVars, LoggedIn
<1> QED BY <1>1, <1>2

TiesLogged(log, ps, latest) ==
  \A id \in 1 .. latest - 1 :
    ps[id].timestamp = ps[latest].timestamp => LoggedIn(log, ps[latest].timestamp)

LEMMA TiesAsLogged ==
  /\ setup # "Pricer" => (TiesAreKept <=> TiesLogged(rwaPriceLog, prices, latestPriceId))
  /\ setup' # "Pricer" => (TiesAreKept' <=> TiesLogged(rwaPriceLog', prices', latestPriceId'))
BY DEF TiesAreKept, TiesLogged, LoggedIn

\* Nothing happens to ties while the pointer and the timestamps stay.
LEMMA TiesUndisturbed ==
  ASSUME InSync, TiesAreKept, setup # "Pricer", UNCHANGED <<setup, latestPriceId>>,
         OracleMoves \/ OracleRests,
         \A id \in 0 .. currentPriceId : prices'[id].timestamp = prices[id].timestamp
  PROVE  TiesAreKept'
<1>1. PricerTypeOK /\ OracleBase
  BY DEF InSync, PricerCore
<1>2. latestPriceId \in 0 .. currentPriceId /\ currentPriceId \in Nat
  BY <1>1, IdRange
<1>3. TiesLogged(rwaPriceLog, prices, latestPriceId)
  BY TiesAsLogged
<1>4. \A t : LoggedIn(rwaPriceLog, t) => LoggedIn(rwaPriceLog', t)
  BY <1>1, LoggedStays
<1>5. TiesLogged(rwaPriceLog', prices', latestPriceId)
  BY <1>2, <1>3, <1>4 DEF TiesLogged
<1> QED BY <1>5, TiesAsLogged

\* A newer price has no tie; the oracle's own price is logged.
LEMMA TiesWithOracle ==
  ASSUME MaxAhead = 0, InSync, TiesAreKept, setup # "Pricer", [Next]_vars
  PROVE  TiesAreKept'
<1>1. /\ PricerTypeOK /\ LatestIsNewest /\ OracleBase
      /\ rwaPrice \in Nat /\ priceTimestamp \in Nat
      /\ (OracleMoves \/ OracleRests) /\ UNCHANGED setup
  BY OracleSteps DEF InSync, PricerCore, OracleBase, OracleTypeOK
<1>2. /\ currentPriceId \in Nat /\ latestPriceId \in 0 .. currentPriceId
      /\ 0 .. currentPriceId \subseteq AllPriceIds
      /\ \A id \in 0 .. currentPriceId : prices[id].timestamp \in Nat
      /\ \A id \in 1 .. currentPriceId :
           prices[id].timestamp <= prices[latestPriceId].timestamp
  BY <1>1, IdRange, PricerAssumption DEF AllPriceIds, LatestIsNewest
<1>3. ASSUME NEW price \in AddedPrices, NEW t \in Timestamps, AddPrice(price, t)
      PROVE  TiesAreKept'
  <2>1. /\ price \in Nat /\ t \in Nat /\ RecordPrice(price, t)
        /\ latestPriceId' = IF t > prices[latestPriceId].timestamp
                              THEN currentPriceId' ELSE latestPriceId
    BY <1>1, <1>3, AddPriceMovesLatest
  <2>2. /\ currentPriceId' = currentPriceId + 1
        /\ prices'[currentPriceId + 1].timestamp = t
        /\ \A id \in AllPriceIds : id # currentPriceId + 1 => prices'[id] = prices[id]
    <3>1. prices'[currentPriceId + 1] = [price |-> price, timestamp |-> t]
      BY <1>1, <2>1, PriceRecorded
    <3>2. /\ currentPriceId' = currentPriceId + 1
          /\ \A id \in AllPriceIds : id # currentPriceId + 1 => prices'[id] = prices[id]
      BY <1>1, <2>1, PriceRecorded
    <3> QED BY <3>1, <3>2
  <2>3. \A id \in 0 .. currentPriceId : prices'[id].timestamp = prices[id].timestamp
    BY <1>2, <2>2
  <2>4. CASE t > prices[latestPriceId].timestamp
    <3>1. latestPriceId' = currentPriceId + 1
      BY <2>1, <2>2, <2>4
    <3>2. \A id \in 1 .. currentPriceId : prices'[id].timestamp < t
      BY <1>2, <2>1, <2>3, <2>4
    <3>3. TiesLogged(rwaPriceLog', prices', currentPriceId + 1)
      BY <1>2, <2>1, <2>2, <3>2 DEF TiesLogged
    <3> QED BY <1>1, <3>1, <3>3, TiesAsLogged
  <2>5. CASE ~(t > prices[latestPriceId].timestamp)
    BY <1>1, <2>1, <2>3, <2>5, TiesUndisturbed
  <2> QED BY <2>4, <2>5
<1>4. CASE AddLatestOraclePrice
  <2>1. /\ RecordPrice(rwaPrice, priceTimestamp) /\ latestPriceId' = currentPriceId'
        /\ UNCHANGED rwaPriceLog
    BY <1>4 DEF AddLatestOraclePrice, comparisonVars, oracleVars
  <2>2. prices'[latestPriceId'] = [price |-> rwaPrice, timestamp |-> priceTimestamp]
    BY <1>1, <2>1, PriceRecorded
  <2>3. LoggedIn(rwaPriceLog, priceTimestamp)
    <3>1. /\ rwaPriceLog \in Seq([price : Nat \ {0}, timestamp : Nat \ {0}])
          /\ rwaPriceLog # <<>>
          /\ rwaPriceLog[Len(rwaPriceLog)].timestamp = priceTimestamp
      BY <1>1 DEF OracleBase, OracleTypeOK, LogAgrees, PriceInfo
    <3>2. Len(rwaPriceLog) \in Nat \ {0}
      BY <3>1, EmptySeq
    <3>3. Len(rwaPriceLog) \in 1 .. Len(rwaPriceLog)
      BY <3>2
    <3> QED BY <3>1, <3>3 DEF LoggedIn
  <2>4. TiesLogged(rwaPriceLog', prices', latestPriceId')
    BY <2>1, <2>2, <2>3 DEF TiesLogged
  <2> QED BY <1>1, <2>4, TiesAsLogged
<1>5. CASE PricerCalls
  BY <1>3, <1>4, <1>5 DEF PricerCalls, AddPriceAndUpdateOracle
<1>6. CASE Corrections
  <2>1. PICK id \in AllPriceIds, price \in AddedPrices : UpdatePrice(id, price)
    BY <1>6 DEF Corrections
  <2>2. /\ UNCHANGED latestPriceId
        /\ \A i \in AllPriceIds : prices'[i].timestamp = prices[i].timestamp
    BY <2>1, UpdatePriceKeepsCore DEF InSync
  <2> QED BY <1>1, <1>2, <2>2, TiesUndisturbed
<1>7. CASE DirectSetPrice \/ WorldMoves \/ UNCHANGED vars
  <2>1. UNCHANGED pricerVars
    BY <1>7 DEF DirectSetPrice, WorldMoves, vars
  <2> QED BY <1>1, <2>1, TiesUndisturbed DEF pricerVars
<1> QED BY <1>5, <1>6, <1>7 DEF Next

LEMMA TiesAlone ==
  ASSUME PricerInvariant, setup = "Pricer", [Next]_vars
  PROVE  PricerInvariant'
<1>1. CASE PricerCalls
  BY <1>1, PricerStep DEF PricerCalls, PricerNext
<1>2. CASE Corrections
  BY <1>2, PricerStep DEF Corrections, PricerNext
<1>3. CASE DirectSetPrice \/ WorldMoves \/ UNCHANGED vars
  BY <1>3, PricerStep DEF DirectSetPrice, WorldMoves, vars
<1> QED BY <1>1, <1>2, <1>3 DEF Next

\* Of the prices with the newest timestamp the one added first is the latest,
\* over an oracle unless that timestamp is one of the oracle's: only catching
\* up puts a price ahead of others as new.  (Pricer.sol:78-80,
\* PricerWithOracle.sol:77-79, 98-104.)
THEOREM FirstOfTiesStays ==
  ASSUME MaxAhead = 0
  PROVE  Spec => []TiesAreKept
<1> DEFINE Inv == InSync /\ TiesAreKept
<1>1. Init => TiesAreKept
  <2>1. Init /\ setup # "Pricer" => latestPriceId = 1
    BY DEF Init, PricerStarts
  <2>2. latestPriceId = 1 /\ setup # "Pricer" => TiesAreKept
    BY DEF TiesAreKept
  <2>3. Init /\ setup = "Pricer" => TiesAreKept
    BY PricerInitial DEF Init, PricerInvariant, TiesAreKept
  <2> QED BY <2>1, <2>2, <2>3
<1>2. Inv /\ [Next]_vars => Inv'
  <2> SUFFICES ASSUME Inv, [Next]_vars PROVE Inv'
    OBVIOUS
  <2>1. InSync' /\ UNCHANGED setup
    BY InSyncKept, OracleSteps DEF InSync
  <2>2. CASE setup = "Pricer"
    <3>1. PricerInvariant
      BY <2>2 DEF InSync, PricerInvariant, TiesAreKept
    <3>2. TiesKeepTheFirst'
      BY <2>2, <3>1, TiesAlone DEF PricerInvariant
    <3>3. setup' = "Pricer"
      BY <2>1, <2>2
    <3> QED BY <2>1, <3>2, <3>3 DEF TiesAreKept
  <2>3. CASE setup # "Pricer"
    BY <2>1, <2>3, TiesWithOracle
  <2> QED BY <2>2, <2>3
<1> QED BY <1>1, <1>2, InSyncInitial, PTL DEF Spec
-----------------------------------------------------------------------------
(* The comparison with Chainlink                                           *)

\* A quotient truncated towards zero loses less than the divisor.
LEMMA TruncationLoss ==
  ASSUME NEW x \in Int, NEW d \in Nat \ {0}
  PROVE  /\ truncatedDiv(x, d) \in Int
         /\ \E r \in Int : x = truncatedDiv(x, d) * d + r /\ 0 - d < r /\ r < d
<1>1. CASE x >= 0
  <2>1. /\ x \in Nat /\ truncatedDiv(x, d) = x \div d
    BY <1>1 DEF truncatedDiv
  <2>2. x \div d \in Nat /\ x % d \in 0 .. d - 1 /\ x = (x \div d) * d + (x % d)
    BY <2>1, DivisionFacts
  <2> QED BY <2>1, <2>2
<1>2. CASE x < 0
  <2> DEFINE y == 0 - x
             q == y \div d
             r == y % d
  <2>1. y \in Nat /\ truncatedDiv(x, d) = 0 - q
    BY <1>2 DEF truncatedDiv
  <2>2. q \in Nat /\ r \in 0 .. d - 1 /\ y = q * d + r
    BY <2>1, DivisionFacts
  <2>3. x = 0 - y
    OBVIOUS
  <2> HIDE DEF y, q, r
  <2>4. (0 - q) * d = 0 - q * d /\ q * d \in Nat
    BY <2>2, ProductIsNat
  <2>5. x = (0 - q) * d + (0 - r) /\ 0 - r \in Int /\ 0 - d < 0 - r /\ 0 - r < d
    BY <2>2, <2>3, <2>4
  <2> QED BY <2>1, <2>2, <2>5
<1> QED BY <1>1, <1>2

\* A magnitude within a limit keeps the quotient within it.
LEMMA TruncatedWithin ==
  ASSUME NEW x \in Int, NEW d \in Nat \ {0}, NEW limit \in Nat, Abs(x) <= limit * d
  PROVE  Abs(truncatedDiv(x, d)) <= limit
<1> DEFINE y == Abs(x)
           q == y \div d
           r == y % d
<1>1. y \in Nat /\ y <= limit * d
  BY DEF Abs
<1>2. q \in Nat /\ r \in 0 .. d - 1 /\ y = q * d + r
  BY <1>1, DivisionFacts
<1>3. Abs(truncatedDiv(x, d)) = q
  <2>1. CASE x < 0
    <3>1. truncatedDiv(x, d) = 0 - q
      BY <2>1 DEF truncatedDiv, Abs
    <3> HIDE DEF q
    <3> QED BY <1>2, <3>1 DEF Abs
  <2>2. CASE ~(x < 0)
    <3>1. truncatedDiv(x, d) = q
      BY <2>2 DEF truncatedDiv, Abs
    <3> HIDE DEF q
    <3> QED BY <1>2, <3>1 DEF Abs
  <2> QED BY <2>1, <2>2
<1> HIDE DEF y, q, r
<1>4. ASSUME q >= limit + 1 PROVE FALSE
  <2>1. (limit + 1) * d <= q * d
    BY <1>2, <1>4, LargerProduct
  <2>2. (limit + 1) * d = limit * d + d
    BY SMT
  <2>3. limit * d \in Nat /\ q * d \in Nat
    BY <1>2, ProductIsNat
  <2> QED BY <1>1, <1>2, <2>1, <2>2, <2>3
<1> QED BY <1>2, <1>3, <1>4

LEMMA ScaledWithin ==
  ASSUME NEW x \in Int, NEW limit \in Nat, NEW c \in Nat \ {0}, Abs(x) <= limit
  PROVE  x * c <= limit * c /\ 0 - limit * c <= x * c /\ x * c \in Int
<1>1. x <= limit /\ 0 - limit <= x
  BY DEF Abs
<1>2. x * c \in Int
  BY SMT
<1>3. x * c <= limit * c
  BY <1>1, SMT
<1>4. (0 - limit) * c <= x * c
  BY <1>1, SMT
<1>5. (0 - limit) * c = 0 - limit * c
  BY SMT
<1> QED BY <1>2, <1>3, <1>4, <1>5

LEMMA ScaledBelow ==
  ASSUME NEW r \in Int, NEW a \in Nat \ {0}, NEW c \in Nat \ {0}, 0 - a < r, r < a
  PROVE  r * c < a * c /\ 0 - a * c < r * c /\ r * c \in Int
<1>1. r * c \in Int
  BY SMT
<1>2. r * c < a * c
  BY SMT
<1>3. (0 - a) * c < r * c
  BY SMT
<1>4. (0 - a) * c = 0 - a * c
  BY SMT
<1> QED BY <1>1, <1>2, <1>3, <1>4

\* Two quotients within a limit of each other, and what truncation lost.
LEMMA CrossProduct ==
  ASSUME NEW a \in Nat \ {0}, NEW b \in Nat \ {0}, NEW q \in Int, NEW p \in Int,
         NEW r \in Int, NEW s \in Int, NEW limit \in Nat,
         0 - a < r, r < a, 0 - b < s, s < b, Abs(q - p) <= limit
  PROVE  Abs((q * a + r) * b - (p * b + s) * a) < (limit + 2) * (a * b)
<1> DEFINE m == a * b
           z == (q * a + r) * b - (p * b + s) * a
<1>1. m \in Nat \ {0}
  BY SMT
<1>2. z = (q - p) * m + r * b - s * a
  BY SMT
<1>3. (limit + 2) * m = limit * m + m + m /\ limit * m \in Nat
  <2> HIDE DEF m
  <2>1. (limit + 2) * m = limit * m + m + m
    BY <1>1, SMT
  <2>2. limit * m \in Nat
    BY <1>1, ProductIsNat
  <2> QED BY <2>1, <2>2
<1>4. r * b < m /\ 0 - m < r * b /\ r * b \in Int
  BY ScaledBelow
<1>5. s * a < m /\ 0 - m < s * a /\ s * a \in Int
  <2>1. b * a = m
    BY SMT
  <2> QED BY <2>1, ScaledBelow
<1> HIDE DEF m
<1>6. /\ (q - p) * m <= limit * m /\ 0 - limit * m <= (q - p) * m
      /\ (q - p) * m \in Int
  BY <1>1, ScaledWithin
<1> DEFINE c == (q - p) * m
           u == r * b
           v == s * a
           l == limit * m
<1>7. z = c + u - v
  BY <1>2
<1> HIDE DEF z, c, u, v, l
<1>8. z < l + m + m /\ 0 - (l + m + m) < z /\ z \in Int
  BY <1>1, <1>3, <1>4, <1>5, <1>6, <1>7 DEF c, u, v, l
<1>9. Abs(z) < l + m + m
  <2>1. l + m + m \in Nat
    BY <1>1, <1>3 DEF l
  <2> QED BY <1>8, <2>1 DEF Abs
<1> QED BY <1>3, <1>9 DEF z, m, l

\* What the check of one update bounds.
LEMMA AgreementLimit ==
  ASSUME NEW old \in Nat \ {0}, NEW new \in Nat, NEW clOld \in Nat \ {0}, NEW clNew \in Nat,
         Agrees(signedChangeBps(old, new), signedChangeBps(clOld, clNew)),
         Abs(clNew - clOld) * BPS_DENOMINATOR
           <= (MAX_ABSOLUTE_DIFF_BPS + MAX_CHANGE_DIFF_BPS) * clOld
  PROVE  Abs(new * clOld - clNew * old) * BPS_DENOMINATOR
           < (MAX_CHANGE_DIFF_BPS + 2) * old * clOld
<1> DEFINE D == BPS_DENOMINATOR
           M == MAX_CHANGE_DIFF_BPS
           L == MAX_ABSOLUTE_DIFF_BPS + M
           x == (new - old) * D
           y == (clNew - clOld) * D
           q == truncatedDiv(x, old)
           p == truncatedDiv(y, clOld)
<1>1. D \in Nat \ {0} /\ M \in Nat /\ L \in Nat
  BY RateCheckAssumption, ComparisonAssumption
<1>2. x \in Int /\ y \in Int
  <2> HIDE DEF D
  <2> QED BY <1>1, SMT
<1>3. signedChangeBps(old, new) = q /\ signedChangeBps(clOld, clNew) = p
  BY DEF signedChangeBps
<1>4. Abs(clNew - clOld) * D <= L * clOld
  OBVIOUS
<1>5. q \in Int /\ \E r \in Int : x = q * old + r /\ 0 - old < r /\ r < old
  <2> HIDE DEF x
  <2> QED BY <1>2, TruncationLoss
<1>6. p \in Int /\ \E s \in Int : y = p * clOld + s /\ 0 - clOld < s /\ s < clOld
  <2> HIDE DEF y
  <2> QED BY <1>2, TruncationLoss
<1>7. \A u \in Int : Abs(u) * D = Abs(u * D)
  <2> SUFFICES ASSUME NEW u \in Int PROVE Abs(u) * D = Abs(u * D)
    OBVIOUS
  <2> HIDE DEF D
  <2>1. CASE u >= 0
    <3>1. u * D \in Nat /\ Abs(u) = u
      BY <1>1, <2>1, ProductIsNat DEF Abs
    <3> QED BY <3>1 DEF Abs
  <2>2. CASE u < 0
    <3>1. 0 - u \in Nat /\ 0 - u > 0 /\ Abs(u) = 0 - u
      BY <2>2 DEF Abs
    <3>2. (0 - u) * D > 0
      BY <1>1, <3>1, SMT
    <3>3. (0 - u) * D = 0 - u * D /\ u * D \in Int
      BY <1>1, SMT
    <3> QED BY <3>1, <3>2, <3>3 DEF Abs
  <2> QED BY <2>1, <2>2
<1>8. Abs(p) <= L
  <2>1. Abs(y) <= L * clOld
    <3>1. clNew - clOld \in Int
      OBVIOUS
    <3> QED BY <1>4, <1>7, <3>1
  <2> HIDE DEF y, L
  <2> QED BY <1>1, <1>2, <2>1, TruncatedWithin
<1>9. Abs(q - p) <= M
  BY <1>3, <1>8 DEF Agrees, ChainlinkSane
<1>10. (new * clOld - clNew * old) * D = x * clOld - y * old
  <2> HIDE DEF D
  <2> QED BY <1>1, SMT
<1>11. new * clOld - clNew * old \in Int
  <2>1. new * clOld \in Nat /\ clNew * old \in Nat
    BY ProductIsNat
  <2> QED BY <2>1
<1>12. Abs(x * clOld - y * old) < (M + 2) * (old * clOld)
  <2>1. PICK r \in Int : x = q * old + r /\ 0 - old < r /\ r < old
    BY <1>5
  <2>2. PICK s \in Int : y = p * clOld + s /\ 0 - clOld < s /\ s < clOld
    BY <1>6
  <2> HIDE DEF x, y, q, p, M
  <2> QED BY <1>1, <1>5, <1>6, <1>9, <2>1, <2>2, CrossProduct
<1>13. (M + 2) * (old * clOld) = (M + 2) * old * clOld
  <2> HIDE DEF M
  <2> QED BY <1>1, SMT
<1> HIDE DEF D, x, y, q, p
<1>14. Abs(new * clOld - clNew * old) * D = Abs(x * clOld - y * old)
  BY <1>7, <1>10, <1>11
<1> QED BY <1>12, <1>13, <1>14 DEF D

\* The update of the comparing oracle, or none.
LEMMA ComparisonSteps ==
  ASSUME [Next]_vars
  PROVE  /\ UNCHANGED setup
         /\ chainlink' = chainlink \/ chainlink'.answer \in Int
         /\ \/ setup = "ExternalComparison"
              /\ \E price \in Nat : SetPriceCompared(price)
            \/ setup # "ExternalComparison" /\ UNCHANGED <<lastSetRound, answerLog>>
            \/ UNCHANGED comparisonVars
<1>1. ASSUME NEW price \in Nat, OracleSetsPrice(price)
      PROVE  \/ setup = "ExternalComparison" /\ SetPriceCompared(price)
             \/ setup # "ExternalComparison" /\ UNCHANGED <<lastSetRound, answerLog>>
  BY <1>1 DEF OracleSetsPrice
<1>2. CASE PricerCalls
  BY <1>1, <1>2, PricerAssumption
     DEF PricerCalls, AddPriceAndUpdateOracle, UpdateOraclePrice, AddLatestOraclePrice
<1>3. CASE DirectSetPrice
  BY <1>1, <1>3, RateCheckAssumption DEF DirectSetPrice
<1>4. CASE Corrections \/ UNCHANGED vars
  BY <1>4 DEF Corrections, vars
<1>5. CASE WorldMoves
  BY <1>5, ComparisonAssumption DEF WorldMoves, ChainlinkAnswers, Round
<1> QED BY <1>2, <1>3, <1>4, <1>5 DEF Next

\* Beside the prices the comparing oracle keeps Chainlink's answers, one for
\* each, the last of them in lastSetRound.
Compared ==
  /\ chainlink.answer \in Int
  /\ setup # "ExternalComparison" => answerLog = <<>>
  /\ setup = "ExternalComparison" =>
       /\ answerLog \in Seq(Nat)
       /\ Len(answerLog) = Len(rwaPriceLog)
       /\ answerLog[Len(answerLog)] = lastSetRound.answer

LEMMA ComparedInitial == Init => Compared /\ TracksChainlink
<1> SUFFICES ASSUME Init PROVE Compared /\ TracksChainlink
  OBVIOUS
<1>1. CASE setup = "ExternalComparison"
  <2>1. /\ chainlink.answer \in Nat /\ lastSetRound = chainlink
        /\ answerLog = <<chainlink.answer>> /\ Len(rwaPriceLog) = 1
    BY <1>1, ComparisonAssumption
       DEF Init, OracleStarts, ComparisonInit, OracleInit, RoundUsable, Round
  <2> QED BY <1>1, <2>1 DEF Compared, TracksChainlink
<1>2. CASE setup # "ExternalComparison"
  BY <1>2 DEF Init, OracleStarts, NoChainlink, Round, Compared, TracksChainlink
<1> QED BY <1>1, <1>2

\* One more price beside one more answer.
LEMMA ComparedUpdate ==
  ASSUME OracleBase, Compared, TracksChainlink, setup = "ExternalComparison",
         UNCHANGED setup, OracleMoves, NEW price \in Nat, SetPriceCompared(price)
  PROVE  /\ answerLog' \in Seq(Nat) /\ Len(answerLog') = Len(rwaPriceLog')
         /\ answerLog'[Len(answerLog')] = lastSetRound'.answer
         /\ TracksChainlink'
<1> DEFINE n == Len(rwaPriceLog)
           clNew == chainlink.answer
           clOld == lastSetRound.answer
<1>1. /\ answerLog \in Seq(Nat) /\ Len(answerLog) = n /\ answerLog[n] = clOld
      /\ clNew \in Int
  BY DEF Compared
<1>2. /\ n \in Nat \ {0} /\ Len(rwaPriceLog') = n + 1
      /\ \A i \in 1 .. n : rwaPriceLog'[i] = rwaPriceLog[i]
      /\ rwaPriceLog[n].price = rwaPrice /\ rwaPriceLog'[n + 1].price = rwaPrice'
  BY LogGrows DEF PriceInfo
<1>3. /\ rwaPrice' = price /\ lastSetRound' = chainlink
      /\ answerLog' = Append(answerLog, clNew)
      /\ clNew >= 0 /\ clOld # 0
      /\ Agrees(signedChangeBps(rwaPrice, price), signedChangeBps(clOld, clNew))
  BY DEF SetPriceCompared, RoundUsable, KeepRound
<1>4. rwaPrice \in Nat \ {0}
  BY DEF OracleBase, OracleTypeOK
<1> HIDE DEF n, clNew, clOld
<1>5. /\ clNew \in Nat
      /\ answerLog' \in Seq(Nat) /\ Len(answerLog') = n + 1
      /\ \A i \in 1 .. n : answerLog'[i] = answerLog[i]
      /\ answerLog'[n + 1] = clNew
  <2>1. clNew \in Nat
    BY <1>1, <1>3
  <2> QED BY <1>1, <1>2, <1>3, <2>1
<1>6. clOld \in Nat \ {0}
  <2>1. n \in 1 .. Len(answerLog)
    BY <1>1, <1>2
  <2>2. answerLog[n] \in Nat
    BY <1>1, <2>1, ElementOfSeq
  <2> QED BY <1>1, <1>3, <2>2
<1> DEFINE At(old, new, a, b) ==
             Abs(b - a) * BPS_DENOMINATOR
                <= (MAX_ABSOLUTE_DIFF_BPS + MAX_CHANGE_DIFF_BPS) * a
              => Abs(new * a - b * old) * BPS_DENOMINATOR
                   < (MAX_CHANGE_DIFF_BPS + 2) * old * a
<1>7. At(rwaPrice, price, clOld, clNew)
  BY <1>3, <1>4, <1>5, <1>6, AgreementLimit
<1>8. \A i \in 1 .. n - 1 :
        At(rwaPriceLog[i].price, rwaPriceLog[i + 1].price, answerLog[i], answerLog[i + 1])
  BY <1>1 DEF TracksChainlink
<1>9. TracksChainlink'
        <=> \A i \in 1 .. (n + 1) - 1 :
              At(rwaPriceLog'[i].price, rwaPriceLog'[i + 1].price,
                 answerLog'[i], answerLog'[i + 1])
  BY <1>5 DEF TracksChainlink
<1> HIDE DEF At
<1>10. ASSUME NEW i \in 1 .. (n + 1) - 1
       PROVE  At(rwaPriceLog'[i].price, rwaPriceLog'[i + 1].price,
                 answerLog'[i], answerLog'[i + 1])
  <2>1. CASE i = n
    <3>1. n \in 1 .. n
      BY <1>2
    <3> QED BY <1>1, <1>2, <1>3, <1>5, <1>7, <2>1, <3>1
  <2>2. CASE i # n
    <3>1. i \in 1 .. n - 1 /\ i \in 1 .. n /\ i + 1 \in 1 .. n
      BY <1>2, <2>2
    <3> QED BY <1>2, <1>5, <1>8, <3>1
  <2> QED BY <2>1, <2>2
<1> QED BY <1>2, <1>3, <1>5, <1>9, <1>10 DEF clNew

LEMMA ComparedKept ==
  ASSUME OracleBase, Compared, TracksChainlink, [Next]_vars
  PROVE  Compared' /\ TracksChainlink'
<1>1. UNCHANGED setup /\ chainlink'.answer \in Int
  BY ComparisonSteps DEF Compared
<1>2. CASE setup = "ExternalComparison" /\ \E price \in Nat : SetPriceCompared(price)
  <2>1. PICK price \in Nat : SetPriceCompared(price)
    BY <1>2
  <2>2. OracleMoves
    <3>1. rwaPriceLog' = Append(rwaPriceLog, PriceInfo(price, now))
      BY <2>1 DEF SetPriceCompared
    <3>2. rwaPriceLog' # rwaPriceLog
      <4>1. rwaPriceLog \in Seq([price : Nat \ {0}, timestamp : Nat \ {0}])
        BY DEF OracleBase, OracleTypeOK
      <4>2. Len(Append(rwaPriceLog, PriceInfo(price, now))) = Len(rwaPriceLog) + 1
            /\ Len(rwaPriceLog) \in Nat
        BY <4>1
      <4> QED BY <3>1, <4>2
    <3> QED BY <3>2, OracleSteps DEF OracleRests, oracleVars
  <2> QED BY <1>1, <1>2, <2>1, <2>2, ComparedUpdate DEF Compared
<1>3. CASE setup # "ExternalComparison" /\ UNCHANGED <<lastSetRound, answerLog>>
  BY <1>1, <1>3 DEF Compared, TracksChainlink
<1>4. CASE UNCHANGED comparisonVars
  BY <1>1, <1>4 DEF comparisonVars, oracleVars, Compared, TracksChainlink
<1> QED BY <1>2, <1>3, <1>4, ComparisonSteps

\* Between two updates the token and Chainlink moved apart by less than
\* MAX_CHANGE_DIFF_BPS and the two basis points truncation loses, unless
\* Chainlink's own move was too large to be compared with.
\* (RWAOracleExternalComparisonCheck.sol:127-130, 160-195.)
THEOREM ChainlinkTracked == Spec => []TracksChainlink
<1> DEFINE Inv == OracleBase /\ Compared /\ TracksChainlink
<1>1. Init => Inv
  BY OracleInitial, ComparedInitial
<1>2. Inv /\ [Next]_vars => Inv'
  BY OracleSteps, OracleBaseKept, ComparedKept
<1> QED BY <1>1, <1>2, PTL DEF Spec
=============================================================================
