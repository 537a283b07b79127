--------------------------- MODULE PricerWithOracle ---------------------------
(***************************************************************************)
(* Where a gateway gets its prices from, by `setup`: a Pricer alone, as    *)
(* the deployment scripts set it up, or a PricerWithOracle, which passes   *)
(* every newest price on to an oracle in the same transaction, over either *)
(* of the two oracles.  The oracle has its own SETTER_ROLE, so the two may *)
(* drift apart: prices may be set in the oracle directly, or corrected in  *)
(* the pricer by updatePrice.                                              *)
(*                                                                         *)
(* A PricerWithOracle starts after its oracle: Init is the state its       *)
(* constructor leaves, with the oracle's price under priceId 1.            *)
(***************************************************************************)
EXTENDS Pricer, RWAOracleExternalComparisonCheck

CONSTANTS
  Setups,     \* a subset of {"Pricer", "RateCheck", "ExternalComparison"}
  MaxAhead    \* how far in the future a timestamp passed to addPrice lies

ASSUME PricerWithOracleAssumption ==
  MaxAhead \in Nat /\ MaxPriceId >= 1 /\ Setups # {}

VARIABLE setup

vars == <<now, pricerVars, comparisonVars, chainlink, setup>>

NoChainlink ==
  /\ chainlink = Round(0, 0, 0, 0) /\ lastSetRound = chainlink /\ answerLog = <<>>

OracleStarts ==
  IF setup = "ExternalComparison" THEN ComparisonInit ELSE OracleInit /\ NoChainlink

PricerStarts ==
  /\ prices = [[id \in AllPriceIds |-> NoPrice]
                 EXCEPT ![1] = PriceInfo(rwaPrice, priceTimestamp)]
  /\ priceIds = <<1>>
  /\ currentPriceId = 1
  /\ latestPriceId = 1

Init ==
  /\ setup \in Setups
  /\ OracleStarts
  /\ IF setup = "Pricer" THEN PricerInit ELSE PricerStarts

\* The setPrice of the oracle at hand.
OracleSetsPrice(price) ==
  \/ /\ setup = "RateCheck" /\ SetPrice(price)
     /\ UNCHANGED <<lastSetRound, answerLog>>
  \/ setup = "ExternalComparison" /\ SetPriceCompared(price)

UpdateOraclePrice_FaultyUnmatched(price) == OracleSetsPrice(price)

\* _updateOraclePrice: refused while the oracle's price is not the latest one
\* the pricer knows.
UpdateOraclePrice(price) ==
  /\ getPrice(latestPriceId) = rwaPrice
  /\ OracleSetsPrice(price)

\* The oracle is left behind.
AddPriceAndUpdateOracle_FaultySilent(price, timestamp) ==
  AddPrice(price, timestamp) /\ UNCHANGED comparisonVars

\* addPrice of this contract: the oracle's refusal undoes the whole call.
AddPriceAndUpdateOracle(price, timestamp) ==
  /\ AddPrice(price, timestamp)
  /\ IF IsLatest(timestamp) THEN UpdateOraclePrice(price) ELSE UNCHANGED comparisonVars

\* Catches up with the oracle; the new priceId is the latest without a check.
AddLatestOraclePrice ==
  /\ prices[latestPriceId] # PriceInfo(rwaPrice, priceTimestamp)
  /\ RecordPrice(rwaPrice, priceTimestamp)
  /\ latestPriceId' = currentPriceId'
  /\ UNCHANGED comparisonVars

PricerCalls ==
  /\ IF setup = "Pricer"
       THEN /\ \E price \in AddedPrices, t \in Timestamps : AddPrice(price, t)
            /\ UNCHANGED comparisonVars
       ELSE \/ \E price \in AddedPrices, t \in {t \in Timestamps : t <= now + MaxAhead} :
                 AddPriceAndUpdateOracle(price, t)
            \/ AddLatestOraclePrice
  /\ UNCHANGED <<now, chainlink, setup>>

Corrections ==
  /\ \E id \in AllPriceIds, price \in AddedPrices : UpdatePrice(id, price)
  /\ UNCHANGED <<now, comparisonVars, chainlink, setup>>

\* Another holder of the oracle's SETTER_ROLE.
DirectSetPrice ==
  /\ \E price \in SetPrices : OracleSetsPrice(price)
  /\ UNCHANGED <<now, pricerVars, chainlink, setup>>

\* Without an oracle nothing reads the time.
WorldMoves ==
  /\ \/ setup # "Pricer" /\ Tick /\ UNCHANGED chainlink
     \/ /\ setup = "ExternalComparison"
        /\ \E answer \in Answers : ChainlinkAnswers(answer)
        /\ UNCHANGED now
  /\ UNCHANGED <<pricerVars, comparisonVars, setup>>

Next == PricerCalls \/ Corrections \/ DirectSetPrice \/ WorldMoves

Spec == Init /\ [][Next]_vars
-----------------------------------------------------------------------------
\* The type of both contracts' storage, and that the log ends with the price
\* in force.
TypeOK == PricerTypeOK /\ OracleTypeOK /\ LogAgrees

\* Of prices with one timestamp the first to be added stays the latest: a
\* second price for the same moment does not replace it (Pricer.sol:78), the
\* oracle's own price excepted.
TiesAreKept ==
  IF setup = "Pricer" THEN TiesKeepTheFirst
  ELSE \A id \in 1 .. latestPriceId - 1 :
         prices[id].timestamp = prices[latestPriceId].timestamp =>
           \E i \in 1 .. Len(rwaPriceLog) :
             rwaPriceLog[i].timestamp = prices[latestPriceId].timestamp

\* Whenever the latest price moves to another priceId, by addPrice or by
\* catching up, the pricer and the oracle agree on it.
LatestFollowsOracle ==
  [][latestPriceId' # latestPriceId /\ setup # "Pricer"
       => prices'[latestPriceId'].price = rwaPrice']_vars

\* How far the price may move in one update of the oracle at hand: exactly
\* MAX_CHANGE_DIFF_BPS for RWAOracleRateCheck, which rounds up; for the other,
\* which truncates, anything short of one more than MAX_ABSOLUTE_DIFF_BPS.
MovesWithinLimit(old, new) ==
  IF setup = "ExternalComparison"
    THEN Abs(new - old) * BPS_DENOMINATOR < (MAX_ABSOLUTE_DIFF_BPS + 1) * old
    ELSE Abs(new - old) * BPS_DENOMINATOR <= MAX_CHANGE_DIFF_BPS * old

\* A price added through the pricer lies within the oracle's limit of the
\* price that was the latest of the pricer until then (README.md:31, "in
\* sync"): the oracle checks it against its own price, which direct calls of
\* setPrice and corrections of the latest price drive apart from the pricer's.
AddedPricesAreBounded ==
  [][latestPriceId' # latestPriceId /\ rwaPriceLog' # rwaPriceLog
       => MovesWithinLimit(getPrice(latestPriceId), prices'[latestPriceId'].price)]_vars

\* Each price of a RWAOracleRateCheck lies within MAX_CHANGE_DIFF_BPS of the
\* one before it, through the pricer or around it (its lines 23-25).
RateCheckedPricesAreBounded == setup # "ExternalComparison" => ChangesAreBounded

\* Each price of a RWAOracleExternalComparisonCheck differs from the one before
\* it by less than MAX_ABSOLUTE_DIFF_BPS + 1, up or down, Chainlink ignored or
\* not.  Its NatSpec promises less than MAX_ABSOLUTE_DIFF_BPS itself, which is
\* ChangesBelowAbsoluteLimit.
ComparedPricesAreBounded ==
  setup = "ExternalComparison" =>
    \A i \in 1 .. Len(rwaPriceLog) - 1 :
      MovesWithinLimit(rwaPriceLog[i].price, rwaPriceLog[i + 1].price)

\* RWAOracleExternalComparisonCheck.sol:126, "The change in RWA price is <
\* MAX_ABSOLUTE_DIFF_BPS": line 164 lets a change of MAX_ABSOLUTE_DIFF_BPS
\* pass, and the part of a basis point that line 257 truncates on top of it.
ChangesBelowAbsoluteLimit ==
  setup = "ExternalComparison" =>
    \A i \in 1 .. Len(rwaPriceLog) - 1 :
      LET old == rwaPriceLog[i].price
          new == rwaPriceLog[i + 1].price
      IN  Abs(new - old) * BPS_DENOMINATOR < MAX_ABSOLUTE_DIFF_BPS * old

\* PricerWithOracle.sol:91-92, "latestPriceInfo.timestamp is always <=
\* latestOraclePriceTimestamp, so we can skip a check": the latest price is
\* never newer than the oracle's.
LatestNotNewerThanOracle ==
  setup # "Pricer" => prices[latestPriceId].timestamp <= priceTimestamp
=============================================================================
