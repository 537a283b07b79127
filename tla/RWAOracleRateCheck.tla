-------------------------- MODULE RWAOracleRateCheck --------------------------
(***************************************************************************)
(* rwaOracles/RWAOracleRateCheck.sol: the price of the token, which may    *)
(* move once per MIN_PRICE_UPDATE_WINDOW and by at most                    *)
(* MAX_CHANGE_DIFF_BPS.  The code's constants (23 hours, 100 of 10_000     *)
(* basis points) are parameters.                                           *)
(*                                                                         *)
(* `now` is block.timestamp.  rwaPriceLog is a history variable: every     *)
(* price the oracle has had, with the time it was set.                     *)
(***************************************************************************)
EXTENDS Integers, Sequences

CONSTANTS
  BPS_DENOMINATOR,
  MAX_CHANGE_DIFF_BPS,
  MIN_PRICE_UPDATE_WINDOW,
  SetPrices,            \* prices passed to setPrice by its other callers
  InitialPrices,        \* initial prices passed to the constructor
  MaxTime               \* bound on block.timestamp

ASSUME RateCheckAssumption ==
  /\ BPS_DENOMINATOR \in Nat \ {0}
  /\ MAX_CHANGE_DIFF_BPS \in 0 .. BPS_DENOMINATOR
  /\ MIN_PRICE_UPDATE_WINDOW \in Nat \ {0}
  /\ SetPrices \subseteq Nat
  /\ InitialPrices \subseteq Nat \ {0}
  /\ MaxTime \in Nat

VARIABLES now, rwaPrice, priceTimestamp, rwaPriceLog

oracleVars == <<rwaPrice, priceTimestamp, rwaPriceLog>>

PriceInfo(price, timestamp) == [price |-> price, timestamp |-> timestamp]

mulDivUp_FaultyDown(x, y, denominator) == (x * y) \div denominator

\* Rounds up.
mulDivUp(x, y, denominator) ==
  (x * y) \div denominator + (IF (x * y) % denominator > 0 THEN 1 ELSE 0)

getPriceChangeBps(previousPrice, newPrice) ==
  LET change == IF newPrice > previousPrice THEN newPrice - previousPrice
                                            ELSE previousPrice - newPrice
  IN  mulDivUp(change, BPS_DENOMINATOR, previousPrice)

OracleInit ==
  /\ now = 1
  /\ rwaPrice \in InitialPrices
  /\ priceTimestamp = now
  /\ rwaPriceLog = <<PriceInfo(rwaPrice, priceTimestamp)>>

SetPrice_FaultyKeepsTimestamp(newPrice) ==
  /\ newPrice > 0
  /\ now - priceTimestamp >= MIN_PRICE_UPDATE_WINDOW
  /\ getPriceChangeBps(rwaPrice, newPrice) <= MAX_CHANGE_DIFF_BPS
  /\ rwaPrice' = newPrice
  /\ UNCHANGED priceTimestamp
  /\ rwaPriceLog' = Append(rwaPriceLog, PriceInfo(newPrice, now))

\* setPrice, by the pricer or by another account with SETTER_ROLE.
SetPrice(newPrice) ==
  /\ newPrice > 0
  /\ now - priceTimestamp >= MIN_PRICE_UPDATE_WINDOW
  /\ getPriceChangeBps(rwaPrice, newPrice) <= MAX_CHANGE_DIFF_BPS
  /\ rwaPrice' = newPrice
  /\ priceTimestamp' = now
  /\ rwaPriceLog' = Append(rwaPriceLog, PriceInfo(newPrice, now))

Tick ==
  /\ now < MaxTime
  /\ now' = now + 1
-----------------------------------------------------------------------------
OracleTypeOK ==
  /\ now \in Nat \ {0}
  /\ rwaPrice \in Nat \ {0}
  /\ priceTimestamp \in 1 .. now
  /\ rwaPriceLog \in Seq([price : Nat \ {0}, timestamp : Nat \ {0}])

\* The log ends with the price in force.
LogAgrees ==
  /\ rwaPriceLog # <<>>
  /\ rwaPriceLog[Len(rwaPriceLog)] = PriceInfo(rwaPrice, priceTimestamp)

\* Two prices that lie k updates apart lie at least k windows apart in time:
\* no sequence of calls squeezes more updates into an interval, through the
\* pricer or around it.  (RWAOracleRateCheck.sol:75-77.)
UpdatesAreSpaced ==
  \A i, j \in 1 .. Len(rwaPriceLog) :
    i < j => rwaPriceLog[j].timestamp - rwaPriceLog[i].timestamp
               >= (j - i) * MIN_PRICE_UPDATE_WINDOW

\* RWAOracleRateCheck.sol:23-25: each price lies within MAX_CHANGE_DIFF_BPS of
\* the one before it, exactly and not up to rounding.
ChangesAreBounded ==
  \A i \in 1 .. Len(rwaPriceLog) - 1 :
    LET old == rwaPriceLog[i].price
        new == rwaPriceLog[i + 1].price
    IN  /\ (new - old) * BPS_DENOMINATOR <= MAX_CHANGE_DIFF_BPS * old
        /\ (old - new) * BPS_DENOMINATOR <= MAX_CHANGE_DIFF_BPS * old
=============================================================================
