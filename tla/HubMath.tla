------------------------------- MODULE HubMath -------------------------------
(***************************************************************************)
(* The integer arithmetic of RWAHub.sol: fees in basis points, and the     *)
(* conversions between collateral (USDC) and the token (USDX) at a price.  *)
(* All divisions truncate, as unsigned division does in Solidity.  The     *)
(* code's literals are parameters, so that small instances can be checked: *)
(* BPS_DENOMINATOR is 10_000 and PRICE_UNIT is 1e18 in the code;           *)
(* decimalsMultiplier is fixed by the constructor (10 ** 12 for 18 and 6   *)
(* decimals).  Amounts whose products reach 2^256, where the code reverts, *)
(* are outside the model.                                                  *)
(***************************************************************************)
EXTENDS Integers

CONSTANTS
  BPS_DENOMINATOR,      \* basis points of the whole
  PRICE_UNIT,           \* the fixed-point unit of a price
  decimalsMultiplier    \* USDX units per unit of collateral

ASSUME HubMathAssumption ==
  /\ BPS_DENOMINATOR \in Nat \ {0}
  /\ PRICE_UNIT \in Nat \ {0}
  /\ decimalsMultiplier \in Nat \ {0}

\* Variants named _Faulty are bugs the properties must notice; nothing uses
\* them.  This one divides before it multiplies.
getMintFees_FaultyDivideFirst(collateralAmount, mintFee) ==
  (collateralAmount \div BPS_DENOMINATOR) * mintFee

getMintFees(collateralAmount, mintFee) ==
  (collateralAmount * mintFee) \div BPS_DENOMINATOR

getRedemptionFees(collateralAmount, redemptionFee) ==
  (collateralAmount * redemptionFee) \div BPS_DENOMINATOR

scaleUp(amount) == amount * decimalsMultiplier

scaleDown(amount) == amount \div decimalsMultiplier

\* Rounds in the depositor's favour.
getMintAmountForPrice_FaultyUp(depositAmt, price) ==
  (scaleUp(depositAmt) * PRICE_UNIT + price - 1) \div price

\* A zero price reverts (division by zero): callers guard against it.
getMintAmountForPrice(depositAmt, price) ==
  (scaleUp(depositAmt) * PRICE_UNIT) \div price

\* Rounds to the next unit of collateral.
getRedemptionAmountForRwa_FaultyUp(rwaTokenAmountBurned, price) ==
  scaleDown((rwaTokenAmountBurned * price) \div PRICE_UNIT + decimalsMultiplier - 1)

getRedemptionAmountForRwa(rwaTokenAmountBurned, price) ==
  scaleDown((rwaTokenAmountBurned * price) \div PRICE_UNIT)

-----------------------------------------------------------------------------
\* What the arithmetic promises, as relations between its inputs.

\* A fee of at most BPS_DENOMINATOR never exceeds the amount it is taken
\* from: `amount - feesInCollateral` does not underflow.
FeeWithinAmount(amount, bps) ==
  bps <= BPS_DENOMINATOR =>
     /\ getMintFees(amount, bps) \in 0 .. amount
     /\ getRedemptionFees(amount, bps) \in 0 .. amount

\* Why the setters refuse a minimum below BPS_DENOMINATOR: from there on a
\* non-zero fee is never rounded away.
FeeNotRoundedAway(amount, bps) ==
  (amount >= BPS_DENOMINATOR /\ bps > 0) => getMintFees(amount, bps) > 0

\* Splitting a deposit in two saves at most one unit of fee, and never
\* costs more.
SplitFee(a, b, bps) ==
  getMintFees(a + b, bps) - (getMintFees(a, bps) + getMintFees(b, bps)) \in 0 .. 1

\* Subscribing and redeeming at one price, fees aside, never returns more
\* collateral than was deposited: every rounding favours the fund.
RoundTripNoProfit(depositAmt, price) ==
  price > 0 =>
    getRedemptionAmountForRwa(getMintAmountForPrice(depositAmt, price), price)
      <= depositAmt

\* The converse direction: redeeming, then subscribing what was paid out.
ReverseRoundTripNoProfit(rwaAmount, price) ==
  price > 0 =>
    getMintAmountForPrice(getRedemptionAmountForRwa(rwaAmount, price), price)
      <= rwaAmount
=============================================================================
