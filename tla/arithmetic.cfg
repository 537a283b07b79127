\* Fees and conversions for every amount, fee and price up to the bounds.
SPECIFICATION Spec
CONSTANTS
  BPS_DENOMINATOR = 10
  PRICE_UNIT = 6
  decimalsMultiplier = 2
  MaxAmount = 40
  MaxPrice = 15
INVARIANTS
  RoundTrip
  ReverseRoundTrip
  SplitFees
