\* Chainlink answers 0 once.
SPECIFICATION Spec
CONSTANTS
  BPS_DENOMINATOR = 8
  MAX_CHANGE_DIFF_BPS = 2
  MAX_ABSOLUTE_DIFF_BPS = 3
  MIN_PRICE_UPDATE_WINDOW = 2
  MAX_CL_WINDOW = 2
  SetPrices = {5, 6}
  InitialPrices = {5}
  AddedPrices = {0, 4, 6, 7}
  Timestamps = {0, 3, 5}
  Answers = {0, 4, 8}
  MaxRound = 3
  MaxPriceId = 3
  MaxTime = 5
  MaxAhead = 0
  Setups = {"ExternalComparison"}
INVARIANTS
  IgnoredRoundsDoNoHarm
