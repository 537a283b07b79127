\* The life of redemptions: two ids from the shared counter, on and off chain,
\* priced ahead of time or after the request, with fees and restrictions.
SPECIFICATION Spec
CONSTANTS
  BPS_DENOMINATOR = 4
  PRICE_UNIT = 2
  decimalsMultiplier = 2
  Users = {u1, u2}
  NoUser = NoUser
  TxHashes = {}
  assetRecipient = custodian
  AssetSenders = {sender1, sender2}
  FeeRecipients = {fee1}
  Amounts = {}
  RwaAmounts = {9}
  FeeChoices = {1}
  MinimumChoices = {}
  PriceValues = {3}
  InitialMinimumDeposit = 4
  InitialMinimumRedemption = 4
  InitialSupply = 20
  MaxDeposits = 0
  MaxRedemptions = 2
  MaxProofs = 0
  MaxOverwrites = 0
  MaxPriceId = 2
  MaxTime = 1
  MaxBatch = 2
  PausableFeatures = {}
  Listable = {u1, u2}
SYMMETRY UserSymmetry
INVARIANTS
  EveryBurnSettledOnce
  CollateralAddsUp
PROPERTIES
  PayoutsFreshlyPriced
  RestrictedMoveNoCollateral
  PriceIdsAreFinal
  RedemptionsAreRequests
