\* Everything the manager may do between any two steps of a subscription, of
\* a redemption and of a proof under the subscription's id: setters, a pause,
\* overwrites of entries that exist or not.
SPECIFICATION Spec
CONSTANTS
  BPS_DENOMINATOR = 4
  PRICE_UNIT = 2
  decimalsMultiplier = 2
  Users = {u1}
  NoUser = NoUser
  TxHashes = {1}
  assetRecipient = custodian
  AssetSenders = {sender1}
  FeeRecipients = {fee1}
  Amounts = {3, 5}
  RwaAmounts = {9}
  FeeChoices = {1, 5}
  MinimumChoices = {1, 4}
  PriceValues = {3}
  InitialMinimumDeposit = 6
  InitialMinimumRedemption = 4
  InitialSupply = 9
  MaxDeposits = 1
  MaxRedemptions = 1
  MaxProofs = 1
  MaxOverwrites = 1
  MaxPriceId = 1
  MaxTime = 1
  MaxBatch = 1
  PausableFeatures = {"subscription"}
  Listable = {}
INVARIANTS
  TypeOK
  LedgerInvariant
PROPERTIES
  MintsFreshlyAuthorised
  PayoutsFreshlyPriced
  NoSubscriptionEscapesFee
