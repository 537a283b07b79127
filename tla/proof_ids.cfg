\* A transaction hash may be entered again once its deposit is claimed.
SPECIFICATION Spec
CONSTANTS
  BPS_DENOMINATOR = 4
  PRICE_UNIT = 2
  decimalsMultiplier = 2
  Users = {u1, u2}
  NoUser = NoUser
  TxHashes = {h1}
  assetRecipient = custodian
  AssetSenders = {sender1}
  FeeRecipients = {fee1}
  Amounts = {5}
  RwaAmounts = {}
  FeeChoices = {1}
  MinimumChoices = {}
  PriceValues = {3}
  InitialMinimumDeposit = 4
  InitialMinimumRedemption = 4
  InitialSupply = 0
  MaxDeposits = 1
  MaxRedemptions = 0
  MaxProofs = 2
  MaxOverwrites = 0
  MaxPriceId = 2
  MaxTime = 2
  MaxBatch = 2
  PausableFeatures = {}
  Listable = {u1}
INVARIANTS
  ProofIdsAreUnique
