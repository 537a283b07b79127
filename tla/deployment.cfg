\* Both networks.  On mainnet one thing goes wrong; on a local node the
\* developer gives a command besides the first.
SPECIFICATION Spec
CONSTANTS
  PROD_GUARDIAN_OMMF <- GuardianOMMF
  MaxSlips = 1
  MaxCommands = 3
  Networks = {"mainnet", "localhost"}
INVARIANTS
  NoStrayRights
  TokensConsultRealLists
  MintersServeTheirToken
  CompleteDeploymentIsVerified
PROPERTIES
  GatewayOpens
  FreshNodeServesCoverage
CHECK_DEADLOCK FALSE
