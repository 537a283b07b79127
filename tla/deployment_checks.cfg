\* Mainnet without any incident: what the check-* tasks say at the end.
SPECIFICATION Spec
CONSTANTS
  PROD_GUARDIAN_OMMF <- GuardianOMMF
  MaxSlips = 0
  MaxCommands = 1
  Networks = {"mainnet"}
INVARIANTS
  CompleteDeploymentPassesChecks
CHECK_DEADLOCK FALSE
