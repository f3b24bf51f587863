\* A pipeline event that read the ledger before the approval writes it back after it.
CONSTANTS
  bridge = bridge
  human  = human
  Callers = {bridge, human}
  Humans  = {human}
  Updates <- MCUpdates
  MaxEvents = 5
  Risk <- MeanRisk
  RuptureThreshold = 45
  InitLedger <- MCInitLedger
SPECIFICATION ApprovalSpec
PROPERTY ApprovalReleases
CHECK_DEADLOCK FALSE
