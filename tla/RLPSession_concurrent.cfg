\* The bridge thread and pact-hh's thread inside one RLPSession at once.
CONSTANTS
  bridge = bridge
  human  = human
  Callers = {bridge, human}
  Updates <- MCUpdates
  MaxEvents = 4
  Risk <- MeanRisk
  RuptureThreshold = 45
  InitLedger <- MCInitLedger
SPECIFICATION Spec
INVARIANT TypeOK
PROPERTY ImplementsRepairGate
CHECK_DEADLOCK FALSE
