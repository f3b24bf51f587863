\* A fresh session inherits the RLPSession of the expired one.
CONSTANTS
  billing = billing
  audit   = audit
  bill    = bill
  lookup  = lookup
  refund  = refund
  mystery = mystery
  rasa    = rasa
  custom  = custom
  s1      = s1
  NoSid = NoSid
  NoTrust = NoTrust
  NoPlatform = NoPlatform
  NoIntent = NoIntent
  Calls = {t1}
  SessionIds = {s1}
  UuidIds = {u1, u2, u3}
  Cards <- MCCards
  RegisteredAtStart <- MCRegistered
  Messages <- MCMessages
  Translations <- MCTranslations
  Confidences = {70}
  Reports <- MCReports
  HeartbeatTTL = 1
  SessionTTL = 1
  Scores = {20}
  TrustFloor = 30
  MultiAgentIntents = {refund}
  Risk <- WorstRisk
  RuptureThreshold = 45
  InitLedger <- MCInitLedger
  MaxCards = 2
  MaxRouted = 0
  MaxWatched = 0
  MaxHandled = 3
  MaxReports = 1
  MaxApprovals = 1
  MaxTicks = 2
  MaxChanges = 0
SPECIFICATION BridgeSpec
PROPERTY FreshSessionFreshRLP
CHECK_DEADLOCK FALSE
