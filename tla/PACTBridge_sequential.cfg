\* One message at a time, pact-hh and a changing registry beside it.
CONSTANTS
  billing = billing
  audit   = audit
  bill    = bill
  lookup  = lookup
  refund  = refund
  mystery = mystery
  rasa    = rasa
  custom  = custom
  s1      = s1
  NoSid = NoSid
  NoTrust = NoTrust
  NoPlatform = NoPlatform
  NoIntent = NoIntent
  Calls = {t1}
  SessionIds = {s1}
  UuidIds = {u1, u2}
  Cards <- MCCards
  RegisteredAtStart <- MCRegistered
  Messages <- MCMessages
  Translations <- MCTranslations
  Confidences = {70}
  Reports <- MCReports
  HeartbeatTTL = 1
  SessionTTL = 1
  Scores = {20}
  TrustFloor = 30
  MultiAgentIntents = {refund}
  Risk <- WorstRisk
  RuptureThreshold = 45
  InitLedger <- MCInitLedger
  MaxCards = 2
  MaxRouted = 0
  MaxWatched = 0
  MaxHandled = 2
  MaxReports = 1
  MaxApprovals = 1
  MaxTicks = 1
  MaxChanges = 1
SPECIFICATION BridgeSpec
INVARIANTS OneRLPSessionPerId TurnsMatchAnswers
PROPERTIES EveryIdKeepsItsGate TurnsAreFound AgentsBehindOpenGate
CHECK_DEADLOCK FALSE
