\* Two threads inside handle, in one conversation that may expire between their steps.
CONSTANTS
  billing = billing
  audit   = audit
  bill    = bill
  lookup  = lookup
  refund  = refund
  mystery = mystery
  rasa    = rasa
  custom  = custom
  s1      = s1
  NoSid = NoSid
  NoTrust = NoTrust
  NoPlatform = NoPlatform
  NoIntent = NoIntent
  Calls = {t1, t2}
  SessionIds = {s1}
  UuidIds = {u1, u2}
  Cards <- MCCards
  RegisteredAtStart <- MCRegistered
  Messages <- MCConcurrentMessages
  Translations <- MCTranslations
  Confidences = {70}
  Reports <- MCReports
  HeartbeatTTL = 1
  SessionTTL = 1
  Scores = {20}
  TrustFloor = 30
  MultiAgentIntents = {refund}
  Risk <- WorstRisk
  RuptureThreshold = 45
  InitLedger <- MCInitLedger
  MaxCards = 2
  MaxRouted = 0
  MaxWatched = 0
  MaxHandled = 3
  MaxReports = 0
  MaxApprovals = 0
  MaxTicks = 1
  MaxChanges = 0
SPECIFICATION BridgeSpec
INVARIANTS BridgeTypeOK TurnsMatchAnswers
PROPERTY WaryMessageIsBlocked
SYMMETRY Threads
CHECK_DEADLOCK FALSE
