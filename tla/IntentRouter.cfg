\* Routing over every registry history of up to three registrations, and decisions held beyond it.
CONSTANTS
  Calls = {call}
  billing = billing
  support = support
  audit   = audit
  bill    = bill
  refund  = refund
  lookup  = lookup
  rasa    = rasa
  custom  = custom
  NoIntent = NoIntent
  Cards <- MCCards
  Messages <- MCMessages
  Translations <- MCTranslations
  HeartbeatTTL = 1
  Scores = {20}
  TrustFloor = 30
  MultiAgentIntents = {refund}
  MaxCards = 3
  MaxRouted = 1
  MaxWatched = 2
SPECIFICATION RouterSpec
INVARIANT RouterTypeOK
PROPERTIES CandidatesAreExact PrimaryIsUnbeaten
CHECK_DEADLOCK FALSE
