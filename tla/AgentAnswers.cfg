\* Two messages under way in one session, in threads or one inside a handler of the other.
CONSTANTS
  billing = billing
  audit = audit
  None = None
  Calls = {1, 2}
  Agents = {billing, audit}
  Endpoints = {audit}
  Hosted = {billing}
  Decisions = {"proceed", "escalate"}
  Routings <- MCRoutings
  OwnPlatforms = {"own"}
  Platforms = {"custom", "rasa", "own"}
  MaxHandled = 2
  MaxSaved = 1
SPECIFICATION AnswersSpec
INVARIANTS AnswersTypeOK ContextIsNeverAhead WireTellsOfTurn
PROPERTIES NoRoundAfterItsTurn AnsweredOrHeld
CHECK_DEADLOCK FALSE
