\* One caller: get_or_create, record_turn, close and gc one after the other.
CONSTANTS
  Callers = {main}
  SessionIds = {s1, s2}
  UuidIds = {u1}
  NoSid = NoSid
  Agents = {billing}
  SessionTTL = 1
  MaxSessions = 3
  MaxTurns = 2
SPECIFICATION StoreSpec
PROPERTIES LiveSessionsAreKept ImplementsConversations
CHECK_DEADLOCK FALSE
