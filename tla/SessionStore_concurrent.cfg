\* Two threads inside the store: calls, collections and closings interleave.
CONSTANTS
  Callers = {t1, t2}
  SessionIds = {s1}
  UuidIds = {u1}
  NoSid = NoSid
  Agents = {billing}
  SessionTTL = 1
  MaxSessions = 3
  MaxTurns = 1
SPECIFICATION StoreSpec
INVARIANT StoreTypeOK
PROPERTY ClosedStaysClosed
CHECK_DEADLOCK FALSE
