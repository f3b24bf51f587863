\* Registration, heartbeats, pruning and trust updates in any order.
CONSTANTS
  billing = billing
  support = support
  lookup  = lookup
  dispute = dispute
  rasa    = rasa
  custom  = custom
  Cards <- MCCards
  HeartbeatTTL = 1
  Scores = {40, 120}
  MaxCards = 3
SPECIFICATION RegistrySpec
INVARIANT RegistryTypeOK
PROPERTIES OnlyTheAgentRevives SilentAgentsLeave
