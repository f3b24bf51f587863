\* An agent that announces itself periodically loses its learned trust.
CONSTANTS
  billing = billing
  support = support
  lookup  = lookup
  dispute = dispute
  rasa    = rasa
  custom  = custom
  Cards <- MCCards
  HeartbeatTTL = 1
  Scores = {40, 120}
  MaxCards = 3
SPECIFICATION RegistrySpec
PROPERTY RefreshKeepsTrust
