SPECIFICATION RateFairSpec
CONSTANTS
  NumConnections = 2
  Peers = {p1, p2}
  Nobody = Nobody
  NUM_RATES_TO_USE = 2
  Word = 64
  Junk = 9
  MaxEvents = 7
INVARIANTS
  RateTypeOK
  RateIsGrowth
PROPERTIES
  RateFades
CHECK_DEADLOCK FALSE
