SPECIFICATION FairSpec
CONSTANTS
  Rates = {0, 5, 20, 50, 97}
  vGoodBitrateValue = 97
  InitialSizes = {100000, 1100000}
  my_tune_max = 1500000
  MAX_TUNING_APPLY = 3
  Commands = {TRUE, FALSE}
  Unset = Unset
INVARIANTS
  TypeOK
  WmemInBounds
PROPERTIES
  SteadySearchEnds
  SteadyBestShrinks
CHECK_DEADLOCK FALSE
