SPECIFICATION Spec
CONSTANTS
  Handlers = {h1}
  Tuner = tuner
  MAX_TUNING_ACTIVITIES_PER_FLOW = 2
  NUM_OF_FLOWS_TO_KEEP_TRACK_OF = 2
  MaxRecords = 5
  MaxFlows = 4
INVARIANTS
  ListingIsRecent
  PlaceInTable
CHECK_DEADLOCK FALSE
