SPECIFICATION FairSpec
CONSTANTS
  Flows = {f1}
  NoFlow = NoFlow
  Handlers = {h1, h2}
  Capacity = 1
  Scenarios = {{"idle", "overlap"}, {"command"}}
INVARIANTS
  TypeOK
  AskedIsFlagged
PROPERTIES
  TimersAreLostAtFlags
  LastingCongestionIsReported
  PacingIsCalledOff
