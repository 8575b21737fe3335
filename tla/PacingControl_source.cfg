SPECIFICATION FairSpec
CONSTANTS
  Children = {c1, c2}
  Idler = idler
  Kafka = kafka
  Rates = {0, 10, 390}
  Residuals = {0, 40, 200}
  netDeviceSpeed = 400
  Originals = {"default", "fq"}
  Scenarios = {{"overlap"}, {"command"}, {"kafka", "command"}}
INVARIANTS
  TypeOK
  PacingIsRemembered
  LimitInRange
  NopacingIsUnlimited
PROPERTIES
  OnlyLostWritesForget
  SetBackUnlessForgotten
