SPECIFICATION FairSpec
CONSTANTS
  Children = {}
  Idler = idler
  Kafka = kafka
  Rates = {0, 200}
  Residuals = {0}
  netDeviceSpeed = 400
  Originals = {"default"}
  Scenarios = {{"kafka"}}
PROPERTIES
  PacingIsSetBack
