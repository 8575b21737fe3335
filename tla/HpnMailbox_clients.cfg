SPECIFICATION FairSpec
CONSTANTS
  c1 = c1
  c2 = c2
  Clients = {c1, c2}
  Asks <- AsksOfTwo
  Ends <- EndsOfTwo
  QINFO_START_MIN_VALUE = 1
  MaxPolls = 2
INVARIANTS
  TypeOK
  NoLostWakeup
  TakenOnce
  FirstRecordIsWhole
PROPERTIES
  RecordIsTaken
  ClosedIsNoticed
CHECK_DEADLOCK FALSE
