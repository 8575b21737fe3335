SPECIFICATION FairSpec
CONSTANTS
  Threads = {t1}
  Sender = sender
  Handlers = {h1, h2}
  Msgs = {m1, m2}
  NoMsg = NoMsg
  Nobody = Nobody
  BUFFER_SIZE = 3
INVARIANTS
  TypeOK
  SenderSleepsOnlyWhenEmpty
  ProducersSleepOnlyWhenFull
PROPERTIES
  ImplementsFifo
  DrainsUnlessSelfDeadlock
CHECK_DEADLOCK FALSE
