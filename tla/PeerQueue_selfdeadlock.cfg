SPECIFICATION FairSpec
CONSTANTS
  Threads = {t1}
  Sender = sender
  Handlers = {h1, h2}
  Msgs = {m1}
  NoMsg = NoMsg
  Nobody = Nobody
  BUFFER_SIZE = 3
PROPERTY AlwaysDrains
CHECK_DEADLOCK FALSE
