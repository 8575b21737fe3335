SPECIFICATION FairSpec
CONSTANTS
  Sources = {s1, s2}
  Watched = {s1}
  Nobody = Nobody
  Capacity = 1
  MaxMessages = 2
INVARIANTS
  TypeOK
PROPERTIES
  OnlyRestartsForget
  LimitIsRemoved
