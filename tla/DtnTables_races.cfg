SPECIFICATION FairSpec
CONSTANTS
  p1 = p1
  p2 = p2
  Peers = {p1, p2}
  NoPeer = NoPeer
  NUM_IP = 2
  CounterModulus = 4
INVARIANTS
  TypeOK
  OneEntryPerPeer
  EntryInTable
PROPERTIES
  SilentPeersAreRemoved
