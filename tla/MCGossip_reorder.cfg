SPECIFICATION FairSpec
CONSTANTS
  a = a
  b = b
  None = None
  Nodes <- PairNodes
  Links <- PairLinks
  Added <- PairAdded
  Authors <- JustA
  Clocked = {}
  MaxID = 3
  MaxInFlight = 1
INVARIANTS TypeOK IInv PrefixHeld StatusBounded StoredOnce AckedPrefix
PROPERTIES Spread Converges
