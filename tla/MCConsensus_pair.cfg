SPECIFICATION Spec
CONSTANTS
  a = a  b = b
  None = None
  Nodes = {a, b}
  AckAll = FALSE
  MaxFiles <- TwoAndOne
  Fitness <- FirstIsFittest
  Hears <- HearsEcho
  MaxID = 6
CONSTRAINT ListedEarly
CHECK_DEADLOCK FALSE
INVARIANTS TypeOK BlocksConfirmed HistoryConfirmed IInv
