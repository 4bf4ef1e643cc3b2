SPECIFICATION Spec
CONSTANTS
  a = a  b = b
  None = None
  Nodes = {a, b}
  AckAll = FALSE
  MaxFiles <- TwoAndOne
  Fitness <- SecondIsFittest
  Hears <- HearsEcho
  MaxID = 6
CONSTRAINT ListedEarly
CHECK_DEADLOCK FALSE
INVARIANTS Agreement
