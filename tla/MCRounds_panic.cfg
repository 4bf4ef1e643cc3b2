SPECIFICATION Spec
CONSTANTS
  a = a  b = b  c = c  d = d
  Nodes = {a, b}
  Ex2 = FALSE
  AckAll = FALSE
  MaxFiles <- TwoAndOne
  MaxRumors <- NoRumors
CHECK_DEADLOCK FALSE
INVARIANTS NeverPanics
