SPECIFICATION Spec
CONSTANTS
  a = a  b = b  c = c  d = d
  Nodes = {a, b, c, d}
  Ex2 = TRUE
  AckAll = FALSE
  MaxFiles <- TwoOfFour
  MaxRumors <- OneRumor
CHECK_DEADLOCK FALSE
INVARIANTS ConfirmationsHonest
PROPERTIES Confirms
