SPECIFICATION Spec
CONSTANTS
  a = a  b = b  c = c
  f = f  g = g  x = x  y = y
  t = t  u = u
  Nodes = {a, b, c}
  Files <- TwoFiles
  Chunks = {x, y}
  Meta <- TwoMetas
  Shared <- ASharesOne
  Threads = {t, u}
  At <- BothAtB
  Wants <- BothG
  From <- FromAAndC
  MaxInFlight = 1
PROPERTIES AbortedByPeer
CHECK_DEADLOCK FALSE
