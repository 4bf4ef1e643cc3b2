SPECIFICATION FairSpec
CONSTANTS
  a = a  b = b  c = c
  f = f  g = g  x = x  y = y
  t = t  u = u
  Nodes = {a, b}
  Files <- TwoFiles
  Chunks = {x, y}
  Meta <- TwoMetas
  Shared <- ASharesAll
  Threads = {t}
  At <- OneAtB
  Wants <- JustF
  From <- OneFromA
  MaxInFlight = 1
PROPERTIES KeepsListening
CHECK_DEADLOCK FALSE
