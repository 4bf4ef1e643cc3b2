SPECIFICATION FairSpec
CONSTANTS
  a = a  b = b  c = c
  f = f  g = g  x = x  y = y
  t = t  u = u
  Nodes = {a, b}
  Files <- TwoFiles
  Chunks = {x, y}
  Meta <- TwoMetas
  Shared <- ASharesAll
  Threads = {t, u}
  At <- BothAtB
  Wants <- FAndG
  From <- FromA
  MaxInFlight = 1
INVARIANTS TypeOK IInv FileIsPrefix AnnouncedOnDisk
PROPERTIES DownloadEnds Delivers
CHECK_DEADLOCK FALSE
