SPECIFICATION PrivateSpec
CONSTANTS
  a = a  b = b  c = c
  None = None
  Nodes = {a, b, c}
  Links <- Triangle
  Added <- NoneAdded
  Authors = {a}
  Clocked <- Second
  MaxID = 2
  MaxInFlight = 1
  HOPLIMIT = 2
  HopLimit = 0
  Width = 4
  Senders = {b, c}
  MaxMail = 1
CONSTRAINT Quiet
SYMMETRY Relays
INVARIANTS PrivateTypeOK IInv RouteUsable NeverStranded
