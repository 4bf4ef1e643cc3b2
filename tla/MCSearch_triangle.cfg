SPECIFICATION FairSpec
CONSTANTS
  a = a  b = b  c = c
  split = split  whole = whole
  growing = growing  single = single
  word = word
  Nodes = {a, b, c}
  Peers <- Triangle
  Names = {split, whole}
  Keywords = {word}
  Matches <- AllMatch
  Files <- Holders
  Searches = {growing, single}
  At <- AtA
  For <- ForWord
  Budget <- OneBudget
  NoBudget = NoBudget
  MaxBudget = 4
  Hops = 2
  None = None
CONSTRAINT Quiet
INVARIANTS TypeOK IInv FullMatchServed ReplyFindsWay ChannelsRead
CHECK_DEADLOCK FALSE
PROPERTIES BudgetSpent WorkerReturns
