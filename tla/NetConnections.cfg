SPECIFICATION FairSpec
CONSTANTS
  Addresses = {a, b, c}
  Servers = {a, b}
  NoAddress = none
  N = 2
  Capacity = 1
  Timeout = 1
  Wrap = 3
  MaxTime = 2
INVARIANTS OneConnectionEach SendersAccounted OnlyTwoRaces
PROPERTIES MutexReturned DestroyReturns
CHECK_DEADLOCK FALSE
