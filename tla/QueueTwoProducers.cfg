SPECIFICATION QueueSpec
CONSTANTS
  Producers = {p1, p2}
  Consumers = {c1}
  Capacity = 2
  MaxPush = 1
  IntMax = 7
  NullItem = null
  Garbage = Garbage
INVARIANT EachItemPoppedOnce
