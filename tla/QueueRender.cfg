\* The ring alone, and the renderer; see MCQueueRender.
SPECIFICATION BothSpec
CONSTANTS
  Producers = {p1}
  Consumers = {c1}
  Capacity = 3
  MaxPush = 8
  IntMax = 7
  NullItem = null
  Garbage = Garbage
  e1 = e1
  e2 = e2
  e3 = e3
  m1 = m1
  m2 = m2
  s1 = s1
  Models <- TwoMeshes
  Kept <- AllInfos
  QueueCapacity = 3
  MaxDrawables = 3
  PoolSets = 6
  FrameCount = 2
  MaxFrames = 4
INVARIANTS TokenConservation SlotExclusive NothingDestroyedInUse DrawsItsModel DestroyedOnce EveryDrawFits
PROPERTIES ImplementsFifo EveryItemPopped DestroyReturns
