SPECIFICATION FairSpec
CONSTANTS
  e1 = e1
  e2 = e2
  e3 = e3
  m1 = m1
  m2 = m2
  s1 = s1
  Models <- TwoMeshes
  Kept <- NoInfos
  QueueCapacity = 3
  MaxDrawables = 3
  PoolSets = 6
  FrameCount = 2
  MaxFrames = 4
INVARIANT DrawsItsModel
