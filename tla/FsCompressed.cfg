SPECIFICATION FairSpec
CONSTANTS
  Works = {w1, w2, w3}
  Paths = {a}
  Capacity = 1
  FsHeap = h1
  Heaps = {h1}
  Modes = {TRUE}
  MayFail = FALSE
  NULL = NULL
INVARIANTS ReadsBackWritten NoCircularWait
PROPERTIES WorkCompletes DestroyReturns
