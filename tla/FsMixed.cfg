SPECIFICATION Spec
CONSTANTS
  Works = {w1, w2, w3}
  Paths = {a}
  Capacity = 1
  FsHeap = h1
  Heaps = {h1}
  Modes = {TRUE, FALSE}
  MayFail = TRUE
  NULL = NULL
INVARIANTS DoneIsFinal PlainInOrder NoStaleRead QueuesOutliveUsers OnlyCompressedLeaks
SYMMETRY WorkSymmetry
