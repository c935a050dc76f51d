\* Parts that share nothing, one at a time; see MCParts.
SPECIFICATION PartsSpec
CONSTANTS
  FrameCount = 3
  Layouts = 2
  Copies = 1
  SL_INDEX_COUNT_LOG2 = 2
  FL_INDEX_MAX = 5
  Threads = {t1, t2}
  Nobody = nobody
  Sizes = {0, 7, 81}
  Alignments = {1, 2}
  grow_increment = 112
  MaxArenas = 2
  MaxHeld = 1
  Timers = {timer, child}
  NoTimer = none
  MayFollow <- MayFollowFirst
  Scales = {1, 4}
  MaxTicks = 3
  Keys = {left}
  Buttons = {button}
  Others = {other}
  MaxPosted = 2
  Box = 1
  Row = 6
  Home = 12
  Edge = 4
  Count = 1
  Spacing = 6
  HalfLengths = {2}
  Speeds = {2, 4, 6}
  MaxAside = 2
INVARIANTS
  OwnersOutlive
  AllOrNothing
  BlocksSound
  GrowthSuffices
  TimersKeepTime
  MasksFollowKeys
  SpaceFollows
  NoRowSkipped
