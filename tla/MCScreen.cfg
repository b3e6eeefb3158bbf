\* A page of up to two rows and two pixel values: lags, lost sockets, redials,
\* resizes and tiles decoded in any order.
CONSTANTS
  Pixel = {p, q}
  Blank = Blank
  Heights = {1, 2}
  MaxRegions = 2
  Threads = 2
  Viewer = {v1}
  Backlog = 1
  MaxAsks = 1
  MaxDecoding = 3
  Ground = p
  MaxUnderWay = 2
  MaxOneRow = 3
SPECIFICATION FairSpec
INVARIANTS TypeOK ReferenceIsShared CacheIsCurrent FollowsStream
PROPERTIES CatchesUp
CONSTRAINT Followed
CHECK_DEADLOCK FALSE
