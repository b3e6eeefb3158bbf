CONSTANTS
  Pixel = {p, q}
  Blank = Blank
  Heights = {1}
  MaxRegions = 2
  Threads = 2
  Viewer = {v1}
  Backlog = 1
  MaxAsks = 1
  MaxDecoding = 2
SPECIFICATION FairSpec
PROPERTIES StreamComesBack
CHECK_DEADLOCK FALSE
