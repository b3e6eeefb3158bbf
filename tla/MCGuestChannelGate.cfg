CONSTANTS
  MaxRequest = 3
  EmptyRequest = {}
  Timed = {}
  Command = {}
  Depth = 1
  MaxWire = 2
  MaxSessions = 1
SPECIFICATION FairSpec
CHECK_DEADLOCK FALSE
PROPERTIES NeverStuckAtGate
