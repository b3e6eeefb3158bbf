CONSTANTS
  MaxRequest = 5
  EmptyRequest = {2}
  Timed = {1}
  Command = {3}
  Depth = 2
  MaxWire = 1
  MaxSessions = 2
SPECIFICATION FairSpec
CHECK_DEADLOCK FALSE
INVARIANTS TypeOK ArrivalOrder HeldUntilResync
PROPERTIES NothingCrossesReconnect LateIsDropped OrphanedByAbortOnly EndedStreamIsLeft
