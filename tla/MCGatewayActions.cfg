CONSTANTS
  Request = {r1, r2}
  Dials = 2
  ReplyCap = 1
SPECIFICATION FairSpec
INVARIANTS TypeOK NothingLeftBehind
PROPERTIES ImplementsService RepliesLeave
CHECK_DEADLOCK FALSE
