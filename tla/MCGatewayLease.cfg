CONSTANTS
  Session = {v1, guest}
  NoSession = NoSession
  GuestSession = guest
  Interval = {3}
  HEARTBEAT = 3
  MissedIntervals = 3
  HumanIdle = 30
  MaxTime = 12
SPECIFICATION GatewaySpec
CHECK_DEADLOCK FALSE
PROPERTIES HumanKeepsLeaseUntilIdle
