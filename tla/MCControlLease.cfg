CONSTANTS
  Session = {s1, s2, s3}
  NoSession = NoSession
  Interval <- MCInterval
  MissedIntervals = 3
  HumanIdle = 5
  MaxTime = 9
SPECIFICATION FairSpec
INVARIANTS TypeOK ClockOrder
PROPERTIES OneWayPreemption LossIsReported AgentNeverIdlesOut ImplementsArbiter
