\* Chains of two refreshes past both caps, a service restarted with another
\* key, two clocks a unit apart; revocations over two runs with the same jtis.
CONSTANTS
  Key = {1, 2}
  GatewayKey = 1
  AgentCap = 3
  ViewerCap = 2
  AgentTtl = 2
  ViewerTtl = 1
  RevocationTtl = 1
  IssueTtl = {2}
  Drift = 1
  MaxTime = 5
  MaxTokens = 3
  MaxRuns = 1
  MaxRevocations = 3
  MaxTimeRevoking = 3
SPECIFICATION Spec
INVARIANTS TypeOK NothingOutlivesItsCap RevocationIsExact
CONSTRAINT CapsOrRevocations
CHECK_DEADLOCK FALSE
