SPECIFICATION FairSpec
CONSTANTS
  Shell = {s1}
  Launch = {l1}
  s1 = s1
  l1 = l1
  Pid = {1, 2}
  OutputCap = 1
  HardCeil = 2
  PipeRoom = 2
  MaxWritten = 3
INVARIANTS TypeOK AnswerIsHonest
PROPERTIES KillsItsOwn CallsReturn ZombiesAreReaped
CHECK_DEADLOCK FALSE
