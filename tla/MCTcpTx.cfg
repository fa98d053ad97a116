CONSTANTS
  Mss = 2
  Windows = {0, 6}
  MaxSeq = 4
  MaxCwnd = 8
  MaxDupAcks = 4
  MaxBackoff = 0
SPECIFICATION FairSpec
INVARIANTS QueueIsInflight WireConsistent TimerArmed
PROPERTIES AckedOrAbandoned
CHECK_DEADLOCK FALSE
