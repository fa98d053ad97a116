CONSTANTS
  Writers = {w1}
  Threads = {t1, t2, t3}
  NoThread = NoThread
  Sleepers = {main, l1}
  Main = main
  Sleeps = {s1, s2, s3, s4}
  Delays = {0, 1, 5}
  Day = 24
  Hz = 2
  Tick = 2
  IntHalf = 10
  MaxTime = 5
  MaxCancels = 2
  None = None
SPECIFICATION Spec
INVARIANTS AtMostOneProgram HooksPointToCode SleeperIsFoundOnce
PROPERTIES StopIsOrderly BlocksUpToDeadline RunReturns SleeperIsWoken
CHECK_DEADLOCK FALSE
