CONSTANTS
  Words = 10
  FlHead = 20
  InitialChunk = 4
  Increment = 4
  Page = 1
  Requests = {1, 2, 4}
  FLP_MAX = 2
  Slack = 1
  Policies = {"next fit", "first fit"}
SPECIFICATION Spec
INVARIANTS HeapIsWellFormed PlacesAreCurrent
PROPERTIES IsAllocator
CHECK_DEADLOCK FALSE
