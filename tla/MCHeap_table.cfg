CONSTANTS
  Words = 32
  FlHead = 40
  InitialChunk = 4
  Increment = 8
  Page = 1
  Requests = {4, 5}
  FLP_MAX = 1
  Slack = 1
  Policies = {"first fit"}
SPECIFICATION Spec
PROPERTY FlCheckPasses
CHECK_DEADLOCK FALSE
