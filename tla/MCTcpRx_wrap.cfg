CONSTANTS
  Half = 8
  StreamStart = 6
  StreamEnd = 9
  MaxLen = 1
  MaxRxWnd = 2
  Windows = {1}
  MaxNotices = 0
  MaxWindows = 2
SPECIFICATION Spec
PROPERTY AheadIsKept
CHECK_DEADLOCK FALSE
