CONSTANTS
  Half = 64
  StreamStart = 1
  StreamEnd = 3
  MaxLen = 1
  MaxRxWnd = 2
  Windows = {1}
  MaxNotices = 0
  MaxWindows = 2
SPECIFICATION Spec
INVARIANT WindowIsOfSegment
CHECK_DEADLOCK FALSE
