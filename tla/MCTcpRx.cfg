CONSTANTS
  Half = 64
  StreamStart = 1
  StreamEnd = 4
  MaxLen = 1
  MaxRxWnd = 2
  Windows = {0}
  MaxNotices = 1
  MaxWindows = 1
SPECIFICATION FairSpec
INVARIANTS StreamIntact WindowIsFreeSpace NothingIsForgotten
PROPERTIES ReceivedIsRead IsByteStream
CHECK_DEADLOCK FALSE
