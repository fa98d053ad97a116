CONSTANTS
    Ifaces = {1, 2}
    MaxPages = 1
    MaxViews = 3
    PageSize = 2
    Mcl = 1
    MaxEvents = 6
SPECIFICATION Spec
INVARIANTS FramesInOrder CountCoversUses PagesOutliveViews
CHECK_DEADLOCK FALSE
