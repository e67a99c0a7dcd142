\* Spec section 8: timestamps never decrease, for a log over two midnights.
CONSTANTS
    TargetPid = p1
    OtherPid = p2
    BadTime = BadTime
    DayLen <- MCDayLen
    Lines <- MCLines
    MaxLines = 5
SPECIFICATION Spec
INVARIANTS MonotoneTimestamps
CHECK_DEADLOCK FALSE
