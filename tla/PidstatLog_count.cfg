\* Spec section 8: every well-formed line of at least 8 fields is a sample.
CONSTANTS
    TargetPid = p1
    OtherPid = p2
    BadTime = BadTime
    DayLen <- MCDayLen
    Lines <- MCLines
    MaxLines = 5
SPECIFICATION Spec
INVARIANTS EveryMatchingLineSampled
CHECK_DEADLOCK FALSE
