\* Parser safety: no silent loss of target-pid lines, and correct single
\* midnight rollover.  The parser returns, so it may stop.
CONSTANTS
    TargetPid = p1
    OtherPid = p2
    BadTime = BadTime
    DayLen <- MCDayLen
    Lines <- MCLines
    MaxLines = 6
SPECIFICATION Spec
INVARIANTS TypeOK NoSilentDrop SingleMidnightGaps
CHECK_DEADLOCK FALSE
