\* create_memory_graph: both panels show all of their data with margins.
\* The function returns after saving, so the run may stop.
CONSTANTS
    SysValues <- MCSysValues
    SysPad = 2
    SysHalf = 2
    RssValues <- MCRssValues
    RssPad = 5
    RssHalf = 5
    TimeRanges <- MCTimeRanges
    SysTimeRanges <- MCSysTimeRanges
    MaxTicks = 15
SPECIFICATION Spec
INVARIANTS TypeOK YLimitsBracketData ProcessTicksWithinBreakpoints
CHECK_DEADLOCK FALSE
