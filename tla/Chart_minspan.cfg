\* create_memory_graph: narrow ranges are widened to the minimum span.
CONSTANTS
    SysValues <- MCSysValues
    SysPad = 2
    SysHalf = 2
    RssValues <- MCRssValues
    RssPad = 5
    RssHalf = 5
    TimeRanges <- MCTimeRanges
    SysTimeRanges <- MCSysTimeRanges
    MaxTicks = 15
SPECIFICATION Spec
INVARIANTS YLimitsMinSpan
CHECK_DEADLOCK FALSE
