\* create_memory_graph: both time axes have at most 15 ticks.
CONSTANTS
    SysValues <- MCSysValues
    SysPad = 2
    SysHalf = 2
    RssValues <- MCRssValues
    RssPad = 5
    RssHalf = 5
    TimeRanges <- MCTimeRanges
    SysTimeRanges <- MCSysTimeRanges
    MaxTicks = 15
SPECIFICATION Spec
INVARIANTS TickCountCapped
CHECK_DEADLOCK FALSE
