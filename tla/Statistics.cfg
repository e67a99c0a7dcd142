\* analyze_memory_usage: the change patterns it prints are those of spec
\* section 4.2.  The function returns after printing, so the run may stop.
CONSTANTS
    Values <- MCValues
    Threshold = 5
    MaxLen = 6
    None = None
SPECIFICATION Spec
INVARIANT ChangePatternsMatchSpec
CHECK_DEADLOCK FALSE
