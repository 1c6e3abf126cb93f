CONSTANTS
    GoLists <- MCGoLists
    RuntimeLists <- MCRuntimeLists
    DevLists <- MCDevLists
    ManualPool <- MCManualPool
    StalePool <- MCStalePool
    Alnum <- MCAlnum
    Args <- MCArgs
    MaxArgs = 1
    MaxRuns = 2
INIT Init
NEXT Next
INVARIANT RcloneLicenseKept
CHECK_DEADLOCK FALSE
