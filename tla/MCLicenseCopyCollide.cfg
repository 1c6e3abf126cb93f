CONSTANTS
    GoLists <- MCGoLists
    RuntimeLists <- MCRuntimeLists
    DevLists <- MCDevLists
    ManualPool <- MCManualPool
    StalePool <- MCStalePool
    Alnum <- MCAlnum
    Args <- MCArgs
    MaxArgs = 1
    MaxRuns = 2
INIT Init
NEXT Next
INVARIANT EveryLicenseStored
CHECK_DEADLOCK FALSE
