CONSTANTS
    none = none
    Timeout = 4
    RequestTime = 2
    SleepTicks = 2
    NoErr = none
    MaxFaults = 1

SPECIFICATION Spec

INVARIANT WaitBounded TimeoutHasLastError

PROPERTY WaiterEnds

CHECK_DEADLOCK FALSE
