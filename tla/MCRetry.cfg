CONSTANTS
    e1 = e1
    e2 = e2
    e3 = e3
    none = none
    Attempts = 4
    Errors <- MCErrors
    NoErr = none

SPECIFICATION RetrySpec

INVARIANT RaisesLastError

PROPERTY RefinesAbstract

CHECK_DEADLOCK FALSE
