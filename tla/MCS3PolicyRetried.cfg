CONSTANTS
    none = none
    Attempts = 6
    Errors <- MCErrors
    NoErr = none
    DeleteEffects = {"reset"}
    ValidateOk = {TRUE, FALSE}
    MaxFaults = 1

SPECIFICATION Spec

INVARIANT CheckFailureNotRetried

CHECK_DEADLOCK FALSE
