CONSTANTS
    none = none
    Attempts = 3
    Errors <- MCErrors
    NoErr = none
    DeleteEffects = {"reset", "noop"}
    ValidateOk = {TRUE, FALSE}
    MaxFaults = 2

SPECIFICATION Spec

INVARIANT RetriesAbsorbFaults

CHECK_DEADLOCK FALSE
