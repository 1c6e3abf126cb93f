CONSTANTS
    none = none
    Attempts = 3
    Errors <- MCErrors
    NoErr = none
    ResetEffects <- MCResetEffects
    MaxFaults = 2

SPECIFICATION Spec

INVARIANT RetriesAbsorbFaults

CHECK_DEADLOCK FALSE
