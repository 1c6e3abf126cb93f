CONSTANTS
    none = none
    Attempts = 3
    Errors <- MCErrors
    NoErr = none
    ResetEffects <- MCResetNonList
    MaxFaults = 0

SPECIFICATION Spec

INVARIANT ResetOnReturn

CHECK_DEADLOCK FALSE
