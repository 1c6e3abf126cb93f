CONSTANTS
    none = none
    Attempts = 4
    Errors <- MCErrors
    NoErr = none
    CreateExistingReplies = {"ok"}
    MaxFaults = 4

SPECIFICATION Spec

INVARIANT GivesUpOnlyOnFaults

CHECK_DEADLOCK FALSE
