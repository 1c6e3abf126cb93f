CONSTANTS
    none = none
    Attempts = 10
    Errors <- MCErrors
    NoErr = none
    CreateExistingReplies = {"conflict"}
    MaxFaults = 1

SPECIFICATION Spec

INVARIANT GivesUpOnlyOnFaults

CHECK_DEADLOCK FALSE
