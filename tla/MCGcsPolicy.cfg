CONSTANTS
    allUsers = allUsers
    alice = alice
    none = none
    noPolicy = noPolicy
    Attempts = 3
    Errors <- MCErrors
    NoErr = none
    Members <- MCMembers
    AllUsers = allUsers
    NoPolicy = noPolicy
    DeleteReplies = {"unsupported", "other_code", "accepted"}
    StrictModes = {TRUE, FALSE}
    MaxFaults = 2

SPECIFICATION Spec

INVARIANT TypeOK
INVARIANT VerifiedUnlessSkipped

CHECK_DEADLOCK FALSE
