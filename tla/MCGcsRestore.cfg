CONSTANTS
    allUsers = allUsers
    alice = alice
    none = none
    noPolicy = noPolicy
    Attempts = 3
    Errors <- MCErrors
    NoErr = none
    Members <- MCMembers
    AllUsers = allUsers
    NoPolicy = noPolicy
    DeleteReplies = {"unsupported"}
    StrictModes = {TRUE}
    MaxFaults = 1

SPECIFICATION Spec


INVARIANT RestoresOriginal

CHECK_DEADLOCK FALSE
