CONSTANTS
    Entries <- MCEntries
    MaxLen = 3
    NoName = NoName
    Absent = Absent
INIT Init
NEXT Next
INVARIANT ListedNamesAreReal
CHECK_DEADLOCK FALSE
