CONSTANTS
    Deadline = 4
    MaxRequestTime = 2
    MaxFaults = 1

SPECIFICATION Spec

INVARIANT OutcomeMatchesJob
PROPERTY RefinesPollAbstract
PROPERTY PollerEnds

CHECK_DEADLOCK FALSE
