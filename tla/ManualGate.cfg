\* One workflow and no fault, with the rows the API serves.
CONSTANTS
    N = 3
    Numberings <- MCNumberings
    Dependencies <- MCFewDependencies
    Drafts <- MCDrafts
    TimeoutOf <- MCTimeoutOf
    Tells <- MCTellsHere
    MaxAttempts = 2
    MaxWorkflows = 1
    MaxFaults = 0
    NRecipients = 1
    ReportAttempts = 1
    ScheduleRoute = TRUE
    MaxRuns = 0

SPECIFICATION MCSpec

INVARIANT
    GateHolds

CHECK_DEADLOCK FALSE
