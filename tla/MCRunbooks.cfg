\* One execution of three steps, three workflows, two faults.  A report to two
\* recipients in two attempts.
CONSTANTS
    N = 3
    Numberings <- MCNumberings
    Dependencies <- MCDependencies
    Drafts <- MCDrafts
    TimeoutOf <- MCTimeoutOf
    Tells <- MCTells
    MaxAttempts = 2
    MaxWorkflows = 3
    MaxFaults = 2
    NRecipients = 2
    ReportAttempts = 2
    ScheduleRoute = TRUE
    MaxRuns = 2

SPECIFICATION MCSpec

INVARIANTS
    PlanIsRight
    StepRunsOnce
    CompletedIsEarned
    ReportIsHonest

CHECK_DEADLOCK FALSE
