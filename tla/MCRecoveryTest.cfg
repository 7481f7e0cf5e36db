\* One recovery test: two attempts, two POSTs, two polls.
CONSTANTS
    MaxAttempts = 2
    PostAttempts = 2
    MaxPolls = 2
    NumChecks = 2
    MaxMinutes = 3
    RtoTarget = 2
    RpoTarget = 1
    HealthChecksDeployed = TRUE
    ProgressAccepted = TRUE

SPECIFICATION FairSpec

INVARIANTS
    MountIsIsolated
    PassedIsEarned
    ScoreSeparates
    ReturnReleasesMount
    SessionsBounded

PROPERTIES
    ReportIsFinal
    ImplementsIsolatedTest
    WorkflowEnds
