\* An exception in the finally block skips teardown.
CONSTANTS
    MaxAttempts = 2
    PostAttempts = 2
    MaxPolls = 2
    NumChecks = 1
    MaxMinutes = 0
    RtoTarget = 1
    RpoTarget = 1
    HealthChecksDeployed = TRUE
    ProgressAccepted = TRUE

SPECIFICATION Spec

PROPERTIES
    TeardownAlwaysExecutes
