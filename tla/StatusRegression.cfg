\* A late update shows a finished run as running.
CONSTANTS
    r1 = r1
    slack = slack
    pager = pager
    Runs = {r1}
    Channels = {slack, pager}
    Subscribed <- MCSubscribed
    MaxPosts = 3
    MaxSteps = 2
    MaxCrashes = 2

SPECIFICATION Spec

PROPERTIES
    RunningOnlyFromPending

CHECK_DEADLOCK FALSE
