\* Tokens of four minutes, messages of up to one, six minutes.  Nine providers,
\* four operations.
CONSTANTS
    Builds <- MCBuilds
    Overrides = {"none", "1.2-rev0"}
    Operations = {"restorePoints", "start", "session", "stop", "malware"}
    Lifetime = 4
    MaxDelay = 1
    MaxAttempts = 3
    Targets <- MCTargets
    MaxPoints = 2
    MaxTime = 6
    MaxFaults = 2
    Providers = {"aws", "azure", "gcp", "hyperv", "nutanix", "proxmox", "rhv",
                 "sangfor", "xenserver"}
    MaxOps = 4
    MaxRes = 3

SPECIFICATION MCSpec

INVARIANTS
    TokenIsLive
    StartFitsServer
    NewestConsistent
    OkIsBacked
    LostIsCounted
    NoTwinInstance

CHECK_DEADLOCK FALSE
