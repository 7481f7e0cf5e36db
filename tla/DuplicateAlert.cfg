\* Two API processes: both look for an open alert before either commits one.
CONSTANTS
    api1 = api1
    api2 = api2
    vm1 = vm1
    Replicas = {api1, api2}
    Workloads = {vm1}
    Checks = {"restore_point_freshness", "rpo_compliance", "agent_heartbeat",
              "mount_check"}
    Target = 2
    Interval = 2
    Ages = {2, 3, 5, 9}
    Threshold = 2
    AlertOnFailure = TRUE
    MaxJobs = 4
    MaxAlerts = 2

SPECIFICATION Spec

SYMMETRY Symmetry

INVARIANTS
    OneOpenAlert

CHECK_DEADLOCK FALSE
