\* Two requests, each for any of two scans, three findings, two errors.  Two
\* editors, two logins, two organisations that share one subject.
CONSTANTS
    r1 = r1
    r2 = r2
    s1 = s1
    s2 = s2
    f1 = f1
    f2 = f2
    f3 = f3
    Requests = {r1, r2}
    Scans = {s1, s2}
    Findings = {f1, f2, f3}
    ScanOf <- MCScanOf
    Targets = {"soar", "siem"}
    MaxErrors = 2
    Metadata <- MCMetadata
    MaxPoints = 3
    e1 = e1
    e2 = e2
    i1 = i1
    i2 = i2
    idp = idp
    key = key
    t1 = t1
    t2 = t2
    a1 = a1
    a2 = a2
    a3 = a3
    g1 = g1
    g2 = g2
    u1 = u1
    None = None
    Editors = {e1, e2}
    Issuers = {i1, i2}
    Entities = {idp}
    Secrets = {key}
    Tabs = {t1, t2}
    Admins = {a1, a2, a3}
    OrgOf <- TwoOrgs
    Subs = {u1}
    MaxRequests = 3

SPECIFICATION MCSpec

SYMMETRY Symmetry

INVARIANTS
    OneIncident
    NoFindingSkipped
    FlagsHonest
    
    SecretKept
    SettingsAreSent
    OverwritesRace

CHECK_DEADLOCK FALSE
