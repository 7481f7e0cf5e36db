\* Two organisations provision one subject at the same moment.
CONSTANTS
    e1 = e1
    e2 = e2
    i1 = i1
    i2 = i2
    idp = idp
    key = key
    t1 = t1
    t2 = t2
    a1 = a1
    a2 = a2
    a3 = a3
    g1 = g1
    g2 = g2
    u1 = u1
    None = None
    Editors = {e1, e2}
    Issuers = {i1, i2}
    Entities = {idp}
    Secrets = {key}
    Tabs = {t1, t2}
    Admins = {a1, a2, a3}
    OrgOf <- TwoOrgs
    Subs = {u1}
    MaxRequests = 4

SPECIFICATION AccessSpec

SYMMETRY AccessSymmetry

INVARIANT
    OwnAdminsOnly

CHECK_DEADLOCK FALSE
