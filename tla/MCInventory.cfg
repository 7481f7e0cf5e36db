\* Two tests and two VMs on one appliance, two attempts each.
CONSTANTS
    a1 = a1
    org = org
    t1 = t1
    t2 = t2
    vm1 = vm1
    vm2 = vm2
    Appliances = {a1}
    Orgs = {org}
    Runs = {t1, t2}
    ApplianceOf <- MCApplianceOf
    Objects = {vm1, vm2}
    Targets = {5}
    MaxAttempts = 2
    MaxName = 1
    MaxFaults = 1

SPECIFICATION Spec

INVARIANTS
    OneRowPerObject
    SyncIsAtomic
    TargetsKept

PROPERTIES
    SyncEnds

CHECK_DEADLOCK FALSE
