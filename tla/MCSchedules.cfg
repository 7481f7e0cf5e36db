\* One run and everything that writes to its row; two API processes, one report
\* schedule, two workloads.
CONSTANTS
    r1 = r1
    slack = slack
    pager = pager
    Runs = {r1}
    Channels = {slack, pager}
    Subscribed <- MCSubscribed
    MaxPosts = 2
    MaxSteps = 2
    MaxCrashes = 1
    api1 = api1
    api2 = api2
    ann = ann
    bob = bob
    rep = rep
    vm1 = vm1
    vm2 = vm2
    mail = mail
    chat = chat
    blank = blank
    Processes = {api1, api2}
    Users = {ann}
    Reports = {rep}
    Workloads = {vm1, vm2}
    Recipients <- MCRecipients
    Addressed = {mail, chat}
    MaxEdits = 3
    MaxFaults = 1

SPECIFICATION MCSpec

INVARIANTS
    StatusIsBacked
    NoChannelForgotten
    ToldIsStored
    TableMatchesRows
    NoRecipientForgotten
    LateReportsBounded

PROPERTIES
    ResultIsFinal
    ReportGoesOut

CHECK_DEADLOCK FALSE
