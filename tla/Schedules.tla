------------------------------ MODULE Schedules ------------------------------
(***************************************************************************)
(* The schedules of the SaaS API: the cron expression of a workload        *)
(* (routers/workloads.py), the report schedules                            *)
(* (routers/report_schedules.py), and the APScheduler that every API       *)
(* process keeps in memory (scheduler.py).  The job table of a scheduler   *)
(* is a cache: load_schedules fills it once, while the process starts      *)
(* (main.py, lifespan), with three queries between which users go on       *)
(* editing, and no endpoint refreshes it.                                  *)
(*                                                                         *)
(* A report job reads its row when it fires, tells the recipients one      *)
(* after the other, and then records the run.  A workload job creates a    *)
(* test run; what becomes of the run is the subject of TestRunLifecycle.   *)
(* The jobs of the validation policies are ContinuousValidation's.         *)
(***************************************************************************)
EXTENDS Integers, FiniteSets, Sequences, Functions

CONSTANTS
    Processes,   \* API processes
    Users,       \* people with a request to toggle a schedule under way
    Reports,     \* identifiers of report schedules, each used once
    Workloads,   \* workloads
    Recipients,  \* the `recipients` list of a report schedule
    Addressed,   \* those that have both a type and a destination
    MaxEdits,    \* bound: changes users make to the rows
    MaxFaults    \* bound: crashes and database errors

ASSUME SchedulesAssumption ==
    /\ Recipients \in Seq(Range(Recipients))
    /\ Addressed \subseteq Range(Recipients)
    /\ IsFiniteSet(Processes)
    /\ Reports \cap Workloads = {}
    /\ MaxEdits \in Nat
    /\ MaxFaults \in Nat

VARIABLES
    report,   \* rows of report_schedules
    cron,     \* schedule_cron of the workloads
    request,  \* what a user's toggle has read, if one is under way
    phase,    \* how far a process is in `lifespan`
    running,  \* processes whose scheduler was started
    jobs,     \* the job table of each scheduler
    stale,    \* history: rows edited since the process began to load
    step,     \* where the execution of a job stands, per process
    todo,     \* recipients the execution has still to tell
    told,     \* history: recipients it has tried to tell
    lastRun,  \* last_run_at is set, since the schedule was last enabled
    lastTold, \* history: `told` of the execution that set it
    late,     \* history: reports sent, or whether a run was triggered, since
              \* the row was edited to ask for none
    edits, faults

rows     == <<report, cron, request, edits>>
tables   == <<phase, running, jobs, stale>>
progress == <<step, todo, told>>
runs     == <<lastRun, lastTold, late>>
scheduleVars == <<rows, tables, progress, runs, faults>>

Jobs   == Reports \cup Workloads
NoRequest == [row |-> "none", was |-> "none"]

(* The rows load_schedules selects and can turn into a trigger. *)
Wanted(j) == IF j \in Reports THEN report[j] = "enabled" ELSE cron[j] = "valid"

ScheduleInit ==
    /\ report = [r \in Reports |-> "new"]
    /\ cron = [w \in Workloads |-> "none"]
    /\ request = [u \in Users |-> NoRequest]
    /\ phase = [p \in Processes |-> "down"]
    /\ running = {}
    /\ jobs = [p \in Processes |-> {}]
    /\ stale = [p \in Processes |-> {}]
    /\ step = [p \in Processes |-> [r \in Reports |-> "idle"]]
    /\ todo = [p \in Processes |-> [r \in Reports |-> <<>>]]
    /\ told = [p \in Processes |-> [r \in Reports |-> {}]]
    /\ lastRun = [r \in Reports |-> FALSE]
    /\ lastTold = [r \in Reports |-> {}]
    /\ late = [j \in Jobs |-> 0]
    /\ edits = 0
    /\ faults = 0

-----------------------------------------------------------------------------
(* The rows *)

(* Every row written is one that the loaded tables may now disagree with.  *)
Edited(j) ==
    /\ edits < MaxEdits
    /\ edits' = edits + 1
    /\ stale' = [p \in Processes |-> stale[p] \cup {j}]
    /\ late' = [late EXCEPT ![j] = 0]

(* An expression that does not parse is refused, so a row's cron is valid. *)
CreateSchedule(r) ==
    /\ report[r] = "new"
    /\ report' = [report EXCEPT ![r] = "enabled"]
    /\ Edited(r)
    /\ UNCHANGED <<cron, request, phase, running, jobs, progress, lastRun,
                   lastTold, faults>>

ToggleRead(u, r) ==
    /\ request[u].was = "none"
    /\ report[r] \in {"enabled", "disabled"}
    /\ edits < MaxEdits
    /\ request' = [request EXCEPT ![u] = [row |-> r, was |-> report[r]]]
    /\ UNCHANGED <<report, cron, edits, tables, progress, runs, faults>>

(* The commit writes the opposite of what was read; on a row deleted since *)
(* it matches nothing and the request fails.                               *)
ToggleCommit(u) ==
    /\ request[u].was # "none"
    /\ request' = [request EXCEPT ![u] = NoRequest]
    /\ LET r == request[u].row
           on == request[u].was = "disabled"
       IN  IF report[r] = "deleted"
           THEN UNCHANGED <<report, lastRun, edits, stale, late>>
           ELSE /\ report' = [report EXCEPT
                               ![r] = IF on THEN "enabled" ELSE "disabled"]
                /\ lastRun' = [lastRun EXCEPT ![r] = @ /\ ~on]
                /\ Edited(r)
    /\ UNCHANGED <<cron, phase, running, jobs, progress, lastTold, faults>>

DeleteSchedule(r) ==
    /\ report[r] \in {"enabled", "disabled"}
    /\ report' = [report EXCEPT ![r] = "deleted"]
    /\ Edited(r)
    /\ UNCHANGED <<cron, request, phase, running, jobs, progress, lastRun,
                   lastTold, faults>>

(* The expression is stored as it comes. *)
SetSchedule(w, expression) ==
    /\ cron[w] # expression
    /\ cron' = [cron EXCEPT ![w] = expression]
    /\ Edited(w)
    /\ UNCHANGED <<report, request, phase, running, jobs, progress, lastRun,
                   lastTold, faults>>

-----------------------------------------------------------------------------
(* The start of a process *)

Start(p) ==
    /\ phase[p] = "down"
    /\ phase' = [phase EXCEPT ![p] = "workloads"]
    /\ stale' = [stale EXCEPT ![p] = {}]
    /\ UNCHANGED <<rows, running, jobs, progress, runs, faults>>

Register(p, found, next) ==
    /\ jobs' = [jobs EXCEPT ![p] = @ \cup found]
    /\ phase' = [phase EXCEPT ![p] = next]
    /\ UNCHANGED <<rows, running, stale, progress, runs, faults>>

(* Variant: the first expression that does not parse ends the loop. *)
LoadWorkloadsUntilInvalid(p) ==
    /\ phase[p] = "workloads"
    /\ \E found \in SUBSET {w \in Workloads : cron[w] = "valid"} :
        /\ (\A w \in Workloads : cron[w] # "invalid")
             => found = {w \in Workloads : cron[w] = "valid"}
        /\ Register(p, found, "reports")

(* An expression that does not parse is logged, and the loop goes on. *)
LoadWorkloads(p) ==
    /\ phase[p] = "workloads"
    /\ Register(p, {w \in Workloads : cron[w] = "valid"}, "reports")

LoadReports(p) ==
    /\ phase[p] = "reports"
    /\ Register(p, {r \in Reports : report[r] = "enabled"}, "policies")

(* After the query for the validation policies. *)
StartScheduler(p) ==
    /\ phase[p] = "policies"
    /\ phase' = [phase EXCEPT ![p] = "serving"]
    /\ running' = running \cup {p}
    /\ UNCHANGED <<rows, jobs, stale, progress, runs, faults>>

(* A query fails: the process serves requests without a scheduler. *)
LoadFails(p) ==
    /\ phase[p] \in {"workloads", "reports", "policies"}
    /\ faults < MaxFaults
    /\ faults' = faults + 1
    /\ phase' = [phase EXCEPT ![p] = "serving"]
    /\ UNCHANGED <<rows, running, jobs, stale, progress, runs>>

(* A shutdown does not wait for the jobs either. *)
ProcessLost(p) ==
    /\ phase[p] # "down"
    /\ faults < MaxFaults
    /\ faults' = faults + 1
    /\ phase' = [phase EXCEPT ![p] = "down"]
    /\ running' = running \ {p}
    /\ jobs' = [jobs EXCEPT ![p] = {}]
    /\ step' = [step EXCEPT ![p] = [r \in Reports |-> "idle"]]
    /\ todo' = [todo EXCEPT ![p] = [r \in Reports |-> <<>>]]
    /\ told' = [told EXCEPT ![p] = [r \in Reports |-> {}]]
    /\ UNCHANGED <<rows, stale, runs>>

-----------------------------------------------------------------------------
(* The jobs *)

Goto(p, r, s) == step' = [step EXCEPT ![p][r] = s]

(* Variant: the job only looks whether the row exists. *)
ReadReportAny(p, r) ==
    /\ p \in running /\ r \in jobs[p]
    /\ step[p][r] = "idle"
    /\ report[r] # "deleted"
    /\ Goto(p, r, "telling")
    /\ todo' = [todo EXCEPT ![p][r] = Recipients]
    /\ told' = [told EXCEPT ![p][r] = {}]
    /\ UNCHANGED <<rows, tables, runs, faults>>

(* The trigger fires and the job reads its row; a row that is gone or      *)
(* disabled ends it.  One instance of a job runs at a time: a firing that  *)
(* finds one is dropped.                                                   *)
ReadReport(p, r) ==
    /\ p \in running /\ r \in jobs[p]
    /\ step[p][r] = "idle"
    /\ report[r] = "enabled"
    /\ Goto(p, r, "telling")
    /\ todo' = [todo EXCEPT ![p][r] = Recipients]
    /\ told' = [told EXCEPT ![p][r] = {}]
    /\ UNCHANGED <<rows, tables, runs, faults>>

(* Variant: an exception is caught around the loop only. *)
SendReportDeliveryOrStop(p, r) ==
    /\ step[p][r] = "telling"
    /\ todo[p][r] # <<>>
    /\ told' = [told EXCEPT ![p][r] = @ \cup ({Head(todo[p][r])} \cap Addressed)]
    /\ \E left \in {Tail(todo[p][r]), <<>>} :
        todo' = [todo EXCEPT ![p][r] = left]
    /\ UNCHANGED <<rows, tables, step, runs, faults>>

(* Variant: an exception leaves the job. *)
SendReportDeliveryRaises(p, r) ==
    /\ step[p][r] = "telling"
    /\ todo[p][r] # <<>>
    /\ told' = [told EXCEPT ![p][r] = @ \cup ({Head(todo[p][r])} \cap Addressed)]
    /\ todo' = [todo EXCEPT ![p][r] = Tail(@)]
    /\ \E s \in {"telling", "idle"} : Goto(p, r, s)
    /\ UNCHANGED <<rows, tables, runs, faults>>

(* An entry without a type or a destination is passed over.  Whether the   *)
(* others are reached or raise, the loop goes on.                          *)
SendReportDelivery(p, r) ==
    /\ step[p][r] = "telling"
    /\ todo[p][r] # <<>>
    /\ told' = [told EXCEPT ![p][r] = @ \cup ({Head(todo[p][r])} \cap Addressed)]
    /\ todo' = [todo EXCEPT ![p][r] = Tail(@)]
    /\ UNCHANGED <<rows, tables, step, runs, faults>>

(* The update touches last_run_at and next_run_at only, and no row if the  *)
(* schedule was deleted meanwhile.                                         *)
RecordRun(p, r) ==
    /\ step[p][r] = "telling"
    /\ todo[p][r] = <<>>
    /\ Goto(p, r, "idle")
    /\ IF report[r] = "deleted"
       THEN UNCHANGED <<lastRun, lastTold>>
       ELSE /\ lastRun' = [lastRun EXCEPT ![r] = TRUE]
            /\ lastTold' = [lastTold EXCEPT ![r] = told[p][r]]
    /\ late' = [late EXCEPT ![r] = IF Wanted(r) THEN @ ELSE @ + 1]
    /\ UNCHANGED <<rows, tables, todo, told, faults>>

(* The update raises; APScheduler logs it and the run is not recorded.     *)
JobError(p, r) ==
    /\ step[p][r] # "idle"
    /\ faults < MaxFaults
    /\ faults' = faults + 1
    /\ Goto(p, r, "idle")
    /\ UNCHANGED <<rows, tables, todo, told, runs>>

(* The job reads the workload but not its schedule_cron. *)
TriggerScheduledRun(p, w) ==
    /\ p \in running /\ w \in jobs[p]
    /\ late' = [late EXCEPT ![w] = IF Wanted(w) THEN @ ELSE 1]
    /\ UNCHANGED <<rows, tables, progress, lastRun, lastTold, faults>>

-----------------------------------------------------------------------------
Edit ==
    \/ \E r \in Reports : CreateSchedule(r) \/ DeleteSchedule(r)
    \/ \E u \in Users : ToggleCommit(u) \/ \E r \in Reports : ToggleRead(u, r)
    \/ \E w \in Workloads, e \in {"none", "valid", "invalid"} : SetSchedule(w, e)

Load(p) == Start(p) \/ LoadWorkloads(p) \/ LoadReports(p) \/ StartScheduler(p)

RunReport(p, r) ==
    \/ ReadReport(p, r)
    \/ SendReportDelivery(p, r)
    \/ RecordRun(p, r)

ScheduleNext ==
    \/ Edit
    \/ \E p \in Processes :
        \/ Load(p)
        \/ LoadFails(p)
        \/ ProcessLost(p)
        \/ \E r \in Reports : RunReport(p, r) \/ JobError(p, r)
        \/ \E w \in Workloads : TriggerScheduledRun(p, w)

(* A cron trigger fires again and again while its process lives, and the   *)
(* event loop runs what is ready.  Nobody is obliged to edit, to start a   *)
(* process again or to crash it.                                           *)
Fairness ==
    \A p \in Processes : \A r \in Reports : WF_scheduleVars(RunReport(p, r))

ScheduleSpec == ScheduleInit /\ [][ScheduleNext]_scheduleVars /\ Fairness

-----------------------------------------------------------------------------
(* The rows, the tables and the executions hold what is put there.         *)
ScheduleTypeOK ==
    /\ report \in [Reports -> {"new", "enabled", "disabled", "deleted"}]
    /\ cron \in [Workloads -> {"none", "valid", "invalid"}]
    /\ request \in [Users -> {NoRequest} \cup
                              [row : Reports, was : {"enabled", "disabled"}]]
    /\ phase \in [Processes -> {"down", "workloads", "reports", "policies", "serving"}]
    /\ running \subseteq Processes
    /\ jobs \in [Processes -> SUBSET Jobs]
    /\ stale \in [Processes -> SUBSET Jobs]
    /\ step \in [Processes -> [Reports -> {"idle", "telling"}]]
    /\ todo \in [Processes -> [Reports -> Seq(Range(Recipients))]]
    /\ told \in [Processes -> [Reports -> SUBSET Addressed]]
    /\ lastRun \in [Reports -> BOOLEAN]
    /\ lastTold \in [Reports -> SUBSET Addressed]
    /\ late \in [Jobs -> Nat]
    /\ edits \in Nat
    /\ faults \in Nat

(* A running scheduler has a job for exactly the rows that ask for one,    *)
(* but for the rows edited since its process began to load: neither the    *)
(* edits between the three queries of load_schedules nor expressions that  *)
(* do not parse cost any other row its job.                                *)
TableMatchesRows ==
    \A p \in running, j \in Jobs : j \notin stale[p] =>
        (j \in jobs[p] <=> Wanted(j))

(* A report that says it ran (last_run_at of _run_report_schedule) was     *)
(* tried on every recipient with a type and a destination, whichever of    *)
(* the deliveries raised.                                                  *)
NoRecipientForgotten ==
    \A r \in Reports : lastRun[r] => lastTold[r] = Addressed

(* Once a report schedule is disabled or deleted, what still goes out are  *)
(* the executions under way, one per process: the job reads the row again  *)
(* each time it fires, although its entry in the table stays.              *)
LateReportsBounded ==
    \A r \in Reports : late[r] <= Cardinality(Processes)

(* An enabled schedule in the table of some running scheduler is run,      *)
(* unless it is disabled, or the process is lost, before.                  *)
ReportGoesOut ==
    \A r \in Reports, p \in Processes :
        (p \in running /\ r \in jobs[p] /\ report[r] = "enabled")
          ~> (lastRun[r] \/ p \notin running \/ report[r] # "enabled")
=============================================================================
