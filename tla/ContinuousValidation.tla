------------------------ MODULE ContinuousValidation ------------------------
(***************************************************************************)
(* One continuous-validation policy of the SaaS API: its row               *)
(* (routers/continuous_validation.py), the APScheduler job that every API  *)
(* process registers for it when it starts (scheduler.py, load_schedules), *)
(* and the job itself (_run_validation_policy), which checks the workloads *)
(* (services/continuous_validation.py), stores a run for each of them and  *)
(* raises an alert after enough failures in a row.                         *)
(*                                                                         *)
(* A job is one database transaction: the rows it adds are visible to it   *)
(* at once and to the others after its commit.  Its queries are separated  *)
(* by awaits, so users and the jobs of other processes run in between.     *)
(* Runs are ordered by ran_at, the time at which their job began; the      *)
(* model's clock counts the jobs.  Each API process has a scheduler of its *)
(* own and nothing keeps their jobs apart (k8s/deployment.yaml runs two).  *)
(***************************************************************************)
EXTENDS Integers, FiniteSets

CONSTANTS
    Replicas,       \* API processes, each with a scheduler of its own
    Workloads,      \* workloads in the scope of the policy
    Checks,         \* checks_enabled of the policy
    Target,         \* rpo_target_mins of the workloads
    Interval,       \* check_interval_mins of the policy
    Ages,           \* ages, in minutes, a restore point or a heartbeat can have
    Threshold,      \* consecutive_failures_before_alert
    AlertOnFailure, \* alert_on_failure
    MaxJobs,        \* bound: jobs started
    MaxAlerts       \* bound: alerts resolved by users, per workload

ASSUME PolicyAssumption ==
    /\ IsFiniteSet(Replicas)
    /\ Target \in Nat
    /\ Interval \in Nat
    /\ Ages \subseteq Nat
    /\ Threshold \in Nat
    /\ AlertOnFailure \in BOOLEAN
    /\ MaxJobs \in Nat
    /\ MaxAlerts \in Nat

VARIABLES
    policy,      \* the policy's row: "absent", "enabled" or "disabled"
    up,          \* replicas that run
    jobs,        \* replicas whose scheduler has the policy's job
    busy,        \* replicas that execute it
    at,          \* `now` of the replica's current job
    todo,        \* workloads the job has still to check
    doubtful,    \* the workload whose streak was long enough, if any
    added,       \* statuses of the runs the job has added
    raised,      \* workloads the job has added an alert for
    clock,       \* jobs started so far
    crowded,     \* (history) jobs that ran beside a job of another process
    runs,        \* committed micro_validation_runs, by workload and ran_at
    open,        \* committed alerts that are not resolved
    resolvedAt,  \* clock of the last resolution, per workload
    resolutions  \* number of resolutions

ticks  == <<clock, crowded>>
rows   == <<runs, open, resolvedAt, resolutions>>
local  == <<at, todo, doubtful, added, raised>>
vars   == <<policy, up, jobs, busy, local, ticks, rows>>

Statuses == {"pass", "warn", "fail"}
Times    == 1..MaxJobs
NoAge    == -1   \* the timestamp is None
NoRun    == "none"

-----------------------------------------------------------------------------
(* The micro-checks *)

Grade(age, passUpTo, warnUpTo) ==
    IF age <= passUpTo THEN "pass"
    ELSE IF age <= warnUpTo THEN "warn" ELSE "fail"

(* `rpo_target_mins or 1440` *)
EffectiveTarget == IF Target = 0 THEN 1440 ELSE Target

CheckRestorePointFreshness(age) ==
    IF age = NoAge THEN "fail"
    ELSE Grade(age, EffectiveTarget, 2 * EffectiveTarget)

(* 1.5 times the target, in whole minutes *)
CheckRpoCompliance(age) ==
    IF age = NoAge THEN "fail"
    ELSE Grade(2 * age, 2 * EffectiveTarget, 3 * EffectiveTarget)

CheckAgentHeartbeat(age) ==
    IF age = NoAge THEN "fail" ELSE Grade(age, 2 * Interval, 4 * Interval)

BuildCheckResults(backup, heartbeat) ==
    {CASE c = "restore_point_freshness" -> CheckRestorePointFreshness(backup)
       [] c = "rpo_compliance"          -> CheckRpoCompliance(backup)
       [] c = "agent_heartbeat"         -> CheckAgentHeartbeat(heartbeat)
       [] OTHER                         -> "skipped" : c \in Checks}

(* Skipped checks are ignored, and so a policy of skipped checks passes. *)
EvaluateCheckResults(results) ==
    IF "fail" \in results THEN "fail"
    ELSE IF "warn" \in results THEN "warn" ELSE "pass"

-----------------------------------------------------------------------------
(* The query for the last runs *)

Recorded(h) == {t \in Times : h[t] # NoRun}

(* Variant: failures in a row are counted without regard to the passes. *)
StreakOfAny(h) ==
    Cardinality({t \in Recorded(h) : h[t] # "pass"}) >= Threshold

(* Counted from the newest one on, as many runs did not pass as the        *)
(* threshold asks for.  (The query fetches no more than that number.)      *)
StreakReached(h) ==
    Cardinality({t \in Recorded(h) :
        \A u \in Recorded(h) : u >= t => h[u] # "pass"}) >= Threshold

(* What the job's own transaction sees. *)
Seen(p, w, status) == [runs[w] EXCEPT ![at[p]] = status]

-----------------------------------------------------------------------------
(* The policy's row and the schedulers *)

Init ==
    /\ policy = "absent"
    /\ up = {}
    /\ jobs = {}
    /\ busy = {}
    /\ at = [p \in Replicas |-> 0]
    /\ todo = [p \in Replicas |-> {}]
    /\ doubtful = [p \in Replicas |-> {}]
    /\ added = [p \in Replicas |-> [w \in Workloads |-> NoRun]]
    /\ raised = [p \in Replicas |-> {}]
    /\ clock = 0
    /\ crowded = {}
    /\ runs = [w \in Workloads |-> [t \in Times |-> NoRun]]
    /\ open = [w \in Workloads |-> 0]
    /\ resolvedAt = [w \in Workloads |-> 0]
    /\ resolutions = [w \in Workloads |-> 0]

CreatePolicy ==
    /\ policy = "absent"
    /\ policy' = "enabled"
    /\ UNCHANGED <<up, jobs, busy, local, ticks, rows>>

TogglePolicy ==
    /\ policy # "absent"
    /\ policy' = IF policy = "enabled" THEN "disabled" ELSE "enabled"
    /\ UNCHANGED <<up, jobs, busy, local, ticks, rows>>

(* lifespan: load_schedules registers a job for a policy that is enabled   *)
(* now.  When it raises, the exception is logged and the API serves        *)
(* without any job.                                                        *)
Startup(p) ==
    /\ p \notin up
    /\ up' = up \cup {p}
    /\ \/ policy = "enabled" /\ jobs' = jobs \cup {p}
       \/ UNCHANGED jobs
    /\ UNCHANGED <<policy, busy, local, ticks, rows>>

(* The job ends: its locals are gone. *)
EndJob(p) ==
    /\ busy' = busy \ {p}
    /\ at' = [at EXCEPT ![p] = 0]
    /\ todo' = [todo EXCEPT ![p] = {}]
    /\ doubtful' = [doubtful EXCEPT ![p] = {}]
    /\ added' = [added EXCEPT ![p] = [w \in Workloads |-> NoRun]]
    /\ raised' = [raised EXCEPT ![p] = {}]

(* The process ends; the transaction of its job is rolled back. *)
Shutdown(p) ==
    /\ p \in up
    /\ up' = up \ {p}
    /\ jobs' = jobs \ {p}
    /\ EndJob(p)
    /\ UNCHANGED <<policy, ticks, rows>>

-----------------------------------------------------------------------------
(* _run_validation_policy *)

(* The interval is over and no instance of the job runs (max_instances is  *)
(* one).  A policy that is disabled ends the job at once.                  *)
Fire(p) ==
    /\ p \in jobs \ busy
    /\ policy = "enabled"
    /\ clock < MaxJobs
    /\ clock' = clock + 1
    /\ crowded' = IF busy = {} THEN crowded
                  ELSE crowded \cup {clock + 1} \cup {at[q] : q \in busy}
    /\ at' = [at EXCEPT ![p] = clock + 1]
    /\ busy' = busy \cup {p}
    /\ todo' = [todo EXCEPT ![p] = Workloads]
    /\ UNCHANGED <<policy, up, jobs, doubtful, added, raised, rows>>

(* Check one workload, add its run and, if it failed, look at the last     *)
(* ones.                                                                   *)
RunChecks(p, w) ==
    /\ p \in busy
    /\ doubtful[p] = {}
    /\ w \in todo[p]
    /\ todo' = [todo EXCEPT ![p] = @ \ {w}]
    /\ \E backup, heartbeat \in Ages \cup {NoAge} :
          LET status == EvaluateCheckResults(
                            BuildCheckResults(backup, heartbeat))
          IN  /\ added' = [added EXCEPT ![p][w] = status]
              /\ doubtful' = [doubtful EXCEPT ![p] =
                    IF /\ AlertOnFailure
                       /\ status = "fail"
                       /\ StreakReached(Seen(p, w, status))
                    THEN {w} ELSE {}]
    /\ UNCHANGED <<policy, up, jobs, busy, at, raised, ticks, rows>>

(* Variant: raises without looking for an open alert. *)
RaiseAlertAlways(p, w) ==
    /\ p \in busy
    /\ w \in doubtful[p]
    /\ doubtful' = [doubtful EXCEPT ![p] = {}]
    /\ raised' = [raised EXCEPT ![p] = @ \cup {w}]
    /\ UNCHANGED <<policy, up, jobs, busy, at, todo, added, ticks, rows>>

(* Unless an open alert is found, add one. *)
RaiseAlert(p, w) ==
    /\ p \in busy
    /\ w \in doubtful[p]
    /\ doubtful' = [doubtful EXCEPT ![p] = {}]
    /\ raised' = [raised EXCEPT ![p] = IF open[w] > 0 THEN @ ELSE @ \cup {w}]
    /\ UNCHANGED <<policy, up, jobs, busy, at, todo, added, ticks, rows>>

(* Variant: commits the runs and forgets the alerts. *)
CommitRunsOnly(p) ==
    /\ p \in busy
    /\ todo[p] = {}
    /\ doubtful[p] = {}
    /\ EndJob(p)
    /\ runs' = [w \in Workloads |-> [runs[w] EXCEPT ![at[p]] = added[p][w]]]
    /\ UNCHANGED <<policy, up, jobs, ticks, open, resolvedAt,
                   resolutions>>

Commit(p) ==
    /\ p \in busy
    /\ todo[p] = {}
    /\ doubtful[p] = {}
    /\ EndJob(p)
    /\ runs' = [w \in Workloads |-> [runs[w] EXCEPT ![at[p]] = added[p][w]]]
    /\ open' = [w \in Workloads |->
                   IF w \in raised[p] THEN open[w] + 1 ELSE open[w]]
    /\ UNCHANGED <<policy, up, jobs, ticks, resolvedAt, resolutions>>

(* A query or the commit fails: the transaction is rolled back and the job *)
(* fires again after the next interval.                                    *)
JobError(p) ==
    /\ p \in busy
    /\ EndJob(p)
    /\ UNCHANGED <<policy, up, jobs, ticks, rows>>

-----------------------------------------------------------------------------
(* POST /alerts/{id}/resolve *)
ResolveAlert(w) ==
    /\ open[w] > 0
    /\ resolutions[w] < MaxAlerts
    /\ open' = [open EXCEPT ![w] = @ - 1]
    /\ resolutions' = [resolutions EXCEPT ![w] = @ + 1]
    /\ resolvedAt' = [resolvedAt EXCEPT ![w] = clock]
    /\ UNCHANGED <<policy, up, jobs, busy, local, ticks, runs>>

Job(p) == \/ \E w \in Workloads : RunChecks(p, w) \/ RaiseAlert(p, w)
          \/ Commit(p)

Next ==
    \/ CreatePolicy
    \/ TogglePolicy
    \/ \E p \in Replicas : Startup(p) \/ Shutdown(p) \/ Fire(p) \/ Job(p)
                              \/ JobError(p)
    \/ \E w \in Workloads : ResolveAlert(w)

Spec == Init /\ [][Next]_vars

-----------------------------------------------------------------------------
(* Properties *)

(* The rows and the state of the jobs keep their types. *)
TypeOK ==
    /\ policy \in {"absent", "enabled", "disabled"}
    /\ up \in SUBSET Replicas
    /\ jobs \in SUBSET up
    /\ busy \in SUBSET jobs
    /\ at \in [Replicas -> 0..MaxJobs]
    /\ todo \in [Replicas -> SUBSET Workloads]
    /\ doubtful \in [Replicas -> SUBSET Workloads]
    /\ added \in [Replicas -> [Workloads -> Statuses \cup {NoRun}]]
    /\ raised \in [Replicas -> SUBSET Workloads]
    /\ clock \in 0..MaxJobs
    /\ crowded \in SUBSET Times
    /\ runs \in [Workloads -> [Times -> Statuses \cup {NoRun}]]
    /\ open \in [Workloads -> Nat]
    /\ resolvedAt \in [Workloads -> 0..MaxJobs]
    /\ resolutions \in [Workloads -> 0..MaxAlerts]

(* phase-24.md: an alert is "deduped against any unresolved alert for the  *)
(* same policy + workload".  No workload has two open alerts.              *)
OneOpenAlert == \A w \in Workloads : open[w] <= 1

(* How far the code falls short of that: whatever jobs overlap and whatever *)
(* users resolve in between, a workload has no more open alerts than there  *)
(* are API processes, since each process adds one only after it found none. *)
OpenAlertsBounded ==
    \A w \in Workloads : open[w] <= Cardinality(Replicas)

(* At time t the workload failed, and at least Threshold runs up to then   *)
(* have no run that passed between them and t.                             *)
EarnedAt(h, t) ==
    /\ h[t] = "fail"
    /\ Cardinality({s \in 1..t :
          h[s] # NoRun /\ \A u \in s..t : h[u] # "pass"}) >= Threshold

(* At time t the workload failed, and it did not pass at Threshold times,  *)
(* in a row or not.                                                        *)
FailedEnough(h, t) ==
    /\ h[t] = "fail"
    /\ Cardinality({s \in Times : h[s] \notin {NoRun, "pass"}}) >= Threshold

(* The committed runs back an alert of the job at time t. *)
BackedAt(h, t) ==
    EarnedAt(h, t) \/ (t \in crowded /\ FailedEnough(h, t))

(* An open alert stands for committed runs.  It follows a full streak of   *)
(* failures; only that of a job that ran beside another process's job may  *)
(* have a pass, which the job could not see yet, among as many failures.   *)
AlertIsEarned ==
    \A w \in Workloads : open[w] > 0 => \E t \in Times : BackedAt(runs[w], t)

(* When the newest committed run of a workload ends a streak, and its job  *)
(* ran beside no other, an alert is open or a user has resolved one since  *)
(* that run began: what overlapping or rolled-back jobs miss is made up    *)
(* for by the next job that fails on its own.                              *)
NoMissedAlert ==
    \A w \in Workloads, t \in Times \ crowded :
        /\ AlertOnFailure
        /\ EarnedAt(runs[w], t)
        /\ \A u \in Recorded(runs[w]) : u <= t
        => open[w] > 0 \/ resolvedAt[w] >= t

-----------------------------------------------------------------------------
(* The inductive invariant of the proofs *)

(* A job under way has a time of its own, at which nothing is committed.   *)
JobsOK ==
    \A p \in busy :
        /\ at[p] \in 1..clock
        /\ \A q \in busy : at[p] = at[q] => p = q
        /\ \A w \in Workloads : runs[w][at[p]] = NoRun
        /\ \A w \in Workloads \ todo[p] : added[p][w] # NoRun

(* A job that is not the newest, or not the only one, is crowded, and so   *)
(* is every job that started while it was under way.                       *)
CrowdOK ==
    \A p \in busy :
        /\ at[p] \notin crowded => at[p] = clock /\ busy = {p}
        /\ \A t \in Times : at[p] < t /\ t <= clock => t \in crowded

(* A process that executes no job has nothing in mind. *)
Idle == \A p \in Replicas \ busy : doubtful[p] = {} /\ raised[p] = {}

FutureEmpty ==
    \A w \in Workloads, t \in Times : t > clock => runs[w][t] = NoRun

(* What the table would say of the workload if the job committed now. *)
Outlook(p, w) == Seen(p, w, added[p][w])

(* The workload's failures are enough for an alert of the job. *)
WillBack(p, w) ==
    /\ FailedEnough(Outlook(p, w), at[p])
    /\ at[p] \notin crowded => EarnedAt(Outlook(p, w), at[p])

DoubtOK ==
    \A p \in busy : \A w \in doubtful[p] :
        w \notin todo[p] /\ doubtful[p] = {w} /\ WillBack(p, w)

RaisedOK ==
    \A p \in busy : \A w \in raised[p] : w \notin todo[p] /\ WillBack(p, w)

(* The alerts that are open and those that are about to be committed. *)
Raisers(w) == {p \in busy : w \in raised[p]}

AlertsCounted ==
    \A w \in Workloads :
        open[w] + Cardinality(Raisers(w)) <= Cardinality(Replicas)

WatchedOK ==
    \A p \in busy : \A w \in Workloads \ todo[p] :
        /\ AlertOnFailure
        /\ at[p] \notin crowded
        /\ EarnedAt(Outlook(p, w), at[p])
        => \/ w \in doubtful[p] \cup raised[p]
           \/ open[w] > 0
           \/ resolvedAt[w] >= at[p]

IndInv ==
    /\ TypeOK
    /\ JobsOK
    /\ CrowdOK
    /\ Idle
    /\ FutureEmpty
    /\ DoubtOK
    /\ RaisedOK
    /\ AlertsCounted
    /\ WatchedOK
    /\ AlertIsEarned
    /\ NoMissedAlert
=============================================================================
