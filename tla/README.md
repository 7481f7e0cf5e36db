# Formal models of R3VP

TLA+ modules, TLC configurations and TLAPS proofs for the recovery-readiness
platform in this repository: the appliance that runs isolated recovery tests
against Veeam and vCenter, and the API that schedules them, keeps their results,
validates backups continuously, answers threats and manages runbooks, reports and
access. Every definition was written from the code, and `PROJECT.json` names the
lines it stands for.

    tlc -workers 2 -config MCRecoveryTest.cfg MCRecoveryTest     # one run
    tlapm RecoveryTestProofs.tla                                 # one set of proofs

## The system

    portal ──HTTP──> API (FastAPI, PostgreSQL, APScheduler in the process; two replicas)
                      │  Temporal client            ▲ registration, inventory, result
                      ▼                             │ and progress posts (mTLS relay)
                   Temporal ──────────────> appliance worker
                                              ├── Veeam B&R (REST)
                                              ├── vCenter (SOAP)
                                              └── nine other providers

| Component | State it keeps | Operations | What is hard | What makes it correct |
|---|---|---|---|---|
| Recovery test workflow (`workflows/recovery_test.py`, `activities.py`) | locals of `run`: restore point, network, session id, moref, verdict, result | ten activities under try / except / finally | every activity is retried, also after its effect; the finally block has no handler of its own | a mounted VM is isolated, a pass is earned, one verdict is reported, the known mount is released, the workflow ends |
| Veeam connector (`connectors/veeam`) | bearer token, detected build, version override | open, list, start / poll / stop instant recovery | tokens that run out, builds that differ in path and header, a POST that is repeated and not idempotent | no request with a dead token, a mount only the way the server understands, the newest consistent point |
| vCenter connector (`connectors/vcenter`) | none | create an isolated port group, resolve a moref | the original VM shares most identifiers with the recovered one | the reliable identifier wins |
| Relay client (`relay/client.py`) | client certificate | registration, inventory, progress and result posts | answers get lost | the API may receive a post twice, never a different one |
| Test runs (`routers/test_runs.py`, `services/appliance.py`) | rows `test_runs`, `test_run_results` | trigger, progress, finalise | three writers of one row: the request, the scheduler, the appliance | the status of a run is backed by what happened to it |
| Inventory and registration (`services/appliance.py`, `routers/appliances.py`, `workloads.py`, `portal_appliances.py`) | rows `orgs`, `appliances`, `workloads` | register, deregister, sync, set targets | lists posted again after a time-out, two lists that lock rows in different orders | one row per VM, lists taken whole, the users' targets kept |
| Scheduler (`scheduler.py`) | APScheduler jobs in memory | load at start-up; fire a run, a report, a policy | jobs live in memory, schedules in the database, and each API process has its own | a loaded table matches the rows, an enabled report goes out |
| Breach notifications (`services/notifications.py`) | channel settings | one loop over the channels | one channel fails, the process dies | no channel is forgotten, none is told of a result that is not stored |
| Continuous validation (`services/continuous_validation.py`, `routers/continuous_validation.py`) | policies, micro-runs, alerts | create, toggle, execute, resolve, health | read-then-insert of alerts in two processes at once, roll-back of a whole job, users resolving meanwhile | alerts stand for failures, and a streak is not missed |
| Incident response (`services/incident_response.py`, `routers/threat_intel.py`) | scans, findings, incidents | submit a scan, open and resolve incidents | numbering by count + 1, notification before commit, several commits per request | a critical finding has its incident, and the incident says truly who was told |
| Threat analysis (`services/threat_analysis.py`) | none | flag restore points, recommend a clean one | thresholds, points without a date | the recommended point shows no sign of encryption and is the newest such |
| Runbooks (`services/runbook_engine.py`, `routers/runbooks.py`, `workflows/runbook_workflow.py`) | steps with dependencies, executions | order, plan, execute | cycles, shared numbers, refused posts, a worker that dies in a step, gates and failure policies | a step follows what it depends on, runs once, and a completed execution was executed |
| Report workflow (`workflows/report_schedule_workflow.py`, `services/delivery.py`, `routers/reports.py`) | test runs of a period, report records, attempts | fetch, generate, deliver | attempts that overlap after a time-out | what was sent is on record and was received |
| Users and sign-on (`auth.py`, `services/rbac.py`, `oidc.py`, `routers/sso.py`, `users.py`, `team.py`, `api_keys.py`) | sign-on settings, users, roles | edit, toggle, log in, provision | settings change while a user is at the identity provider; two admins write one row | a secret is not lost, settings are those that were sent, users are written by their own admins |
| Provider connectors (`connectors/aws_backup`, `azure_backup`, `gcp_backup`, `hyperv`, `nutanix`, `proxmox`, `rhv`, `sangfor`, `xenserver`) | a handle | connect, list, snapshot, restore, delete | an effect whose answer is lost, restores in two calls, tasks that end later or fail | a success is done or under way, and what was made can be named |
| Rate limiter (`rate_limit.py`) | counters per key and window | count, purge | clock steps, store bound | at most the limit per window |
| Audit chain (`audit/chain.py`) | linked hashes | append, verify | concurrent appends | the chain is linear and verifies |
| Scoring, compliance, evidence, insights | none of their own | read and format | arithmetic | scores stay in range |

The portal, the infrastructure files and the migrations are listed in
`PROJECT.json` with the reason they are left out.

## The modules

### `VeeamRest`, `Moref` and `RecoveryTest`: one recovery test

`VeeamRest` holds the pure parts of `connectors/veeam`: the session states, how
`classify_poll` reads them, and `readiness_score` with its decaying points.
`Moref` is how the recovered VM is found in vCenter: the identifiers a session
names, the order `lookup_plan` tries them in, and the moref that is made up when
none finds anything. What vCenter finds by each identifier is external; only an
instance UUID belongs to one VM.

`RecoveryTest` is one execution of `RecoveryTestWorkflow.run`. `pc` is the
activity being executed, `attempt` and `post` the retries of Temporal and of the
Veeam client's `tenacity` decorator; the other variables are the locals of `run`
and the state of the servers its activities change (port group, sessions, mounts,
posts received). There is one action per activity that succeeds, one per activity
whose effect takes place although the attempt fails, and one (`AttemptFails`) for
an attempt that fails before its effect. `RaiseInTry` is the except clause;
`RaiseInFinally` the exception that leaves the finally block. `wait_for_vm_boot`
has one attempt and polls up to `MaxPolls` times. Veeam publishes and loses
sessions on its own (`SessionPublished`, `SessionFailed`). The constants
`HealthChecksDeployed` and `ProgressAccepted` say whether the health checks can be
imported and whether the API accepts the progress post; both are FALSE at this
commit (see below), the theorems hold for every value, and the run takes TRUE,
which has all the behaviours.

`IsolatedTest` is the abstract promise: mounts appear only once the network is
isolated, only own mounts are halted, and a verdict is given once.
`RecoveryTest!ImplementsIsolatedTest` is the refinement.

### `VeeamClient`: talking to Veeam

The client an activity opens: token, question for the build, calls, close. Time is
in minutes and a message takes up to `MaxDelay`, so the client's and the server's
idea of a token's age differ. The server's build decides which paths and which
`x-api-version` header it understands; the client knows the build only if
`serverInfo` succeeded. `Overrides` are the values of `veeam_api_version_override`
in the settings: when it is set it goes into the header in place of the detected
version (`Effective`), while the paths follow the build. Every request may fail or lose its answer and is tried
again. `SelectRestorePoint` is `select_restore_point` on points dated around now.

### `TestRunLifecycle`: the row of a run

Trigger (by a user or by the scheduler), start of the Temporal workflow, the
update to running, the scheduler's except clause, the appliance's progress and
result posts (repeated, lost, reordered), `finalise_run` with its notification
loop, and crashes of the API between any two of these. Each `await` at which
another writer can run is a step boundary; a database error may be reported after
the commit took place. `failure_reason` is the column of that name. The targets of
the workload are read anew each time a result is processed, so each post finds its
own breach events (`alarm`).

### `Inventory`: appliances and workloads

`sync` has one request per test and attempt of `sync_inventory`. A request
outlives the attempt that made it (`Timeout`), so the API may handle several lists
of one appliance at once. A transaction writes one VM after the other (`Upsert`),
in any order; PostgreSQL makes it wait for a row another transaction has written
and aborts one of two that wait for each other (`Deadlock`). `Commit` applies the
list, `RequestFails` and `AnswerLost` are the faults. Users set targets; appliances
register at every start and are deregistered in the portal, which does not stop
their requests from being served.

### `Schedules`: job tables against rows

Every API process loads its job table once, with three queries between which users
edit rows (`stale` remembers which). A report job reads its row when it fires, tells
one recipient after the other and records the run; a workload job creates a run.
Processes crash, and database errors end a load or a job.

### `ContinuousValidation`: policies, micro-runs and alerts

A policy, its workloads and the API processes (`Replicas`). Every process
registers the policy's job when it starts (`Startup`) and only then; a job reads
the policy (`Fire`), runs the three checks for one workload after the other
(`RunChecks`), looks for an open alert and raises one (`RaiseAlert`), and commits
everything in one transaction (`Commit`); an error or a crash rolls all of it back
(`JobError`, `Shutdown`). Jobs of different processes overlap and do not see what
the others have not committed; `crowded` remembers which jobs ran beside another
one. Users toggle the policy and resolve alerts at any time.
Ages of restore points and heartbeats are minutes chosen around the thresholds of
the checks.

### `IncidentResponse` and `ThreatAnalysis`

A request that submits a scan, from the duplicate check to the last commit. It
stores the scan and its findings, then opens an incident for one critical finding
after the other: count the incidents to choose the number, insert, notify, call
the integrations, record what they answered, commit. What a call comes to (a
target that is not configured, answers with an error, wants a second login) is
part of the step that makes it. Every `await` between two of these lets another
request run; every one can raise, and the process can die. What was committed
stays, what was not is gone. Resolving an incident is an action of its own.

`ThreatAnalysis` is `analyze_restore_points`: the indicators of each point of a
posted list, and the point `select_clean_restore_point` recommends: the newest dated
clean one, or the first clean one of the list when none is dated.

### `Runbooks` and `ReportDelivery`: the other workflows

`Runbooks` has the engine (`CompletedAfter`, a recursive function) with a reference
definition of what a plan must be, the creation and triggering of an execution, and
`RunbookWorkflow.run` with its four activities: `execute_step` is never retried,
the others are, and no answer's status code is looked at. Creation refuses types and
failure policies it does not know. A step answers what its type and its
configuration allow (`Results`); without its configuration a recovery or a script
fails. `Tells` says which of `config` and `on_failure` the rows served to the
workflow carry: `get_execution_steps` serves neither, so the branches of the
workflow for `continue` and `rollback` are dead at this commit. The passing run has
both kinds of rows, the violation run those of the repository. The routes the
workflow reports to do not exist in the API and are modelled from the calls.

`ReportDelivery` is the report workflow: an attempt of the activity has the report
generated and sends it to each recipient; an attempt that took too long goes on
beside the next. `generate_compliance_report` reads the runs, decides which
controls it claims and records the report. The two modules share no state;
`MCRunbooks` checks them side by side.

### `Access`: sign-on and users

Requests that edit the sign-on settings read the row, wait, and write the columns
that differ from what they read (SQLAlchemy's UPDATE). A login reads the settings
when it starts and again when the user returns from the provider, with a nonce the
portal kept, of whichever login. (No property is about the login: that the nonce is
the login's own is one comparison of `validate_id_token`, and that a code is good at
one issuer only is the provider's doing.) Provisioning checks the organisation of a
subject and then upserts, by an INSERT or an UPDATE; `racing` are the requests that
had passed the check when a user was inserted, `strays` those of another
organisation that have overwritten him. Which requests are allowed follows from the role a token claims.

### `Connectors`: the other providers

The nine clients beside Veeam and vCenter share one shape, so one module has them
all: `connect`, and for each client the table of its operations, each a sequence of
remote calls inside one try block. A call may raise before its effect, or after it;
the operation then answers failure and nothing is undone. The provider's side is
external: the snapshots, VMs and switches it has, the names it refuses twice,
oVirt's preview, and AWS's idempotency token. Most providers carry out a change as a
task (`Tasked`): the call returns when the task has started, the client answers
success, and the task ends later with its effect or without (`TaskSucceeds`,
`TaskFails`). Hyper-V's code 4096 is a task the client takes for a failure. The
caller passes only identifiers it chose or was told (`Returned`): GCE and Proxmox
resources have names it chose, AWS restores a job it can ask after, and of a VM
restored by Azure or Nutanix it is told nothing.

### Proof modules

`RecoveryTestProofs`, `ContinuousValidationProofs`, `AccessProofs` and
`InventoryProofs` extend their component's module and `TLAPS`. Four modules hold the
proofs of two components: `TestRunLifecycleProofs` (with `Schedules`),
`IncidentResponseProofs` (with `ThreatAnalysis`), `RunbooksProofs` (with
`ReportDelivery`) and `VeeamClientProofs` (with `Connectors`).

## The runs

| Run | Checks | Shows |
|---|---|---|
| `recovery_test` | `MountIsIsolated`, `PassedIsEarned`, `ScoreSeparates`, `ReturnReleasesMount`, `SessionsBounded`, `ReportIsFinal`, `ImplementsIsolatedTest`, `WorkflowEnds` | whatever attempts fail or are repeated, the VM is isolated, the verdict earned and reported once, the known mount released, and every execution ends |
| `teardown_skipped` (violation) | `TeardownAlwaysExecutes` | a capture, record or report activity that fails for good ends the finally block before the teardown, against the docstring |
| `runs_and_schedules` | `StatusIsBacked`, `NoChannelForgotten`, `ToldIsStored`, `ResultIsFinal`; `TableMatchesRows`, `NoRecipientForgotten`, `LateReportsBounded`, `ReportGoesOut` | passed is backed by a report, failed by what the stored reason says, a report or a start that raised; channels are notified all or none, and only of stored results. A loaded table is right up to the rows edited since; a recorded report tried every recipient; at most one more report per process goes out after it was disabled; an enabled one goes out |
| `status_regression` (violation) | `RunningOnlyFromPending` | the late update of the triggering request puts a completed run back to running |
| `continuous_validation` | `OpenAlertsBounded`, `AlertIsEarned`, `NoMissedAlert` | with two API processes: no more open alerts than processes; an alert stands for a streak of failures, or for as many failures if its job ran beside another; a streak that ends in a job of its own is not missed |
| `duplicate_alert` (violation) | `OneOpenAlert` | two processes raise two alerts for one workload, against phase-24.md |
| `api_services` | `OneIncident`, `NoFindingSkipped`, `FlagsHonest`, `RecommendationIsRight`; `SecretKept`, `SettingsAreSent`, `OverwritesRace` | a critical finding gets at most one incident, only an error or a crash leaves one without, a flag is set only after the target acknowledged; the recommended restore point is the newest dated clean one, or the first posted when none is dated. No race of edits loses a stored secret or keeps a setting of an earlier configuration; a user is overwritten from another organisation only by requests past the check when he was provisioned |
| `inventory` | `OneRowPerObject`, `SyncIsAtomic`, `TargetsKept`, `SyncEnds` | one row per VM, lists taken whole or not at all, targets kept, and every activity ends although lists deadlock |
| `providers` | `TokenIsLive`, `StartFitsServer`, `NewestConsistent`; `OkIsBacked`, `LostIsCounted`, `NoTwinInstance` | no request carries a token that has run out; a mount is started only on a server whose version was detected, with the path of its build and the header of its build or the override; the newest consistent point is chosen. A success of the other clients is done, or its task is under way or has failed; what nobody can name is no more than the failures answered and the restores of Azure and Nutanix; a repeated AWS restore starts no second instance |
| `foreign_overwrite` (violation) | `OwnAdminsOnly` | in that race an admin overwrites another organisation's user, against the comment |
| `manual_gate` (violation) | `GateHolds` | a workflow goes past a manual gate nobody approved of, against phase-12.md |
| `runbooks` | `PlanIsRight`, `StepRunsOnce`, `CompletedIsEarned`, `ReportIsHonest` | plans are right, and cycles and missing dependencies refused; one workflow runs no step twice, nor on after a failure that is not to be passed over; completed means that every step was completed, passed over, or a gate that was reached; a report said to be sent is on record and arrived |

Four of the runs check components side by side that share no state
(`runs_and_schedules`, `api_services`, `providers`, `runbooks`): a behaviour is one
of the one component or of the other, never of both, so the components are checked
as if each had a run of its own.

### Bounds

* `RecoveryTest`: two attempts per activity and two POSTs per attempt (the code
  has three of each): a first and a repeated one is what the properties tell
  apart, and three attempts passed as well (11.7 million states). Two polls, the
  two health checks the code has, three minutes around targets of two and one
  so that objectives are met, missed, and missed by more than double.
* `TestRunLifecycle`: one run (runs share only the notification settings, and the
  proofs hold for any set of runs), two channels with different subscriptions,
  two result posts, two progress posts, one crash.
* `ContinuousValidation`: two processes, as `k8s/deployment.yaml` has it, a streak of
  two out of four jobs, one workload (a job deals with its workloads one by one and
  the proofs have any number), ages 2, 3, 5 and 9 against a target and an interval of
  2; two resolutions. Four jobs are two that overlap and two more. When the job
  bound is reached nothing more happens, so deadlock is not checked there.
* `IncidentResponse`: two concurrent requests, each posting either of two scans
  (so the same scan is posted twice), three findings, an integration that
  acknowledges and one that does not, two errors or crashes. The requests, and the
  two findings of one scan, are interchangeable. All requests end, so deadlock is
  not checked. `ThreatAnalysis`: every list of up to three points over metadata on
  both sides of each threshold, with and without dates.
* `Connectors`: four operations and three resources: connect, create, restore or
  delete, and once more. The bound on
  operations ends every behaviour, so deadlock is not checked. Tasks end in any order
  and at any time after their start.
* `Schedules`: two processes (as deployed), one report with three recipients of
  which one lacks a destination, two workloads, three edits (create, disable and
  enable again) and one crash or database error.
* `Inventory`: two tests and two VMs, the least that deadlocks; two attempts, one
  renaming, one fault beside the deadlocks.
* `Access`: two editors, two logins, two organisations that provision one subject,
  two issuers, three admins of whom two are of one organisation, three requests: a PUT
  and two that race, a PUT and a toggle around a login, or three provisionings.
* `Runbooks`: for the plans, every set of dependencies of three steps on each other
  and on a missing one, numbered in order, out of order and with a shared number. For
  the executions, three sets of dependencies (every one of them for three checks, which
  cannot fail), six drafts with every step type and
  policy (and with ones the API refuses), rows with and without the columns, three
  workflows for one execution, two faults.
  `ReportDelivery`: two recipients, two attempts, two runs.
* `VeeamClient`: a token of four minutes, delays of one, six minutes (a token is
  renewed), with and without an override, three attempts, two faults, one server of every tier and header,
  lists of up to two points.

Users, requests and faults are bounded in these runs and nothing needs to
happen afterwards, so they do not check deadlock.

### Fairness

`RecoveryTest!FairSpec` assumes weak fairness of the workflow's own steps only:
Temporal keeps a workflow and its activity retries scheduled. Nothing is assumed
of Veeam: a session may stay in any state for ever. `Schedules` assumes that each
process's scheduler goes on executing a report job that is due or under way
(`RunReport`); a crash disables it, and nothing is assumed of start-ups or users.
`Inventory` assumes that the API goes on with a request it has, the database with
its transactions and its deadlock detection, and the worker with its activity;
`SyncEnds` needs no assumption on the network, since an attempt without an answer
is bounded by `MaxAttempts`.

## The proofs

* `RecoveryTestProofs` — for any limits on attempts, POSTs, polls and checks. The
  inductive invariant `IndInv` adds to the properties what each activity finds:
  `LocalsByStep` (which locals are set at which activity), `Isolation` (a known
  network exists, a session was started on a known network), `Reported` and
  `Released` (what report and teardown leave behind) and `Bounded` (sessions
  against the attempt and POST counters). Without `LocalsByStep` a retried
  `start_instant_recovery` could not be shown to have a network. `Refinement`
  proves the refinement of `IsolatedTest`, `ReportFinalTheorem` the action
  property, `MorefReliable` that a known instance UUID decides the VM whatever
  the other identifiers find.
* `TestRunLifecycleProofs` — for any set of runs and channels. `IndInv` adds
  `PostsCounted` (a processed post was sent), `FailureIsScheduled` (only the
  scheduler records failures, after an exception) and `QueuedAreStored` (channels are
  queued for processed posts only). The module also proves
  the invariants of `Schedules`, which starts runs, for any processes, rows and
  recipient lists. `ScheduleInv` adds `Loaded` (what each of the three queries of a
  start has put into the table agrees with the rows not edited since the process
  began), `TellsAll` (the recipients tried and those still to try are all of them)
  and `LateCounted`: reports that went out late and executions under way are
  together no more than processes. The bound on late reports alone is not inductive,
  since every execution under way may still add one.
* `ContinuousValidationProofs` — for any workloads, threshold, number of jobs and
  finite set of API processes. `IndInv` relates a job's uncommitted runs to the table
  it will commit to (`JobsOK`, `FutureEmpty`), says which jobs are alone (`CrowdOK`:
  one that is not crowded is the newest and the only one), and relates each workload
  a job has dealt with to an alert it raised, saw, or is about to look for (`DoubtOK`,
  `RaisedOK`, `WatchedOK`). `AlertsCounted` adds to the open alerts those about to be
  committed: the bound alone is not inductive, since every process under way may
  commit one more.
* `IncidentResponseProofs` — for any requests, scans, findings and number of
  errors. `IndInv` adds `HeldOK` (no two requests hold one finding, and a finding
  that is held is stored and has no incident yet: without it nothing keeps a second
  request from opening a second incident), `RequestOK`, `UnstoredOK`, `NumbersOK`
  and `MarksOK`. `RecommendationTheorem` is about `ThreatAnalysis` and lists of any
  length: `CleanIsUnsigned` says that a clean point is one without a sign of its own
  (a jump in entropy never counts), `FirstExists` that the choice of
  `select_clean_restore_point` exists.
* `AccessProofs` — for any editors, logins, admins, organisations and subjects.
  `IndInv` adds `LoadedSecretKept`: a request that has read a secret commits to a row
  that has one. Without it a PUT that sends the secret it read writes nothing into
  that column and could not be shown to leave one. `PutsMissNothing` is the same for
  the other columns: what a PUT under way finds is what it read or what another has
  sent since. `ForeignersRace` says that a request of another organisation past the
  check for a user was past it when he was inserted; `NobodyStrays`,
  `StraysAreForeign`, `PutHasBody` and `ProvHasSub` complete it.
* `VeeamClientProofs` — for any lifetime of a token, builds, lists of restore points
  and number of calls, as long as the two minutes' margin pays for the delay of a
  message. `IndInv` adds `Prompt` (the age of a message), `InPhase` (which message
  can be under way when), `TokenKnown` (the client's idea of the end of its token is
  late by one message at most, and a call was sent early enough to arrive in time),
  `BuildKnown` and `Expressible`. The module also proves the three invariants of
  `Connectors`, for any providers among the nine, any number of operations and of
  resources. `CallsFine` looks at the table of calls once: every list looks things up,
  has one effect, and then only reads (RHV's preview is the one effect that is
  followed by another). From that `ConnectorInv` follows the calls that are left:
  `Progress` (once something was created only reads are left), `TasksFit` (a task that
  creates has its resource to itself), `DoneSoFar` (a call that was made has left its
  effect, and still does, whatever tasks end meanwhile, or its task is under way or
  has failed; no other task removes what it created), `TokenHolds` (the instances AWS
  runs are those of the recorded job) and `LostCounted` (the resources nobody can
  name, those a task is still making included, also while an operation is executed).
* `InventoryProofs` — for any appliances, tests, attempts and finite set of Veeam
  objects. `IndInv` adds `Apart` (the unique index keeps open transactions of one
  appliance on different objects), `StillSo` (an object a transaction inserts has no
  row yet, one it updates has one), `OneRow`, `Released`, `Ahead` and `Untouched`.
  Without `StillSo` a commit could add a second row.
* `RunbooksProofs` — for runbooks of any length, any numbering and types of steps,
  any failure policies, rows with any of the columns, any number of workflows, retries
  and lost answers. `IndInv` adds `Born` (what is executed was found valid),
  `Recorded` (a row that says completed is right), `Loop` (what is left of a plan is
  sorted and was not run; the rest is settled and comes before it), `Phase` and
  `Earned`. `PlanTheorem` is about the engine. The
  invariant it needs is small (`Decided`: the answer is the loop's); the work is in
  what the loop computes, for any number of steps. `OrderResolves` shows that the loop
  is never behind an order that respects the dependencies, so that it refuses only
  what has none; `WaveOfStep` and `WavesOrder` that every step is in one wave, after
  its dependencies and next to one of them; `ChainFits` that the k-th step of a chain
  ends within its wave. For `ReportDelivery`, with any number
  of attempts and recipients, `ReportInv` adds `NotStarted`, `OwnReport` (no two
  attempts have one report), `CopiesOwn` (a copy is of its sender's report),
  `Served` and `ClaimsBacked`; the lemma `EmptyPeriod` is that a rate over no runs
  passes no control.

Where a definition chooses (the newest point, the latest run of a step, the order of
the steps), the proof shows first that there is something to choose, by taking a
least counterexample in the natural numbers (`LeastNatural`, `MaxExists`,
`FirstExists`, the lemmas on the sort of `RunbooksProofs`): this needs only that
the order on the naturals is well founded, and no induction principle. What the
recursive functions of `Runbooks` compute is proved the same way: `Upwards` is
induction over a set of numbers, and `LoopExists` says that a loop given by the
function of each of its turns has a value after every turn. The
assumptions are those the modules state: numbers where the code has numbers, finite
sets where it has lists (`Processes`, `Objects`), margins as configured. The type
invariants are the base of the inductive invariants and are proved, not run.

Only model-checked: the liveness properties (`WorkflowEnds`, `ReportGoesOut`,
`SyncEnds`), which are out of the prover's reach. Every invariant and every action
property of a passing run is a theorem.

## Seen in the code, outside the properties

Recovery tests:

* Teardown asks for the port group on a host named `""`, so it is never removed
  (README.md:698 says it is); the distributed switch has no removal code.
* A repeated POST leaves a mount that the teardown does not know of
  (`veeam/client.py:146`; ADR-003 line 127: "Teardown must be bulletproof; a leaked
  instant-recovery mount pins backup storage").
* `src.health_checks` cannot be imported as deployed, and the progress post of
  `activities.py:230` lacks the `status` that `ProgressRequest` requires
  (`routers/appliances.py:86`): at this commit every run with health checks fails
  there. Checks target a placeholder host and ignore the moref;
  `trigger_test_run` passes three arguments to a workflow with one.
* `SearchIndex.FindByMoId` is not a method of pyVmomi; `resolve_moref` may return
  the original VM when only shared identifiers are known.
* A client that could not detect the version uses the paths of v1.0; the docstring
  says v1.1 (`veeam/client.py:74`). `detect_version` has no caller. A stop on Veeam 13 uses the old path when
  `serverInfo` failed. The preference for a point within the RPO target never
  changes which point is selected.

Runs and schedules:

* A scheduled run stays pending for ever when the API dies before it records the
  failure (`scheduler.py:70`, against the comment at 68).
* A policy or a schedule created while the API runs has no job until a restart,
  and a workload's job goes on firing after its schedule was removed
  (`routers/workloads.py:100`). `runner.py:55` awaits what cannot be awaited.
* No code resolves an alert when the next check passes (phase-18.md:53); the
  health endpoint counts the oldest failures, not the latest
  (`continuous_validation.py:158` against phase-18.md:67). Jobs of two processes that
  overlap can raise an alert although a pass lies between the failures, and can both
  miss a streak, until the next job that fails.

Incidents and threats:

* When no restore point is dated, `select_clean_restore_point` takes the first clean
  one of a list that is read as oldest first; the docstring says that such points
  "fall back to input order" (`threat_analysis.py:125`).
* The answer to a submitted scan counts the incidents it meant to open
  (`incidents_created`), also those whose creation failed; `notifications_sent` is
  true although every channel failed; `_trigger_backup` starts nothing, yet
  `backup_triggered` is set.
* Two concurrent submissions can give two incidents one number: it is a count of
  rows, and the column is not unique. An error or a crash leaves a stored critical
  finding without its incident, and the repeated post is answered as a duplicate.

Inventory, access, runbooks, reports:

* `last_backup` is always None in the posted inventory and resets
  `last_backup_at`; workloads that Veeam no longer lists are never removed; an older
  list may be applied after a newer one; deregistered appliances are still served.
* Racing edits can store a row of both protocols' halves (`models/rbac.py:107`), and
  a PUT that changes the issuer without a secret keeps the secret of the old one.
* Inserts of `team.py` and `api_keys.py` always fail: NULL in a column that refuses
  it.
* The runbook workflow and the report workflow are not registered with the worker
  and call routes the API does not have (`ScheduleRoute` is FALSE at this commit;
  the run takes TRUE, without it nothing is sent). The runbook workflow ignores
  `depends_on`, and as the rows it is served lack `config` and `workload_id`, every
  recovery and every script fails; they lack `on_failure` too, so that `continue`
  and `rollback` (phase-12.md:57) have no effect and every failure stops. An execution may be completed with its gates
  still waiting.
* A run without a measured RTO counts as compliant (`reports.py:227`); `to_date` is
  midnight, so the last day of a period is left out; a recipient may get one copy
  per attempt.
* The audit chain hashes sorted JSON (`chain.py:56`) but stores and verifies
  unsorted JSON: an untouched entry with unsorted keys fails verification. Nothing
  calls `append`, and two concurrent appends would fork the chain.

Connectors:

* `restore_vm` of Azure returns `str(poller)` as the job id, which `get_job_status`
  cannot find; `target_vm_name` is not part of the request. The token of an AWS
  restore (`aws_backup/client.py:173`) also answers a later test with an instance
  that is gone.
* `restore_vm_from_snapshot` of Proxmox "Returns True on success"
  (`proxmox/client.py:149`), and does so once its task has started, whether or not
  the task succeeds.
* An RHV restore whose commit fails leaves the VM in preview, which no operation of
  the client ends. `restore_vm_from_checkpoint` of Hyper-V does not stop the VM
  first, as its docstring says. `delete_switch` deletes one switch of the name.
* Nobody closes the HTTP clients of Nutanix and Sangfor.
* `detect_provider_vms` answers `[]` for a failure and for an empty provider, has no
  caller and is not registered, and gives six providers' VMs no `object_id`.

## Not modelled

Formatting of notifications, reports and integration events, downloads and list
endpoints (they only read); protocol probes of the health checks; effects of a
recovery-test attempt that arrive after the attempt was given up, and cancellation
of workflows; the signature check of tokens and `url_guard`; SAML sign-in, which
the code does not implement; onboarding, MSSP and fleet rows beyond the appliances,
scores, insights and evidence export, which insert or read rows of one tenant and
have no step another one can disturb; the threat scanner, which enumerates local
processes and files and has no caller; the rate limiter, one synchronous function;
the audit chain, which nothing appends to.

## Plan

1. `RecoveryTest` composed with `TestRunLifecycle`: what the appliance posts is
   what the row says.
2. The rate limiter against its window, and the scores against reference
   definitions.
