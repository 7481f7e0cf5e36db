-------------------------- MODULE TestRunLifecycle --------------------------
(***************************************************************************)
(* The life of a row of the SaaS API's test_runs table.  A run is created  *)
(* by a user (routers/test_runs.py, trigger_test_run) or by the scheduler  *)
(* (scheduler.py, _trigger_scheduled_run), handed to Temporal, and then    *)
(* updated by the posts of the appliance that executes it                  *)
(* (services/appliance.py, update_run_progress and finalise_run, which     *)
(* also sends the breach notifications of services/notifications.py).      *)
(*                                                                         *)
(* Every database commit is a step.  Between two of them the creating      *)
(* coroutine, the workflow and the handlers of the appliance's posts       *)
(* interleave, requests are repeated and delayed, and the API may die.     *)
(* The appliance is the one the run belongs to: posts of another one are   *)
(* refused by _run_belongs_to_appliance and change nothing.                *)
(***************************************************************************)
EXTENDS Naturals, FiniteSets

CONSTANTS
    Runs,        \* test runs
    Channels,    \* enabled notification channels of the organisation
    Subscribed,  \* the events each channel asks for
    MaxPosts,    \* bound: result posts of one run (3 attempts in the code)
    MaxSteps,    \* bound: progress posts of one run
    MaxCrashes   \* bound: crashes of the API process

Objectives == {"rto_breach", "rpo_breach"}
Events     == {"test_failed"} \cup Objectives
Posts      == 1..MaxPosts

ASSUME LifecycleAssumption ==
    /\ Subscribed \in [Channels -> SUBSET Events]
    /\ MaxPosts \in Nat
    /\ MaxSteps \in Nat
    /\ MaxCrashes \in Nat

VARIABLES
    status,        \* test_runs.status, "absent" before the insert
    completed_at,  \* test_runs.completed_at is set
    failure_reason,\* test_runs.failure_reason: whose failure it describes
    kind,          \* who creates the run
    caller,        \* where the coroutine that creates the run is
    raised,        \* (history) runs whose start raised in that coroutine
    workflow,      \* the Temporal execution: "none", "running" or "closed"
    verdict,       \* the result the workflow reports, "none" before that
    posts,         \* result posts sent
    inflight,      \* those not processed yet
    delivered,     \* those finalise_run has processed
    steps,         \* rows of test_run_steps
    alarm,         \* events found when the k-th of them was processed
    pending,       \* <<k, channel>>: channels to be notified for that post
    attempted,     \* those that were tried
    crashes        \* crashes of the API so far

row   == <<status, completed_at, failure_reason, delivered>>
exec  == <<workflow, verdict, posts, inflight>>
note  == <<alarm, pending, attempted>>
maker == <<kind, caller, raised>>
vars  == <<row, maker, exec, steps, note, crashes>>

Init ==
    /\ status = [r \in Runs |-> "absent"]
    /\ completed_at = [r \in Runs |-> FALSE]
    /\ failure_reason = [r \in Runs |-> "none"]
    /\ kind \in [Runs -> {"manual", "scheduled"}]
    /\ caller = [r \in Runs |-> "idle"]
    /\ raised = {}
    /\ workflow = [r \in Runs |-> "none"]
    /\ verdict = [r \in Runs |-> "none"]
    /\ posts = [r \in Runs |-> 0]
    /\ inflight = [r \in Runs |-> 0]
    /\ delivered = [r \in Runs |-> 0]
    /\ steps = [r \in Runs |-> 0]
    /\ alarm = [r \in Runs |-> [k \in Posts |-> {}]]
    /\ pending = [r \in Runs |-> {}]
    /\ attempted = [r \in Runs |-> {}]
    /\ crashes = 0

-----------------------------------------------------------------------------
(* The coroutine that creates the run *)

(* Insert the row and commit. *)
Trigger(r) ==
    /\ caller[r] = "idle"
    /\ status' = [status EXCEPT ![r] = "pending"]
    /\ caller' = [caller EXCEPT ![r] = "enqueue"]
    /\ UNCHANGED <<completed_at, failure_reason, delivered, kind, raised, exec,
                   steps, note, crashes>>

StartWorkflow(r) ==
    /\ caller[r] = "enqueue"
    /\ workflow' = [workflow EXCEPT ![r] = "running"]
    /\ caller' = [caller EXCEPT ![r] = "mark"]
    /\ UNCHANGED <<row, kind, raised, verdict, posts, inflight, steps, note,
                   crashes>>

(* A user's request logs the exception and leaves the run pending; the     *)
(* scheduler's job goes on to record the failure.                          *)
OnException(r) ==
    /\ raised' = raised \cup {r}
    /\ caller' = [caller EXCEPT ![r] =
                     IF kind[r] = "manual" THEN "done" ELSE "record_failure"]

(* start_workflow raises: Temporal never saw the request, or its answer    *)
(* was lost and the workflow runs.                                         *)
StartWorkflowError(r) ==
    /\ caller[r] = "enqueue"
    /\ \/ UNCHANGED workflow
       \/ workflow' = [workflow EXCEPT ![r] = "running"]
    /\ OnException(r)
    /\ UNCHANGED <<row, kind, verdict, posts, inflight, steps, note, crashes>>

(* UPDATE ... SET status = 'running', with no condition on the status. *)
MarkRunning(r) ==
    /\ caller[r] = "mark"
    /\ status' = [status EXCEPT ![r] = "running"]
    /\ caller' = [caller EXCEPT ![r] = "done"]
    /\ UNCHANGED <<completed_at, failure_reason, delivered, kind, raised, exec,
                   steps, note, crashes>>

(* The database call raises; the commit may have gone through.             *)
MarkRunningError(r) ==
    /\ caller[r] = "mark"
    /\ \/ UNCHANGED status
       \/ status' = [status EXCEPT ![r] = "running"]
    /\ OnException(r)
    /\ UNCHANGED <<completed_at, failure_reason, delivered, kind, exec, steps,
                   note, crashes>>

(* Variant: the failure is recorded whatever the start came to. *)
RecordFailureAlways(r) ==
    /\ kind[r] = "scheduled"
    /\ caller[r] \in {"mark", "record_failure"}
    /\ status' = [status EXCEPT ![r] = "failed"]
    /\ failure_reason' = [failure_reason EXCEPT ![r] = "enqueue"]
    /\ completed_at' = [completed_at EXCEPT ![r] = TRUE]
    /\ caller' = [caller EXCEPT ![r] = "done"]
    /\ UNCHANGED <<delivered, kind, raised, exec, steps, note, crashes>>

RecordFailure(r) ==
    /\ caller[r] = "record_failure"
    /\ status' = [status EXCEPT ![r] = "failed"]
    /\ failure_reason' = [failure_reason EXCEPT ![r] = "enqueue"]
    /\ completed_at' = [completed_at EXCEPT ![r] = TRUE]
    /\ caller' = [caller EXCEPT ![r] = "done"]
    /\ UNCHANGED <<delivered, kind, raised, exec, steps, note, crashes>>

(* The database refuses that update too: the job ends with an exception.   *)
RecordFailureError(r) ==
    /\ caller[r] = "record_failure"
    /\ caller' = [caller EXCEPT ![r] = "done"]
    /\ UNCHANGED <<row, kind, raised, exec, steps, note, crashes>>

-----------------------------------------------------------------------------
(* The appliance *)

(* An attempt of report_results.  The first one fixes the payload, the     *)
(* repeated ones send it again.                                            *)
PostResult(r) ==
    /\ workflow[r] = "running"
    /\ posts[r] < MaxPosts
    /\ posts' = [posts EXCEPT ![r] = @ + 1]
    /\ inflight' = [inflight EXCEPT ![r] = @ + 1]
    /\ \/ /\ verdict[r] = "none"
          /\ \E v \in {"passed", "failed"} :
                verdict' = [verdict EXCEPT ![r] = v]
       \/ /\ verdict[r] # "none"
          /\ UNCHANGED verdict
    /\ UNCHANGED <<row, maker, workflow, steps, note, crashes>>

(* The request never arrives, or post_result ends before the commit: a run *)
(* whose workload is not the appliance's is answered 404, and a database   *)
(* error 500.                                                              *)
LosePost(r) ==
    /\ inflight[r] > 0
    /\ inflight' = [inflight EXCEPT ![r] = @ - 1]
    /\ UNCHANGED <<row, maker, workflow, verdict, posts, steps, note, crashes>>

CloseWorkflow(r) ==
    /\ workflow[r] = "running"
    /\ workflow' = [workflow EXCEPT ![r] = "closed"]
    /\ UNCHANGED <<row, maker, verdict, posts, inflight, steps, note, crashes>>

-----------------------------------------------------------------------------
(* The handlers of the appliance's posts *)

(* Variant: the status is set without looking at the old one. *)
UpdateRunProgressAlways(r) ==
    /\ workflow[r] # "none"
    /\ steps[r] < MaxSteps
    /\ steps' = [steps EXCEPT ![r] = @ + 1]
    /\ status' = [status EXCEPT ![r] = "running"]
    /\ UNCHANGED <<completed_at, failure_reason, delivered, maker, exec, note,
                   crashes>>

(* Every post adds a row (nothing in the table makes the insert conflict); *)
(* one with status "running" flips a run that is still pending.            *)
UpdateRunProgress(r) ==
    /\ workflow[r] # "none"
    /\ steps[r] < MaxSteps
    /\ steps' = [steps EXCEPT ![r] = @ + 1]
    /\ \/ UNCHANGED status
       \/ /\ status[r] = "pending"
          /\ status' = [status EXCEPT ![r] = "running"]
    /\ UNCHANGED <<completed_at, failure_reason, delivered, maker, exec, note,
                   crashes>>

EventsOf(v, missed) == missed \cup (IF v = "failed" THEN {"test_failed"} ELSE {})

Interested(events) == {c \in Channels : Subscribed[c] \cap events # {}}

(* send_breach_notifications goes through the channels, unless one of the  *)
(* queries before its loop fails: that is logged and nobody is notified.   *)
(* The targets are read here, so the objectives that are missed may differ *)
(* from one processing of the result to the next.                          *)
QueueNotifications(r, k) ==
    \E missed \in SUBSET Objectives :
        LET events == EventsOf(verdict[r], missed)
        IN  /\ alarm' = [alarm EXCEPT ![r][k] = events]
            /\ \/ pending' = [pending EXCEPT ![r] =
                                 @ \cup ({k} \X Interested(events))]
               \/ UNCHANGED pending

(* Variant: the channels are notified first, and the commit may fail. *)
FinaliseRunLate(r) ==
    /\ inflight[r] > 0
    /\ inflight' = [inflight EXCEPT ![r] = @ - 1]
    /\ QueueNotifications(r, delivered[r] + 1)
    /\ \/ UNCHANGED row
       \/ /\ status' = [status EXCEPT ![r] = verdict[r]]
          /\ completed_at' = [completed_at EXCEPT ![r] = TRUE]
          /\ failure_reason' = [failure_reason EXCEPT ![r] =
                IF verdict[r] = "failed" THEN "report" ELSE "none"]
          /\ delivered' = [delivered EXCEPT ![r] = @ + 1]
    /\ UNCHANGED <<maker, workflow, verdict, posts, steps, attempted, crashes>>

(* The result is written whatever the row says, committed, and only then   *)
(* are the channels notified.                                              *)
FinaliseRun(r) ==
    /\ inflight[r] > 0
    /\ inflight' = [inflight EXCEPT ![r] = @ - 1]
    /\ status' = [status EXCEPT ![r] = verdict[r]]
    /\ completed_at' = [completed_at EXCEPT ![r] = TRUE]
    /\ failure_reason' = [failure_reason EXCEPT ![r] =
          IF verdict[r] = "failed" THEN "report" ELSE "none"]
    /\ delivered' = [delivered EXCEPT ![r] = @ + 1]
    /\ QueueNotifications(r, delivered[r] + 1)
    /\ UNCHANGED <<maker, workflow, verdict, posts, steps, attempted, crashes>>

(* Variant: the first channel that fails ends the loop. *)
NotifyUntilError(r) ==
    /\ \E n \in pending[r] :
          /\ attempted' = [attempted EXCEPT ![r] = @ \cup {n}]
          /\ \/ pending' = [pending EXCEPT ![r] = @ \ {n}]
             \/ pending' = [pending EXCEPT ![r] = {}]
    /\ UNCHANGED <<row, maker, exec, steps, alarm, crashes>>

(* _dispatch to one channel; an exception is logged and the loop goes on.  *)
Notify(r) ==
    /\ \E n \in pending[r] :
          /\ attempted' = [attempted EXCEPT ![r] = @ \cup {n}]
          /\ pending' = [pending EXCEPT ![r] = @ \ {n}]
    /\ UNCHANGED <<row, maker, exec, steps, alarm, crashes>>

-----------------------------------------------------------------------------
(* The API process dies with everything it had not committed.  Nothing     *)
(* looks at the rows again when it comes back (main.py, lifespan).         *)
Crash ==
    /\ crashes < MaxCrashes
    /\ crashes' = crashes + 1
    /\ caller' = [r \in Runs |-> IF caller[r] = "idle" THEN "idle" ELSE "done"]
    /\ pending' = [r \in Runs |-> {}]
    /\ UNCHANGED <<row, kind, raised, exec, steps, alarm, attempted>>

Create(r) ==
    \/ Trigger(r)
    \/ StartWorkflow(r)
    \/ StartWorkflowError(r)
    \/ MarkRunning(r)
    \/ MarkRunningError(r)
    \/ RecordFailure(r)
    \/ RecordFailureError(r)

Appliance(r) == PostResult(r) \/ LosePost(r) \/ CloseWorkflow(r)

Handle(r) == UpdateRunProgress(r) \/ FinaliseRun(r) \/ Notify(r)

Next == Crash \/ \E r \in Runs : Create(r) \/ Appliance(r) \/ Handle(r)

Spec == Init /\ [][Next]_vars

-----------------------------------------------------------------------------
(* Properties *)

(* The columns of test_runs and the state of its writers keep their types. *)
TypeOK ==
    /\ status \in [Runs -> {"absent", "pending", "running", "passed", "failed"}]
    /\ completed_at \in [Runs -> BOOLEAN]
    /\ failure_reason \in [Runs -> {"none", "enqueue", "report"}]
    /\ kind \in [Runs -> {"manual", "scheduled"}]
    /\ caller \in [Runs -> {"idle", "enqueue", "mark", "record_failure", "done"}]
    /\ raised \in SUBSET Runs
    /\ workflow \in [Runs -> {"none", "running", "closed"}]
    /\ verdict \in [Runs -> {"none", "passed", "failed"}]
    /\ posts \in [Runs -> 0..MaxPosts]
    /\ inflight \in [Runs -> 0..MaxPosts]
    /\ delivered \in [Runs -> 0..MaxPosts]
    /\ steps \in [Runs -> 0..MaxSteps]
    /\ alarm \in [Runs -> [Posts -> SUBSET Events]]
    /\ pending \in [Runs -> SUBSET (Posts \X Channels)]
    /\ attempted \in [Runs -> SUBSET (Posts \X Channels)]
    /\ crashes \in 0..MaxCrashes

(* A run is shown as passed only when a post of its appliance that said so *)
(* was processed, and then gives no reason for a failure.  It is shown as  *)
(* failed for the reason it gives: such a post was processed, or the       *)
(* scheduler could not start it and recorded that.                         *)
StatusIsBacked ==
    \A r \in Runs :
        /\ status[r] = "passed" =>
              /\ verdict[r] = "passed" /\ delivered[r] > 0
              /\ failure_reason[r] = "none"
        /\ status[r] = "failed" =>
              \/ /\ failure_reason[r] = "report"
                 /\ verdict[r] = "failed" /\ delivered[r] > 0
              \/ /\ failure_reason[r] = "enqueue"
                 /\ kind[r] = "scheduled" /\ r \in raised

(* Once the creating coroutine is out of the way, the reported result      *)
(* stays: no late progress post and no repeated result changes the row.    *)
ResultIsFinal ==
    [][\A r \in Runs :
          /\ caller[r] = "done"
          /\ delivered[r] > 0
          /\ status[r] = verdict[r]
          => status'[r] = status[r]]_vars

(* While the API stays up, the channels are notified all or not at all     *)
(* each time a result is processed: once one was tried, every channel that *)
(* asked for one of the events found then was tried or is still to be      *)
(* tried, even if others fail.                                             *)
NoChannelForgotten ==
    crashes = 0 =>
        \A r \in Runs, k \in Posts :
            (\E n \in pending[r] \cup attempted[r] : n[1] = k) =>
                {k} \X Interested(alarm[r][k]) \subseteq pending[r] \cup attempted[r]

(* A channel hears only of what the database has: each result it was told  *)
(* of had been committed, and "test failed" was said of a failed test.     *)
ToldIsStored ==
    \A r \in Runs : \A n \in attempted[r] :
        /\ n[1] <= delivered[r]
        /\ completed_at[r]
        /\ "test_failed" \in alarm[r][n[1]] => verdict[r] = "failed"

-----------------------------------------------------------------------------
(* The inductive invariant of the proofs *)

(* Posts are accounted for, and none exists before the payload is fixed.   *)
PostsCounted ==
    \A r \in Runs :
        /\ inflight[r] + delivered[r] <= posts[r]
        /\ posts[r] > 0 => verdict[r] # "none"

(* Only the scheduler's job reaches the step that records a failure, after *)
(* an exception.                                                           *)
FailureIsScheduled ==
    \A r \in Runs :
        caller[r] = "record_failure" => kind[r] = "scheduled" /\ r \in raised

(* Channels are queued by finalise_run only. *)
QueuedAreStored ==
    \A r \in Runs :
        /\ \A n \in pending[r] \cup attempted[r] : n[1] <= delivered[r]
        /\ delivered[r] > 0 => completed_at[r]
        /\ \A k \in Posts : "test_failed" \in alarm[r][k] => verdict[r] = "failed"

IndInv ==
    /\ TypeOK
    /\ PostsCounted
    /\ FailureIsScheduled
    /\ StatusIsBacked
    /\ QueuedAreStored
    /\ NoChannelForgotten

-----------------------------------------------------------------------------
(* What the comments say of the rows and the code does not do *)

(* services/appliance.py: "flip the parent run to running if it's still    *)
(* pending".  A run that is completed is never shown as running again.     *)
RunningOnlyFromPending ==
    [][\A r \in Runs :
          status'[r] = "running" => status[r] \in {"pending", "running"}]_vars

=============================================================================
