---------------------------- MODULE RecoveryTest ----------------------------
(***************************************************************************)
(* One execution of the appliance's RecoveryTestWorkflow                   *)
(* (apps/appliance/src/workflows/recovery_test.py) and of the ten          *)
(* activities it runs (activities.py), together with the parts of the      *)
(* outside world those activities change: the Veeam server's instant       *)
(* recovery sessions, the vCenter port group and what the SaaS API has     *)
(* received.                                                               *)
(*                                                                         *)
(* Temporal runs each activity at most MaxAttempts times.  An attempt      *)
(* succeeds, fails before its effect, or takes effect and then fails (the  *)
(* answer is lost, the worker dies, the attempt times out); the last two   *)
(* look the same to the workflow and are retried.  Inside an attempt, the  *)
(* Veeam client repeats a POST up to PostAttempts times (client.py,        *)
(* tenacity).  When the attempts are used up the exception is raised in    *)
(* the workflow: the try block catches it, the finally block does not.     *)
(***************************************************************************)
EXTENDS VeeamRest, Moref

CONSTANTS
    MaxAttempts,           \* _RETRY_POLICY.maximum_attempts (3)
    PostAttempts,          \* stop_after_attempt(3) of VeeamClient._post
    MaxPolls,              \* polls of wait_for_vm_boot before it gives up
    NumChecks,             \* health checks run_health_checks goes through (2)
    MaxMinutes,            \* bound on the minutes a measured RTO or RPO takes
    RtoTarget, RpoTarget,  \* the workload's objectives, in minutes
    HealthChecksDeployed,  \* whether `src.health_checks` can be imported
    ProgressAccepted       \* whether the API takes the body of a progress post

ASSUME ConstantsAssumption ==
    /\ MaxAttempts \in Nat \ {0}
    /\ PostAttempts \in Nat \ {0}
    /\ MaxPolls \in Nat \ {0}
    /\ NumChecks \in Nat
    /\ MaxMinutes \in Nat
    /\ RtoTarget \in Int
    /\ RpoTarget \in Int
    /\ HealthChecksDeployed \in BOOLEAN
    /\ ProgressAccepted \in BOOLEAN

VARIABLES
    \* where the workflow is
    pc,                   \* the activity being executed, or how it ended
    attempt,              \* the attempt of that activity
    post,                 \* the POST within that attempt
    polls,                \* polls of the session so far
    \* the locals of RecoveryTestWorkflow.run
    restore_point,        \* rpo_creation_iso is set
    isolated_network,     \* the network name is set (and recovery_start_iso)
    recovery_session_id,  \* 0 stands for None
    recovered_vm_moref,   \* "none", the "moref" of the recovered VM or of the
                          \* "original", or the "placeholder"
    passed,
    failure_reason,       \* a failure reason is set
    result,               \* what record_rto_rpo returned
    \* vCenter and Veeam
    backend,              \* settings.vcenter_network_backend
    portgroup,            \* the run's isolated port group exists
    started,              \* instant recovery sessions created, numbered 1..
    mounted,              \* those that Veeam still holds a mount for
    published,            \* those in state Working
    stopped,              \* those stopped through stopPublishing
    \* the SaaS API
    progress,             \* progress posts it received
    reports               \* result posts it received

flow   == <<pc, attempt, post, polls>>
locals == <<restore_point, isolated_network, recovery_session_id,
            recovered_vm_moref, passed, result>>
veeam  == <<started, mounted, published, stopped>>
saas   == <<progress, reports>>
vars   == <<flow, locals, failure_reason, backend, portgroup, veeam, saas>>

-----------------------------------------------------------------------------
TrySteps == {"sync_inventory", "select_restore_point",
             "provision_isolated_network", "start_instant_recovery",
             "wait_for_vm_boot", "run_health_checks"}

(* teardown_isolated_env makes two calls that can fail on their own. *)
TeardownSteps == {"stop_instant_recovery", "remove_portgroup"}

FinallySteps == {"capture_evidence", "record_rto_rpo", "report_results"}
                    \cup TeardownSteps

Ends == {"returned", "raised"}

Minutes == 0..MaxMinutes

NoResult == [rto |-> 0, rpo |-> 0, score |-> -1]

Results == [rto : Minutes, rpo : Minutes, score : 0..100]

AttemptsOf(step) == IF step = "wait_for_vm_boot" THEN 1 ELSE MaxAttempts

(* A retried activity starts again from its first call. *)
FirstCall(step) ==
    IF step \in TeardownSteps THEN "stop_instant_recovery" ELSE step

-----------------------------------------------------------------------------
(* Attempts that succeed and attempts that fail *)

Goto(step) ==
    /\ pc' = step
    /\ attempt' = 1
    /\ post' = 1
    /\ polls' = 0
    /\ UNCHANGED failure_reason

(* Variant: a retry policy without maximum_attempts. *)
RetryWithoutLimit ==
    /\ pc' = FirstCall(pc)
    /\ UNCHANGED <<attempt, failure_reason>>

Retry ==
    /\ attempt < AttemptsOf(pc)
    /\ pc' = FirstCall(pc)
    /\ attempt' = attempt + 1
    /\ UNCHANGED failure_reason

(* `except Exception` stores the reason and falls into the finally block.  *)
RaiseInTry ==
    /\ attempt = AttemptsOf(pc)
    /\ pc \in TrySteps
    /\ pc' = "capture_evidence"
    /\ attempt' = 1
    /\ failure_reason' = TRUE

(* Variant: the except clause also covers the finally block's activities.  *)
RaiseInFinallyStored ==
    /\ attempt = AttemptsOf(pc)
    /\ pc \in FinallySteps
    /\ pc' = "raised"
    /\ attempt' = 1
    /\ failure_reason' = TRUE

(* Nothing catches an exception of the finally block: the workflow ends    *)
(* and the activities that follow are not run.                             *)
RaiseInFinally ==
    /\ attempt = AttemptsOf(pc)
    /\ pc \in FinallySteps
    /\ pc' = "raised"
    /\ attempt' = 1
    /\ UNCHANGED failure_reason

AttemptFails ==
    /\ post' = 1
    /\ polls' = 0
    /\ Retry \/ RaiseInTry \/ RaiseInFinally

(* An attempt of any activity may fail without having changed anything.    *)
ActivityError ==
    /\ pc \in TrySteps \cup FinallySteps
    /\ AttemptFails
    /\ UNCHANGED <<locals, backend, portgroup, veeam, saas>>

-----------------------------------------------------------------------------
(* The try block *)

SyncInventory ==
    /\ pc = "sync_inventory"
    /\ Goto("select_restore_point")
    /\ UNCHANGED <<locals, backend, portgroup, veeam, saas>>

SelectRestorePoint ==
    /\ pc = "select_restore_point"
    /\ restore_point' = TRUE
    /\ Goto("provision_isolated_network")
    /\ UNCHANGED <<isolated_network, recovery_session_id, recovered_vm_moref,
                   passed, result, backend, portgroup, veeam, saas>>

(* Variant: returns the name of a network it did not create. *)
ProvisionNameOnly ==
    /\ pc = "provision_isolated_network"
    /\ isolated_network' = TRUE
    /\ Goto("start_instant_recovery")
    /\ UNCHANGED <<restore_point, recovery_session_id, recovered_vm_moref,
                   passed, result, backend, portgroup, veeam, saas>>

(* The distributed switch returns an existing port group of that name; the *)
(* standard switch refuses to add it a second time.                        *)
CanCreatePortgroup == backend = "dvs" \/ ~portgroup

ProvisionIsolatedNetwork ==
    /\ pc = "provision_isolated_network"
    /\ CanCreatePortgroup
    /\ portgroup' = TRUE
    /\ isolated_network' = TRUE
    /\ Goto("start_instant_recovery")
    /\ UNCHANGED <<restore_point, recovery_session_id, recovered_vm_moref,
                   passed, result, backend, veeam, saas>>

ProvisionIsolatedNetworkLost ==
    /\ pc = "provision_isolated_network"
    /\ CanCreatePortgroup
    /\ portgroup' = TRUE
    /\ AttemptFails
    /\ UNCHANGED <<locals, backend, veeam, saas>>

(* Every POST that reaches Veeam creates a session of its own, whose VM is *)
(* powered on with all its NICs on isolated_network.                       *)
CreateSession ==
    /\ started' = started + 1
    /\ mounted' = mounted \cup {started + 1}
    /\ UNCHANGED <<published, stopped>>

StartInstantRecovery ==
    /\ pc = "start_instant_recovery"
    /\ CreateSession
    /\ recovery_session_id' = started + 1
    /\ Goto("wait_for_vm_boot")
    /\ UNCHANGED <<restore_point, isolated_network, recovered_vm_moref,
                   passed, result, backend, portgroup, saas>>

(* One POST without an answer: tenacity sends it again, and the attempt    *)
(* fails with the last of them.                                            *)
PostFails ==
    \/ /\ post < PostAttempts
       /\ post' = post + 1
       /\ UNCHANGED <<pc, attempt, polls, failure_reason>>
    \/ /\ post = PostAttempts
       /\ AttemptFails

StartInstantRecoveryRetryPost ==
    /\ pc = "start_instant_recovery"
    /\ \/ CreateSession
       \/ UNCHANGED veeam
    /\ PostFails
    /\ UNCHANGED <<locals, backend, portgroup, saas>>

(* The answer arrives but the attempt ends after it (no session id in the  *)
(* answer, a time-out, a dead worker).                                     *)
StartInstantRecoveryLost ==
    /\ pc = "start_instant_recovery"
    /\ CreateSession
    /\ AttemptFails
    /\ UNCHANGED <<locals, backend, portgroup, saas>>

(* What get_session reports: a mounted session may be in any transient     *)
(* state until it is published.                                            *)
PolledStates(session) ==
    IF session \notin mounted THEN FailedStates
    ELSE IF session \in published THEN PublishedStates
    ELSE SessionStates \ (PublishedStates \cup FailedStates)

(* Variant: returns None when the moref cannot be resolved. *)
WaitForVmBootUnresolved ==
    /\ pc = "wait_for_vm_boot"
    /\ recovery_session_id \in published
    /\ recovered_vm_moref' \in {"moref", "none"}
    /\ Goto("run_health_checks")
    /\ UNCHANGED <<restore_point, isolated_network, recovery_session_id,
                   passed, result, backend, portgroup, veeam, saas>>

(* The session is published; its VM's moref is resolved or replaced by the *)
(* placeholder.                                                            *)
WaitForVmBoot ==
    /\ pc = "wait_for_vm_boot"
    /\ \E state \in PolledStates(recovery_session_id) :
            ClassifyPoll(state) = "published"
    /\ recovered_vm_moref' \in MorefOutcomes
    /\ Goto("run_health_checks")
    /\ UNCHANGED <<restore_point, isolated_network, recovery_session_id,
                   passed, result, backend, portgroup, veeam, saas>>

WaitForVmBootFailed ==
    /\ pc = "wait_for_vm_boot"
    /\ \E state \in PolledStates(recovery_session_id) :
            ClassifyPoll(state) = "failed"
    /\ AttemptFails
    /\ UNCHANGED <<locals, backend, portgroup, veeam, saas>>

WaitForVmBootSleep ==
    /\ pc = "wait_for_vm_boot"
    /\ \E state \in PolledStates(recovery_session_id) :
            ClassifyPoll(state) = "wait"
    /\ \/ /\ polls + 1 < MaxPolls
          /\ polls' = polls + 1
          /\ UNCHANGED <<pc, attempt, post, failure_reason>>
       \/ /\ polls + 1 = MaxPolls
          /\ AttemptFails
    /\ UNCHANGED <<locals, backend, portgroup, veeam, saas>>

(* The verdicts of WindowsOSHealthCheck and LinuxOSHealthCheck.  A command *)
(* that cannot be run or does not answer in time is a failed check, not an *)
(* exception.                                                              *)
WindowsPassed(returncode) == returncode = 0

LinuxPassed(state) == state \in {"running", "degraded"}

ReturnCodes  == {0, 1}
SystemStates == {"running", "degraded", "maintenance", "no answer"}

(* All checks answered, each with a progress post; `passed` is the         *)
(* conjunction of their verdicts.                                          *)
RunHealthChecks ==
    /\ pc = "run_health_checks"
    /\ HealthChecksDeployed
    /\ ProgressAccepted
    /\ progress' = progress + NumChecks
    /\ \E code \in ReturnCodes, state \in SystemStates :
            passed' = (WindowsPassed(code) /\ LinuxPassed(state))
    /\ Goto("capture_evidence")
    /\ UNCHANGED <<restore_point, isolated_network, recovery_session_id,
                   recovered_vm_moref, result, backend, portgroup, veeam,
                   reports>>

(* A progress post that raises ends the attempt; the ones before it, and   *)
(* perhaps that one, have reached the API.  When the API refuses the body  *)
(* the first post raises and nothing is kept (ActivityError).              *)
RunHealthChecksLost ==
    /\ pc = "run_health_checks"
    /\ HealthChecksDeployed
    /\ ProgressAccepted
    /\ \E n \in 1..NumChecks : progress' = progress + n
    /\ AttemptFails
    /\ UNCHANGED <<locals, backend, portgroup, veeam, reports>>

-----------------------------------------------------------------------------
(* The finally block *)

(* Variant: tears down before it reports. *)
RecordThenTeardown ==
    /\ pc = "record_rto_rpo"
    /\ result' = [rto |-> 0, rpo |-> 0, score |-> 0]
    /\ Goto("stop_instant_recovery")
    /\ UNCHANGED <<restore_point, isolated_network, recovery_session_id,
                   recovered_vm_moref, passed, backend, portgroup, veeam,
                   saas>>

(* take_screenshot needs a VM that vCenter can find, which the placeholder *)
(* never is and a VM whose mount is gone no longer is.                     *)
CanTakeScreenshot ==
    \/ recovered_vm_moref = "moref" /\ recovery_session_id \in mounted
    \/ recovered_vm_moref = "original"

(* Without a moref there is nothing to capture.  The screenshot comes back *)
(* empty, so nothing is uploaded.                                          *)
CaptureEvidence ==
    /\ pc = "capture_evidence"
    /\ recovered_vm_moref = "none" \/ CanTakeScreenshot
    /\ Goto("record_rto_rpo")
    /\ UNCHANGED <<locals, backend, portgroup, veeam, saas>>

RecordRtoRpo ==
    /\ pc = "record_rto_rpo"
    /\ \E rto \in (IF isolated_network /\ recovered_vm_moref # "none"
                   THEN Minutes ELSE {0}),
          rpo \in (IF restore_point THEN Minutes ELSE {0}) :
       \E score \in ReadinessScore(passed, rto, RtoTarget, rpo, RpoTarget) :
            result' = [rto |-> rto, rpo |-> rpo, score |-> score]
    /\ Goto("report_results")
    /\ UNCHANGED <<restore_point, isolated_network, recovery_session_id,
                   recovered_vm_moref, passed, backend, portgroup, veeam,
                   saas>>

ReportResults ==
    /\ pc = "report_results"
    /\ reports' = reports + 1
    /\ Goto("stop_instant_recovery")
    /\ UNCHANGED <<locals, backend, portgroup, veeam, progress>>

ReportResultsLost ==
    /\ pc = "report_results"
    /\ reports' = reports + 1
    /\ AttemptFails
    /\ UNCHANGED <<locals, backend, portgroup, veeam, progress>>

-----------------------------------------------------------------------------
(* teardown_isolated_env *)

Unmount(session) ==
    /\ session \in mounted
    /\ mounted' = mounted \ {session}
    /\ published' = published \ {session}
    /\ stopped' = stopped \cup {session}
    /\ UNCHANGED started

(* Veeam may accept or refuse to stop a session it no longer mounts. *)
StopAccepted ==
    \/ Unmount(recovery_session_id)
    \/ recovery_session_id \notin mounted /\ UNCHANGED veeam

(* Variant: swallows the error of stopPublishing and goes on. *)
StopErrorSwallowed ==
    /\ pc = "stop_instant_recovery"
    /\ recovery_session_id # 0
    /\ StopAccepted \/ UNCHANGED veeam
    /\ pc' = "remove_portgroup"
    /\ post' = 1
    /\ UNCHANGED <<attempt, polls, failure_reason, locals, backend,
                   portgroup, saas>>

StopInstantRecovery ==
    /\ pc = "stop_instant_recovery"
    /\ recovery_session_id # 0
    /\ StopAccepted
    /\ pc' = "remove_portgroup"
    /\ post' = 1
    /\ UNCHANGED <<attempt, polls, failure_reason, locals, backend,
                   portgroup, saas>>

(* Variant: tenacity without a stop condition. *)
StopPostedForever ==
    /\ pc = "stop_instant_recovery"
    /\ recovery_session_id # 0
    /\ StopAccepted \/ UNCHANGED veeam
    /\ post' = (post % PostAttempts) + 1
    /\ UNCHANGED <<pc, attempt, polls, failure_reason, locals, backend,
                   portgroup, saas>>

StopInstantRecoveryRetryPost ==
    /\ pc = "stop_instant_recovery"
    /\ recovery_session_id # 0
    /\ StopAccepted \/ UNCHANGED veeam
    /\ PostFails
    /\ UNCHANGED <<locals, backend, portgroup, saas>>

NothingToStop ==
    /\ pc = "stop_instant_recovery"
    /\ recovery_session_id = 0
    /\ pc' = "remove_portgroup"
    /\ UNCHANGED <<attempt, post, polls, failure_reason, locals, backend,
                   portgroup, veeam, saas>>

(* remove_portgroup("", name) removes the group from the host whose name   *)
(* is "": vCenter has none, so the call returns without removing anything. *)
RemovePortgroup ==
    /\ pc = "remove_portgroup"
    /\ UNCHANGED portgroup
    /\ Goto("returned")
    /\ UNCHANGED <<locals, backend, veeam, saas>>

-----------------------------------------------------------------------------
(* The Veeam server *)

SessionPublished(s) ==
    /\ s \in mounted \ published
    /\ published' = published \cup {s}
    /\ UNCHANGED <<flow, locals, failure_reason, backend, portgroup, started,
                   mounted, stopped, saas>>

SessionFailed(s) ==
    /\ s \in mounted
    /\ mounted' = mounted \ {s}
    /\ published' = published \ {s}
    /\ UNCHANGED <<flow, locals, failure_reason, backend, portgroup, started,
                   stopped, saas>>

Ended == pc \in Ends /\ UNCHANGED vars

-----------------------------------------------------------------------------
Init ==
    /\ pc = "sync_inventory"
    /\ attempt = 1
    /\ post = 1
    /\ polls = 0
    /\ restore_point = FALSE
    /\ isolated_network = FALSE
    /\ recovery_session_id = 0
    /\ recovered_vm_moref = "none"
    /\ passed = FALSE
    /\ failure_reason = FALSE
    /\ result = NoResult
    /\ backend \in {"dvs", "vswitch"}
    /\ portgroup = FALSE
    /\ started = 0
    /\ mounted = {}
    /\ published = {}
    /\ stopped = {}
    /\ progress = 0
    /\ reports = 0

TryBlock ==
    \/ SyncInventory
    \/ SelectRestorePoint
    \/ ProvisionIsolatedNetwork
    \/ ProvisionIsolatedNetworkLost
    \/ StartInstantRecovery
    \/ StartInstantRecoveryRetryPost
    \/ StartInstantRecoveryLost
    \/ WaitForVmBoot
    \/ WaitForVmBootFailed
    \/ WaitForVmBootSleep
    \/ RunHealthChecks
    \/ RunHealthChecksLost

FinallyBlock ==
    \/ CaptureEvidence
    \/ RecordRtoRpo
    \/ ReportResults
    \/ ReportResultsLost
    \/ StopInstantRecovery
    \/ StopInstantRecoveryRetryPost
    \/ NothingToStop
    \/ RemovePortgroup

Workflow == TryBlock \/ FinallyBlock \/ ActivityError

VeeamServer == \E s \in mounted : SessionPublished(s) \/ SessionFailed(s)

Next == Workflow \/ VeeamServer \/ Ended

Spec == Init /\ [][Next]_vars

(* Temporal keeps scheduling the workflow until it ends; nothing is        *)
(* assumed of the Veeam server.                                            *)
FairSpec == Spec /\ WF_vars(Workflow)

-----------------------------------------------------------------------------
(* Properties *)

FlowOK ==
    /\ pc \in TrySteps \cup FinallySteps \cup Ends
    /\ attempt \in 1..MaxAttempts
    /\ post \in 1..PostAttempts
    /\ polls \in 0..(MaxPolls - 1)

FlagsOK ==
    /\ restore_point \in BOOLEAN
    /\ isolated_network \in BOOLEAN
    /\ passed \in BOOLEAN
    /\ failure_reason \in BOOLEAN
    /\ portgroup \in BOOLEAN

ValuesOK ==
    /\ recovered_vm_moref \in {"none", "moref", "original", "placeholder"}
    /\ result \in Results \cup {NoResult}
    /\ backend \in {"dvs", "vswitch"}

WorldOK ==
    /\ recovery_session_id \in 0..started
    /\ started \in Nat
    /\ mounted \in SUBSET (1..started)
    /\ published \in SUBSET mounted
    /\ stopped \in SUBSET (1..started)
    /\ progress \in Nat
    /\ reports \in Nat

(* Every variable keeps the shape the Python locals and the two servers    *)
(* give it; published sessions are mounted ones.                           *)
TypeOK == FlowOK /\ FlagsOK /\ ValuesOK /\ WorldOK

(* No recovered VM is ever mounted unless the isolated port group exists   *)
(* and its name was handed to Veeam: in no order of retries, lost answers  *)
(* and time-outs does start_instant_recovery run without it.               *)
MountIsIsolated == mounted # {} => portgroup /\ isolated_network

(* A run counts as passed only if its VM booted from a session Veeam       *)
(* really created, every health check posted its progress, and no          *)
(* exception was stored on the way.                                        *)
PassedIsEarned ==
    passed => /\ recovered_vm_moref # "none"
              /\ recovery_session_id \in 1..started
              /\ progress >= NumChecks
              /\ ~failure_reason

Scored == IF passed THEN result.score \in HealthPoints..100
                    ELSE result.score \in 0..(2 * ObjectiveMax)

(* The result the API receives separates the outcomes: a passed run scores *)
(* at least 60 and a failed one at most 40, whatever its RTO and RPO.      *)
ScoreSeparates == reports > 0 => Scored

(* A workflow that returns has released the mount it knew of, even when    *)
(* stopPublishing or the calls after it had to be repeated.                *)
ReturnReleasesMount == pc = "returned" => recovery_session_id \notin mounted

(* Retried POSTs create at most PostAttempts sessions per attempt, so a    *)
(* run never makes more than MaxAttempts * PostAttempts of them, and it    *)
(* never stops one that is not its own.                                    *)
SessionsBounded ==
    /\ started <= MaxAttempts * PostAttempts
    /\ stopped \subseteq {recovery_session_id}

(* Once a result has reached the API, the verdict, the measured numbers    *)
(* and the failure reason no longer change: every repeated report, and the *)
(* value the workflow returns, say the same.                               *)
ReportIsFinal ==
    [][reports > 0 => UNCHANGED <<passed, failure_reason, result>>]_vars

(* Every execution ends: attempts, POSTs and polls are all bounded.        *)
WorkflowEnds == <>(pc \in Ends)

-----------------------------------------------------------------------------
(* The inductive invariant of the proofs *)

(* What holds of the locals at each activity of the try block. *)
LocalsByStep ==
    /\ pc \in TrySteps => ~passed /\ ~failure_reason /\ stopped = {}
    /\ pc \in {"sync_inventory", "select_restore_point",
              "provision_isolated_network"} => started = 0
    /\ pc \in {"start_instant_recovery", "wait_for_vm_boot",
              "run_health_checks"} => isolated_network
    /\ pc \in {"wait_for_vm_boot", "run_health_checks"} =>
            recovery_session_id # 0
    /\ pc = "run_health_checks" => recovered_vm_moref # "none"

Isolation ==
    /\ isolated_network => portgroup
    /\ started > 0 => isolated_network

Reported ==
    /\ reports > 0 => pc \in {"report_results"} \cup TeardownSteps \cup Ends
    /\ reports > 0 \/ pc = "report_results" => Scored
    /\ pc \in TeardownSteps \cup {"returned"} => reports > 0

Released ==
    pc \in {"remove_portgroup", "returned"} => recovery_session_id \notin mounted

Bounded ==
    /\ started <= MaxAttempts * PostAttempts
    /\ pc = "start_instant_recovery" =>
            started <= (attempt - 1) * PostAttempts + (post - 1)
    /\ stopped \subseteq {recovery_session_id}

AttemptOK == attempt <= AttemptsOf(pc)

IndInv ==
    /\ TypeOK
    /\ AttemptOK
    /\ LocalsByStep
    /\ Isolation
    /\ PassedIsEarned
    /\ Reported
    /\ Released
    /\ Bounded

-----------------------------------------------------------------------------
(* The verdict the SaaS has been given. *)
Verdict == IF reports = 0 THEN "none"
           ELSE IF passed THEN "passed" ELSE "failed"

Abstract == INSTANCE IsolatedTest WITH
                Mounts   <- 1..(MaxAttempts * PostAttempts),
                isolated <- portgroup,
                used     <- 1..started,
                mounts   <- mounted,
                halted   <- stopped,
                verdict  <- Verdict

(* The workflow with its retries implements the promise of IsolatedTest.   *)
ImplementsIsolatedTest == Abstract!AbsSpec

-----------------------------------------------------------------------------
(* What the documentation says of the workflow and the code does not do *)

(* The docstring of recovery_test.py: "TeardownIsolatedEnv runs as a saga  *)
(* compensation step (always executes)".  The workflow ends only from the  *)
(* teardown activity.                                                      *)
TeardownAlwaysExecutes ==
    [][pc' \in Ends /\ pc \notin Ends => pc \in TeardownSteps]_vars

=============================================================================
