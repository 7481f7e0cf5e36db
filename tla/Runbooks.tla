------------------------------ MODULE Runbooks ------------------------------
(***************************************************************************)
(* DR runbooks: creation and the execution plan (routers/runbooks.py,      *)
(* services/runbook_engine.py), and the Temporal workflow that executes    *)
(* the steps (apps/appliance/src/workflows/runbook_workflow.py).           *)
(*                                                                         *)
(* The workflow reads the step rows of an execution through the API, runs  *)
(* the steps in the order of their numbers and writes their results back.  *)
(* GET and PATCH of an execution and PATCH of a step are called by the     *)
(* workflow but are not routes of this repository, and nothing here starts *)
(* the workflow: these are modelled from the calls, as an API that stores  *)
(* what it is sent, refuses it, or cannot be reached.                      *)
(***************************************************************************)
EXTENDS Integers, FiniteSets, Sequences, SequencesExt, FiniteSetsExt

CONSTANTS
    N,             \* steps of a runbook
    Numberings,    \* the seq numbers the steps may carry, step by step
    Dependencies,  \* their depends_on_seq
    Drafts,        \* their step_type and on_failure
    TimeoutOf,     \* timeout_mins of each step
    Tells,         \* what get_execution_steps may tell of a step beside
                   \* its type and status: of "config" and "on_failure"
    MaxAttempts,   \* RETRY.maximum_attempts
    MaxWorkflows,  \* bound: workflows started for the execution
    MaxFaults      \* bound: errors and lost answers

Steps == 1..N

ASSUME RunbooksAssumption ==
    /\ N \in Nat \ {0}
    /\ Numberings \subseteq [Steps -> Nat]
    /\ Dependencies \subseteq [Steps -> SUBSET Nat]
    /\ Drafts \subseteq [Steps -> [type : STRING, on_failure : STRING]]
    /\ TimeoutOf \in [Steps -> Nat]
    /\ Tells \subseteq SUBSET {"config", "on_failure"}
    /\ MaxAttempts \in Nat \ {0}
    /\ MaxFaults \in Nat

VARIABLES
    asked,      \* the steps of the request to create a runbook
    answer,     \* its answer
    execution,  \* status of the row of runbook_executions
    row,        \* statuses of the rows of runbook_execution_steps
    wf,         \* the workflow
    started,    \* workflows started
    effects,    \* history: what each workflow has really run, and its outcome
    faults

vars == <<asked, answer, execution, row, wf, started, effects, faults>>

NoRequest == [seq |-> [i \in Steps |-> 0], deps |-> [i \in Steps |-> {}],
              step |-> [i \in Steps |-> [type |-> "none", on_failure |-> "none"]]]
NoWorkflow == [pc |-> "idle", plan |-> [i \in Steps |-> "none"], told |-> {},
               todo |-> <<>>, result |-> "none", overall |-> "none",
               attempt |-> 1]

Init ==
    /\ asked = NoRequest
    /\ answer = "none"
    /\ execution = "none"
    /\ row = [i \in Steps |-> "none"]
    /\ wf = NoWorkflow
    /\ started = 0
    /\ effects = <<>>
    /\ faults = 0

-----------------------------------------------------------------------------
(* The engine                                                               *)

(* Variant: a dependency that is still to come counts, if it is in the     *)
(* same wave.                                                              *)
ReadyLoose(r, done) ==
    {i \in Steps \ done :
       r.deps[i] \subseteq {r.seq[j] : j \in done \cup {i}}}

(* Steps that may run once the steps in done have: every dependency is the *)
(* number of one of them.                                                  *)
Ready(r, done) ==
    {i \in Steps \ done : r.deps[i] \subseteq {r.seq[j] : j \in done}}

(* The loop of resolve_execution_order: what is completed after k waves.   *)
CompletedAfter(r) ==
    LET completed[k \in 0..N] ==
          IF k = 0 THEN {}
          ELSE completed[k - 1] \cup Ready(r, completed[k - 1])
    IN completed

(* It ends when a wave is empty: with a plan, or with ValueError if steps  *)
(* remain.                                                                 *)
Resolves(r) == CompletedAfter(r)[N] = Steps
Wave(r, k)  == CompletedAfter(r)[k] \ CompletedAfter(r)[k - 1]

(* estimated_duration_mins of build_execution_plan: the waves one after    *)
(* the other, each as long as its longest step.                            *)
WaveDuration(r, k) ==
    IF Wave(r, k) = {} THEN 0 ELSE Max({TimeoutOf[i] : i \in Wave(r, k)})

TotalTimeout(r) ==
    LET total[k \in 0..N] ==
          IF k = 0 THEN 0 ELSE total[k - 1] + WaveDuration(r, k)
    IN total

EstimatedDuration(r) == TotalTimeout(r)[N]

ValidStepTypes ==
    {"recover_workload", "health_check", "notify", "wait", "manual_gate",
     "run_script"}

ValidDraft(r) ==
    \A i \in Steps : /\ r.step[i].type \in ValidStepTypes
                    /\ r.step[i].on_failure \in {"stop", "continue", "rollback"}

(* create_runbook: 201 and the rows, or 400 and nothing.                   *)
CreateRunbook(r) ==
    /\ answer = "none"
    /\ asked' = r
    /\ answer' = CASE ~ValidDraft(r) -> "invalid"
                   [] ValidDraft(r) /\ ~Resolves(r) -> "refused"
                   [] OTHER -> "created"
    /\ UNCHANGED <<execution, row, wf, started, effects, faults>>

(* trigger_execution: an execution with one row per step, all pending.  It *)
(* marks the runbook as running and starts nothing.                        *)
TriggerExecution ==
    /\ answer = "created"
    /\ execution = "none"
    /\ execution' = "pending"
    /\ row' = [i \in Steps |-> "pending"]
    /\ UNCHANGED <<asked, answer, wf, started, effects, faults>>

-----------------------------------------------------------------------------
(* The workflow                                                             *)

Fault == faults < MaxFaults /\ faults' = faults + 1

(* A workflow for the execution, the first or another one after it ended.  *)
StartWorkflow ==
    /\ execution # "none"
    /\ wf.pc \in {"idle", "ended", "error"}
    /\ started < MaxWorkflows
    /\ started' = started + 1
    /\ wf' = [NoWorkflow EXCEPT !.pc = "fetch"]
    /\ effects' = Append(effects, [i \in Steps |-> <<>>])
    /\ UNCHANGED <<asked, answer, execution, row, faults>>

(* Steps that have the same number stay in the order of the rows.          *)
RunsBefore(i, j) ==
    \/ asked.seq[i] < asked.seq[j]
    \/ asked.seq[i] = asked.seq[j] /\ i < j

(* The steps sorted: the k-th is the one that k - 1 others run before.     *)
InSeqOrder ==
    [k \in Steps |->
       CHOOSE i \in Steps : Cardinality({j \in Steps : RunsBefore(j, i)}) = k - 1]

(* fetch_execution_plan, and the sort.  The rows that get_execution_steps  *)
(* of this repository serves have neither config nor on_failure: its told  *)
(* is {}.                                                                  *)
FetchExecutionPlan ==
    /\ wf.pc = "fetch"
    /\ \E told \in Tells :
         wf' = [wf EXCEPT !.pc = "step", !.plan = row, !.told = told,
                          !.todo = InSeqOrder, !.overall = "completed",
                          !.attempt = 1]
    /\ UNCHANGED <<asked, answer, execution, row, started, effects, faults>>

(* What execute_step may return.  Without config a workload to recover and *)
(* a script are not configured, a message has no destination, a wait is    *)
(* one minute.  With it they may succeed or raise.                         *)
Results(i) ==
    LET type == asked.step[i].type
        configured == "config" \in wf.told
    IN CASE type \in {"recover_workload", "run_script"} ->
              {"failed"} \cup IF configured THEN {"completed"} ELSE {}
         [] type \in {"notify", "wait"} ->
              {"completed"} \cup IF configured THEN {"failed"} ELSE {}
         [] type = "health_check" -> {"completed"}
         [] type = "manual_gate" -> {"waiting_gate"}
         [] OTHER -> {"failed"}

(* step.get("on_failure", "stop"): the default holds, whatever the runbook *)
(* says, unless the row says it.                                           *)
OnFailure(i) ==
    IF "on_failure" \in wf.told THEN asked.step[i].on_failure ELSE "stop"

(* A step that was recorded as completed before the workflow started.      *)
Skipped(i) == wf.plan[i] \in {"completed", "skipped"}

SkipStep ==
    /\ wf.pc = "step"
    /\ wf.todo # <<>>
    /\ Skipped(Head(wf.todo))
    /\ wf' = [wf EXCEPT !.todo = Tail(@)]
    /\ UNCHANGED <<asked, answer, execution, row, started, effects, faults>>

(* The newest workflow has run a step. *)
Run(i, result) ==
    effects' = [effects EXCEPT ![started][i] = Append(@, result)]

ExecuteStep ==
    /\ wf.pc = "step"
    /\ wf.todo # <<>>
    /\ LET i == Head(wf.todo) IN
         /\ ~Skipped(i)
         /\ \E result \in Results(i) :
              /\ Run(i, result)
              /\ wf' = [wf EXCEPT !.pc = "update", !.result = result]
    /\ UNCHANGED <<asked, answer, execution, row, started, faults>>

(* Variant: RETRY also for execute_step. *)
ExecuteStepLostRetried ==
    /\ wf.pc = "step"
    /\ wf.todo # <<>>
    /\ ~Skipped(Head(wf.todo))
    /\ Fault
    /\ \/ \E result \in Results(Head(wf.todo)) : Run(Head(wf.todo), result)
       \/ UNCHANGED effects
    /\ UNCHANGED <<asked, answer, execution, row, wf, started>>

(* The worker dies during a step, or the step takes longer than its        *)
(* timeout: NO_RETRY, and the workflow fails.                              *)
ExecuteStepLost ==
    /\ wf.pc = "step"
    /\ wf.todo # <<>>
    /\ ~Skipped(Head(wf.todo))
    /\ Fault
    /\ \/ \E result \in Results(Head(wf.todo)) : Run(Head(wf.todo), result)
       \/ UNCHANGED effects
    /\ wf' = [wf EXCEPT !.pc = "error"]
    /\ UNCHANGED <<asked, answer, execution, row, started>>

(* Variant: a failing step ends the loop and leaves the status alone. *)
AfterUpdateKeepsStatus ==
    wf' = [wf EXCEPT
      !.pc = "step",
      !.todo = IF wf.result = "failed" THEN <<>> ELSE Tail(@),
      !.result = "none",
      !.attempt = 1]

(* The loop after the result is posted. *)
AfterUpdate ==
    LET policy == OnFailure(Head(wf.todo))
        ends == wf.result = "failed" /\ policy \in {"stop", "rollback"}
    IN wf' = [wf EXCEPT
         !.pc = "step",
         !.todo = IF ends THEN <<>> ELSE Tail(@),
         !.overall = CASE ends /\ policy = "stop" -> "failed"
                       [] ends /\ policy = "rollback" -> "rolled_back"
                       [] OTHER -> @,
         !.result = "none",
         !.attempt = 1]

(* update_step_status: the answer's code is not looked at, so a result the *)
(* API refuses is lost.                                                    *)
UpdateStepStatus ==
    /\ wf.pc = "update"
    /\ row' = [row EXCEPT ![Head(wf.todo)] = wf.result]
    /\ AfterUpdate
    /\ UNCHANGED <<asked, answer, execution, started, effects, faults>>

UpdateStepStatusRefused ==
    /\ wf.pc = "update"
    /\ Fault
    /\ AfterUpdate
    /\ UNCHANGED <<asked, answer, execution, row, started, effects>>

EndLoop ==
    /\ wf.pc = "step"
    /\ wf.todo = <<>>
    /\ wf' = [wf EXCEPT !.pc = "finalize"]
    /\ UNCHANGED <<asked, answer, execution, row, started, effects, faults>>

(* finalize_execution: as above.                                           *)
FinalizeExecution ==
    /\ wf.pc = "finalize"
    /\ execution' = wf.overall
    /\ wf' = [wf EXCEPT !.pc = "ended"]
    /\ UNCHANGED <<asked, answer, row, started, effects, faults>>

FinalizeExecutionRefused ==
    /\ wf.pc = "finalize"
    /\ Fault
    /\ wf' = [wf EXCEPT !.pc = "ended"]
    /\ UNCHANGED <<asked, answer, execution, row, started, effects>>

(* The next attempt, or the end of the workflow. *)
Retry ==
    wf' = IF wf.attempt < MaxAttempts
          THEN [wf EXCEPT !.attempt = @ + 1]
          ELSE [wf EXCEPT !.pc = "error"]

(* The API cannot be reached, or answers too late: the activity raises     *)
(* before or after its effect.                                             *)
ActivityRaises ==
    /\ wf.pc \in {"fetch", "update", "finalize"}
    /\ Fault
    /\ \/ UNCHANGED <<row, execution>>
       \/ /\ wf.pc = "update"
          /\ row' = [row EXCEPT ![Head(wf.todo)] = wf.result]
          /\ UNCHANGED execution
       \/ wf.pc = "finalize" /\ execution' = wf.overall /\ UNCHANGED row
    /\ Retry
    /\ UNCHANGED <<asked, answer, started, effects>>

-----------------------------------------------------------------------------
Requests ==
    [seq : Numberings, deps : Dependencies, step : Drafts]

Workflow ==
    \/ FetchExecutionPlan
    \/ SkipStep \/ ExecuteStep \/ EndLoop
    \/ UpdateStepStatus \/ FinalizeExecution

Next ==
    \/ answer = "none" /\ \E r \in Requests : CreateRunbook(r)
    \/ TriggerExecution
    \/ StartWorkflow
    \/ Workflow
    \/ ExecuteStepLost
    \/ UpdateStepStatusRefused \/ FinalizeExecutionRefused
    \/ ActivityRaises

Spec == Init /\ [][Next]_vars

-----------------------------------------------------------------------------
Outcomes == {"completed", "failed", "waiting_gate"}
Statuses == {"none", "pending"} \cup Outcomes

Workflows ==
    [pc : {"idle", "fetch", "step", "update", "finalize", "ended", "error"},
     plan : [Steps -> Statuses], told : SUBSET {"config", "on_failure"},
     todo : Seq(Steps),
     result : {"none"} \cup Outcomes,
     overall : {"none", "completed", "failed", "rolled_back"}, attempt : Nat]

(* The rows and the workflow's variables hold what is written there; there *)
(* is one history for each workflow that was started.                      *)
TypeOK ==
    /\ asked \in Requests \cup {NoRequest}
    /\ answer \in {"none", "created", "invalid", "refused"}
    /\ execution \in {"none", "pending", "completed", "failed", "rolled_back"}
    /\ row \in [Steps -> Statuses]
    /\ wf \in Workflows
    /\ started \in Nat
    /\ effects \in Seq([Steps -> Seq(Outcomes)]) /\ Len(effects) = started
    /\ faults \in Nat

(* Chains of steps each of which waits for the number of the one before.   *)
Chains(r) ==
    {c \in UNION {[1..n -> Steps] : n \in Steps} :
       \A k \in 1..(Len(c) - 1) : r.seq[c[k]] \in r.deps[c[k + 1]]}

(* The timeouts of the first k steps of a chain, added up.                 *)
ChainTimeout(c) ==
    LET sum[k \in 0..Len(c)] ==
          IF k = 0 THEN 0 ELSE sum[k - 1] + TimeoutOf[c[k]]
    IN sum

Numbered(r) == \A i, j \in Steps : r.seq[i] = r.seq[j] => i = j

(* resolve_execution_order against its promise.  It refuses a runbook just *)
(* when no order of the steps has every dependency of a step before it.    *)
(* The plan of any other one has every step in one wave, its dependencies  *)
(* in prior waves and one of them in the wave just before (no step waits   *)
(* longer than it must); and where numbers are not shared, the estimated   *)
(* duration is enough for every chain of dependencies.                     *)
PlanIsRight ==
    answer \in {"created", "refused"} /\ execution = "none" =>
      LET r == asked
          Before(o, i, d) == \E j \in Steps : r.seq[j] = d /\ o[j] < o[i]
          Orders == {o \in [Steps -> Steps] :
                       \A i \in Steps : \A d \in r.deps[i] : Before(o, i, d)}
      IN IF answer = "refused" THEN Orders = {}
         ELSE LET waveOf == [i \in Steps |->
                               CHOOSE k \in Steps : i \in Wave(r, k)]
              IN /\ waveOf \in Orders
                 /\ \A i \in Steps : waveOf[i] > 1 =>
                      \E d \in r.deps[i] : \A j \in Steps :
                        r.seq[j] = d => waveOf[j] >= waveOf[i] - 1
                 /\ Numbered(r) =>
                      \A c \in Chains(r) :
                        ChainTimeout(c)[Len(c)] <= EstimatedDuration(r)

(* No lost answer, retry or death of the worker makes one workflow run a   *)
(* step twice, or run on after a step has failed that the runbook does not *)
(* say to pass over: execute_step is not retried, "result is               *)
(* authoritative" (docs/phases/phase-12.md).  (With rows that lack         *)
(* on_failure, as get_execution_steps serves them, no failure is passed    *)
(* over.)                                                                  *)
StepRunsOnce ==
    \A w \in 1..started :
      /\ \A i \in Steps : Len(effects[w][i]) <= 1
      /\ \A i, j \in Steps :
           /\ effects[w][i] = <<"failed">>
           /\ asked.step[i].on_failure # "continue"
           /\ asked.seq[i] < asked.seq[j]
           => effects[w][j] = <<>>

(* Some workflow has run a step, and this was the result.                  *)
Ran(i, result) == \E w \in 1..started : effects[w][i] = <<result>>

Settled(i) ==
    \/ Ran(i, "completed")
    \/ Ran(i, "failed") /\ asked.step[i].on_failure = "continue"
    \/ Ran(i, "waiting_gate")

(* An execution is reported completed only if every step has been          *)
(* completed, by this workflow or an earlier one, or has failed and is to  *)
(* be passed over, or is a manual gate that was reached.  (That nobody has *)
(* approved of it is what GateHolds is about.)                             *)
CompletedIsEarned ==
    execution = "completed" => \A i \in Steps : Settled(i)

-----------------------------------------------------------------------------
(* What docs/phases/phase-12.md says of the steps                           *)

(* "manual_gate | Pause and wait for a human to approve before             *)
(* continuing."  No operation approves of a gate, so nothing that comes    *)
(* after one is run.                                                       *)
GateHolds ==
    \A w \in 1..started : \A i, j \in Steps :
        /\ effects[w][i] = <<"waiting_gate">>
        /\ asked.seq[i] < asked.seq[j]
        => effects[w][j] = <<>>
=============================================================================
