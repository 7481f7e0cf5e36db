----------------------------- MODULE MCRunbooks -----------------------------
(* The two workflows of the appliance beside the recovery test, for TLC.    *)
(* Runbooks: three steps, numbered in order, out of order or with a number  *)
(* twice.  ReportDelivery: two recipients, two attempts.                    *)
EXTENDS Runbooks, ReportDelivery

MCNumberings == {<<1, 2, 3>>, <<2, 3, 1>>, <<1, 2, 1>>}

(* Every set of dependencies on the steps and on one that is not there; for *)
(* the executions, none, some and a circle.                                 *)
MCDependencies   == [1..3 -> SUBSET (1..4)]
MCFewDependencies == {<<{}, {}, {}>>, <<{}, {1}, {1, 2}>>, <<{2}, {1}, {}>>}

Step(t, f) == [type |-> t, on_failure |-> f]

(* With these steps a runbook may have any dependencies (see MCNext).       *)
MCChecks == {<<Step("health_check", "stop"), Step("health_check", "stop"),
               Step("health_check", "stop")>>}

(* With a type and a failure policy the API does not know.                  *)
MCDrafts ==
    {<<Step("notify", "stop"), Step("manual_gate", "stop"),
       Step("wait", "continue")>>,
     <<Step("manual_gate", "stop"), Step("recover_workload", "continue"),
       Step("health_check", "stop")>>,
     <<Step("wait", "rollback"), Step("run_script", "rollback"),
       Step("recover_workload", "stop")>>,
     <<Step("recover_workload", "continue"), Step("run_script", "continue"),
       Step("health_check", "stop")>>,
     <<Step("wait", "stop"), Step("reboot", "stop"), Step("wait", "stop")>>,
     <<Step("wait", "stop"), Step("wait", "retry"), Step("wait", "stop")>>}
        \cup MCChecks

(* What get_execution_steps serves, and what the workflow asks for.         *)
MCTells == {{}, {"config", "on_failure"}}
MCTellsHere == {{}}

MCTimeoutOf == <<1, 2, 4>>

(* The workflows share no state: a behaviour is of the one or of the other. *)
MCInit == Init /\ ReportInit

MCNext ==
    \/ /\ stage = "idle" /\ testRuns = <<>> /\ reportType = "soc2"
       /\ Next /\ UNCHANGED reportVars
       /\ asked'.step \notin MCChecks => asked'.deps \in MCFewDependencies
    \/ Init /\ ReportNext /\ UNCHANGED vars

MCSpec == MCInit /\ [][MCNext]_<<vars, reportVars>>
=============================================================================
