--------------------------- MODULE ReportDelivery ---------------------------
(***************************************************************************)
(* The appliance's report workflow                                         *)
(* (apps/appliance/src/workflows/report_schedule_workflow.py and           *)
(* services/delivery.py) with the API route it asks for the document       *)
(* (apps/api/src/routers/reports.py, generate_compliance_report).          *)
(*                                                                         *)
(* The workflow fetches its schedule and then runs one activity that has   *)
(* the report generated and sends it to every recipient.  Temporal starts  *)
(* the activity again when it raises or takes too long.  Nothing stops an  *)
(* attempt that took too long: it goes on beside the next one, but what it *)
(* returns is ignored.  An attempt whose worker died takes no more steps.  *)
(***************************************************************************)
EXTENDS Integers, Sequences, FiniteSets

CONSTANTS
    NRecipients,    \* recipients of the schedule
    ReportAttempts, \* RETRY.maximum_attempts
    ScheduleRoute,  \* the API answers GET /report-schedules/{id}
    MaxRuns         \* bound: test runs of the period

ASSUME ReportAssumption ==
    /\ NRecipients \in Nat
    /\ ReportAttempts \in Nat \ {0}
    /\ ScheduleRoute \in BOOLEAN
    /\ MaxRuns \in Nat

VARIABLES
    \* the tables of the API
    testRuns,   \* completed test runs of the period, in the order they ended
    records,    \* compliance_reports
    \* the workflow
    reportType, \* of the schedule
    stage,      \* where it is
    tries,      \* attempts of the current activity
    result,     \* the attempt whose result it returned, 0 before
    \* the attempts of generate_and_deliver_report
    step,       \* where an attempt is
    rows,       \* how many test runs its request read
    report_id,  \* the report it sends, 0 before
    recipient,  \* the recipient it is at
    success,    \* recipients it counts as served
    \* the outside
    inbox       \* copies that arrived

reportVars == <<testRuns, records, reportType, stage, tries, result,
                step, rows, report_id, recipient, success, inbox>>

Attempts   == 1..ReportAttempts
Recipients == 1..NRecipients

-----------------------------------------------------------------------------
(* What the document says of the runs in it *)

CompletedRun == [status : {"passed", "failed"}, rto : {"none", "within", "over"}]

(* A run without a measured RTO counts as compliant. *)
RtoCompliant(run) == run.rto # "over"

(* round(n / total * 100), halves to the even side; 0 without runs. *)
Percent(n, total) ==
    IF total = 0 THEN 0
    ELSE LET q == (100 * n) \div total
             r == (100 * n) % total
         IN  IF 2 * r > total \/ (2 * r = total /\ q % 2 = 1) THEN q + 1 ELSE q

PassRate(runs) ==
    Percent(Cardinality({i \in DOMAIN runs : runs[i].status = "passed"}), Len(runs))

RtoRate(runs) ==
    Percent(Cardinality({i \in DOMAIN runs : RtoCompliant(runs[i])}), Len(runs))

(* What each control of a framework is decided by. *)
FrameworkControls ==
    [soc2            |-> <<"pass_rate", "runs", "rto_rate">>,
     iso27001        |-> <<"runs", "pass_rate", "pass_rate", "rto_rate">>,
     nist_csf        |-> <<"runs", "pass_rate", "pass_rate", "always">>,
     monthly_summary |-> <<>>]

Passing(metric, runs) ==
    \/ metric = "pass_rate" /\ PassRate(runs) >= 80
    \/ metric = "rto_rate" /\ RtoRate(runs) >= 80
    \/ metric = "runs" /\ Len(runs) > 0
    \/ metric = "always"

ControlsPassing(type, runs) ==
    {i \in DOMAIN FrameworkControls[type] : Passing(FrameworkControls[type][i], runs)}

-----------------------------------------------------------------------------
ReportInit ==
    /\ testRuns = <<>>
    /\ records = <<>>
    /\ reportType \in DOMAIN FrameworkControls
    /\ stage = "idle"
    /\ tries = 0
    /\ result = 0
    /\ step = [a \in Attempts |-> "idle"]
    /\ rows = [a \in Attempts |-> 0]
    /\ report_id = [a \in Attempts |-> 0]
    /\ recipient = [a \in Attempts |-> 1]
    /\ success = [a \in Attempts |-> {}]
    /\ inbox = {}

(* A test run of the organisation is completed. *)
CompleteRun(run) ==
    /\ Len(testRuns) < MaxRuns
    /\ testRuns' = Append(testRuns, run)
    /\ UNCHANGED <<records, reportType, stage, tries, result, step, rows, report_id,
                   recipient, success, inbox>>

StartReport ==
    /\ stage = "idle"
    /\ stage' = "fetch_schedule_config"
    /\ tries' = 1
    /\ UNCHANGED <<testRuns, records, reportType, result, step, rows, report_id,
                   recipient, success, inbox>>

FetchScheduleConfig ==
    /\ stage = "fetch_schedule_config"
    /\ ScheduleRoute
    /\ stage' = "generate_and_deliver_report"
    /\ tries' = 1
    /\ step' = [step EXCEPT ![1] = "read"]
    /\ UNCHANGED <<testRuns, records, reportType, result, rows, report_id, recipient,
                   success, inbox>>

FetchFails ==
    /\ stage = "fetch_schedule_config"
    /\ IF tries < ReportAttempts
       THEN tries' = tries + 1 /\ UNCHANGED stage
       ELSE stage' = "failed" /\ UNCHANGED tries
    /\ UNCHANGED <<testRuns, records, reportType, result, step, rows, report_id,
                   recipient, success, inbox>>

(* The attempt a did not succeed: if Temporal waits for it, the next one   *)
(* starts or the workflow fails.                                           *)
NextAttempt(a, ended) ==
    /\ IF stage = "generate_and_deliver_report" /\ tries = a
       THEN IF a < ReportAttempts
            THEN /\ tries' = a + 1
                 /\ step' = [step EXCEPT ![a] = ended, ![a + 1] = "read"]
                 /\ UNCHANGED stage
            ELSE /\ stage' = "failed"
                 /\ step' = [step EXCEPT ![a] = ended]
                 /\ UNCHANGED tries
       ELSE /\ step' = [step EXCEPT ![a] = ended]
            /\ UNCHANGED <<stage, tries>>
    /\ UNCHANGED <<testRuns, reportType, result, rows, report_id, recipient, success,
                   inbox>>

(* The start_to_close_timeout of the attempt Temporal waits for. *)
ReportTimeout(a) ==
    /\ stage = "generate_and_deliver_report"
    /\ tries = a
    /\ NextAttempt(a, step[a])
    /\ UNCHANGED records

-----------------------------------------------------------------------------
(* POST /reports/compliance/generate *)

ReadRuns(a) ==
    /\ step[a] = "read"
    /\ rows' = [rows EXCEPT ![a] = Len(testRuns)]
    /\ step' = [step EXCEPT ![a] = "record"]
    /\ UNCHANGED <<testRuns, records, reportType, stage, tries, result, report_id,
                   recipient, success, inbox>>

Summary(a) ==
    LET runs == SubSeq(testRuns, 1, rows[a])
    IN  [total_runs       |-> Len(runs),
         controls_passing |-> ControlsPassing(reportType, runs)]

(* The rendering or the database fails, or the answer is lost after the    *)
(* commit: raise_for_status or the client raises.                          *)
GenerateFails(a) ==
    /\ step[a] \in {"read", "record"}
    /\ \/ UNCHANGED records
       \/ step[a] = "record" /\ records' = Append(records, Summary(a))
    /\ NextAttempt(a, "ended")

GenerateComplianceReport(a) ==
    /\ step[a] = "record"
    /\ records' = Append(records, Summary(a))
    /\ report_id' = [report_id EXCEPT ![a] = Len(records) + 1]
    /\ step' = [step EXCEPT ![a] = "deliver"]
    /\ UNCHANGED <<testRuns, reportType, stage, tries, result, rows, recipient,
                   success, inbox>>

-----------------------------------------------------------------------------
(* deliver_report, one recipient at a time *)

(* Variant: what went wrong is logged and the recipient counted as served. *)
DeliverCounted(a, arrives, raises) ==
    /\ step[a] = "deliver"
    /\ recipient[a] \in Recipients
    /\ arrives \/ raises
    /\ inbox' = IF arrives
                THEN inbox \cup {[to |-> recipient[a], by |-> a,
                                  report |-> report_id[a]]}
                ELSE inbox
    /\ success' = [success EXCEPT ![a] = @ \cup {recipient[a]}]
    /\ recipient' = [recipient EXCEPT ![a] = @ + 1]
    /\ UNCHANGED <<testRuns, records, reportType, stage, tries, result, step, rows,
                   report_id>>

(* An email or a webhook that raises may have arrived all the same. *)
Deliver(a, arrives, raises) ==
    /\ step[a] = "deliver"
    /\ recipient[a] \in Recipients
    /\ arrives \/ raises
    /\ inbox' = IF arrives
                THEN inbox \cup {[to |-> recipient[a], by |-> a,
                                  report |-> report_id[a]]}
                ELSE inbox
    /\ success' = [success EXCEPT ![a] = IF raises THEN @ ELSE @ \cup {recipient[a]}]
    /\ recipient' = [recipient EXCEPT ![a] = @ + 1]
    /\ UNCHANGED <<testRuns, records, reportType, stage, tries, result, step, rows,
                   report_id>>

(* The activity returns.  The workflow returns with it, if it still waits  *)
(* for this attempt.                                                       *)
ReturnReport(a) ==
    /\ step[a] = "deliver"
    /\ recipient[a] > NRecipients
    /\ step' = [step EXCEPT ![a] = "ended"]
    /\ IF stage = "generate_and_deliver_report" /\ tries = a
       THEN stage' = "returned" /\ result' = a
       ELSE UNCHANGED <<stage, result>>
    /\ UNCHANGED <<testRuns, records, reportType, tries, rows, report_id, recipient,
                   success, inbox>>

ReportNext ==
    \/ \E run \in CompletedRun : CompleteRun(run)
    \/ StartReport \/ FetchScheduleConfig \/ FetchFails
    \/ \E a \in Attempts :
          \/ ReportTimeout(a) \/ ReadRuns(a) \/ GenerateFails(a)
          \/ GenerateComplianceReport(a)
          \/ \E arrives, raises \in BOOLEAN : Deliver(a, arrives, raises)
          \/ ReturnReport(a)

ReportSpec == ReportInit /\ [][ReportNext]_reportVars

-----------------------------------------------------------------------------
(* The tables, the workflow and its attempts hold what is put there.       *)
ReportTypeOK ==
    /\ testRuns \in Seq(CompletedRun)
    /\ records \in Seq([total_runs : Nat, controls_passing : SUBSET Nat])
    /\ reportType \in DOMAIN FrameworkControls
    /\ stage \in {"idle", "fetch_schedule_config", "generate_and_deliver_report",
                  "returned", "failed"}
    /\ tries \in 0..ReportAttempts
    /\ result \in {0} \cup Attempts
    /\ step \in [Attempts -> {"idle", "read", "record", "deliver", "ended"}]
    /\ rows \in [Attempts -> 0..Len(testRuns)]
    /\ report_id \in [Attempts -> 0..Len(records)]
    /\ recipient \in [Attempts -> Nat]
    /\ success \in [Attempts -> SUBSET Recipients]
    /\ inbox \subseteq [to : Recipients, by : Attempts, report : Nat]

(* With attempts that overlap, fail after their commit or go on after they *)
(* were given up: every copy that arrived quotes a report on record, no    *)
(* two copies of a recipient quote the same one, a recipient the workflow  *)
(* says it served has the report the workflow returned, and no control     *)
(* that rests on tests is claimed for a period in which none was run.      *)
ReportIsHonest ==
    /\ \A c \in inbox : c.report \in DOMAIN records
    /\ \A c, d \in inbox : c.to = d.to /\ c.report = d.report => c = d
    /\ result # 0 =>
          \A r \in success[result] :
             \E c \in inbox : c.to = r /\ c.report = report_id[result]
    /\ \A i \in DOMAIN records :
          records[i].total_runs = 0 =>
             \A k \in records[i].controls_passing :
                FrameworkControls[reportType][k] = "always"

=============================================================================
