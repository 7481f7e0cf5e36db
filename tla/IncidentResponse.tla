-------------------------- MODULE IncidentResponse --------------------------
(***************************************************************************)
(* Threat scans and the incidents they open.  An appliance posts the       *)
(* findings of a scan (routers/threat_intel.py, submit_scan_result); the   *)
(* handler stores scan and findings in one transaction and then calls      *)
(* handle_threat_finding (services/incident_response.py) for every finding *)
(* of severity critical or high, one transaction each: it numbers the      *)
(* incident from the count of rows, tells the configured integrations and  *)
(* commits.  An exception is logged and the loop goes on with the next     *)
(* finding on the same session.                                            *)
(*                                                                         *)
(* Only the findings that open incidents are modelled.  Several requests   *)
(* run at once, of one API process or of two; a scan may be posted again;  *)
(* a request dies with its process; the database fails at any statement.   *)
(***************************************************************************)
EXTENDS Naturals, FiniteSets

CONSTANTS
    Requests,   \* handlers of POST /scans
    Scans,      \* scan ids
    Findings,   \* critical and high findings
    ScanOf,     \* the scan a finding belongs to
    Targets,    \* the integrations the organisation may configure
    MaxErrors   \* bound: database errors and crashes

ASSUME ScansAssumption ==
    /\ ScanOf \in [Findings -> Scans]
    /\ Targets \subseteq {"soar", "siem", "veeamone", "channels"}
    /\ MaxErrors \in Nat

VARIABLES
    \* the tables
    stored,     \* threat_scans, with their findings
    rows,       \* number of rows of threat_incidents
    opened,     \* rows of a finding
    number,     \* incident_number of the newest of them, 0 if there is none
    flagged,    \* its soar_dispatched, veeamone_reported, ... columns
    resolved,   \* its status is "resolved"
    \* the requests
    pc,         \* where a request is
    scan,       \* the scan it posts, as a set of at most one
    todo,       \* findings it has still to handle
    cur,        \* the finding it handles, as a set of at most one
    num,        \* the number of the incident being opened
    due,        \* integrations it has still to tell
    marks,      \* columns set on the uncommitted row
    broken,     \* its session refuses statements until a rollback
    \* the outside
    told,       \* what reached the integrations that answer
    \* history
    lost,       \* findings whose handler raised or died
    errors      \* errors so far

table   == <<stored, rows, opened, number, flagged, resolved>>
request == <<scan, todo, cur, num, due, marks, broken>>
vars    == <<table, pc, request, told, lost, errors>>

(* The integrations, in the order handle_threat_finding calls them. *)
Order == [soar |-> 1, siem |-> 2, veeamone |-> 3, channels |-> 4]

(***************************************************************************)
(* What a call comes to: whether the message arrives, and whether its      *)
(* column is set.  None of them raises.                                    *)
(***************************************************************************)
Outcome == [arrives : BOOLEAN, recorded : BOOLEAN]

(* Splunk SOAR and XSOAR answer with the id of what they created. *)
SoarOutcomes == {o \in Outcome : o.recorded => o.arrives}

(* A webhook is not called at all at an address that is not public, and    *)
(* acknowledges with a 2xx answer otherwise.                               *)
WebhookOutcomes == {o \in Outcome : o.recorded => o.arrives}

(* send_syslog is content once the bytes are handed over: a datagram may   *)
(* be lost after that, and a TCP connection fail after it delivered.       *)
SiemOutcomes == Outcome

(* report_threat_event logs in, posts, and after a 401 logs in and posts   *)
(* once more: a post that was answered 401 has left nothing, so at most    *)
(* one alarm is made, and a 2xx answer says that it is.                    *)
VeeamOneOutcomes == {o \in Outcome : o.recorded => o.arrives}

(* _send_incident_notifications swallows the failure of every channel.     *)
ChannelOutcomes == {o \in Outcome : o.recorded}

Outcomes(t) ==
    CASE t = "soar"     -> SoarOutcomes \cup WebhookOutcomes
      [] t = "siem"     -> SiemOutcomes
      [] t = "veeamone" -> VeeamOneOutcomes
      [] t = "channels" -> ChannelOutcomes

(* The integrations whose column is set from an answer of theirs. *)
Acknowledged == {"soar", "veeamone"}

(* _trigger_backup makes up the id of a job and starts none: its column is *)
(* always set.                                                             *)
TriggerBackup == {"backup"}

(* SOAR is given the incident number n, VeeamONE only the finding. *)
Quoted(t, n) == IF t = "soar" THEN n ELSE 0

FindingsOf(s) == {f \in Findings : ScanOf[f] = s}

(* The steps of a request that has stored its scan. *)
Handling == {"configs", "number", "dispatch", "commit"}

Init ==
    /\ stored = {}
    /\ rows = 0
    /\ opened = [f \in Findings |-> 0]
    /\ number = [f \in Findings |-> 0]
    /\ flagged = [f \in Findings |-> {}]
    /\ resolved = {}
    /\ pc = [r \in Requests |-> "idle"]
    /\ scan = [r \in Requests |-> {}]
    /\ todo = [r \in Requests |-> {}]
    /\ cur = [r \in Requests |-> {}]
    /\ num = [r \in Requests |-> 0]
    /\ due = [r \in Requests |-> {}]
    /\ marks = [r \in Requests |-> {}]
    /\ broken = [r \in Requests |-> FALSE]
    /\ told = {}
    /\ lost = {}
    /\ errors = 0

Error == errors < MaxErrors /\ errors' = errors + 1

(* handle_threat_finding returns or raises: its locals are gone, and the   *)
(* loop goes on.                                                           *)
EndHandler(r) ==
    /\ pc' = [pc EXCEPT ![r] = "configs"]
    /\ cur' = [cur EXCEPT ![r] = {}]
    /\ num' = [num EXCEPT ![r] = 0]
    /\ due' = [due EXCEPT ![r] = {}]
    /\ marks' = [marks EXCEPT ![r] = {}]

-----------------------------------------------------------------------------
(* submit_scan_result *)

Submit(r, s) ==
    /\ pc[r] = "idle"
    /\ pc' = [pc EXCEPT ![r] = "store"]
    /\ scan' = [scan EXCEPT ![r] = {s}]
    /\ UNCHANGED <<table, todo, cur, num, due, marks, broken, told, lost, errors>>

(* Variant: the scan_id column is not unique. *)
StoreScanAgain(r) ==
    /\ pc[r] = "store"
    /\ \E s \in scan[r] :
          /\ stored' = stored \cup {s}
          /\ todo' = [todo EXCEPT ![r] = FindingsOf(s)]
    /\ pc' = [pc EXCEPT ![r] = "configs"]
    /\ UNCHANGED <<rows, opened, number, flagged, resolved, scan, cur, num, due,
                   marks, broken, told, lost, errors>>

(* Insert the scan and its findings and commit. *)
StoreScan(r) ==
    /\ pc[r] = "store"
    /\ \E s \in scan[r] :
          /\ s \notin stored
          /\ stored' = stored \cup {s}
          /\ todo' = [todo EXCEPT ![r] = FindingsOf(s)]
    /\ pc' = [pc EXCEPT ![r] = "configs"]
    /\ UNCHANGED <<rows, opened, number, flagged, resolved, scan, cur, num, due,
                   marks, broken, told, lost, errors>>

(* The unique scan_id refuses a scan that is stored: the request fails.    *)
RefuseScan(r) ==
    /\ pc[r] = "store"
    /\ scan[r] \subseteq stored
    /\ pc' = [pc EXCEPT ![r] = "done"]
    /\ UNCHANGED <<table, request, told, lost, errors>>

(* The transaction fails, before its commit or after it. *)
StoreError(r) ==
    /\ pc[r] = "store"
    /\ Error
    /\ pc' = [pc EXCEPT ![r] = "done"]
    /\ \/ UNCHANGED <<stored, lost>>
       \/ \E s \in scan[r] : /\ s \notin stored
                             /\ stored' = stored \cup {s}
                             /\ lost' = lost \cup FindingsOf(s)
    /\ UNCHANGED <<rows, opened, number, flagged, resolved, request, told>>

(* The loop is over: the answer is sent. *)
Answer(r) ==
    /\ pc[r] = "configs"
    /\ todo[r] = {}
    /\ pc' = [pc EXCEPT ![r] = "done"]
    /\ UNCHANGED <<table, request, told, lost, errors>>

(* get_org_integration_configs for the next finding of the loop. *)
LoadConfigs(r, f, configured) ==
    /\ pc[r] = "configs"
    /\ ~broken[r]
    /\ f \in todo[r]
    /\ cur' = [cur EXCEPT ![r] = {f}]
    /\ todo' = [todo EXCEPT ![r] = @ \ {f}]
    /\ due' = [due EXCEPT ![r] = configured]
    /\ pc' = [pc EXCEPT ![r] = "number"]
    /\ UNCHANGED <<table, scan, num, marks, broken, told, lost, errors>>

(* Every statement of a session that waits for its rollback raises; the    *)
(* loop catches it and goes on, to the same for the next finding.          *)
SessionBroken(r, f) ==
    /\ pc[r] = "configs"
    /\ broken[r]
    /\ f \in todo[r]
    /\ todo' = [todo EXCEPT ![r] = @ \ {f}]
    /\ lost' = lost \cup {f}
    /\ UNCHANGED <<table, pc, scan, cur, num, due, marks, broken, told, errors>>

(* Variant: the try block is around the loop, not inside it. *)
LoadConfigsErrorEndsLoop(r, f) ==
    /\ pc[r] = "configs"
    /\ ~broken[r]
    /\ f \in todo[r]
    /\ Error
    /\ todo' = [todo EXCEPT ![r] = {}]
    /\ lost' = lost \cup {f}
    /\ UNCHANGED <<table, pc, scan, cur, num, due, marks, broken, told>>

(* The query fails, or a stored destination cannot be parsed: only the     *)
(* first leaves the session broken.                                        *)
LoadConfigsError(r, f) ==
    /\ pc[r] = "configs"
    /\ ~broken[r]
    /\ f \in todo[r]
    /\ Error
    /\ todo' = [todo EXCEPT ![r] = @ \ {f}]
    /\ lost' = lost \cup {f}
    /\ \E b \in BOOLEAN : broken' = [broken EXCEPT ![r] = b]
    /\ UNCHANGED <<table, pc, scan, cur, num, due, marks, told>>

-----------------------------------------------------------------------------
(* handle_threat_finding *)

(* Count the rows, number the incident and flush it.  The row is not       *)
(* visible to others until the commit.                                     *)
AssignNumber(r) ==
    /\ pc[r] = "number"
    /\ num' = [num EXCEPT ![r] = rows + 1]
    /\ marks' = [marks EXCEPT ![r] = TriggerBackup]
    /\ pc' = [pc EXCEPT ![r] = "dispatch"]
    /\ UNCHANGED <<table, scan, todo, cur, due, broken, told, lost, errors>>

AssignNumberError(r) ==
    /\ pc[r] = "number"
    /\ Error
    /\ broken' = [broken EXCEPT ![r] = TRUE]
    /\ lost' = lost \cup cur[r]
    /\ EndHandler(r)
    /\ UNCHANGED <<table, scan, todo, told>>

First(t, D) == t \in D /\ \A u \in D : Order[t] <= Order[u]

Reached(r, t, arrives) ==
    IF arrives /\ t \in Acknowledged
    THEN {<<t, f, Quoted(t, num[r])>> : f \in cur[r]} ELSE {}

(* Variant: the column is set before the call is made. *)
DispatchMarkedFirst(r, t, arrives, recorded) ==
    /\ pc[r] = "dispatch"
    /\ First(t, due[r])
    /\ due' = [due EXCEPT ![r] = @ \ {t}]
    /\ marks' = [marks EXCEPT ![r] = @ \cup {t}]
    /\ told' = told \cup Reached(r, t, arrives)
    /\ UNCHANGED <<table, pc, scan, todo, cur, num, broken, lost, errors>>

(* One best-effort call: it arrives or not, and its column is set or not.  *)
Dispatch(r, t, arrives, recorded) ==
    /\ pc[r] = "dispatch"
    /\ First(t, due[r])
    /\ [arrives |-> arrives, recorded |-> recorded] \in Outcomes(t)
    /\ due' = [due EXCEPT ![r] = @ \ {t}]
    /\ marks' = [marks EXCEPT ![r] = IF recorded THEN @ \cup {t} ELSE @]
    /\ told' = told \cup Reached(r, t, arrives)
    /\ UNCHANGED <<table, pc, scan, todo, cur, num, broken, lost, errors>>

Dispatched(r) ==
    /\ pc[r] = "dispatch"
    /\ due[r] = {}
    /\ pc' = [pc EXCEPT ![r] = "commit"]
    /\ UNCHANGED <<table, request, told, lost, errors>>

InsertIncident(r, f) ==
    /\ rows' = rows + 1
    /\ opened' = [opened EXCEPT ![f] = @ + 1]
    /\ number' = [number EXCEPT ![f] = num[r]]
    /\ flagged' = [flagged EXCEPT ![f] = marks[r]]
    /\ UNCHANGED <<stored, resolved>>

Commit(r) ==
    /\ pc[r] = "commit"
    /\ \E f \in cur[r] : InsertIncident(r, f)
    /\ EndHandler(r)
    /\ UNCHANGED <<scan, todo, broken, told, lost, errors>>

(* The commit raises, with or without its effect; whether the session can  *)
(* be used afterwards depends on where it failed.                          *)
CommitError(r) ==
    /\ pc[r] = "commit"
    /\ Error
    /\ \/ lost' = lost \cup cur[r] /\ UNCHANGED table
       \/ (\E f \in cur[r] : InsertIncident(r, f)) /\ UNCHANGED lost
    /\ \E b \in BOOLEAN : broken' = [broken EXCEPT ![r] = b]
    /\ EndHandler(r)
    /\ UNCHANGED <<scan, todo, told>>

-----------------------------------------------------------------------------
(* The process of the request dies. *)
Crash(r) ==
    /\ pc[r] \in Handling
    /\ Error
    /\ lost' = lost \cup todo[r] \cup cur[r]
    /\ todo' = [todo EXCEPT ![r] = {}]
    /\ cur' = [cur EXCEPT ![r] = {}]
    /\ num' = [num EXCEPT ![r] = 0]
    /\ due' = [due EXCEPT ![r] = {}]
    /\ marks' = [marks EXCEPT ![r] = {}]
    /\ pc' = [pc EXCEPT ![r] = "done"]
    /\ UNCHANGED <<table, scan, broken, told>>

(* PATCH /incidents/{id}/resolve *)
ResolveIncident(f) ==
    /\ opened[f] > 0
    /\ f \notin resolved
    /\ resolved' = resolved \cup {f}
    /\ UNCHANGED <<stored, rows, opened, number, flagged, pc, request, told, lost,
                   errors>>

Next ==
    \/ \E r \in Requests :
          \/ \E s \in Scans : Submit(r, s)
          \/ StoreScan(r) \/ RefuseScan(r) \/ StoreError(r) \/ Answer(r)
          \/ \E f \in Findings :
                \/ \E c \in SUBSET Targets : LoadConfigs(r, f, c)
                \/ SessionBroken(r, f)
                \/ LoadConfigsError(r, f)
          \/ AssignNumber(r) \/ AssignNumberError(r)
          \/ \E t \in Targets : \E a, m \in BOOLEAN : Dispatch(r, t, a, m)
          \/ Dispatched(r) \/ Commit(r) \/ CommitError(r)
          \/ Crash(r)
    \/ \E f \in Findings : ResolveIncident(f)

Spec == Init /\ [][Next]_vars

-----------------------------------------------------------------------------
(* The tables and the requests keep their shape. *)
TypeOK ==
    /\ stored \in SUBSET Scans
    /\ rows \in Nat
    /\ opened \in [Findings -> Nat]
    /\ number \in [Findings -> Nat]
    /\ flagged \in [Findings -> SUBSET (Targets \cup TriggerBackup)]
    /\ resolved \in SUBSET Findings
    /\ pc \in [Requests -> Handling \cup {"idle", "store", "done"}]
    /\ scan \in [Requests -> SUBSET Scans]
    /\ todo \in [Requests -> SUBSET Findings]
    /\ cur \in [Requests -> SUBSET Findings]
    /\ num \in [Requests -> Nat]
    /\ due \in [Requests -> SUBSET Targets]
    /\ marks \in [Requests -> SUBSET (Targets \cup TriggerBackup)]
    /\ broken \in [Requests -> BOOLEAN]
    /\ told \in SUBSET (Targets \X Findings \X Nat)
    /\ lost \in SUBSET Findings
    /\ errors \in 0..MaxErrors

(* However often a scan is posted, and whatever fails in between, a        *)
(* finding never has two incidents.                                        *)
OneIncident == \A f \in Findings : opened[f] <= 1

(* A stored finding has its incident, or a live request is going to open   *)
(* it, or an error hit the handler of that finding: a failure never makes  *)
(* the loop pass over the findings after it while the session is usable.   *)
NoFindingSkipped ==
    \A f \in Findings :
        ScanOf[f] \in stored =>
            \/ opened[f] > 0
            \/ f \in lost
            \/ \E r \in Requests : pc[r] \in Handling /\ f \in todo[r] \cup cur[r]

(* A row that says SOAR or VeeamONE was told is right, and SOAR was told   *)
(* the number the row has.                                                 *)
FlagsHonest ==
    \A f \in Findings : \A t \in flagged[f] \cap Acknowledged :
        <<t, f, Quoted(t, number[f])>> \in told

(* The number given to an incident is above every number in the table, so  *)
(* only incidents opened at the same time can share one.                   *)
FreshNumber ==
    [][\A r \in Requests : pc[r] = "number" /\ pc'[r] = "dispatch" =>
          \A f \in Findings : opened[f] > 0 => number[f] < num'[r]]_vars

-----------------------------------------------------------------------------
(* The inductive invariant of the proofs *)

(* What a request holds at each of its steps. *)
RequestOK ==
    \A r \in Requests :
        /\ pc[r] = "store" => \E s \in Scans : scan[r] = {s}
        /\ pc[r] \notin Handling => todo[r] = {}
        /\ pc[r] \in {"number", "dispatch", "commit"} =>
                \E f \in Findings : cur[r] = {f}
        /\ pc[r] \notin {"number", "dispatch", "commit"} => cur[r] = {}
        /\ pc[r] \notin {"dispatch", "commit"} => marks[r] = {}
        /\ cur[r] \cap todo[r] = {}

(* Findings a request is to handle are stored and have no incident yet,    *)
(* and no two requests hold the same one.                                  *)
Held(r) == todo[r] \cup cur[r]

HeldOK ==
    /\ \A r \in Requests : \A f \in Held(r) :
            ScanOf[f] \in stored /\ opened[f] = 0
    /\ \A r, q \in Requests : r # q => Held(r) \cap Held(q) = {}

UnstoredOK == \A f \in Findings : ScanOf[f] \notin stored => opened[f] = 0

NumbersOK ==
    /\ \A f \in Findings : number[f] <= rows
    /\ \A r \in Requests : num[r] <= rows + 1

MarksOK ==
    \A r \in Requests : \A f \in cur[r], t \in marks[r] \cap Acknowledged :
        <<t, f, Quoted(t, num[r])>> \in told

IndInv ==
    /\ TypeOK
    /\ RequestOK
    /\ HeldOK
    /\ UnstoredOK
    /\ NumbersOK
    /\ MarksOK
    /\ OneIncident
    /\ NoFindingSkipped
    /\ FlagsHonest

=============================================================================
