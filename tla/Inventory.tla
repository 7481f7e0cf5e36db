------------------------------ MODULE Inventory ------------------------------
(***************************************************************************)
(* Appliances and the workloads they discover.  An appliance registers     *)
(* when it starts (apps/appliance/src/main.py), and every recovery test    *)
(* first runs the activity sync_inventory: it lists the protected VMs of   *)
(* Veeam and posts the list to the API, which upserts one workload per VM  *)
(* in one transaction (services/appliance.py, accept_inventory_sync).      *)
(* Meanwhile users set targets on the rows (routers/workloads.py) and      *)
(* deregister appliances (routers/portal_appliances.py).                   *)
(*                                                                         *)
(* A request outlives the attempt that made it: when the attempt times out *)
(* the activity is tried again while the API still works on the first      *)
(* list, and two tests on one appliance post at the same time.  PostgreSQL *)
(* makes an upsert wait for a transaction that has written the same        *)
(* (appliance_id, veeam_object_id), and breaks a cycle of waits by         *)
(* aborting one of them.                                                   *)
(***************************************************************************)
EXTENDS Integers, FiniteSets

CONSTANTS
    Appliances,   \* appliances
    Orgs,         \* organisations an appliance may be configured for
    Runs,         \* recovery tests
    ApplianceOf,  \* the appliance a test runs on
    Objects,      \* Veeam objects
    Targets,      \* values users give to rto_target_mins and rpo_target_mins
    MaxAttempts,  \* maximum_attempts of the activity's retry policy
    MaxName,      \* bound: names an object has had
    MaxFaults     \* bound: crashes, lost answers, database errors

ASSUME InventoryAssumption ==
    /\ ApplianceOf \in [Runs -> Appliances]
    /\ IsFiniteSet(Objects)
    /\ MaxAttempts \in Nat \ {0}
    /\ MaxName \in Nat
    /\ MaxFaults \in Nat
    /\ 0 \notin Targets

VARIABLES
    veeam,      \* the name Veeam lists for an object, 0 before it is protected
    orgs,       \* rows of orgs
    appliance,  \* rows of appliances
    sync,       \* requests to /inventory/sync, by test and attempt
    attempt,    \* the activity's attempts so far, per test
    activity,   \* what its caller knows: "waiting", "done" or "failed"
    rows,       \* committed rows of workloads
    chosen,     \* history: the targets a user chose last
    faults

registry == <<orgs, appliance>>
vars == <<veeam, registry, sync, attempt, activity, rows, chosen, faults>>

Syncs     == Runs \X (1..MaxAttempts)
NoTargets == 0
Unsent    == [state |-> "unsent", list |-> [o \in Objects |-> 0],
              insert |-> {}, update |-> {}]

App(s)    == ApplianceOf[s[1]]
Listed(s) == {o \in Objects : sync[s].list[o] > 0}
Written(s) == sync[s].insert \cup sync[s].update

(* Objects of the appliance that a transaction under way has written. *)
Locked(a, s) ==
    UNION {Written(t) : t \in {u \in Syncs \ {s} :
                                 App(u) = a /\ sync[u].state = "open"}}

RowsOf(a, o) == {w \in rows : w.appliance = a /\ w.object = o}

(* The number the portal shows. *)
WorkloadCount(a) == Cardinality({w \in rows : w.appliance = a})

Init ==
    /\ veeam = [o \in Objects |-> 0]
    /\ orgs = {}
    /\ appliance = [a \in Appliances |-> [status |-> "absent", org |-> "none"]]
    /\ sync = [s \in Syncs |-> Unsent]
    /\ attempt = [r \in Runs |-> 0]
    /\ activity = [r \in Runs |-> "waiting"]
    /\ rows = {}
    /\ chosen = [a \in Appliances |-> [o \in Objects |-> NoTargets]]
    /\ faults = 0

Fault == faults < MaxFaults /\ faults' = faults + 1

-----------------------------------------------------------------------------
(* Registration *)

(* register_appliance: the appliance's row is added, or made active again; *)
(* a row keeps its org.                                                    *)
RegisterAppliance(row, g) ==
    [status |-> "active", org |-> IF row.status = "absent" THEN g ELSE row.org]

(* POST /register, which an appliance sends when it starts and which looks *)
(* up no appliance first.  The org is added if it is not there; of two     *)
(* registrations that both find none, the second one to insert it fails    *)
(* and leaves nothing.                                                     *)
Register(a, g) ==
    /\ appliance[a].status # "active"
    /\ orgs' = orgs \cup {g}
    /\ appliance' = [appliance EXCEPT ![a] = RegisterAppliance(@, g)]
    /\ UNCHANGED <<veeam, sync, attempt, activity, rows, chosen, faults>>

DeregisterAppliance(a) ==
    /\ appliance[a].status # "absent"
    /\ appliance' = [appliance EXCEPT ![a].status = "deregistered"]
    /\ UNCHANGED <<veeam, orgs, sync, attempt, activity, rows,
                   chosen, faults>>

-----------------------------------------------------------------------------
(* The activity *)

(* Veeam protects an object, or the VM is renamed. *)
Protect(o) ==
    /\ veeam[o] < MaxName
    /\ veeam' = [veeam EXCEPT ![o] = @ + 1]
    /\ UNCHANGED <<registry, sync, attempt, activity, rows, chosen, faults>>

(* An attempt of sync_inventory: list and post.  The first one is made     *)
(* when the test starts, the others when an attempt has failed.            *)
SyncInventory(r) ==
    /\ appliance[ApplianceOf[r]].status # "absent"
    /\ activity[r] = "waiting"
    /\ attempt[r] < MaxAttempts
    /\ attempt[r] > 0 => sync[<<r, attempt[r]>>].state \in {"lost", "aborted"}
    /\ attempt' = [attempt EXCEPT ![r] = @ + 1]
    /\ sync' = [sync EXCEPT ![<<r, attempt[r] + 1>>] =
                 [Unsent EXCEPT !.state = "posted", !.list = veeam]]
    /\ UNCHANGED <<veeam, registry, activity, rows, chosen, faults>>

(* The attempt times out; its request may still be handled. *)
Timeout(r) ==
    /\ activity[r] = "waiting"
    /\ attempt[r] \in 1..(MaxAttempts - 1)
    /\ sync[<<r, attempt[r]>>].state \in {"posted", "open"}
    /\ Fault
    /\ attempt' = [attempt EXCEPT ![r] = @ + 1]
    /\ sync' = [sync EXCEPT ![<<r, attempt[r] + 1>>] =
                 [Unsent EXCEPT !.state = "posted", !.list = veeam]]
    /\ UNCHANGED <<veeam, registry, activity, rows, chosen>>

(* The answer to the current attempt. *)
Answer(r) ==
    /\ activity[r] = "waiting"
    /\ attempt[r] > 0
    /\ LET state == sync[<<r, attempt[r]>>].state
       IN  activity' = [activity EXCEPT ![r] =
             CASE state = "committed" -> "done"
               [] state = "aborted" /\ attempt[r] = MaxAttempts -> "failed"
               [] OTHER -> @]
    /\ activity' # activity
    /\ UNCHANGED <<veeam, registry, sync, attempt, rows, chosen, faults>>

-----------------------------------------------------------------------------
(* The request *)

(* _verified_appliance: there is a row for the appliance named in the      *)
(* request.  A row that was deregistered is served like any other.         *)
Verified(a) == appliance[a].status # "absent"

(* Variant: a request waits until the appliance has no other one pending. *)
InventorySyncExclusive(s) ==
    /\ sync[s].state = "posted"
    /\ \A t \in Syncs \ {s} :
        App(t) = App(s) => sync[t].state \notin {"posted", "open"}
    /\ sync' = [sync EXCEPT ![s].state = "open"]
    /\ UNCHANGED <<veeam, registry, attempt, activity, rows, chosen, faults>>

InventorySync(s) ==
    /\ sync[s].state = "posted"
    /\ Verified(App(s))
    /\ sync' = [sync EXCEPT ![s].state = "open"]
    /\ UNCHANGED <<veeam, registry, attempt, activity, rows, chosen, faults>>

(* Variant: no unique index makes the insertion wait or conflict. *)
UpsertUnindexed(s, o) ==
    /\ sync[s].state = "open"
    /\ o \in Listed(s) \ Written(s)
    /\ sync' = IF RowsOf(App(s), o) = {}
               THEN [sync EXCEPT ![s].insert = @ \cup {o}]
               ELSE [sync EXCEPT ![s].update = @ \cup {o}]
    /\ UNCHANGED <<veeam, registry, attempt, activity, rows, chosen, faults>>

(* INSERT ... ON CONFLICT DO UPDATE of one VM.  Lists come in any order.   *)
Upsert(s, o) ==
    /\ sync[s].state = "open"
    /\ o \in Listed(s) \ Written(s)
    /\ o \notin Locked(App(s), s)
    /\ sync' = IF RowsOf(App(s), o) = {}
               THEN [sync EXCEPT ![s].insert = @ \cup {o}]
               ELSE [sync EXCEPT ![s].update = @ \cup {o}]
    /\ UNCHANGED <<veeam, registry, attempt, activity, rows, chosen, faults>>

NewRow(s, o) == [appliance |-> App(s), object |-> o, id |-> s,
                 name |-> sync[s].list[o], targets |-> NoTargets]

(* Variant: a conflict replaces the row. *)
UpdatedRowWhole(s, w) ==
    IF w.appliance = App(s) /\ w.object \in sync[s].update
    THEN [w EXCEPT !.name = sync[s].list[w.object], !.targets = NoTargets]
    ELSE w

(* A conflict changes the name; is_protected and last_backup_at are always *)
(* True and None in what the activity posts.                               *)
UpdatedRow(s, w) ==
    IF w.appliance = App(s) /\ w.object \in sync[s].update
    THEN [w EXCEPT !.name = sync[s].list[w.object]] ELSE w

(* Variant: a list is committed although some VM was not reached. *)
CommitEarly(s) ==
    /\ sync[s].state = "open"
    /\ sync' = [sync EXCEPT ![s].state = "committed",
                            ![s].insert = {}, ![s].update = {}]
    /\ rows' = {UpdatedRow(s, w) : w \in rows}
                 \cup {NewRow(s, o) : o \in sync[s].insert}
    /\ UNCHANGED <<veeam, registry, attempt, activity, chosen, faults>>

Commit(s) ==
    /\ sync[s].state = "open"
    /\ Written(s) = Listed(s)
    /\ sync' = [sync EXCEPT ![s].state = "committed",
                            ![s].insert = {}, ![s].update = {}]
    /\ rows' = {UpdatedRow(s, w) : w \in rows}
                 \cup {NewRow(s, o) : o \in sync[s].insert}
    /\ UNCHANGED <<veeam, registry, attempt, activity, chosen, faults>>

Abort(s) == sync' = [sync EXCEPT ![s].state = "aborted",
                                 ![s].insert = {}, ![s].update = {}]

(* Two transactions that have each written an object the other one still   *)
(* has to write may wait for each other: PostgreSQL aborts one.            *)
Deadlock(s) ==
    /\ sync[s].state = "open"
    /\ \E t \in Syncs :
        /\ t # s /\ App(t) = App(s) /\ sync[t].state = "open"
        /\ Written(s) \cap (Listed(t) \ Written(t)) # {}
        /\ Written(t) \cap (Listed(s) \ Written(s)) # {}
    /\ Abort(s)
    /\ UNCHANGED <<veeam, registry, attempt, activity, rows, chosen, faults>>

(* The connection, the database or the API process fails. *)
RequestFails(s) ==
    /\ sync[s].state \in {"posted", "open"}
    /\ Fault
    /\ Abort(s)
    /\ UNCHANGED <<veeam, registry, attempt, activity, rows, chosen>>

(* The transaction commits but its answer does not arrive. *)
AnswerLost(s) ==
    /\ sync[s].state = "committed"
    /\ activity[s[1]] = "waiting"
    /\ attempt[s[1]] = s[2]
    /\ s[2] < MaxAttempts
    /\ Fault
    /\ sync' = [sync EXCEPT ![s].state = "lost"]
    /\ UNCHANGED <<veeam, registry, attempt, activity, rows, chosen>>

-----------------------------------------------------------------------------
(* The user *)

(* The update waits for a transaction that has written the row. *)
SetTargets(a, o, t) ==
    /\ RowsOf(a, o) # {}
    /\ o \notin Locked(a, <<>>)
    /\ chosen[a][o] # t
    /\ rows' = {IF w \in RowsOf(a, o) THEN [w EXCEPT !.targets = t] ELSE w :
                  w \in rows}
    /\ chosen' = [chosen EXCEPT ![a][o] = t]
    /\ UNCHANGED <<veeam, registry, sync, attempt, activity, faults>>

-----------------------------------------------------------------------------
Next ==
    \/ \E a \in Appliances :
        \/ \E g \in Orgs : Register(a, g)
        \/ DeregisterAppliance(a)
        \/ \E o \in Objects, t \in Targets : SetTargets(a, o, t)
    \/ \E o \in Objects : Protect(o)
    \/ \E r \in Runs : SyncInventory(r) \/ Timeout(r) \/ Answer(r)
    \/ \E s \in Syncs :
        \/ InventorySync(s)
        \/ \E o \in Objects : Upsert(s, o)
        \/ Commit(s)
        \/ Deadlock(s)
        \/ RequestFails(s)
        \/ AnswerLost(s)

(* The API goes on with the requests it has, the database with its         *)
(* transactions, and the worker with its activities.                       *)
Fairness ==
    /\ \A s \in Syncs :
        WF_vars(InventorySync(s) \/ (\E o \in Objects : Upsert(s, o))
                  \/ Commit(s) \/ Deadlock(s))
    /\ \A r \in Runs : WF_vars(SyncInventory(r) \/ Answer(r))

Spec == Init /\ [][Next]_vars /\ Fairness

-----------------------------------------------------------------------------
Requests ==
    [state : {"unsent", "posted", "open", "committed", "aborted", "lost"},
     list : [Objects -> Nat], insert : SUBSET Objects, update : SUBSET Objects]

Workloads ==
    [appliance : Appliances, object : Objects, id : Syncs, name : Nat,
     targets : Targets \cup {NoTargets}]

(* The tables and the requests hold what the handlers put there.           *)
TypeOK ==
    /\ veeam \in [Objects -> Nat]
    /\ orgs \subseteq Orgs
    /\ appliance \in [Appliances -> [status : {"absent", "active", "deregistered"},
                                     org : Orgs \cup {"none"}]]
    /\ sync \in [Syncs -> Requests]
    /\ attempt \in [Runs -> 0..MaxAttempts]
    /\ activity \in [Runs -> {"waiting", "done", "failed"}]
    /\ rows \subseteq Workloads
    /\ chosen \in [Appliances -> [Objects -> Targets \cup {NoTargets}]]
    /\ faults \in Nat

(* However many lists are posted, retried or handled side by side, the     *)
(* workloads the portal counts for an appliance are its Veeam objects, one *)
(* each: accept_inventory_sync never adds a second row for an object.      *)
OneRowPerObject ==
    \A a \in Appliances :
        WorkloadCount(a) = Cardinality({o \in Objects : RowsOf(a, o) # {}})

(* A list is taken as a whole: what the API answered for has a row for     *)
(* each of its VMs, and a list that failed has added none, although its    *)
(* first VMs were written before the failure.                              *)
SyncIsAtomic ==
    /\ \A s \in Syncs : sync[s].state \in {"committed", "lost"} =>
         \A o \in Listed(s) : RowsOf(App(s), o) # {}
    /\ \A w \in rows : sync[w.id].state \in {"committed", "lost"}

(* A sync that began before a user set the targets of a workload, or that  *)
(* comes after, leaves them as the user chose.                             *)
TargetsKept ==
    \A w \in rows : w.targets = chosen[w.appliance][w.object]

(* Every activity that was started ends, although lists lock the same rows *)
(* in different orders.                                                    *)
SyncEnds ==
    \A r \in Runs : attempt[r] > 0 ~> activity[r] # "waiting"
=============================================================================
