------------------------------ MODULE Connectors ------------------------------
(***************************************************************************)
(* The provider clients of apps/appliance/src/connectors other than Veeam   *)
(* and vCenter: AWS Backup, Azure Backup, Google Compute Engine, Hyper-V,   *)
(* Nutanix, Proxmox, RHV, Sangfor and XenServer.                            *)
(*                                                                         *)
(* They share one shape.  connect() obtains a handle.  Every other          *)
(* operation refuses without a handle and otherwise makes a fixed sequence  *)
(* of remote calls inside one try block: it answers success after the last, *)
(* and failure ("", None, False, [] or an error job) when any of them       *)
(* raises.  A call may raise before its effect or after it (its answer is   *)
(* lost).  Nothing is undone.  Many calls only start a task at the provider *)
(* that ends later, with its effect or without, and no client waits for it. *)
(*                                                                         *)
(* One client serves one caller, which calls operations in any order and    *)
(* can only pass identifiers it chose itself or was told.                   *)
(***************************************************************************)
EXTENDS Integers, Sequences, FiniteSets, SequencesExt

CONSTANTS
    Providers,  \* the providers whose client is examined
    MaxOps,     \* bound: operations called
    MaxRes      \* bound: resources the provider creates

ProviderNames == {"aws", "azure", "gcp", "hyperv", "nutanix", "proxmox", "rhv",
                  "sangfor", "xenserver"}

ASSUME ConnectorsAssumption ==
    /\ Providers \subseteq ProviderNames
    /\ MaxOps \in Nat /\ MaxRes \in Nat

VARIABLES
    \* the client
    prov,       \* which client it is
    lib,        \* its optional library can be imported
    handle,     \* _backup_client, _wmi, _client, _proxmox, _conn or _session is set
    op,         \* the operation being executed, or the last one
    rest,       \* the remote calls it has still to make
    arg,        \* the resource it was called with, 0 for the protected VM's own
                \* recovery point
    got,        \* the resource its calls have created, 0 for none
    left,       \* delete_switch: the switches found and not yet tried
    answer,     \* what it answered, "none" while it is being executed
    \* the caller
    ops,        \* number of operations called
    failed,     \* number of failures answered
    restores,   \* number of restores into a new VM answered with success
    told,       \* resources whose identifier the caller has
    traced,     \* AWS: restored VMs whose job's identifier it has
    \* the provider
    res,        \* its resources, those a task is still making included
    disk,       \* the protected VM's disk
    power,      \* the protected VM runs
    job,        \* AWS: the VM of the restore job recorded under the token
    tasks,      \* the tasks it has not ended, each with the number of the
                \* operation that started it
    aborted     \* (history) operations a task of which ended without effect

clientVars == <<prov, lib, handle, op, rest, arg, got, left, answer>>
caller == <<ops, failed, restores, told, traced>>
remote == <<res, disk, power, job, tasks, aborted>>
connectorVars == <<clientVars, caller, remote>>

Ids == 1 .. MaxRes
Live(i) == res[i] \in {"snap", "vm", "switch"}
Fresh == {i \in Ids : res[i] = "free"}

Creations == {"snap", "clone", "switch"}
Making == {t.on : t \in {u \in tasks : u.call \in Creations}}
OfKind(k) == {i \in Ids \ Making : res[i] = k}

(***************************************************************************)
(* The remote calls of every operation.  A call is named for its effect:    *)
(* "read" has none, "snaps" and "vms" list, "job" asks after a restore,     *)
(* "snap", "clone" and "switch" create, "roll", "preview" and "commit"      *)
(* change the protected VM's disk.                                          *)
(***************************************************************************)
AwsCalls ==
    [list_vaults |-> <<"read">>, list_recovery_points |-> <<"read">>,
     start_restore_job |-> <<"clone">>, get_restore_job_status |-> <<"job">>,
     check_ec2_health |-> <<"read">>, terminate_instance |-> <<"kill">>]

AzureCalls ==
    [list_protected_vms |-> <<"read">>, list_recovery_points |-> <<"read">>,
     restore_vm |-> <<"clone">>, get_job_status |-> <<"read">>]

GcpCalls ==
    [list_instances |-> <<"vms">>, list_snapshots |-> <<"snaps">>,
     create_snapshot |-> <<"snap">>,
     restore_instance_from_snapshot |-> <<"clone">>,
     get_operation_status |-> <<"read">>, check_instance_health |-> <<"read">>,
     delete_instance |-> <<"kill">>]

HypervCalls ==
    [list_vms |-> <<"read">>, get_vm_checkpoints |-> <<"snaps">>,
     create_checkpoint |-> <<"read", "read", "snap">>,
     restore_vm_from_checkpoint |-> <<"read", "read", "roll">>,
     create_internal_switch |-> <<"read", "read", "switch">>,
     delete_switch |-> <<"read", "find", "unswitch">>,
     get_vm_health |-> <<"read">>]

NutanixCalls ==
    [list_vms |-> <<"vms">>, list_recovery_points |-> <<"snaps">>,
     create_recovery_point |-> <<"snap">>, restore_vm |-> <<"clone">>,
     get_task_status |-> <<"read">>, get_vm_health |-> <<"read">>]

ProxmoxCalls ==
    [list_vms |-> <<"read">>, get_vm_snapshots |-> <<"snaps">>,
     create_snapshot |-> <<"snap">>, restore_vm_from_snapshot |-> <<"roll">>,
     list_backup_jobs |-> <<"read">>, get_vm_health |-> <<"read">>,
     delete_snapshot |-> <<"drop">>]

RhvCallsNoCommit ==
    [stop_vm |-> <<"stop">>, restore_vm_from_snapshot |-> <<"preview">>]

RhvCalls ==
    [list_vms |-> <<"read">>, get_vm_snapshots |-> <<"snaps">>,
     create_snapshot |-> <<"snap">>,
     restore_vm_from_snapshot |-> <<"preview", "commit">>,
     get_vm_health |-> <<"read">>, list_vm_disks |-> <<"read">>,
     start_vm |-> <<"start">>, stop_vm |-> <<"stop">>]

SangforCalls ==
    [list_vms |-> <<"read">>, get_vm_snapshots |-> <<"snaps">>,
     create_snapshot |-> <<"snap">>, restore_vm_from_snapshot |-> <<"roll">>,
     get_task_status |-> <<"read">>, get_vm_health |-> <<"read">>]

XenCalls ==
    [list_vms |-> <<"vms">>, get_vm_snapshots |-> <<"read", "read", "snaps">>,
     create_snapshot |-> <<"read", "snap", "read">>,
     restore_vm_from_snapshot |-> <<"read", "clone", "read">>,
     get_task_status |-> <<"read", "read">>, get_vm_health |-> <<"read", "read">>,
     delete_snapshot |-> <<"read", "drop">>]

Calls == [aws |-> AwsCalls, azure |-> AzureCalls, gcp |-> GcpCalls,
          hyperv |-> HypervCalls, nutanix |-> NutanixCalls,
          proxmox |-> ProxmoxCalls, rhv |-> RhvCalls, sangfor |-> SangforCalls,
          xenserver |-> XenCalls]

\* External: the calls a provider carries out as a task.  Calls of XenAPI and
\* actions of oVirt return when they are done; for Hyper-V see NonZero.
Tasked == [aws |-> {"clone", "kill"}, azure |-> {"clone"},
           gcp |-> {"snap", "clone", "kill"}, hyperv |-> {},
           nutanix |-> {"snap", "clone"}, proxmox |-> {"snap", "roll", "drop"},
           rhv |-> {}, sangfor |-> {"roll"}, xenserver |-> {}]

\* Snapshots of Proxmox and GCE, instances of GCE and switches of Hyper-V are
\* called by a name the caller chooses.
Named(k) == \/ prov = "gcp" /\ k \in {"snap", "vm"}
            \/ prov = "proxmox" /\ k = "snap"
            \/ prov = "hyperv" /\ k = "switch"

\* The resources the caller can speak of.
Known == told \cup {i \in Ids : Named(res[i])}

\* What an operation can be called with: something it deletes, or the recovery
\* point it restores.
Arguments(calls) ==
    LET has(c) == c \in ToSet(calls)
        knows(k) == {i \in Known : res[i] \in {k, "gone"}}
    IN  CASE has("job") -> traced
          [] has("kill") -> knows("vm")
          [] has("drop") -> knows("snap")
          [] \E c \in {"roll", "preview", "clone"} : has(c) -> {0} \cup knows("snap")
          [] OTHER -> {0}

Idle == answer # "none"

-----------------------------------------------------------------------------
(***************************************************************************)
(* connect().                                                               *)
(***************************************************************************)
Reply(a) ==
    /\ answer' = a
    /\ failed' = failed + (IF a = "failed" THEN 1 ELSE 0)

StartConnect ==
    /\ Idle /\ ops < MaxOps
    /\ ops' = ops + 1
    /\ op' = "connect" /\ rest' = <<>> /\ arg' = 0 /\ got' = 0 /\ left' = {}
    /\ UNCHANGED <<prov, lib, restores, told, traced, remote>>

\* The import of the optional library fails: nothing is touched.
ConnectUnavailable ==
    /\ ~lib /\ StartConnect /\ Reply("failed")
    /\ UNCHANGED handle

ConnectSucceeds ==
    /\ lib /\ StartConnect /\ Reply("ok")
    /\ handle' = TRUE

\* What an exception inside connect() leaves in the handle.  AWS sets its clients
\* before it probes the service and GCE one before the other, and they keep what
\* is set; Nutanix and Sangfor close and clear theirs; the others assign only
\* after everything succeeded.
HandleKept == {handle, TRUE}
HandleCleared == {FALSE}
HandleUntouched == {handle}

HandleAfterException ==
    CASE prov \in {"aws", "gcp"} -> HandleKept
      [] prov \in {"nutanix", "sangfor"} -> HandleCleared
      [] OTHER -> HandleUntouched

ConnectRaises ==
    /\ lib /\ StartConnect /\ Reply("failed")
    /\ handle' \in HandleAfterException

\* Sangfor answers the login without a token: the client keeps its handle.
ConnectWithoutToken ==
    /\ prov = "sangfor" /\ StartConnect /\ Reply("failed")
    /\ handle' = TRUE

-----------------------------------------------------------------------------
(***************************************************************************)
(* The other operations.                                                    *)
(***************************************************************************)
\* Without a handle an operation answers failure and makes no call.
RefuseOp(o) ==
    /\ Idle /\ ops < MaxOps /\ ~handle
    /\ ops' = ops + 1
    /\ op' = o /\ rest' = <<>> /\ arg' = 0 /\ got' = 0 /\ left' = {}
    /\ Reply("failed")
    /\ UNCHANGED <<prov, lib, handle, restores, told, traced, remote>>

StartOp(o) ==
    /\ Idle /\ ops < MaxOps /\ handle
    /\ ops' = ops + 1
    /\ op' = o /\ rest' = Calls[prov][o] /\ got' = 0 /\ left' = {}
    /\ arg' \in Arguments(Calls[prov][o])
    /\ answer' = "none"
    /\ UNCHANGED <<prov, lib, handle, failed, restores, told, traced, remote>>

\* External: the provider still has the recovery point to restore.
HasPoint(i) == i \in {0} \cup OfKind("snap")

\* External: GCE and Proxmox refuse a second resource of one name.
NameTaken(k) ==
    prov \in {"gcp", "proxmox"} /\ Named(k) /\ \E i \in Ids : res[i] = k

\* External: a resource of kind k appears at the provider.
Create(k, i) ==
    /\ i \in Fresh /\ ~NameTaken(k)
    /\ res' = [res EXCEPT ![i] = k]
    /\ got' = i

\* External: a resource is deleted if it is there.
Delete(i) ==
    /\ i \in Ids \ Making /\ Live(i)
    /\ res' = [res EXCEPT ![i] = "gone"]

\* External: the provider starts a task.
Start(c, i) == tasks' = tasks \cup {[call |-> c, on |-> i, by |-> ops]}

\* External: a new resource is there at once, or when its task has ended.
Provide(c, i) == IF c \in Tasked[prov] THEN Start(c, i) ELSE UNCHANGED tasks

RepeatedTokenEachCallNew == FALSE

\* start_restore_job passes an idempotency token made from the recovery point.
\* External: AWS answers a repeated token with the job it recorded, and does
\* nothing else.
RepeatedToken == prov = "aws" /\ job # 0

Clone ==
    /\ HasPoint(arg)
    /\ IF RepeatedToken
       THEN got' = job /\ UNCHANGED <<res, job, tasks>>
       ELSE \E i \in Fresh : /\ Create("vm", i) /\ Provide("clone", i)
                             /\ job' = IF prov = "aws" THEN i ELSE job

Reads == {"read", "find", "snaps", "vms", "job"}

\* External: the effect of the next call.  oVirt previews a snapshot only of a VM
\* that is down and not in preview, and commits only a preview.
Effect ==
    LET c == Head(rest)
        now == c \notin Tasked[prov] /\ UNCHANGED tasks
    IN
    \/ /\ c \in Reads
       /\ UNCHANGED <<res, got, disk, power, job, tasks>>
    \/ /\ c \in {"snap", "switch"}
       /\ \E i \in Fresh : Create(c, i) /\ Provide(c, i)
       /\ UNCHANGED <<disk, power, job>>
    \/ /\ c = "clone" /\ Clone
       /\ UNCHANGED <<disk, power>>
    \/ /\ c \in {"kill", "drop"} /\ now /\ Delete(arg)
       /\ UNCHANGED <<got, disk, power, job>>
    \/ /\ c = "unswitch" /\ now
       /\ \E i \in left : Delete(i) /\ got' = i
       /\ UNCHANGED <<disk, power, job>>
    \/ /\ now
       /\ \/ c = "roll" /\ HasPoint(arg) /\ disk' = "restored"
          \/ c = "preview" /\ HasPoint(arg) /\ disk # "preview" /\ ~power
             /\ disk' = "preview"
          \/ c = "commit" /\ disk = "preview" /\ disk' = "restored"
       /\ UNCHANGED <<res, got, power, job>>
    \/ /\ c \in {"start", "stop"} /\ now
       /\ power' = (c = "start")
       /\ UNCHANGED <<res, got, disk, job>>
    \/ /\ c \in {"kill", "drop", "roll"} \cap Tasked[prov]
       /\ Start(c, arg)
       /\ UNCHANGED <<res, got, disk, power, job>>

ReturnedNothing == {}

\* The identifiers a successful operation returns: of everything it listed, of
\* the VM AWS says a restore has made, or of what it created.  AWS, Azure, GCE
\* and Proxmox answer a change with the name of a job, operation or task only,
\* and so does Nutanix a restore (vm_uuid="").
Returned ==
    CASE Head(rest) = "snaps" -> OfKind("snap")
      [] Head(rest) = "vms" -> OfKind("vm")
      [] Head(rest) = "job" -> {arg} \cap OfKind("vm")
      [] prov \in {"aws", "azure", "gcp", "proxmox"} -> {}
      [] prov = "nutanix" /\ Head(rest) = "clone" -> {}
      [] OTHER -> {got'} \ {0}

\* A call returns.  After the last one the operation answers success.
CallReturns ==
    /\ ~Idle /\ Effect
    /\ rest' = Tail(rest)
    /\ left' = IF Head(rest) = "find" THEN OfKind("switch") ELSE left
    /\ IF Tail(rest) = <<>>
       THEN /\ Reply("ok") /\ told' = told \cup Returned
            /\ IF "clone" \in ToSet(Calls[prov][op])
               THEN /\ restores' = restores + 1
                    /\ traced' = IF prov = "aws" THEN traced \cup {got'} ELSE traced
               ELSE UNCHANGED <<restores, traced>>
       ELSE UNCHANGED <<answer, failed, restores, told, traced>>
    /\ UNCHANGED <<prov, lib, handle, op, arg, ops, aborted>>

\* The except clause of an operation.
Fail ==
    /\ Reply("failed")
    /\ rest' = <<>> /\ left' = {}
    /\ UNCHANGED <<prov, lib, handle, op, arg, ops, restores, told, traced, aborted>>

\* A call raises although its effect took place (or, for a creation, returns a
\* body without the identifier): the operation answers failure.
CallRaisesLate ==
    /\ ~Idle /\ Head(rest) \notin Reads
    /\ Effect /\ Fail

\* A call raises before its effect.
CallRaises ==
    /\ ~Idle /\ Fail
    /\ UNCHANGED <<got, res, disk, power, job, tasks>>

(***************************************************************************)
(* Hyper-V answers a change with a result code.  Only 0 is success to the   *)
(* client.  4096 means that a task was started: failure is answered, and    *)
(* the task ends on its own, later.                                         *)
(***************************************************************************)

\* CreateSnapshot, ApplySnapshot or DefineSystem started a task.  Other codes mean
\* that nothing was done, which CallRaises covers.
NonZero ==
    /\ ~Idle /\ prov = "hyperv" /\ Fail
    /\ \/ /\ Head(rest) \in {"snap", "switch"}
          /\ \E i \in Fresh : Create(Head(rest), i) /\ Start(Head(rest), i)
       \/ /\ Head(rest) = "roll" /\ Start("roll", arg)
          /\ UNCHANGED <<got, res>>
    /\ UNCHANGED <<disk, power, job>>

\* delete_switch: DestroySystem returns another code, started a task or not, and
\* the loop goes on with the next switch.
NextSwitch(i) ==
    /\ ~Idle /\ Head(rest) = "unswitch" /\ left # {i}
    /\ left' = left \ {i}
    /\ Start("unswitch", i) \/ UNCHANGED tasks
    /\ UNCHANGED <<prov, lib, handle, op, rest, arg, got, answer, caller, res,
                   disk, power, job, aborted>>

\* It has tried the last switch, which started a task (without one, CallRaises).
LastSwitch(i) ==
    /\ ~Idle /\ Head(rest) = "unswitch" /\ left = {i}
    /\ Fail
    /\ Start("unswitch", i)
    /\ UNCHANGED <<got, res, disk, power, job>>

\* External: a task ends with its effect.
TaskSucceeds(t) ==
    /\ tasks' = tasks \ {t}
    /\ \/ /\ t.call \in Creations
          /\ UNCHANGED <<res, disk>>
       \/ /\ t.call \in {"kill", "drop", "unswitch"} /\ Delete(t.on)
          /\ UNCHANGED disk
       \/ /\ t.call = "roll" /\ HasPoint(t.on)
          /\ disk' = "restored"
          /\ UNCHANGED res
    /\ UNCHANGED <<clientVars, caller, power, job, aborted>>

\* External: a task ends without it, and what it was making is given up.
TaskFails(t) ==
    /\ tasks' = tasks \ {t}
    /\ aborted' = aborted \cup {t.by}
    /\ res' = IF t.call \in Creations THEN [res EXCEPT ![t.on] = "gone"] ELSE res
    /\ UNCHANGED <<clientVars, caller, disk, power, job>>

-----------------------------------------------------------------------------
ConnectorInit ==
    /\ prov \in Providers
    /\ lib \in (IF prov \in {"nutanix", "sangfor"} THEN {TRUE} ELSE BOOLEAN)
    /\ handle = FALSE
    /\ op = "connect" /\ rest = <<>> /\ arg = 0 /\ got = 0 /\ left = {}
    /\ answer = "new"
    /\ ops = 0 /\ failed = 0 /\ restores = 0 /\ told = {} /\ traced = {}
    /\ res = [i \in Ids |-> "free"]
    /\ disk = "live" /\ power \in BOOLEAN
    /\ job = 0 /\ tasks = {} /\ aborted = {}

ConnectorNext ==
    \/ ConnectUnavailable
    \/ ConnectSucceeds
    \/ ConnectRaises
    \/ ConnectWithoutToken
    \/ \E o \in DOMAIN Calls[prov] : RefuseOp(o)
    \/ \E o \in DOMAIN Calls[prov] : StartOp(o)
    \/ CallReturns
    \/ CallRaisesLate
    \/ CallRaises
    \/ NonZero
    \/ \E i \in left : NextSwitch(i)
    \/ \E i \in left : LastSwitch(i)
    \/ \E t \in tasks : TaskSucceeds(t)
    \/ \E t \in tasks : TaskFails(t)

ConnectorSpec == ConnectorInit /\ [][ConnectorNext]_connectorVars

-----------------------------------------------------------------------------
Does(c) == op # "connect" /\ c \in ToSet(Calls[prov][op])

\* What the last operation was asked to do.  A restore of AWS is answered with the
\* job recorded for the recovery point, whose instance may have been terminated.
Done ==
    /\ Does("snap") => got \in OfKind("snap")
    /\ Does("switch") => got \in OfKind("switch")
    /\ Does("clone") => IF prov = "aws" THEN got = job ELSE got \in OfKind("vm")
    /\ Does("kill") \/ Does("drop") => res[arg] = "gone"
    /\ Does("unswitch") => res[got] = "gone"
    /\ Does("roll") \/ Does("preview") => disk = "restored"
    /\ Does("start") => power
    /\ Does("stop") => ~power

\* A task of the last operation is still to end, and it is for what was asked.
Underway == \E t \in tasks : t.by = ops /\ Does(t.call) /\ t.on \in {arg, got}

\* An operation that answers success has done what it was asked to: what it
\* created is there, what it deleted is gone, the disk is the restored one and not
\* a preview, the VM is on or off.  Where the provider works with tasks it has
\* asked for just that, and only the task's own failure leaves it undone (which no
\* client hears of: Proxmox's rollback "Returns True on success" all the same).
OkIsBacked == answer = "ok" => Done \/ Underway \/ ops \in aborted

\* A snapshot, VM or switch the caller can neither name nor ask a job about is the
\* work of an operation that answered failure, or of a restore by Azure or
\* Nutanix, whose answers do not name the VM: there are never more of them.
LostIsCounted ==
    Idle => Cardinality({i \in Ids : Live(i) /\ i \notin Known \cup traced})
              <= failed + (IF prov \in {"azure", "nutanix"} THEN restores ELSE 0)

\* However often the restore of a recovery point is repeated, also after an answer
\* that was lost, AWS runs or makes at most one instance for it.
NoTwinInstance == prov = "aws" => Cardinality({i \in Ids : res[i] = "vm"}) <= 1
=============================================================================
