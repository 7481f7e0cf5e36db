-------------------------------- MODULE Moref --------------------------------
(***************************************************************************)
(* How the appliance finds a recovered VM in vCenter                       *)
(* (apps/appliance/src/connectors/vcenter/moref.py and                     *)
(* client.py, resolve_moref).  The VM that was backed up is still there    *)
(* and shares with the recovered one its name, its DNS name and usually    *)
(* its BIOS UUID, so a search may return the one or the other.             *)
(***************************************************************************)
EXTENDS Integers

(* The order of lookup_plan: the most reliable identifier first. *)
Rank == [instance_uuid |-> 1, bios_uuid |-> 2, dns_name |-> 3, vm_name |-> 4]

Methods == {"instance_uuid", "bios_uuid", "dns_name", "vm_name"}

(* parse_recovered_vm_identity: a session body names any of the            *)
(* identifiers, at one of several keys, or none of them.                   *)
Identities == SUBSET Methods

(* External: what vCenter finds by each identifier.  Only an instance UUID *)
(* belongs to one VM; a VM that is not indexed yet is not found.           *)
Searches ==
    {found \in [Methods -> {"none", "moref", "original"}] :
        found["instance_uuid"] # "original"}

FirstHit(identity, found, m) ==
    /\ found[m] # "none"
    /\ \A n \in identity : found[n] # "none" => Rank[m] <= Rank[n]

(* resolve_moref, and the placeholder of wait_for_vm_boot when no method   *)
(* of the plan finds a VM.                                                 *)
ResolveMoref(identity, found) ==
    IF \A m \in identity : found[m] = "none" THEN {"placeholder"}
    ELSE {found[m] : m \in {n \in identity : FirstHit(identity, found, n)}}

MorefOutcomes ==
    UNION {ResolveMoref(identity, found) :
             identity \in Identities, found \in Searches}

(* A session that names the instance UUID of a VM vCenter knows yields     *)
(* that VM, whatever the other identifiers of the session find; and only   *)
(* when every identifier fails does wait_for_vm_boot make a moref up.      *)
MorefIsReliable ==
    \A identity \in Identities, found \in Searches :
        /\ "instance_uuid" \in identity /\ found["instance_uuid"] = "moref" =>
                ResolveMoref(identity, found) = {"moref"}
        /\ "placeholder" \in ResolveMoref(identity, found) =>
                \A m \in identity : found[m] = "none"

=============================================================================
