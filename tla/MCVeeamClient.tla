---------------------------- MODULE MCVeeamClient ----------------------------
(* The clients of the backup systems for TLC, side by side.  VeeamClient:   *)
(* one server of each tier and header.  Connectors: every provider's.       *)
EXTENDS VeeamClient, Connectors

MCBuilds ==
    {<<11, 0, 1, 0>>, <<12, 1, 0, 0>>, <<12, 3, 1, 0>>, <<13, 0, 0, 5>>,
     <<13, 1, 0, 0>>}
MCTargets == {NoTarget, 0, 1}

(* The clients share no state: a behaviour is of the one or of the other.   *)
MCInit == Init /\ ConnectorInit

MCNext ==
    \/ /\ ops = 0 /\ prov = "aws" /\ lib /\ power
       /\ Next /\ UNCHANGED connectorVars
    \/ /\ now = 0 /\ client = Closed /\ message = Silence /\ pick = NoPick
       /\ build = <<11, 0, 1, 0>> /\ override = NoOverride /\ faults = 0
       /\ ConnectorNext /\ UNCHANGED vars

MCSpec == MCInit /\ [][MCNext]_<<vars, connectorVars>>
=============================================================================
