----------------------------- MODULE MCInventory -----------------------------
(* Inventory for TLC: two tests on one appliance.                           *)
EXTENDS Inventory

CONSTANTS a1, org, t1, t2, vm1, vm2

MCApplianceOf == [r \in Runs |-> a1]
=============================================================================
