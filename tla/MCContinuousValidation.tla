----------------------- MODULE MCContinuousValidation -----------------------
(* ContinuousValidation for TLC.  The ages fall below, at and above every   *)
(* threshold of the three checks for a target and an interval of two        *)
(* minutes.  API processes are interchangeable.                             *)
EXTENDS ContinuousValidation, TLC

CONSTANTS api1, api2, vm1

Symmetry == Permutations(Replicas)

=============================================================================
