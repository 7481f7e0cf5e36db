----------------------------- MODULE VeeamRest -----------------------------
(***************************************************************************)
(* The pure decisions of the appliance's Veeam connector                   *)
(* (apps/appliance/src/connectors/veeam/rest.py and session_states.py):    *)
(* how a polled session state is classified and how the readiness score is *)
(* computed from the measured RTO and RPO.                                 *)
(***************************************************************************)
EXTENDS Integers

-----------------------------------------------------------------------------
(* Session states, session_states.py *)

SessionStates == {"Starting", "Working", "Stopping", "Stopped",
                  "Success", "Failed", "Warning", "unknown"}

PublishedStates == {"Working"}

FailedStates == {"Failed", "Stopped"}

(* The decision wait_for_vm_boot takes on one polled state. *)
ClassifyPoll(state) ==
    CASE state \in PublishedStates -> "published"
      [] state \in FailedStates    -> "failed"
      [] OTHER                     -> "wait"

-----------------------------------------------------------------------------
(* Readiness score *)

HealthPoints == 60

ObjectiveMax == 20

Distance(a, b) == IF a >= b THEN a - b ELSE b - a

(* Variant: the decay is not cut off at twice the target. *)
ObjectivePointsUnclamped(actual, target) ==
    IF actual <= target THEN {ObjectiveMax}
    ELSE {p \in (-1000)..ObjectiveMax :
            2 * Distance(ObjectiveMax * (2 * target - actual), p * target)
               <= target}

(* Points for one objective.  The code computes                            *)
(*     round(max * (1 - (actual - target) / target))                       *)
(* in floating point, that is, an integer nearest to                       *)
(* max * (2 * target - actual) / target.  At a tie either neighbour comes  *)
(* out (40-minute targets do show both), so the result is a set.           *)
ObjectivePoints(actual, target) ==
    IF target <= 0 THEN {IF actual <= 0 THEN ObjectiveMax ELSE 0}
    ELSE IF actual <= target THEN {ObjectiveMax}
    ELSE IF actual >= 2 * target THEN {0}
    ELSE {p \in 0..ObjectiveMax :
            2 * Distance(ObjectiveMax * (2 * target - actual), p * target)
               <= target}

Clamp(score) == IF score < 0 THEN 0 ELSE IF score > 100 THEN 100 ELSE score

ReadinessScore(healthPassed, rto, rtoTarget, rpo, rpoTarget) ==
    {Clamp((IF healthPassed THEN HealthPoints ELSE 0) + p + q) :
        p \in ObjectivePoints(rto, rtoTarget),
        q \in ObjectivePoints(rpo, rpoTarget)}

=============================================================================
