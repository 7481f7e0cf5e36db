----------------------------- MODULE MCSchedules -----------------------------
(* The runs and the schedules that create them, for TLC, side by side.      *)
(* Schedules: two processes, a report schedule with three recipients of     *)
(* which one lacks its destination, and two workloads.                      *)
EXTENDS MCTestRunLifecycle, Schedules

CONSTANTS api1, api2, ann, bob, rep, vm1, vm2, mail, chat, blank

MCRecipients == <<mail, blank, chat>>

(* A row of a run shares no state with the tables: a behaviour is of the    *)
(* one or of the other.                                                     *)
MCInit == Init /\ ScheduleInit

MCNext ==
    \/ ScheduleInit /\ Next /\ UNCHANGED scheduleVars
    \/ /\ Init /\ \A r \in Runs : kind[r] = "scheduled"
       /\ ScheduleNext /\ UNCHANGED vars

MCSpec == MCInit /\ [][MCNext]_<<vars, scheduleVars>> /\ Fairness
=============================================================================
