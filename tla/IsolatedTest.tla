---------------------------- MODULE IsolatedTest ----------------------------
(***************************************************************************)
(* What a recovery test promises the customer, whatever fails on the way:  *)
(* a restored VM is only ever mounted inside an isolated network, the      *)
(* verdict is given once and is "passed" only if something was restored,   *)
(* nothing is mounted after the verdict, and the test itself stops a mount *)
(* only after it.  RecoveryTest implements this specification.             *)
(***************************************************************************)
CONSTANT Mounts  \* names for the mounts a test may make

VARIABLES
    isolated,  \* the isolated network exists
    used,      \* the mounts ever made
    mounts,    \* the mounts that exist
    halted,    \* the mounts the test stopped
    verdict    \* "none", "passed" or "failed"

absVars == <<isolated, used, mounts, halted, verdict>>

AbsInit ==
    /\ isolated = FALSE
    /\ used = {}
    /\ mounts = {}
    /\ halted = {}
    /\ verdict = "none"

Isolate ==
    /\ isolated' = TRUE
    /\ UNCHANGED <<used, mounts, halted, verdict>>

Mount ==
    /\ isolated
    /\ verdict = "none"
    /\ \E m \in Mounts \ used :
          /\ used' = used \cup {m}
          /\ mounts' = mounts \cup {m}
    /\ UNCHANGED <<isolated, halted, verdict>>

(* The backup server may drop a mount at any time. *)
Drop ==
    /\ \E m \in mounts : mounts' = mounts \ {m}
    /\ UNCHANGED <<isolated, used, halted, verdict>>

Halt ==
    /\ verdict # "none"
    /\ \E m \in mounts :
          /\ mounts' = mounts \ {m}
          /\ halted' = halted \cup {m}
    /\ UNCHANGED <<isolated, used, verdict>>

Decide ==
    /\ verdict = "none"
    /\ \/ verdict' = "failed"
       \/ verdict' = "passed" /\ used # {}
    /\ UNCHANGED <<isolated, used, mounts, halted>>

AbsNext == Isolate \/ Mount \/ Drop \/ Halt \/ Decide

AbsSpec == AbsInit /\ [][AbsNext]_absVars

=============================================================================
