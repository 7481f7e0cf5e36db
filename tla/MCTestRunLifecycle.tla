------------------------- MODULE MCTestRunLifecycle -------------------------
(* TestRunLifecycle for TLC: a channel for failures and one for RTO misses. *)
EXTENDS TestRunLifecycle, TLC

CONSTANTS slack, pager

MCSubscribed == (slack :> {"test_failed"}) @@ (pager :> {"rto_breach"})

=============================================================================
