----------------------- MODULE TestRunLifecycleProofs -----------------------
(***************************************************************************)
(* Proofs about TestRunLifecycle for any set of runs and channels and any  *)
(* number of repeated posts, progress rows and crashes; and about the      *)
(* Schedules that start runs, for any set of processes, reports,           *)
(* workloads and recipients and any number of edits and faults.            *)
(***************************************************************************)
EXTENDS TestRunLifecycle, Schedules, TLAPS, FiniteSetTheorems, SequenceTheorems

(* No run has been created yet. *)
LEMMA InitIndInv == Init => IndInv
<1>. SUFFICES ASSUME Init PROVE IndInv
  OBVIOUS
<1>. USE LifecycleAssumption DEF Init
<1>1. TypeOK
  BY DEF TypeOK
<1>2. PostsCounted /\ FailureIsScheduled /\ StatusIsBacked
  BY DEF PostsCounted, FailureIsScheduled, StatusIsBacked
<1>3. QueuedAreStored /\ NoChannelForgotten
  BY DEF QueuedAreStored, NoChannelForgotten
<1>. QED
  BY <1>1, <1>2, <1>3 DEF IndInv

-----------------------------------------------------------------------------
(* One lemma per step *)

(* A step that neither queues nor tries a channel and takes no result back *)
(* leaves what is said of the notifications as it was.                     *)
LEMMA NotesKept ==
    ASSUME IndInv, UNCHANGED <<note, delivered, crashes>>,
           \A q \in Runs : completed_at[q] => completed_at'[q],
           \A q \in Runs : verdict[q] = "failed" => verdict'[q] = "failed"
    PROVE  QueuedAreStored' /\ NoChannelForgotten'
<1>1. QueuedAreStored'
  BY DEF IndInv, QueuedAreStored, note
<1>2. NoChannelForgotten'
  BY DEF IndInv, NoChannelForgotten, Interested, note
<1>. QED
  BY <1>1, <1>2

(* The row is inserted. *)
LEMMA TriggerInv ==
    ASSUME IndInv, NEW r \in Runs, Trigger(r) PROVE IndInv'
<1>. USE LifecycleAssumption DEF Trigger, row, exec, maker
<1>1. TypeOK'
  BY DEF IndInv, TypeOK, note
<1>2. PostsCounted' /\ FailureIsScheduled'
  BY DEF IndInv, TypeOK, PostsCounted, FailureIsScheduled
<1>3. StatusIsBacked'
  BY DEF IndInv, TypeOK, StatusIsBacked, FailureIsScheduled
<1>4. QueuedAreStored' /\ NoChannelForgotten'
  BY NotesKept DEF IndInv, TypeOK
<1>. QED
  BY <1>1, <1>2, <1>3, <1>4 DEF IndInv

(* Temporal accepts the workflow. *)
LEMMA StartWorkflowInv ==
    ASSUME IndInv, NEW r \in Runs, StartWorkflow(r) PROVE IndInv'
<1>. USE LifecycleAssumption DEF StartWorkflow, row, exec, maker
<1>1. TypeOK'
  BY DEF IndInv, TypeOK, note
<1>2. PostsCounted' /\ FailureIsScheduled'
  BY DEF IndInv, TypeOK, PostsCounted, FailureIsScheduled
<1>3. StatusIsBacked'
  BY DEF IndInv, TypeOK, StatusIsBacked, FailureIsScheduled
<1>4. QueuedAreStored' /\ NoChannelForgotten'
  BY NotesKept DEF IndInv, TypeOK
<1>. QED
  BY <1>1, <1>2, <1>3, <1>4 DEF IndInv

(* start_workflow raises. *)
LEMMA StartWorkflowErrorInv ==
    ASSUME IndInv, NEW r \in Runs, StartWorkflowError(r) PROVE IndInv'
<1>. USE LifecycleAssumption DEF StartWorkflowError, OnException, row, exec, maker
<1>1. TypeOK'
  BY DEF IndInv, TypeOK, note
<1>2. PostsCounted' /\ FailureIsScheduled'
  BY DEF IndInv, TypeOK, PostsCounted, FailureIsScheduled
<1>3. StatusIsBacked'
  BY DEF IndInv, TypeOK, StatusIsBacked, FailureIsScheduled
<1>4. QueuedAreStored' /\ NoChannelForgotten'
  BY NotesKept DEF IndInv, TypeOK
<1>. QED
  BY <1>1, <1>2, <1>3, <1>4 DEF IndInv

(* The unconditional update to running. *)
LEMMA MarkRunningInv ==
    ASSUME IndInv, NEW r \in Runs, MarkRunning(r) PROVE IndInv'
<1>. USE LifecycleAssumption DEF MarkRunning, row, exec, maker
<1>1. TypeOK'
  BY DEF IndInv, TypeOK, note
<1>2. PostsCounted' /\ FailureIsScheduled'
  BY DEF IndInv, TypeOK, PostsCounted, FailureIsScheduled
<1>3. StatusIsBacked'
  BY DEF IndInv, TypeOK, StatusIsBacked, FailureIsScheduled
<1>4. QueuedAreStored' /\ NoChannelForgotten'
  BY NotesKept DEF IndInv, TypeOK
<1>. QED
  BY <1>1, <1>2, <1>3, <1>4 DEF IndInv

(* That update raises. *)
LEMMA MarkRunningErrorInv ==
    ASSUME IndInv, NEW r \in Runs, MarkRunningError(r) PROVE IndInv'
<1>. USE LifecycleAssumption DEF MarkRunningError, OnException, row, exec, maker
<1>1. TypeOK'
  BY DEF IndInv, TypeOK, note
<1>2. PostsCounted' /\ FailureIsScheduled'
  BY DEF IndInv, TypeOK, PostsCounted, FailureIsScheduled
<1>3. StatusIsBacked'
  BY DEF IndInv, TypeOK, StatusIsBacked, FailureIsScheduled
<1>4. QueuedAreStored' /\ NoChannelForgotten'
  BY NotesKept DEF IndInv, TypeOK
<1>. QED
  BY <1>1, <1>2, <1>3, <1>4 DEF IndInv

(* The scheduler records that it could not start the run. *)
LEMMA RecordFailureInv ==
    ASSUME IndInv, NEW r \in Runs, RecordFailure(r) PROVE IndInv'
<1>. USE LifecycleAssumption DEF RecordFailure, row, exec, maker
<1>1. TypeOK'
  BY DEF IndInv, TypeOK, note
<1>2. PostsCounted' /\ FailureIsScheduled'
  BY DEF IndInv, TypeOK, PostsCounted, FailureIsScheduled
<1>3. StatusIsBacked'
  BY DEF IndInv, TypeOK, StatusIsBacked, FailureIsScheduled
<1>4. QueuedAreStored' /\ NoChannelForgotten'
  BY NotesKept DEF IndInv, TypeOK
<1>. QED
  BY <1>1, <1>2, <1>3, <1>4 DEF IndInv

(* It cannot record it either. *)
LEMMA RecordFailureErrorInv ==
    ASSUME IndInv, NEW r \in Runs, RecordFailureError(r) PROVE IndInv'
<1>. USE LifecycleAssumption DEF RecordFailureError, row, exec, maker
<1>1. TypeOK'
  BY DEF IndInv, TypeOK, note
<1>2. PostsCounted' /\ FailureIsScheduled'
  BY DEF IndInv, TypeOK, PostsCounted, FailureIsScheduled
<1>3. StatusIsBacked'
  BY DEF IndInv, TypeOK, StatusIsBacked, FailureIsScheduled
<1>4. QueuedAreStored' /\ NoChannelForgotten'
  BY NotesKept DEF IndInv, TypeOK
<1>. QED
  BY <1>1, <1>2, <1>3, <1>4 DEF IndInv

(* The appliance sends its result. *)
LEMMA PostResultInv ==
    ASSUME IndInv, NEW r \in Runs, PostResult(r) PROVE IndInv'
<1>. USE LifecycleAssumption DEF PostResult, row, maker
<1>1. TypeOK'
  <2>1. inflight[r] + 1 <= MaxPosts /\ posts[r] + 1 <= MaxPosts
    BY DEF IndInv, TypeOK, PostsCounted
  <2>2. posts' \in [Runs -> 0..MaxPosts] /\ inflight' \in [Runs -> 0..MaxPosts]
    BY <2>1 DEF IndInv, TypeOK
  <2>3. verdict' \in [Runs -> {"none", "passed", "failed"}]
    <3>1. \/ verdict' = verdict
          \/ \E v \in {"passed", "failed"} : verdict' = [verdict EXCEPT ![r] = v]
      OBVIOUS
    <3>. QED
      BY <3>1 DEF IndInv, TypeOK
  <2>. QED
    BY <2>2, <2>3 DEF IndInv, TypeOK, note
<1>2. PostsCounted' /\ FailureIsScheduled'
  BY DEF IndInv, TypeOK, PostsCounted, FailureIsScheduled
<1>3. StatusIsBacked'
  BY DEF IndInv, TypeOK, StatusIsBacked
<1>4. QueuedAreStored' /\ NoChannelForgotten'
  BY NotesKept DEF IndInv, TypeOK
<1>. QED
  BY <1>1, <1>2, <1>3, <1>4 DEF IndInv

(* A post is lost. *)
LEMMA LosePostInv ==
    ASSUME IndInv, NEW r \in Runs, LosePost(r) PROVE IndInv'
<1>. USE LifecycleAssumption DEF LosePost, row, exec, maker
<1>1. TypeOK'
  BY DEF IndInv, TypeOK, note
<1>2. PostsCounted' /\ FailureIsScheduled'
  BY DEF IndInv, TypeOK, PostsCounted, FailureIsScheduled
<1>3. StatusIsBacked'
  BY DEF IndInv, TypeOK, StatusIsBacked, FailureIsScheduled
<1>4. QueuedAreStored' /\ NoChannelForgotten'
  BY NotesKept DEF IndInv, TypeOK
<1>. QED
  BY <1>1, <1>2, <1>3, <1>4 DEF IndInv

(* The workflow ends. *)
LEMMA CloseWorkflowInv ==
    ASSUME IndInv, NEW r \in Runs, CloseWorkflow(r) PROVE IndInv'
<1>. USE LifecycleAssumption DEF CloseWorkflow, row, exec, maker
<1>1. TypeOK'
  BY DEF IndInv, TypeOK, note
<1>2. PostsCounted' /\ FailureIsScheduled'
  BY DEF IndInv, TypeOK, PostsCounted, FailureIsScheduled
<1>3. StatusIsBacked'
  BY DEF IndInv, TypeOK, StatusIsBacked, FailureIsScheduled
<1>4. QueuedAreStored' /\ NoChannelForgotten'
  BY NotesKept DEF IndInv, TypeOK
<1>. QED
  BY <1>1, <1>2, <1>3, <1>4 DEF IndInv

(* A progress post is handled. *)
LEMMA UpdateRunProgressInv ==
    ASSUME IndInv, NEW r \in Runs, UpdateRunProgress(r) PROVE IndInv'
<1>. USE LifecycleAssumption DEF UpdateRunProgress, row, exec, maker
<1>1. TypeOK'
  BY DEF IndInv, TypeOK, note
<1>2. PostsCounted' /\ FailureIsScheduled'
  BY DEF IndInv, TypeOK, PostsCounted, FailureIsScheduled
<1>3. StatusIsBacked'
  BY DEF IndInv, TypeOK, StatusIsBacked, FailureIsScheduled
<1>4. QueuedAreStored' /\ NoChannelForgotten'
  BY NotesKept DEF IndInv, TypeOK
<1>. QED
  BY <1>1, <1>2, <1>3, <1>4 DEF IndInv

(* A result post is handled: it is the next one, and if its channels are   *)
(* queued, they all are.                                                   *)
LEMMA FinaliseRunInv ==
    ASSUME IndInv, NEW r \in Runs, FinaliseRun(r) PROVE IndInv'
<1>. USE LifecycleAssumption DEF FinaliseRun, row, maker
<1>. DEFINE k == delivered[r] + 1
<1>1. /\ k \in Posts
      /\ delivered[r] \in Nat
      /\ verdict[r] \in {"passed", "failed"}
  BY DEF IndInv, TypeOK, PostsCounted, Posts
<1>2. PICK missed \in SUBSET Objectives :
         /\ alarm' = [alarm EXCEPT ![r][k] = EventsOf(verdict[r], missed)]
         /\ \/ pending' = [pending EXCEPT ![r] =
                   @ \cup ({k} \X Interested(EventsOf(verdict[r], missed)))]
            \/ UNCHANGED pending
  BY DEF QueueNotifications
<1>. DEFINE events == EventsOf(verdict[r], missed)
<1>3. /\ events \in SUBSET Events
      /\ "test_failed" \in events => verdict[r] = "failed"
  BY DEF EventsOf, Events, Objectives
<1>4. {k} \X Interested(events) \in SUBSET (Posts \X Channels)
  BY <1>1 DEF Interested
<1>. HIDE DEF k, events
<1>5. /\ alarm'[r][k] = events
      /\ \A q \in Runs, j \in Posts :
            q # r \/ j # k => alarm'[q][j] = alarm[q][j]
      /\ alarm' \in [Runs -> [Posts -> SUBSET Events]]
  <2>1. alarm \in [Runs -> [Posts -> SUBSET Events]]
    BY DEF IndInv, TypeOK
  <2>2. alarm' = [alarm EXCEPT ![r][k] = events]
    BY <1>2 DEF k, events
  <2>. QED
    BY <1>1, <1>3, <2>1, <2>2
<1>6. /\ \A q \in Runs \ {r} : pending'[q] = pending[q]
      /\ \/ pending'[r] = pending[r] \cup ({k} \X Interested(events))
         \/ pending'[r] = pending[r]
      /\ pending' \in [Runs -> SUBSET (Posts \X Channels)]
  <2>1. pending \in [Runs -> SUBSET (Posts \X Channels)]
    BY DEF IndInv, TypeOK
  <2>2. \/ pending' = [pending EXCEPT ![r] = @ \cup ({k} \X Interested(events))]
        \/ pending' = pending
    BY <1>2 DEF k, events
  <2>. QED
    BY <1>4, <2>1, <2>2
<1>7. TypeOK'
  <2>1. /\ delivered' \in [Runs -> 0..MaxPosts]
        /\ inflight' \in [Runs -> 0..MaxPosts]
    BY <1>1 DEF IndInv, TypeOK, k, Posts
  <2>2. /\ status' \in [Runs -> {"absent", "pending", "running", "passed",
                                 "failed"}]
        /\ failure_reason' \in [Runs -> {"none", "enqueue", "report"}]
        /\ completed_at' \in [Runs -> BOOLEAN]
    BY <1>1 DEF IndInv, TypeOK
  <2>. QED
    BY <1>5, <1>6, <2>1, <2>2 DEF IndInv, TypeOK
<1>8. PostsCounted' /\ FailureIsScheduled'
  BY DEF IndInv, TypeOK, PostsCounted, FailureIsScheduled
<1>9. StatusIsBacked'
  BY <1>1 DEF IndInv, TypeOK, StatusIsBacked
<1>10. QueuedAreStored'
  <2>1. ASSUME NEW q \in Runs
        PROVE  /\ \A n \in pending'[q] \cup attempted'[q] : n[1] <= delivered'[q]
               /\ delivered'[q] > 0 => completed_at'[q]
    <3>1. CASE q # r
      BY <3>1, <1>6 DEF IndInv, TypeOK, QueuedAreStored
    <3>2. CASE q = r
      <4>1. delivered'[r] = k /\ completed_at'[r]
        BY DEF IndInv, TypeOK, k
      <4>2. \A n \in pending[r] \cup attempted[r] : n \in Posts \X Channels
        BY DEF IndInv, TypeOK
      <4>3. \A n \in pending[r] \cup attempted[r] : n[1] <= k
        <5>1. \A n \in pending[r] \cup attempted[r] :
                 n[1] \in Nat /\ n[1] <= delivered[r]
          BY <4>2 DEF IndInv, QueuedAreStored, Posts
        <5>. QED
          BY <1>1, <5>1 DEF k
      <4>4. \A n \in {k} \X Interested(events) : n[1] <= k
        BY <1>1 DEF Posts
      <4>. QED
        BY <3>2, <1>6, <4>1, <4>3, <4>4
    <3>. QED
      BY <3>1, <3>2
  <2>2. \A q \in Runs, j \in Posts :
          "test_failed" \in alarm'[q][j] => verdict'[q] = "failed"
    BY <1>3, <1>5 DEF IndInv, QueuedAreStored
  <2>. QED
    BY <2>1, <2>2 DEF QueuedAreStored
<1>11. NoChannelForgotten'
  <2>. SUFFICES ASSUME crashes = 0, NEW q \in Runs, NEW j \in Posts,
                       NEW n \in pending'[q] \cup attempted'[q], n[1] = j
                PROVE  {j} \X Interested(alarm'[q][j]) \subseteq
                         pending'[q] \cup attempted'[q]
    BY DEF NoChannelForgotten, Interested
  <2>1. CASE q # r \/ j # k
    <3>1. n \in pending[q] \cup attempted[q]
      <4>1. CASE q # r
        BY <4>1, <1>6
      <4>2. CASE q = r
        <5>1. n \notin {k} \X Interested(events)
          BY <2>1, <4>2
        <5>. QED
          BY <4>2, <5>1, <1>6
      <4>. QED
        BY <4>1, <4>2
    <3>2. {j} \X Interested(alarm[q][j]) \subseteq pending[q] \cup attempted[q]
      BY <3>1 DEF IndInv, NoChannelForgotten
    <3>3. pending[q] \cup attempted[q] \subseteq pending'[q] \cup attempted'[q]
      BY <1>6
    <3>. QED
      BY <2>1, <1>5, <3>2, <3>3
  <2>2. CASE q = r /\ j = k
    <3>1. n \notin pending[r] \cup attempted[r]
      <4>1. ASSUME n \in pending[r] \cup attempted[r] PROVE FALSE
        <5>1. n[1] <= delivered[r]
          BY <4>1 DEF IndInv, QueuedAreStored
        <5>. QED
          BY <5>1, <1>1, <2>2 DEF k
      <4>. QED
        BY <4>1
    <3>2. pending'[r] = pending[r] \cup ({k} \X Interested(events))
      BY <3>1, <2>2, <1>6
    <3>. QED
      BY <2>2, <1>5, <3>2
  <2>. QED
    BY <2>1, <2>2
<1>. QED
  BY <1>7, <1>8, <1>9, <1>10, <1>11 DEF IndInv

(* One channel is tried. *)
LEMMA NotifyInv ==
    ASSUME IndInv, NEW r \in Runs, Notify(r) PROVE IndInv'
<1>. USE LifecycleAssumption DEF row, exec, maker
<1>1. PICK n \in pending[r] :
        /\ attempted' = [attempted EXCEPT ![r] = @ \cup {n}]
        /\ pending' = [pending EXCEPT ![r] = @ \ {n}]
        /\ UNCHANGED <<row, maker, exec, steps, alarm, crashes>>
  BY DEF Notify
<1>2. TypeOK'
  BY <1>1 DEF IndInv, TypeOK
<1>3. PostsCounted' /\ FailureIsScheduled' /\ StatusIsBacked'
  BY <1>1 DEF IndInv, PostsCounted, FailureIsScheduled, StatusIsBacked
<1>4. \A q \in Runs :
        pending'[q] \cup attempted'[q] = pending[q] \cup attempted[q]
  BY <1>1 DEF IndInv, TypeOK
<1>5. QueuedAreStored'
  BY <1>1, <1>4 DEF IndInv, QueuedAreStored
<1>6. NoChannelForgotten'
  BY <1>1, <1>4 DEF IndInv, NoChannelForgotten, Interested
<1>. QED
  BY <1>2, <1>3, <1>5, <1>6 DEF IndInv

(* The API dies: committed rows stay, coroutines and queued notifications  *)
(* are gone.                                                               *)
LEMMA CrashInv == ASSUME IndInv, Crash PROVE IndInv'
<1>. USE LifecycleAssumption DEF Crash, row, exec
<1>1. TypeOK'
  BY DEF IndInv, TypeOK
<1>2. PostsCounted' /\ FailureIsScheduled' /\ StatusIsBacked'
  BY DEF IndInv, TypeOK, PostsCounted, FailureIsScheduled, StatusIsBacked
<1>3. QueuedAreStored'
  BY DEF IndInv, QueuedAreStored
<1>4. NoChannelForgotten'
  BY DEF IndInv, TypeOK, NoChannelForgotten
<1>. QED
  BY <1>1, <1>2, <1>3, <1>4 DEF IndInv

(* Every step keeps the invariant. *)
LEMMA NextIndInv == IndInv /\ [Next]_vars => IndInv'
<1>. SUFFICES ASSUME IndInv, [Next]_vars PROVE IndInv'
  OBVIOUS
<1>1. CASE Crash
  BY <1>1, CrashInv
<1>2. ASSUME NEW r \in Runs, Create(r) PROVE IndInv'
  BY <1>2, TriggerInv, StartWorkflowInv, StartWorkflowErrorInv,
     MarkRunningInv, MarkRunningErrorInv, RecordFailureInv,
     RecordFailureErrorInv DEF Create
<1>3. ASSUME NEW r \in Runs, Appliance(r) PROVE IndInv'
  BY <1>3, PostResultInv, LosePostInv, CloseWorkflowInv DEF Appliance
<1>4. ASSUME NEW r \in Runs, Handle(r) PROVE IndInv'
  BY <1>4, UpdateRunProgressInv, FinaliseRunInv, NotifyInv DEF Handle
<1>5. CASE UNCHANGED vars
  <2>. USE <1>5 DEF vars, row, exec, maker
  <2>1. TypeOK' /\ PostsCounted' /\ FailureIsScheduled' /\ StatusIsBacked'
    BY DEF note, IndInv, TypeOK, PostsCounted, FailureIsScheduled,
       StatusIsBacked
  <2>2. QueuedAreStored' /\ NoChannelForgotten'
    BY NotesKept
  <2>. QED
    BY <2>1, <2>2 DEF IndInv
<1>. QED
  BY <1>1, <1>2, <1>3, <1>4, <1>5 DEF Next

-----------------------------------------------------------------------------
(* The theorems *)

(* IndInv holds in every reachable state of the table and its writers.     *)
THEOREM LifecycleInvariance == Spec => []IndInv
BY InitIndInv, NextIndInv, PTL DEF Spec

(* The types of the test_runs columns are kept. *)
THEOREM LifecycleTypes == Spec => []TypeOK
<1>1. IndInv => TypeOK
  BY DEF IndInv
<1>. QED
  BY <1>1, LifecycleInvariance, PTL

(* No run is shown as passed that its appliance did not report as passed,  *)
(* and none as failed without such a report or a start that raised in the  *)
(* scheduler's job, whichever failure_reason says.                         *)
THEOREM BackedTheorem == Spec => []StatusIsBacked
<1>1. IndInv => StatusIsBacked
  BY DEF IndInv
<1>. QED
  BY <1>1, LifecycleInvariance, PTL

(* Without a crash the channels are notified all or not at all each time a *)
(* result is processed.                                                    *)
THEOREM NotificationTheorem == Spec => []NoChannelForgotten
<1>1. IndInv => NoChannelForgotten
  BY DEF IndInv
<1>. QED
  BY <1>1, LifecycleInvariance, PTL

(* No channel is told of a result before finalise_run has committed it,    *)
(* nor of a failed test that did not fail (services/appliance.py,          *)
(* finalise_run; services/notifications.py, send_breach_notifications).    *)
THEOREM ToldTheorem == Spec => []ToldIsStored
<1>1. ASSUME IndInv PROVE ToldIsStored
  <2>. SUFFICES ASSUME NEW r \in Runs, NEW n \in attempted[r]
                PROVE  /\ n[1] <= delivered[r]
                       /\ completed_at[r]
                       /\ "test_failed" \in alarm[r][n[1]] =>
                             verdict[r] = "failed"
    BY DEF ToldIsStored
  <2>1. n \in Posts \X Channels /\ delivered[r] \in Nat
    BY <1>1, LifecycleAssumption DEF IndInv, TypeOK
  <2>2. n[1] \in Posts /\ n[1] <= delivered[r]
    BY <1>1, <2>1 DEF IndInv, QueuedAreStored
  <2>3. delivered[r] > 0
    BY <2>1, <2>2, LifecycleAssumption DEF Posts
  <2>. QED
    BY <1>1, <2>2, <2>3 DEF IndInv, QueuedAreStored
<1>. QED
  BY <1>1, LifecycleInvariance, PTL

(* Once the coroutine that created the run is done, a recorded result is   *)
(* never overwritten: neither late progress nor a repeated post does it.   *)
THEOREM FinalTheorem == Spec => ResultIsFinal
<1>1. ASSUME IndInv, [Next]_vars, NEW r \in Runs, caller[r] = "done",
             delivered[r] > 0, status[r] = verdict[r]
      PROVE  status'[r] = status[r]
  <2>0. verdict[r] \in {"passed", "failed"}
    BY <1>1 DEF IndInv, TypeOK, PostsCounted
  <2>1. CASE UNCHANGED vars \/ Crash
    BY <2>1 DEF vars, row, Crash
  <2>2. ASSUME NEW s \in Runs, Create(s) PROVE status'[r] = status[r]
    BY <1>1, <2>2 DEF IndInv, TypeOK, Create, Trigger, StartWorkflow,
       StartWorkflowError, MarkRunning, MarkRunningError, RecordFailure,
       RecordFailureError, row
  <2>3. ASSUME NEW s \in Runs, Appliance(s) PROVE status'[r] = status[r]
    BY <2>3 DEF Appliance, PostResult, LosePost, CloseWorkflow, row
  <2>4. ASSUME NEW s \in Runs, Handle(s) PROVE status'[r] = status[r]
    <3>1. CASE UpdateRunProgress(s)
      BY <1>1, <2>0, <3>1 DEF IndInv, TypeOK, UpdateRunProgress
    <3>2. CASE FinaliseRun(s)
      BY <1>1, <3>2 DEF IndInv, TypeOK, FinaliseRun
    <3>3. CASE Notify(s)
      BY <3>3 DEF Notify, row
    <3>. QED
      BY <2>4, <3>1, <3>2, <3>3 DEF Handle
  <2>. QED
    BY <1>1, <2>1, <2>2, <2>3, <2>4 DEF Next
<1>2. IndInv /\ [Next]_vars =>
        [\A r \in Runs :
            /\ caller[r] = "done"
            /\ delivered[r] > 0
            /\ status[r] = verdict[r]
            => status'[r] = status[r]]_vars
  BY <1>1
<1>. QED
  BY <1>2, LifecycleInvariance, PTL DEF Spec, ResultIsFinal

-----------------------------------------------------------------------------
(* Schedules                                                                *)

(* What a process has loaded so far agrees with the rows that were not     *)
(* edited since it began.                                                  *)
Loaded ==
    \A p \in Processes :
        /\ p \in running => phase[p] = "serving"
        /\ phase[p] \in {"down", "workloads"} => jobs[p] = {}
        /\ phase[p] = "reports" => jobs[p] \cap Reports = {}
        /\ phase[p] \in {"reports", "policies"} \/ p \in running =>
             \A w \in Workloads \ stale[p] : w \in jobs[p] <=> cron[w] = "valid"
        /\ phase[p] = "policies" \/ p \in running =>
             \A r \in Reports \ stale[p] : r \in jobs[p] <=> report[r] = "enabled"

(* An execution has tried, or has still to try, every recipient.           *)
TellsAll ==
    \A p \in Processes, r \in Reports : step[p][r] = "telling" =>
        told[p][r] \cup (Range(todo[p][r]) \cap Addressed) = Addressed

Telling(r) == {p \in Processes : step[p][r] = "telling"}

(* What went out late and what still may is one report per process at most. *)
LateCounted ==
    \A r \in Reports :
        /\ report[r] = "enabled" => late[r] = 0
        /\ late[r] + Cardinality(Telling(r)) <= Cardinality(Processes)

ScheduleInv ==
    /\ ScheduleTypeOK
    /\ Loaded
    /\ TellsAll
    /\ LateCounted
    /\ NoRecipientForgotten

(* A function of two arguments, updated at one place.                      *)
LEMMA UpdateAt ==
    ASSUME NEW A, NEW B, NEW X, NEW f \in [A -> [B -> X]],
           NEW a \in A, NEW b \in B, NEW v \in X
    PROVE  /\ [f EXCEPT ![a][b] = v] \in [A -> [B -> X]]
           /\ [f EXCEPT ![a][b] = v][a][b] = v
           /\ \A c \in A, d \in B :
                c # a \/ d # b => [f EXCEPT ![a][b] = v][c][d] = f[c][d]
OBVIOUS

LEMMA ProcessesCounted ==
    ASSUME NEW T \in SUBSET Processes, NEW U \in SUBSET T
    PROVE  /\ IsFiniteSet(T) /\ Cardinality(T) \in Nat
           /\ Cardinality(U) \in Nat /\ Cardinality(U) <= Cardinality(T)
           /\ Cardinality(T) <= Cardinality(Processes)
           /\ Cardinality(Processes) \in Nat
<1>1. IsFiniteSet(Processes)
  BY SchedulesAssumption
<1>2. IsFiniteSet(T) /\ Cardinality(T) <= Cardinality(Processes)
  BY <1>1, FS_Subset
<1>3. IsFiniteSet(U) /\ Cardinality(U) <= Cardinality(T)
  BY <1>2, FS_Subset
<1>. QED
  BY <1>1, <1>2, <1>3, FS_CardinalityType

LEMMA RangeOfList ==
    ASSUME NEW S, NEW list \in Seq(S)
    PROVE  /\ list = <<>> => Range(list) = {}
           /\ list # <<>> => Range(list) = {Head(list)} \cup Range(Tail(list))
<1>1. ASSUME list = <<>> PROVE Range(list) = {}
  BY <1>1 DEF Range
<1>2. ASSUME list # <<>> PROVE Range(list) = {Head(list)} \cup Range(Tail(list))
  <2>1. /\ Len(list) \in Nat /\ DOMAIN list = 1..Len(list)
        /\ Len(list) # 0
    BY <1>2, LenProperties
  <2>2. /\ Tail(list) \in Seq(S)
        /\ Len(Tail(list)) = Len(list) - 1
        /\ DOMAIN Tail(list) = 1..(Len(list) - 1)
        /\ \A i \in 1..(Len(list) - 1) : Tail(list)[i] = list[i + 1]
    BY <1>2, <2>1, HeadTailProperties, LenProperties
  <2>3. Head(list) = list[1]
    BY <1>2
  <2>4. Range(list) \subseteq {Head(list)} \cup Range(Tail(list))
    <3>1. ASSUME NEW i \in 1..Len(list)
          PROVE  list[i] \in {Head(list)} \cup Range(Tail(list))
      <4>1. CASE i = 1
        BY <2>3, <4>1
      <4>2. CASE i # 1
        <5>1. i - 1 \in 1..(Len(list) - 1) /\ list[(i - 1) + 1] = list[i]
          BY <2>1, <4>2
        <5>2. Tail(list)[i - 1] = list[i]
          BY <2>2, <5>1
        <5>. QED
          BY <2>2, <5>1, <5>2 DEF Range
      <4>. QED
        BY <4>1, <4>2
    <3>. QED
      BY <2>1, <3>1 DEF Range
  <2>5. {Head(list)} \cup Range(Tail(list)) \subseteq Range(list)
    <3>1. \A i \in 1..(Len(list) - 1) : i + 1 \in 1..Len(list)
      BY <2>1
    <3>2. 1 \in 1..Len(list)
      BY <2>1
    <3>. QED
      BY <2>1, <2>2, <2>3, <3>1, <3>2 DEF Range
  <2>. QED
    BY <2>4, <2>5
<1>. QED
  BY <1>1, <1>2

-----------------------------------------------------------------------------
LEMMA ScheduleInitInv == ScheduleInit => ScheduleInv
<1>. SUFFICES ASSUME ScheduleInit
              PROVE  ScheduleInv
  OBVIOUS
<1>1. ScheduleTypeOK
  BY DEF ScheduleInit, ScheduleTypeOK, NoRequest
<1>2. Loaded /\ TellsAll /\ NoRecipientForgotten
  BY DEF ScheduleInit, Loaded, TellsAll, NoRecipientForgotten
<1>3. LateCounted
  <2>1. \A r \in Reports : Telling(r) = {} /\ late[r] = 0
    BY DEF ScheduleInit, Telling, Jobs
  <2>2. Cardinality({}) = 0 /\ Cardinality(Processes) \in Nat
    BY FS_EmptySet, ProcessesCounted
  <2>. QED
    BY <2>1, <2>2 DEF LateCounted
<1>. QED
  BY <1>1, <1>2, <1>3 DEF ScheduleInv

(* Whatever row is written, the loaded tables are excused for it and the   *)
(* count of what is late begins again.                                     *)
LEMMA EditedInv ==
    ASSUME ScheduleInv, NEW j \in Jobs, Edited(j),
           report' \in [Reports -> {"new", "enabled", "disabled", "deleted"}],
           \A r \in Reports : r # j => report'[r] = report[r],
           cron' \in [Workloads -> {"none", "valid", "invalid"}],
           \A w \in Workloads : w # j => cron'[w] = cron[w],
           request' \in [Users -> {NoRequest} \cup
                                  [row : Reports, was : {"enabled", "disabled"}]],
           lastRun' \in [Reports -> BOOLEAN],
           \A r \in Reports : lastRun'[r] => lastRun[r],
           UNCHANGED <<phase, running, jobs, progress, lastTold, faults>>
    PROVE  ScheduleInv'
<1>1. /\ phase' = phase /\ running' = running /\ jobs' = jobs /\ step' = step
      /\ todo' = todo /\ told' = told /\ lastTold' = lastTold /\ faults' = faults
  BY DEF progress
<1>2. /\ stale' \in [Processes -> SUBSET Jobs]
      /\ \A p \in Processes : stale'[p] = stale[p] \cup {j}
      /\ late' \in [Jobs -> Nat]
      /\ late'[j] = 0 /\ \A i \in Jobs : i # j => late'[i] = late[i]
      /\ edits' \in Nat
  BY DEF ScheduleInv, ScheduleTypeOK, Edited
<1>3. ScheduleTypeOK'
  BY <1>1, <1>2 DEF ScheduleInv, ScheduleTypeOK
<1>4. Loaded'
  <2>. SUFFICES ASSUME NEW p \in Processes
                PROVE  /\ p \in running => phase[p] = "serving"
                       /\ phase[p] \in {"down", "workloads"} => jobs[p] = {}
                       /\ phase[p] = "reports" => jobs[p] \cap Reports = {}
                       /\ phase[p] \in {"reports", "policies"} \/ p \in running =>
                            \A w \in Workloads \ stale'[p] :
                                w \in jobs[p] <=> cron'[w] = "valid"
                       /\ phase[p] = "policies" \/ p \in running =>
                            \A r \in Reports \ stale'[p] :
                                r \in jobs[p] <=> report'[r] = "enabled"
    BY <1>1 DEF Loaded
  <2>. QED
    BY <1>2 DEF ScheduleInv, Loaded
<1>5. TellsAll'
  BY <1>1 DEF ScheduleInv, TellsAll
<1>6. LateCounted'
  <2>. SUFFICES ASSUME NEW r \in Reports
                PROVE  /\ report'[r] = "enabled" => late'[r] = 0
                       /\ late'[r] + Cardinality(Telling(r)) <= Cardinality(Processes)
    BY <1>1 DEF LateCounted, Telling
  <2>1. CASE r = j
    <3>1. /\ Cardinality(Telling(r)) <= Cardinality(Processes)
          /\ Cardinality(Telling(r)) \in Nat
      BY ProcessesCounted DEF Telling
    <3>. QED
      BY <1>2, <2>1, <3>1
  <2>2. CASE r # j
    BY <1>2, <2>2 DEF ScheduleInv, LateCounted, Jobs
  <2>. QED
    BY <2>1, <2>2
<1>7. NoRecipientForgotten'
  BY <1>1 DEF ScheduleInv, NoRecipientForgotten
<1>. QED
  BY <1>3, <1>4, <1>5, <1>6, <1>7 DEF ScheduleInv

LEMMA CreateScheduleInv ==
    ASSUME ScheduleInv, NEW r \in Reports, CreateSchedule(r)
    PROVE  ScheduleInv'
<1>1. r \in Jobs /\ Edited(r)
  BY DEF CreateSchedule, Jobs
<1>2. /\ report' \in [Reports -> {"new", "enabled", "disabled", "deleted"}]
      /\ \A q \in Reports : q # r => report'[q] = report[q]
  BY DEF CreateSchedule, ScheduleInv, ScheduleTypeOK
<1>3. /\ cron' = cron /\ request' = request /\ lastRun' = lastRun
      /\ UNCHANGED <<phase, running, jobs, progress, lastTold, faults>>
  BY DEF CreateSchedule
<1>4. /\ cron \in [Workloads -> {"none", "valid", "invalid"}]
      /\ request \in [Users -> {NoRequest} \cup
                               [row : Reports, was : {"enabled", "disabled"}]]
      /\ lastRun \in [Reports -> BOOLEAN]
  BY DEF ScheduleInv, ScheduleTypeOK
<1>. QED
  BY <1>1, <1>2, <1>3, <1>4, EditedInv

LEMMA DeleteScheduleInv ==
    ASSUME ScheduleInv, NEW r \in Reports, DeleteSchedule(r)
    PROVE  ScheduleInv'
<1>1. r \in Jobs /\ Edited(r)
  BY DEF DeleteSchedule, Jobs
<1>2. /\ report' \in [Reports -> {"new", "enabled", "disabled", "deleted"}]
      /\ \A q \in Reports : q # r => report'[q] = report[q]
  BY DEF DeleteSchedule, ScheduleInv, ScheduleTypeOK
<1>3. /\ cron' = cron /\ request' = request /\ lastRun' = lastRun
      /\ UNCHANGED <<phase, running, jobs, progress, lastTold, faults>>
  BY DEF DeleteSchedule
<1>4. /\ cron \in [Workloads -> {"none", "valid", "invalid"}]
      /\ request \in [Users -> {NoRequest} \cup
                               [row : Reports, was : {"enabled", "disabled"}]]
      /\ lastRun \in [Reports -> BOOLEAN]
  BY DEF ScheduleInv, ScheduleTypeOK
<1>. QED
  BY <1>1, <1>2, <1>3, <1>4, EditedInv

LEMMA SetScheduleInv ==
    ASSUME ScheduleInv, NEW w \in Workloads, NEW e \in {"none", "valid", "invalid"},
           SetSchedule(w, e)
    PROVE  ScheduleInv'
<1>1. w \in Jobs /\ Edited(w)
  BY DEF SetSchedule, Jobs
<1>2. /\ cron' \in [Workloads -> {"none", "valid", "invalid"}]
      /\ \A v \in Workloads : v # w => cron'[v] = cron[v]
  BY DEF SetSchedule, ScheduleInv, ScheduleTypeOK
<1>3. /\ report' = report /\ request' = request /\ lastRun' = lastRun
      /\ UNCHANGED <<phase, running, jobs, progress, lastTold, faults>>
  BY DEF SetSchedule
<1>4. /\ report \in [Reports -> {"new", "enabled", "disabled", "deleted"}]
      /\ request \in [Users -> {NoRequest} \cup
                               [row : Reports, was : {"enabled", "disabled"}]]
      /\ lastRun \in [Reports -> BOOLEAN]
  BY DEF ScheduleInv, ScheduleTypeOK
<1>. QED
  BY <1>1, <1>2, <1>3, <1>4, EditedInv

(* What a user has read matters to nothing until it is written back.       *)
LEMMA RequestInv ==
    ASSUME ScheduleInv,
           UNCHANGED <<report, cron, edits, tables, progress, runs, faults>>,
           request' \in [Users -> {NoRequest} \cup
                                  [row : Reports, was : {"enabled", "disabled"}]]
    PROVE  ScheduleInv'
<1>1. /\ report' = report /\ cron' = cron /\ edits' = edits /\ faults' = faults
      /\ phase' = phase /\ running' = running /\ jobs' = jobs /\ stale' = stale
      /\ step' = step /\ todo' = todo /\ told' = told
      /\ lastRun' = lastRun /\ lastTold' = lastTold /\ late' = late
  BY DEF tables, progress, runs
<1>2. ScheduleTypeOK'
  BY <1>1 DEF ScheduleInv, ScheduleTypeOK
<1>3. Loaded'
  BY <1>1 DEF ScheduleInv, Loaded
<1>4. TellsAll'
  BY <1>1 DEF ScheduleInv, TellsAll
<1>5. LateCounted' /\ NoRecipientForgotten'
  BY <1>1 DEF ScheduleInv, LateCounted, Telling, NoRecipientForgotten
<1>. QED
  BY <1>2, <1>3, <1>4, <1>5 DEF ScheduleInv

LEMMA ToggleReadInv ==
    ASSUME ScheduleInv, NEW u \in Users, NEW r \in Reports, ToggleRead(u, r)
    PROVE  ScheduleInv'
<1>1. request' \in [Users -> {NoRequest} \cup
                             [row : Reports, was : {"enabled", "disabled"}]]
  BY DEF ToggleRead, ScheduleInv, ScheduleTypeOK
<1>. QED
  BY <1>1, RequestInv DEF ToggleRead

LEMMA ToggleCommitInv ==
    ASSUME ScheduleInv, NEW u \in Users, ToggleCommit(u)
    PROVE  ScheduleInv'
<1>. DEFINE r  == request[u].row
            on == request[u].was = "disabled"
<1>1. /\ request \in [Users -> {NoRequest} \cup
                               [row : Reports, was : {"enabled", "disabled"}]]
      /\ report \in [Reports -> {"new", "enabled", "disabled", "deleted"}]
      /\ cron \in [Workloads -> {"none", "valid", "invalid"}]
      /\ lastRun \in [Reports -> BOOLEAN]
  BY DEF ScheduleInv, ScheduleTypeOK
<1>2. r \in Reports /\ r \in Jobs
  BY <1>1 DEF ToggleCommit, NoRequest, Jobs
<1>3. request' \in [Users -> {NoRequest} \cup
                             [row : Reports, was : {"enabled", "disabled"}]]
  BY <1>1 DEF ToggleCommit
<1>4. UNCHANGED <<cron, phase, running, jobs, progress, lastTold, faults>>
  BY DEF ToggleCommit
<1>5. CASE report[r] = "deleted"
  <2>1. /\ report' = report /\ lastRun' = lastRun /\ edits' = edits /\ stale' = stale
        /\ late' = late
    BY <1>5 DEF ToggleCommit
  <2>2. UNCHANGED <<tables, runs>>
    BY <1>4, <2>1 DEF tables, runs
  <2>. QED
    BY <1>3, <1>4, <2>1, <2>2, RequestInv
<1>6. CASE report[r] # "deleted"
  <2>1. /\ report' = [report EXCEPT ![r] = IF on THEN "enabled" ELSE "disabled"]
        /\ lastRun' = [lastRun EXCEPT ![r] = lastRun[r] /\ ~on]
        /\ Edited(r)
    BY <1>1, <1>2, <1>6 DEF ToggleCommit
  <2>. HIDE DEF r, on
  <2>2. /\ report' \in [Reports -> {"new", "enabled", "disabled", "deleted"}]
        /\ \A q \in Reports : q # r => report'[q] = report[q]
    BY <1>1, <1>2, <2>1
  <2>3. /\ lastRun' \in [Reports -> BOOLEAN]
        /\ \A q \in Reports : lastRun'[q] => lastRun[q]
    BY <1>1, <1>2, <2>1
  <2>. QED
    BY <1>1, <1>2, <1>3, <1>4, <2>1, <2>2, <2>3, EditedInv
<1>. QED
  BY <1>5, <1>6

-----------------------------------------------------------------------------
(* While the rows stay as they are, a change of the tables touches nothing *)
(* but the tables.                                                         *)
LEMMA TablesInv ==
    ASSUME ScheduleInv, UNCHANGED <<rows, progress, runs>>,
           phase' \in [Processes ->
                        {"down", "workloads", "reports", "policies", "serving"}],
           running' \subseteq Processes,
           jobs' \in [Processes -> SUBSET Jobs],
           stale' \in [Processes -> SUBSET Jobs],
           faults' \in Nat,
           Loaded'
    PROVE  ScheduleInv'
<1>1. /\ report' = report /\ cron' = cron /\ request' = request /\ edits' = edits
      /\ step' = step /\ todo' = todo /\ told' = told
      /\ lastRun' = lastRun /\ lastTold' = lastTold /\ late' = late
  BY DEF rows, progress, runs
<1>2. ScheduleTypeOK'
  BY <1>1 DEF ScheduleInv, ScheduleTypeOK
<1>. QED
  BY <1>1, <1>2 DEF ScheduleInv, TellsAll, LateCounted, Telling, NoRecipientForgotten

LEMMA StartInv ==
    ASSUME ScheduleInv, NEW p \in Processes, Start(p)
    PROVE  ScheduleInv'
<1>1. /\ phase' \in [Processes ->
                      {"down", "workloads", "reports", "policies", "serving"}]
      /\ stale' \in [Processes -> SUBSET Jobs]
      /\ running' \subseteq Processes /\ jobs' \in [Processes -> SUBSET Jobs]
      /\ faults' \in Nat
  BY DEF ScheduleInv, ScheduleTypeOK, Start
<1>2. /\ phase'[p] = "workloads" /\ phase[p] = "down"
      /\ \A q \in Processes : q # p => phase'[q] = phase[q] /\ stale'[q] = stale[q]
      /\ running' = running /\ jobs' = jobs /\ report' = report /\ cron' = cron
  BY DEF ScheduleInv, ScheduleTypeOK, Start, rows
<1>3. Loaded'
  BY <1>2 DEF ScheduleInv, Loaded
<1>. QED
  BY <1>1, <1>3, TablesInv DEF Start

LEMMA LoadWorkloadsInv ==
    ASSUME ScheduleInv, NEW p \in Processes, LoadWorkloads(p)
    PROVE  ScheduleInv'
<1>. DEFINE found == {w \in Workloads : cron[w] = "valid"}
<1>1. /\ phase' \in [Processes ->
                      {"down", "workloads", "reports", "policies", "serving"}]
      /\ stale' \in [Processes -> SUBSET Jobs]
      /\ running' \subseteq Processes /\ faults' \in Nat
  BY DEF ScheduleInv, ScheduleTypeOK, LoadWorkloads, Register
<1>2. jobs \in [Processes -> SUBSET Jobs] /\ found \subseteq Jobs /\ jobs[p] = {}
  BY DEF ScheduleInv, ScheduleTypeOK, Jobs, Loaded, LoadWorkloads
<1>3. jobs' = [jobs EXCEPT ![p] = jobs[p] \cup found]
  BY DEF LoadWorkloads, Register
<1>4. jobs' \in [Processes -> SUBSET Jobs] /\ jobs'[p] = found
  <2>. HIDE DEF found
  <2>. QED
    BY <1>2, <1>3
<1>5. /\ phase'[p] = "reports" /\ phase[p] = "workloads"
      /\ \A q \in Processes : q # p => phase'[q] = phase[q] /\ jobs'[q] = jobs[q]
      /\ running' = running /\ stale' = stale /\ report' = report /\ cron' = cron
  BY <1>2 DEF ScheduleInv, ScheduleTypeOK, LoadWorkloads, Register, rows
<1>6. found \cap Reports = {}
  BY SchedulesAssumption
<1>7. Loaded'
  <2>. SUFFICES ASSUME NEW q \in Processes
                PROVE  /\ q \in running => phase'[q] = "serving"
                       /\ phase'[q] \in {"down", "workloads"} => jobs'[q] = {}
                       /\ phase'[q] = "reports" => jobs'[q] \cap Reports = {}
                       /\ phase'[q] \in {"reports", "policies"} \/ q \in running =>
                            \A w \in Workloads \ stale[q] :
                                w \in jobs'[q] <=> cron[w] = "valid"
                       /\ phase'[q] = "policies" \/ q \in running =>
                            \A r \in Reports \ stale[q] :
                                r \in jobs'[q] <=> report[r] = "enabled"
    BY <1>5 DEF Loaded
  <2>1. CASE q = p
    <3>1. p \notin running
      BY <1>5 DEF ScheduleInv, Loaded
    <3>. QED
      BY <1>4, <1>5, <1>6, <2>1, <3>1
  <2>2. CASE q # p
    BY <1>5, <2>2 DEF ScheduleInv, Loaded
  <2>. QED
    BY <2>1, <2>2
<1>. QED
  BY <1>1, <1>4, <1>7, TablesInv DEF LoadWorkloads, Register

LEMMA LoadReportsInv ==
    ASSUME ScheduleInv, NEW p \in Processes, LoadReports(p)
    PROVE  ScheduleInv'
<1>. DEFINE found == {r \in Reports : report[r] = "enabled"}
<1>1. /\ phase' \in [Processes ->
                      {"down", "workloads", "reports", "policies", "serving"}]
      /\ stale' \in [Processes -> SUBSET Jobs]
      /\ running' \subseteq Processes /\ faults' \in Nat
  BY DEF ScheduleInv, ScheduleTypeOK, LoadReports, Register
<1>2. /\ jobs \in [Processes -> SUBSET Jobs] /\ found \subseteq Jobs
      /\ jobs[p] \cap Reports = {}
  BY DEF ScheduleInv, ScheduleTypeOK, Jobs, Loaded, LoadReports
<1>3. jobs' = [jobs EXCEPT ![p] = jobs[p] \cup found]
  BY DEF LoadReports, Register
<1>4. jobs' \in [Processes -> SUBSET Jobs] /\ jobs'[p] = jobs[p] \cup found
  <2>. HIDE DEF found
  <2>. QED
    BY <1>2, <1>3
<1>5. /\ phase'[p] = "policies" /\ phase[p] = "reports"
      /\ \A q \in Processes : q # p => phase'[q] = phase[q] /\ jobs'[q] = jobs[q]
      /\ running' = running /\ stale' = stale /\ report' = report /\ cron' = cron
  BY <1>2 DEF ScheduleInv, ScheduleTypeOK, LoadReports, Register, rows
<1>6. found \cap Workloads = {}
  BY SchedulesAssumption
<1>7. Loaded'
  <2>. SUFFICES ASSUME NEW q \in Processes
                PROVE  /\ q \in running => phase'[q] = "serving"
                       /\ phase'[q] \in {"down", "workloads"} => jobs'[q] = {}
                       /\ phase'[q] = "reports" => jobs'[q] \cap Reports = {}
                       /\ phase'[q] \in {"reports", "policies"} \/ q \in running =>
                            \A w \in Workloads \ stale[q] :
                                w \in jobs'[q] <=> cron[w] = "valid"
                       /\ phase'[q] = "policies" \/ q \in running =>
                            \A r \in Reports \ stale[q] :
                                r \in jobs'[q] <=> report[r] = "enabled"
    BY <1>5 DEF Loaded
  <2>1. CASE q = p
    <3>1. /\ p \notin running
          /\ \A w \in Workloads \ stale[p] : w \in jobs[p] <=> cron[w] = "valid"
      BY <1>5 DEF ScheduleInv, Loaded
    <3>2. \A w \in Workloads : w \in jobs'[p] <=> w \in jobs[p]
      BY <1>4, <1>6
    <3>3. \A r \in Reports : r \in jobs'[p] <=> report[r] = "enabled"
      BY <1>2, <1>4
    <3>. QED
      BY <1>5, <2>1, <3>1, <3>2, <3>3
  <2>2. CASE q # p
    BY <1>5, <2>2 DEF ScheduleInv, Loaded
  <2>. QED
    BY <2>1, <2>2
<1>. QED
  BY <1>1, <1>4, <1>7, TablesInv DEF LoadReports, Register

LEMMA StartSchedulerInv ==
    ASSUME ScheduleInv, NEW p \in Processes, StartScheduler(p)
    PROVE  ScheduleInv'
<1>1. /\ phase' \in [Processes ->
                      {"down", "workloads", "reports", "policies", "serving"}]
      /\ stale' \in [Processes -> SUBSET Jobs]
      /\ running' \subseteq Processes /\ jobs' \in [Processes -> SUBSET Jobs]
      /\ faults' \in Nat
  BY DEF ScheduleInv, ScheduleTypeOK, StartScheduler
<1>2. /\ phase'[p] = "serving" /\ phase[p] = "policies"
      /\ \A q \in Processes : q # p => phase'[q] = phase[q]
      /\ running' = running \cup {p}
      /\ stale' = stale /\ jobs' = jobs /\ report' = report /\ cron' = cron
  BY DEF ScheduleInv, ScheduleTypeOK, StartScheduler, rows
<1>3. Loaded'
  BY <1>2 DEF ScheduleInv, Loaded
<1>. QED
  BY <1>1, <1>3, TablesInv DEF StartScheduler

LEMMA LoadFailsInv ==
    ASSUME ScheduleInv, NEW p \in Processes, LoadFails(p)
    PROVE  ScheduleInv'
<1>1. /\ phase' \in [Processes ->
                      {"down", "workloads", "reports", "policies", "serving"}]
      /\ stale' \in [Processes -> SUBSET Jobs]
      /\ running' \subseteq Processes /\ jobs' \in [Processes -> SUBSET Jobs]
      /\ faults' \in Nat
  BY DEF ScheduleInv, ScheduleTypeOK, LoadFails
<1>2. /\ phase'[p] = "serving" /\ phase[p] # "serving"
      /\ \A q \in Processes : q # p => phase'[q] = phase[q]
      /\ running' = running /\ stale' = stale /\ jobs' = jobs
      /\ report' = report /\ cron' = cron
  BY DEF ScheduleInv, ScheduleTypeOK, LoadFails, rows
<1>3. Loaded'
  BY <1>2 DEF ScheduleInv, Loaded
<1>. QED
  BY <1>1, <1>3, TablesInv DEF LoadFails

LEMMA ProcessLostInv ==
    ASSUME ScheduleInv, NEW p \in Processes, ProcessLost(p)
    PROVE  ScheduleInv'
<1>1. ScheduleTypeOK'
  <2>1. /\ phase' \in [Processes ->
                        {"down", "workloads", "reports", "policies", "serving"}]
        /\ running' \subseteq Processes /\ jobs' \in [Processes -> SUBSET Jobs]
        /\ faults' \in Nat
    BY DEF ScheduleInv, ScheduleTypeOK, ProcessLost
  <2>2. /\ step' \in [Processes -> [Reports -> {"idle", "telling"}]]
        /\ told' \in [Processes -> [Reports -> SUBSET Addressed]]
    BY DEF ScheduleInv, ScheduleTypeOK, ProcessLost
  <2>3. todo' \in [Processes -> [Reports -> Seq(Range(Recipients))]]
    <3>1. [r \in Reports |-> <<>>] \in [Reports -> Seq(Range(Recipients))]
      OBVIOUS
    <3>. QED
      BY <3>1 DEF ScheduleInv, ScheduleTypeOK, ProcessLost
  <2>. QED
    BY <2>1, <2>2, <2>3 DEF ScheduleInv, ScheduleTypeOK, ProcessLost, rows, runs
<1>2. /\ phase'[p] = "down" /\ jobs'[p] = {} /\ running' = running \ {p}
      /\ \A q \in Processes : q # p =>
           phase'[q] = phase[q] /\ jobs'[q] = jobs[q]
      /\ stale' = stale /\ report' = report /\ cron' = cron
  BY DEF ScheduleInv, ScheduleTypeOK, ProcessLost, rows
<1>3. Loaded'
  BY <1>2 DEF ScheduleInv, Loaded
<1>4. /\ \A r \in Reports : step'[p][r] = "idle"
      /\ \A q \in Processes : q # p =>
           step'[q] = step[q] /\ todo'[q] = todo[q] /\ told'[q] = told[q]
      /\ lastRun' = lastRun /\ lastTold' = lastTold /\ late' = late
  BY DEF ScheduleInv, ScheduleTypeOK, ProcessLost, runs
<1>5. TellsAll'
  BY <1>4 DEF ScheduleInv, TellsAll
<1>6. LateCounted'
  <2>. SUFFICES ASSUME NEW r \in Reports
                PROVE  late[r] + Cardinality(Telling(r)') <= Cardinality(Processes)
    BY <1>2, <1>4 DEF ScheduleInv, LateCounted
  <2>1. Telling(r)' \subseteq Telling(r) /\ Telling(r) \subseteq Processes
    BY <1>4 DEF Telling
  <2>2. /\ Cardinality(Telling(r)') <= Cardinality(Telling(r))
        /\ Cardinality(Telling(r)') \in Nat /\ Cardinality(Telling(r)) \in Nat
        /\ Cardinality(Processes) \in Nat
    BY <2>1, ProcessesCounted
  <2>3. late[r] \in Nat /\ late[r] + Cardinality(Telling(r)) <= Cardinality(Processes)
    BY DEF ScheduleInv, ScheduleTypeOK, LateCounted, Jobs
  <2>. QED
    BY <2>2, <2>3
<1>7. NoRecipientForgotten'
  BY <1>4 DEF ScheduleInv, NoRecipientForgotten
<1>. QED
  BY <1>1, <1>3, <1>5, <1>6, <1>7 DEF ScheduleInv

-----------------------------------------------------------------------------
(* While a job is executed the rows and the tables stay as they are.       *)
LEMMA JobsInv ==
    ASSUME ScheduleInv, UNCHANGED <<rows, tables>>,
           step' \in [Processes -> [Reports -> {"idle", "telling"}]],
           todo' \in [Processes -> [Reports -> Seq(Range(Recipients))]],
           told' \in [Processes -> [Reports -> SUBSET Addressed]],
           lastRun' \in [Reports -> BOOLEAN],
           lastTold' \in [Reports -> SUBSET Addressed],
           late' \in [Jobs -> Nat], faults' \in Nat,
           TellsAll', LateCounted', NoRecipientForgotten'
    PROVE  ScheduleInv'
<1>1. /\ report' = report /\ cron' = cron /\ request' = request /\ edits' = edits
      /\ phase' = phase /\ running' = running /\ jobs' = jobs /\ stale' = stale
  BY DEF rows, tables
<1>. QED
  BY <1>1 DEF ScheduleInv, ScheduleTypeOK, Loaded

LEMMA ReadReportInv ==
    ASSUME ScheduleInv, NEW p \in Processes, NEW r \in Reports, ReadReport(p, r)
    PROVE  ScheduleInv'
<1>1. /\ step \in [Processes -> [Reports -> {"idle", "telling"}]]
      /\ todo \in [Processes -> [Reports -> Seq(Range(Recipients))]]
      /\ told \in [Processes -> [Reports -> SUBSET Addressed]]
      /\ lastRun \in [Reports -> BOOLEAN] /\ lastTold \in [Reports -> SUBSET Addressed]
      /\ late \in [Jobs -> Nat] /\ faults \in Nat
  BY DEF ScheduleInv, ScheduleTypeOK
<1>2. /\ step' = [step EXCEPT ![p][r] = "telling"]
      /\ todo' = [todo EXCEPT ![p][r] = Recipients]
      /\ told' = [told EXCEPT ![p][r] = {}]
      /\ report[r] = "enabled"
      /\ lastRun' = lastRun /\ lastTold' = lastTold /\ late' = late
      /\ report' = report /\ faults' = faults
  BY DEF ReadReport, Goto, runs, rows
<1>3. /\ step' \in [Processes -> [Reports -> {"idle", "telling"}]]
      /\ \A q \in Processes, t \in Reports : q # p \/ t # r => step'[q][t] = step[q][t]
  BY <1>1, <1>2, UpdateAt
<1>4. /\ todo' \in [Processes -> [Reports -> Seq(Range(Recipients))]]
      /\ todo'[p][r] = Recipients
      /\ \A q \in Processes, t \in Reports : q # p \/ t # r => todo'[q][t] = todo[q][t]
  BY <1>1, <1>2, UpdateAt, SchedulesAssumption
<1>5. /\ told' \in [Processes -> [Reports -> SUBSET Addressed]]
      /\ told'[p][r] = {}
      /\ \A q \in Processes, t \in Reports : q # p \/ t # r => told'[q][t] = told[q][t]
  BY <1>1, <1>2, UpdateAt
<1>6. TellsAll'
  <2>. SUFFICES ASSUME NEW q \in Processes, NEW t \in Reports, step'[q][t] = "telling"
                PROVE  told'[q][t] \cup (Range(todo'[q][t]) \cap Addressed) = Addressed
    BY DEF TellsAll
  <2>1. CASE q = p /\ t = r
    BY <1>4, <1>5, <2>1, SchedulesAssumption
  <2>2. CASE q # p \/ t # r
    <3>1. step'[q][t] = step[q][t] /\ todo'[q][t] = todo[q][t] /\ told'[q][t] = told[q][t]
      BY <1>3, <1>4, <1>5, <2>2
    <3>2. told[q][t] \cup (Range(todo[q][t]) \cap Addressed) = Addressed
      BY <3>1 DEF ScheduleInv, TellsAll
    <3>. QED
      BY <3>1, <3>2
  <2>. QED
    BY <2>1, <2>2
<1>7. LateCounted'
  <2>. SUFFICES ASSUME NEW t \in Reports
                PROVE  late[t] + Cardinality(Telling(t)') <= Cardinality(Processes)
    BY <1>2 DEF ScheduleInv, LateCounted
  <2>1. CASE t = r
    <3>1. late[t] = 0
      BY <1>2, <2>1 DEF ScheduleInv, LateCounted
    <3>2. /\ Cardinality(Telling(t)') <= Cardinality(Processes)
          /\ Cardinality(Telling(t)') \in Nat
      BY ProcessesCounted DEF Telling
    <3>. QED
      BY <3>1, <3>2
  <2>2. CASE t # r
    <3>1. Telling(t)' = Telling(t)
      BY <1>3, <2>2 DEF Telling
    <3>. QED
      BY <3>1 DEF ScheduleInv, LateCounted
  <2>. QED
    BY <2>1, <2>2
<1>8. NoRecipientForgotten'
  BY <1>2 DEF ScheduleInv, NoRecipientForgotten
<1>. QED
  BY <1>1, <1>2, <1>3, <1>4, <1>5, <1>6, <1>7, <1>8, JobsInv DEF ReadReport

LEMMA SendReportDeliveryInv ==
    ASSUME ScheduleInv, NEW p \in Processes, NEW r \in Reports, SendReportDelivery(p, r)
    PROVE  ScheduleInv'
<1>. DEFINE head == {Head(todo[p][r])} \cap Addressed
<1>1. /\ step \in [Processes -> [Reports -> {"idle", "telling"}]]
      /\ todo \in [Processes -> [Reports -> Seq(Range(Recipients))]]
      /\ told \in [Processes -> [Reports -> SUBSET Addressed]]
      /\ lastRun \in [Reports -> BOOLEAN] /\ lastTold \in [Reports -> SUBSET Addressed]
      /\ late \in [Jobs -> Nat] /\ faults \in Nat
  BY DEF ScheduleInv, ScheduleTypeOK
<1>2. /\ told' = [told EXCEPT ![p][r] = told[p][r] \cup head]
      /\ todo' = [todo EXCEPT ![p][r] = Tail(todo[p][r])]
      /\ step[p][r] = "telling" /\ todo[p][r] # <<>>
      /\ step' = step /\ lastRun' = lastRun /\ lastTold' = lastTold /\ late' = late
      /\ report' = report /\ faults' = faults
  BY <1>1 DEF SendReportDelivery, runs, rows
<1>3. /\ todo[p][r] \in Seq(Range(Recipients))
      /\ Tail(todo[p][r]) \in Seq(Range(Recipients))
  BY <1>1, <1>2, HeadTailProperties
<1>4. /\ todo' \in [Processes -> [Reports -> Seq(Range(Recipients))]]
      /\ todo'[p][r] = Tail(todo[p][r])
      /\ \A q \in Processes, t \in Reports : q # p \/ t # r => todo'[q][t] = todo[q][t]
  BY <1>1, <1>2, <1>3, UpdateAt
<1>5. told[p][r] \cup head \in SUBSET Addressed
  BY <1>1
<1>6. /\ told' \in [Processes -> [Reports -> SUBSET Addressed]]
      /\ told'[p][r] = told[p][r] \cup head
      /\ \A q \in Processes, t \in Reports : q # p \/ t # r => told'[q][t] = told[q][t]
  <2>. HIDE DEF head
  <2>. QED
    BY <1>1, <1>2, <1>5, UpdateAt
<1>7. TellsAll'
  <2>. SUFFICES ASSUME NEW q \in Processes, NEW t \in Reports, step[q][t] = "telling"
                PROVE  told'[q][t] \cup (Range(todo'[q][t]) \cap Addressed) = Addressed
    BY <1>2 DEF TellsAll
  <2>1. CASE q = p /\ t = r
    <3>1. Range(todo[p][r]) = {Head(todo[p][r])} \cup Range(Tail(todo[p][r]))
      BY <1>2, <1>3, RangeOfList
    <3>2. told[p][r] \cup (Range(todo[p][r]) \cap Addressed) = Addressed
      BY <1>2 DEF ScheduleInv, TellsAll
    <3>3. told'[p][r] \cup (Range(todo'[p][r]) \cap Addressed)
            = told[p][r] \cup (Range(todo[p][r]) \cap Addressed)
      BY <1>4, <1>6, <3>1
    <3>. QED
      BY <2>1, <3>2, <3>3
  <2>2. CASE q # p \/ t # r
    <3>1. todo'[q][t] = todo[q][t] /\ told'[q][t] = told[q][t]
      BY <1>4, <1>6, <2>2
    <3>2. told[q][t] \cup (Range(todo[q][t]) \cap Addressed) = Addressed
      BY DEF ScheduleInv, TellsAll
    <3>. QED
      BY <3>1, <3>2
  <2>. QED
    BY <2>1, <2>2
<1>8. LateCounted' /\ NoRecipientForgotten'
  BY <1>2 DEF ScheduleInv, LateCounted, Telling, NoRecipientForgotten
<1>. QED
  BY <1>1, <1>2, <1>4, <1>6, <1>7, <1>8, JobsInv DEF SendReportDelivery

(* One report fewer under way, and at most one more that was late.         *)
LEMMA RecordRunInv ==
    ASSUME ScheduleInv, NEW p \in Processes, NEW r \in Reports, RecordRun(p, r)
    PROVE  ScheduleInv'
<1>1. /\ step \in [Processes -> [Reports -> {"idle", "telling"}]]
      /\ todo \in [Processes -> [Reports -> Seq(Range(Recipients))]]
      /\ told \in [Processes -> [Reports -> SUBSET Addressed]]
      /\ lastRun \in [Reports -> BOOLEAN] /\ lastTold \in [Reports -> SUBSET Addressed]
      /\ late \in [Jobs -> Nat] /\ faults \in Nat /\ r \in Jobs
  BY DEF ScheduleInv, ScheduleTypeOK, Jobs
<1>2. /\ step[p][r] = "telling" /\ todo[p][r] = <<>>
      /\ step' = [step EXCEPT ![p][r] = "idle"]
      /\ late' = [late EXCEPT ![r] = IF report[r] = "enabled" THEN late[r] ELSE late[r] + 1]
      /\ todo' = todo /\ told' = told /\ report' = report /\ faults' = faults
  BY <1>1 DEF RecordRun, Goto, Wanted, rows
<1>3. /\ step' \in [Processes -> [Reports -> {"idle", "telling"}]]
      /\ step'[p][r] = "idle"
      /\ \A q \in Processes, t \in Reports : q # p \/ t # r => step'[q][t] = step[q][t]
  BY <1>1, <1>2, UpdateAt
<1>4. /\ late' \in [Jobs -> Nat]
      /\ late'[r] = IF report[r] = "enabled" THEN late[r] ELSE late[r] + 1
      /\ \A t \in Jobs : t # r => late'[t] = late[t]
  BY <1>1, <1>2
<1>5. told[p][r] = Addressed
  <2>1. Range(todo[p][r]) = {}
    <3>1. todo[p][r] \in Seq(Range(Recipients))
      BY <1>1
    <3>. QED
      BY <1>2, <3>1, RangeOfList
  <2>. QED
    BY <1>2, <2>1 DEF ScheduleInv, TellsAll
<1>6. /\ lastRun' \in [Reports -> BOOLEAN] /\ lastTold' \in [Reports -> SUBSET Addressed]
      /\ NoRecipientForgotten'
  <2>1. CASE report[r] = "deleted"
    <3>1. lastRun' = lastRun /\ lastTold' = lastTold
      BY <2>1 DEF RecordRun
    <3>. QED
      BY <1>1, <3>1 DEF ScheduleInv, NoRecipientForgotten
  <2>2. CASE report[r] # "deleted"
    <3>1. /\ lastRun' = [lastRun EXCEPT ![r] = TRUE]
          /\ lastTold' = [lastTold EXCEPT ![r] = Addressed]
      BY <1>5, <2>2 DEF RecordRun
    <3>. QED
      BY <1>1, <3>1 DEF ScheduleInv, NoRecipientForgotten
  <2>. QED
    BY <2>1, <2>2
<1>7. TellsAll'
  BY <1>2, <1>3 DEF ScheduleInv, TellsAll
<1>8. LateCounted'
  <2>. SUFFICES ASSUME NEW t \in Reports
                PROVE  /\ report[t] = "enabled" => late'[t] = 0
                       /\ late'[t] + Cardinality(Telling(t)') <= Cardinality(Processes)
    BY <1>2 DEF LateCounted
  <2>1. /\ report[t] = "enabled" => late[t] = 0
        /\ late[t] \in Nat
        /\ late[t] + Cardinality(Telling(t)) <= Cardinality(Processes)
    BY <1>1 DEF ScheduleInv, LateCounted, Jobs
  <2>2. CASE t = r
    <3>1. Telling(r)' = Telling(r) \ {p} /\ p \in Telling(r)
      BY <1>2, <1>3 DEF Telling
    <3>2. /\ IsFiniteSet(Telling(r)) /\ Cardinality(Telling(r)) \in Nat
          /\ Cardinality(Processes) \in Nat
      BY ProcessesCounted DEF Telling
    <3>3. Cardinality(Telling(r)') = Cardinality(Telling(r)) - 1
      BY <3>1, <3>2, FS_RemoveElement
    <3>. QED
      BY <1>4, <2>1, <2>2, <3>2, <3>3
  <2>3. CASE t # r
    <3>1. Telling(t)' = Telling(t)
      BY <1>3, <2>3 DEF Telling
    <3>. QED
      BY <1>4, <2>1, <2>3, <3>1 DEF Jobs
  <2>. QED
    BY <2>2, <2>3
<1>. QED
  BY <1>1, <1>2, <1>3, <1>4, <1>6, <1>7, <1>8, JobsInv DEF RecordRun

LEMMA JobErrorInv ==
    ASSUME ScheduleInv, NEW p \in Processes, NEW r \in Reports, JobError(p, r)
    PROVE  ScheduleInv'
<1>1. /\ step \in [Processes -> [Reports -> {"idle", "telling"}]]
      /\ todo \in [Processes -> [Reports -> Seq(Range(Recipients))]]
      /\ told \in [Processes -> [Reports -> SUBSET Addressed]]
      /\ lastRun \in [Reports -> BOOLEAN] /\ lastTold \in [Reports -> SUBSET Addressed]
      /\ late \in [Jobs -> Nat] /\ faults \in Nat
  BY DEF ScheduleInv, ScheduleTypeOK
<1>2. /\ step' = [step EXCEPT ![p][r] = "idle"]
      /\ todo' = todo /\ told' = told /\ report' = report /\ faults' = faults + 1
      /\ lastRun' = lastRun /\ lastTold' = lastTold /\ late' = late
  BY DEF JobError, Goto, rows, runs
<1>3. /\ step' \in [Processes -> [Reports -> {"idle", "telling"}]]
      /\ step'[p][r] = "idle"
      /\ \A q \in Processes, t \in Reports : q # p \/ t # r => step'[q][t] = step[q][t]
  BY <1>1, <1>2, UpdateAt
<1>4. TellsAll' /\ NoRecipientForgotten'
  BY <1>2, <1>3 DEF ScheduleInv, TellsAll, NoRecipientForgotten
<1>5. LateCounted'
  <2>. SUFFICES ASSUME NEW t \in Reports
                PROVE  late[t] + Cardinality(Telling(t)') <= Cardinality(Processes)
    BY <1>2 DEF ScheduleInv, LateCounted
  <2>1. Telling(t)' \subseteq Telling(t) /\ Telling(t) \subseteq Processes
    BY <1>3 DEF Telling
  <2>2. /\ Cardinality(Telling(t)') <= Cardinality(Telling(t))
        /\ Cardinality(Telling(t)') \in Nat /\ Cardinality(Telling(t)) \in Nat
        /\ Cardinality(Processes) \in Nat
    BY <2>1, ProcessesCounted
  <2>3. late[t] \in Nat /\ late[t] + Cardinality(Telling(t)) <= Cardinality(Processes)
    BY <1>1 DEF ScheduleInv, LateCounted, Jobs
  <2>. QED
    BY <2>2, <2>3
<1>6. faults' \in Nat
  BY <1>1, <1>2
<1>. QED
  BY <1>1, <1>2, <1>3, <1>4, <1>5, <1>6, JobsInv DEF JobError

LEMMA TriggerScheduledRunInv ==
    ASSUME ScheduleInv, NEW p \in Processes, NEW w \in Workloads,
           TriggerScheduledRun(p, w)
    PROVE  ScheduleInv'
<1>1. /\ step \in [Processes -> [Reports -> {"idle", "telling"}]]
      /\ todo \in [Processes -> [Reports -> Seq(Range(Recipients))]]
      /\ told \in [Processes -> [Reports -> SUBSET Addressed]]
      /\ lastRun \in [Reports -> BOOLEAN] /\ lastTold \in [Reports -> SUBSET Addressed]
      /\ late \in [Jobs -> Nat] /\ faults \in Nat
  BY DEF ScheduleInv, ScheduleTypeOK
<1>2. /\ late' = [late EXCEPT ![w] = IF Wanted(w) THEN late[w] ELSE 1]
      /\ step' = step /\ todo' = todo /\ told' = told /\ report' = report
      /\ lastRun' = lastRun /\ lastTold' = lastTold /\ faults' = faults
  BY <1>1 DEF TriggerScheduledRun, progress, rows
<1>3. late' \in [Jobs -> Nat] /\ \A r \in Reports : late'[r] = late[r]
  BY <1>1, <1>2, SchedulesAssumption DEF Jobs
<1>4. TellsAll' /\ NoRecipientForgotten' /\ LateCounted'
  BY <1>2, <1>3 DEF ScheduleInv, TellsAll, NoRecipientForgotten, LateCounted, Telling
<1>. QED
  BY <1>1, <1>2, <1>3, <1>4, JobsInv DEF TriggerScheduledRun

LEMMA ScheduleStep == ScheduleInv /\ [ScheduleNext]_scheduleVars => ScheduleInv'
<1>. SUFFICES ASSUME ScheduleInv, [ScheduleNext]_scheduleVars
              PROVE  ScheduleInv'
  OBVIOUS
<1>1. CASE UNCHANGED scheduleVars
  <2>1. /\ UNCHANGED <<report, cron, edits, tables, progress, runs, faults>>
        /\ request' = request
    BY <1>1 DEF scheduleVars, rows
  <2>2. request \in [Users -> {NoRequest} \cup
                              [row : Reports, was : {"enabled", "disabled"}]]
    BY DEF ScheduleInv, ScheduleTypeOK
  <2>. QED
    BY <2>1, <2>2, RequestInv
<1>2. CASE Edit
  BY <1>2, CreateScheduleInv, DeleteScheduleInv, ToggleCommitInv, ToggleReadInv,
     SetScheduleInv DEF Edit
<1>3. CASE \E p \in Processes : Load(p) \/ LoadFails(p) \/ ProcessLost(p)
  BY <1>3, StartInv, LoadWorkloadsInv, LoadReportsInv, StartSchedulerInv, LoadFailsInv,
     ProcessLostInv DEF Load
<1>4. CASE \E p \in Processes : \E r \in Reports : RunReport(p, r) \/ JobError(p, r)
  BY <1>4, ReadReportInv, SendReportDeliveryInv, RecordRunInv, JobErrorInv DEF RunReport
<1>5. CASE \E p \in Processes : \E w \in Workloads : TriggerScheduledRun(p, w)
  BY <1>5, TriggerScheduledRunInv
<1>. QED
  BY <1>1, <1>2, <1>3, <1>4, <1>5 DEF ScheduleNext

LEMMA ScheduleSpecInv == ScheduleSpec => []ScheduleInv
BY ScheduleInitInv, ScheduleStep, PTL DEF ScheduleSpec

(* load_schedules: the table of a running scheduler disagrees with a row   *)
(* only if the row was edited since the process began to load, for any     *)
(* number of processes, rows, edits between the queries and lost processes. *)
THEOREM TableTheorem == ScheduleSpec => []TableMatchesRows
<1>1. ScheduleInv => TableMatchesRows
  BY DEF ScheduleInv, ScheduleTypeOK, Loaded, TableMatchesRows, Wanted, Jobs
<1>. QED
  BY <1>1, ScheduleSpecInv, PTL

(* _run_report_schedule and send_report_delivery: a run that is recorded   *)
(* was tried on every recipient that can be told, for lists of any length. *)
THEOREM RecipientsTheorem == ScheduleSpec => []NoRecipientForgotten
<1>1. ScheduleInv => NoRecipientForgotten
  BY DEF ScheduleInv
<1>. QED
  BY <1>1, ScheduleSpecInv, PTL

(* _run_report_schedule: no more reports go out after their schedule was   *)
(* disabled or deleted than there are processes.                           *)
THEOREM LateTheorem == ScheduleSpec => []LateReportsBounded
<1>1. ScheduleInv => LateReportsBounded
  <2>. SUFFICES ASSUME ScheduleInv, NEW r \in Reports
                PROVE  late[r] <= Cardinality(Processes)
    BY DEF LateReportsBounded
  <2>1. /\ Cardinality(Telling(r)) \in Nat /\ Cardinality(Processes) \in Nat
    BY ProcessesCounted DEF Telling
  <2>2. late[r] \in Nat /\ late[r] + Cardinality(Telling(r)) <= Cardinality(Processes)
    BY DEF ScheduleInv, ScheduleTypeOK, LateCounted, Jobs
  <2>. QED
    BY <2>1, <2>2
<1>. QED
  BY <1>1, ScheduleSpecInv, PTL
=============================================================================
