------------------------- MODULE RecoveryTestProofs -------------------------
(***************************************************************************)
(* Proofs about RecoveryTest, for every value of its constants.  IndInv is *)
(* the inductive invariant; the safety properties and the refinement of    *)
(* IsolatedTest follow from it.                                            *)
(***************************************************************************)
EXTENDS RecoveryTest, TLAPS

-----------------------------------------------------------------------------
(* The readiness score *)

(* One objective is worth between 0 and 20 points: _objective_points.      *)
LEMMA PointsRange ==
    ASSUME NEW a \in Int, NEW t \in Int
    PROVE  ObjectivePoints(a, t) \subseteq 0..ObjectiveMax
BY DEF ObjectivePoints, ObjectiveMax

(* The score of a healthy run is at least 60, that of an unhealthy one at  *)
(* most 40, whatever was measured: readiness_score.                        *)
LEMMA ScoreRange ==
    ASSUME NEW h \in BOOLEAN, NEW a \in Int, NEW t \in Int,
           NEW b \in Int, NEW u \in Int,
           NEW score \in ReadinessScore(h, a, t, b, u)
    PROVE  /\ score \in 0..100
           /\ IF h THEN score \in HealthPoints..100
                   ELSE score \in 0..(2 * ObjectiveMax)
<1>1. PICK p \in ObjectivePoints(a, t), q \in ObjectivePoints(b, u) :
         score = Clamp((IF h THEN HealthPoints ELSE 0) + p + q)
  BY DEF ReadinessScore
<1>2. p \in 0..20 /\ q \in 0..20
  BY PointsRange DEF ObjectiveMax
<1>. QED
  BY <1>1, <1>2 DEF Clamp, HealthPoints, ObjectiveMax

-----------------------------------------------------------------------------
(* Attempts *)

(* What a failed attempt does to the control state: it is retried, or the  *)
(* try block is left for capture_evidence, or the workflow ends.           *)
LEMMA FailedAttempt ==
    ASSUME IndInv, AttemptFails, pc \in TrySteps \cup FinallySteps
    PROVE  /\ post' = 1
           /\ attempt' \in 1..MaxAttempts
           /\ attempt' <= AttemptsOf(pc')
           /\ polls' \in 0..(MaxPolls - 1)
           /\ failure_reason' \in BOOLEAN
           /\ \/ /\ pc' = FirstCall(pc)
                 /\ attempt' = attempt + 1
                 /\ failure_reason' = failure_reason
              \/ /\ pc \in TrySteps
                 /\ pc' = "capture_evidence"
                 /\ failure_reason' = TRUE
              \/ /\ pc \in FinallySteps
                 /\ pc' = "raised"
                 /\ failure_reason' = failure_reason
<1>. USE DEF AttemptFails
<1>0. /\ MaxAttempts \in Nat \ {0}
      /\ polls' \in 0..(MaxPolls - 1)
      /\ attempt \in 1..MaxAttempts
      /\ attempt <= AttemptsOf(pc)
      /\ failure_reason \in BOOLEAN
  BY ConstantsAssumption DEF IndInv, TypeOK, FlowOK, FlagsOK, AttemptOK
<1>1. CASE Retry
  <2>1. AttemptsOf(pc) \in 1..MaxAttempts
    BY <1>0 DEF AttemptsOf
  <2>2. AttemptsOf(FirstCall(pc)) = AttemptsOf(pc)
    BY DEF FirstCall, AttemptsOf, TeardownSteps
  <2>3. attempt' = attempt + 1 /\ attempt' <= AttemptsOf(pc)
    BY <1>0, <1>1, <2>1 DEF Retry
  <2>4. attempt' \in 1..MaxAttempts
    BY <2>3, <2>1, <1>0
  <2>. QED
    BY <1>0, <1>1, <2>2, <2>3, <2>4 DEF Retry
<1>2. CASE RaiseInTry
  <2>1. attempt' \in 1..MaxAttempts /\ attempt' <= AttemptsOf(pc')
    BY <1>0, <1>2 DEF RaiseInTry, AttemptsOf
  <2>. QED
    BY <1>0, <1>2, <2>1 DEF RaiseInTry
<1>3. CASE RaiseInFinally
  BY <1>0, <1>3 DEF RaiseInFinally, AttemptsOf
<1>. QED
  BY <1>1, <1>2, <1>3

(* A retry or the end of the activity leaves room for PostAttempts more    *)
(* sessions: the arithmetic behind SessionsBounded.                        *)
LEMMA RoomForSessions ==
    ASSUME NEW M \in Nat \ {0}, NEW P \in Nat \ {0}, NEW a \in 1..M,
           NEW q \in 1..P, NEW n \in Nat, n <= (a - 1) * P + (q - 1)
    PROVE  /\ n + 1 <= M * P
           /\ n + 1 <= (a - 1) * P + q
           /\ n + 1 <= (a + 1 - 1) * P
<1>1. (a - 1) * P + P = a * P
  OBVIOUS
<1>2. a * P <= M * P
  <2>1. PICK d \in Nat : M = a + d
    BY M - a \in Nat
  <2>2. M * P = a * P + d * P
    BY <2>1
  <2>3. d * P >= 0 /\ d * P \in Nat
    OBVIOUS
  <2>. QED
    BY <2>2, <2>3
<1>3. a * P \in Nat /\ M * P \in Nat /\ (a - 1) * P \in Nat
  OBVIOUS
<1>. QED
  BY <1>1, <1>2, <1>3

(* After a failed attempt the control state is still well-formed. *)
LEMMA FailedFlow ==
    ASSUME IndInv, AttemptFails, pc \in TrySteps \cup FinallySteps
    PROVE  FlowOK' /\ AttemptOK'
<1>1. pc' \in TrySteps \cup FinallySteps \cup Ends
  BY FailedAttempt DEF FirstCall, TrySteps, FinallySteps, TeardownSteps, Ends
<1>2. post' \in 1..PostAttempts
  <2>1. post' = 1
    BY DEF AttemptFails
  <2>. QED
    BY <2>1, ConstantsAssumption
<1>. QED
  BY <1>1, <1>2, FailedAttempt DEF FlowOK, AttemptOK

(* The sessions stay bounded when the failed attempt created at most one.  *)
LEMMA FailedBounded ==
    ASSUME IndInv, AttemptFails, pc \in TrySteps \cup FinallySteps,
           \/ started' = started
           \/ pc = "start_instant_recovery" /\ started' = started + 1,
           stopped' \subseteq {recovery_session_id'}
    PROVE  Bounded'
<1>. USE ConstantsAssumption
<1>1. /\ attempt \in 1..MaxAttempts /\ post \in 1..PostAttempts
      /\ started \in Nat /\ started <= MaxAttempts * PostAttempts
  BY DEF IndInv, TypeOK, FlowOK, WorldOK, Bounded
<1>2. CASE pc = "start_instant_recovery"
  <2>1. started <= (attempt - 1) * PostAttempts + (post - 1)
    BY <1>2 DEF IndInv, Bounded
  <2>2. /\ started + 1 <= MaxAttempts * PostAttempts
        /\ started + 1 <= (attempt + 1 - 1) * PostAttempts
    BY <1>1, <2>1, RoomForSessions
  <2>3. (attempt + 1 - 1) * PostAttempts \in Nat
    BY <1>1
  <2>4. pc' = pc => attempt' = attempt + 1 /\ post' = 1
    BY <1>2, FailedAttempt
  <2>5. pc' = "start_instant_recovery" =>
            started' <= (attempt' - 1) * PostAttempts + (post' - 1)
    BY <1>1, <1>2, <2>2, <2>3, <2>4
  <2>. QED
    BY <1>1, <2>2, <2>5 DEF Bounded
<1>3. CASE pc # "start_instant_recovery"
  <2>1. pc' # "start_instant_recovery"
    BY <1>3, FailedAttempt DEF FirstCall, TrySteps, FinallySteps,
       TeardownSteps
  <2>. QED
    BY <1>1, <1>3, <2>1 DEF Bounded
<1>. QED
  BY <1>2, <1>3

(* A failed attempt that changed nothing else keeps the invariant. *)
LEMMA QuietFailure ==
    ASSUME IndInv, AttemptFails, pc \in TrySteps \cup FinallySteps,
           UNCHANGED <<locals, backend, portgroup, veeam, saas>>
    PROVE  IndInv'
<1>. USE DEF IndInv, TypeOK, TrySteps, FinallySteps, TeardownSteps, Ends
<1>1. FlowOK' /\ AttemptOK'
  BY FailedFlow
<1>2. FlagsOK' /\ ValuesOK'
  BY FailedAttempt DEF FlagsOK, ValuesOK, locals
<1>3. WorldOK'
  BY DEF WorldOK, locals, veeam, saas
<1>4. LocalsByStep'
  BY FailedAttempt DEF LocalsByStep, FirstCall, locals, veeam
<1>5. Isolation' /\ PassedIsEarned'
  BY FailedAttempt DEF Isolation, PassedIsEarned, LocalsByStep, locals,
     veeam, saas
<1>6. Reported' /\ Released'
  BY FailedAttempt DEF Reported, Scored, Released, FirstCall, locals, veeam,
     saas
<1>7. Bounded'
  BY FailedBounded DEF Bounded, locals, veeam
<1>. QED
  BY <1>1, <1>2, <1>3, <1>4, <1>5, <1>6, <1>7

-----------------------------------------------------------------------------
(* The initial state and the steps *)

LEMMA InitIndInv == Init => IndInv
<1>. SUFFICES ASSUME Init PROVE IndInv
  OBVIOUS
<1>. USE ConstantsAssumption DEF Init
<1>1. TypeOK
  <2>1. FlowOK
    BY DEF FlowOK, TrySteps
  <2>2. FlagsOK
    BY DEF FlagsOK
  <2>3. ValuesOK
    BY DEF ValuesOK
  <2>4. WorldOK
    BY DEF WorldOK
  <2>. QED
    BY <2>1, <2>2, <2>3, <2>4 DEF TypeOK
<1>2. AttemptOK
  BY DEF AttemptOK, AttemptsOf
<1>3. LocalsByStep
  BY DEF LocalsByStep
<1>4. Isolation /\ PassedIsEarned /\ Released
  BY DEF Isolation, PassedIsEarned, Released
<1>5. Reported
  BY DEF Reported, TeardownSteps
<1>6. Bounded
  BY DEF Bounded
<1>. QED
  BY <1>1, <1>2, <1>3, <1>4, <1>5, <1>6 DEF IndInv

(* sync_inventory succeeds. *)
LEMMA SyncInventoryInv == ASSUME IndInv, SyncInventory PROVE IndInv'
<1>. USE ConstantsAssumption DEF IndInv, TypeOK, TrySteps, FinallySteps, TeardownSteps, Ends
<1>1. FlowOK' /\ AttemptOK'
  BY DEF FlowOK, AttemptOK, AttemptsOf, SyncInventory, Goto
<1>2. FlagsOK' /\ ValuesOK'
  BY DEF FlagsOK, ValuesOK, SyncInventory, Goto, locals
<1>3. WorldOK'
  BY DEF WorldOK, SyncInventory, Goto, locals, veeam, saas
<1>4. LocalsByStep'
  BY DEF LocalsByStep, WorldOK, SyncInventory, Goto, locals, veeam
<1>5. Isolation' /\ PassedIsEarned'
  BY DEF Isolation, PassedIsEarned, LocalsByStep, FlagsOK, WorldOK,
     SyncInventory, Goto, locals, veeam, saas
<1>6. Reported' /\ Released'
  BY DEF Reported, Scored, Released, WorldOK, SyncInventory, Goto,
     locals, veeam, saas
<1>7. Bounded'
  BY RoomForSessions DEF Bounded, LocalsByStep, FlowOK, WorldOK,
     SyncInventory, Goto, locals, veeam
<1>. QED
  BY <1>1, <1>2, <1>3, <1>4, <1>5, <1>6, <1>7

(* select_restore_point succeeds. *)
LEMMA SelectRestorePointInv == ASSUME IndInv, SelectRestorePoint PROVE IndInv'
<1>. USE ConstantsAssumption DEF IndInv, TypeOK, TrySteps, FinallySteps, TeardownSteps, Ends
<1>1. FlowOK' /\ AttemptOK'
  BY DEF FlowOK, AttemptOK, AttemptsOf, SelectRestorePoint, Goto
<1>2. FlagsOK' /\ ValuesOK'
  BY DEF FlagsOK, ValuesOK, SelectRestorePoint, Goto, locals
<1>3. WorldOK'
  BY DEF WorldOK, SelectRestorePoint, Goto, locals, veeam, saas
<1>4. LocalsByStep'
  BY DEF LocalsByStep, WorldOK, SelectRestorePoint, Goto, locals,
     veeam
<1>5. Isolation' /\ PassedIsEarned'
  BY DEF Isolation, PassedIsEarned, LocalsByStep, FlagsOK, WorldOK,
     SelectRestorePoint, Goto, locals, veeam, saas
<1>6. Reported' /\ Released'
  BY DEF Reported, Scored, Released, WorldOK, SelectRestorePoint,
     Goto, locals, veeam, saas
<1>7. Bounded'
  BY RoomForSessions DEF Bounded, LocalsByStep, FlowOK, WorldOK,
     SelectRestorePoint, Goto, locals, veeam
<1>. QED
  BY <1>1, <1>2, <1>3, <1>4, <1>5, <1>6, <1>7

(* The port group exists and its name is known. *)
LEMMA ProvisionIsolatedNetworkInv == ASSUME IndInv, ProvisionIsolatedNetwork PROVE IndInv'
<1>. USE ConstantsAssumption DEF IndInv, TypeOK, TrySteps, FinallySteps, TeardownSteps, Ends
<1>1. FlowOK' /\ AttemptOK'
  BY DEF FlowOK, AttemptOK, AttemptsOf, ProvisionIsolatedNetwork,
     Goto
<1>2. FlagsOK' /\ ValuesOK'
  BY DEF FlagsOK, ValuesOK, ProvisionIsolatedNetwork, Goto, locals
<1>3. WorldOK'
  BY DEF WorldOK, ProvisionIsolatedNetwork, Goto, locals, veeam, saas
<1>4. LocalsByStep'
  BY DEF LocalsByStep, WorldOK, ProvisionIsolatedNetwork, Goto,
     locals, veeam
<1>5. Isolation' /\ PassedIsEarned'
  BY DEF Isolation, PassedIsEarned, LocalsByStep, FlagsOK, WorldOK,
     ProvisionIsolatedNetwork, Goto, locals, veeam, saas
<1>6. Reported' /\ Released'
  BY DEF Reported, Scored, Released, WorldOK,
     ProvisionIsolatedNetwork, Goto, locals, veeam, saas
<1>7. Bounded'
  BY DEF Bounded, LocalsByStep, FlowOK, WorldOK,
     ProvisionIsolatedNetwork, Goto, veeam
<1>. QED
  BY <1>1, <1>2, <1>3, <1>4, <1>5, <1>6, <1>7

(* The port group exists but its name was lost. *)
LEMMA ProvisionIsolatedNetworkLostInv == ASSUME IndInv, ProvisionIsolatedNetworkLost PROVE IndInv'
<1>. USE DEF IndInv, TypeOK, TrySteps, FinallySteps, TeardownSteps, Ends
<1>0. AttemptFails /\ pc \in TrySteps \cup FinallySteps
  BY DEF ProvisionIsolatedNetworkLost
<1>1. FlowOK' /\ AttemptOK'
  BY <1>0, FailedFlow
<1>2. FlagsOK' /\ ValuesOK'
  BY <1>0, FailedAttempt DEF FlagsOK, ValuesOK,
     ProvisionIsolatedNetworkLost, locals
<1>3. WorldOK'
  BY DEF WorldOK, ProvisionIsolatedNetworkLost, locals, veeam, saas
<1>4. LocalsByStep'
  BY <1>0, FailedAttempt DEF LocalsByStep, FirstCall,
     ProvisionIsolatedNetworkLost, locals, veeam
<1>5. Isolation' /\ PassedIsEarned'
  BY <1>0, FailedAttempt DEF Isolation, PassedIsEarned, LocalsByStep,
     WorldOK, ProvisionIsolatedNetworkLost, locals, veeam, saas
<1>6. Reported' /\ Released'
  BY <1>0, FailedAttempt DEF Reported, Scored, Released, WorldOK,
     FirstCall, ProvisionIsolatedNetworkLost, locals, veeam, saas
<1>7. Bounded'
  BY <1>0, FailedBounded DEF Bounded, ProvisionIsolatedNetworkLost,
     locals, veeam
<1>. QED
  BY <1>1, <1>2, <1>3, <1>4, <1>5, <1>6, <1>7

(* Veeam created a session and its id is known. *)
LEMMA StartInstantRecoveryInv == ASSUME IndInv, StartInstantRecovery PROVE IndInv'
<1>. USE ConstantsAssumption DEF IndInv, TypeOK, TrySteps, FinallySteps, TeardownSteps, Ends
<1>1. FlowOK' /\ AttemptOK'
  BY DEF FlowOK, AttemptOK, AttemptsOf, StartInstantRecovery, Goto,
     CreateSession
<1>2. FlagsOK' /\ ValuesOK'
  BY DEF FlagsOK, ValuesOK, StartInstantRecovery, Goto,
     CreateSession, locals
<1>3. WorldOK'
  BY DEF WorldOK, StartInstantRecovery, Goto, CreateSession, locals,
     veeam, saas
<1>4. LocalsByStep'
  BY DEF LocalsByStep, WorldOK, StartInstantRecovery, Goto,
     CreateSession, locals, veeam
<1>5. Isolation' /\ PassedIsEarned'
  BY DEF Isolation, PassedIsEarned, LocalsByStep, FlagsOK, WorldOK,
     StartInstantRecovery, Goto, CreateSession, locals, veeam, saas
<1>6. Reported' /\ Released'
  BY DEF Reported, Scored, Released, WorldOK, StartInstantRecovery,
     Goto, CreateSession, locals, veeam, saas
<1>7. Bounded'
  BY RoomForSessions DEF Bounded, LocalsByStep, FlowOK, WorldOK,
     StartInstantRecovery, Goto, CreateSession, locals, veeam
<1>. QED
  BY <1>1, <1>2, <1>3, <1>4, <1>5, <1>6, <1>7

(* A POST to instantRecovery that failed, with or without a session. *)
LEMMA StartInstantRecoveryRetryPostInv ==
    ASSUME IndInv, StartInstantRecoveryRetryPost PROVE IndInv'
<1>. USE DEF IndInv, TypeOK, TrySteps, FinallySteps, TeardownSteps, Ends
<1>0. /\ pc = "start_instant_recovery"
      /\ UNCHANGED <<locals, backend, portgroup, saas>>
      /\ CreateSession \/ UNCHANGED veeam
      /\ PostFails
  BY DEF StartInstantRecoveryRetryPost
<1>1. WorldOK'
  <2>1. CASE CreateSession
    BY <1>0, <2>1 DEF WorldOK, CreateSession, locals, saas
  <2>2. CASE UNCHANGED veeam
    BY <1>0, <2>2 DEF WorldOK, veeam, locals, saas
  <2>. QED
    BY <1>0, <2>1, <2>2
<1>2. /\ started' \in {started, started + 1}
      /\ stopped' = stopped
  BY <1>0 DEF CreateSession, veeam
<1>3. ~passed /\ reports = 0 /\ ~failure_reason /\ isolated_network
      /\ portgroup /\ stopped = {}
  BY <1>0 DEF LocalsByStep, Reported, WorldOK, Isolation
<1>4. CASE AttemptFails
  <2>1. FlowOK' /\ AttemptOK'
    BY <1>0, <1>4, FailedFlow
  <2>2. FlagsOK' /\ ValuesOK'
    BY <1>0, <1>4, FailedAttempt DEF FlagsOK, ValuesOK, locals
  <2>3. LocalsByStep'
    BY <1>0, <1>2, <1>3, <1>4, FailedAttempt DEF LocalsByStep, FirstCall,
       locals
  <2>4. Isolation' /\ PassedIsEarned'
    BY <1>0, <1>3 DEF Isolation, PassedIsEarned, locals
  <2>5. Reported' /\ Released'
    BY <1>0, <1>3, <1>4, FailedAttempt DEF Reported, Released, FirstCall,
       saas
  <2>6. Bounded'
    BY <1>0, <1>2, <1>4, FailedBounded DEF Bounded, locals
  <2>. QED
    BY <1>1, <2>1, <2>2, <2>3, <2>4, <2>5, <2>6
<1>5. CASE /\ post < PostAttempts
           /\ post' = post + 1
           /\ UNCHANGED <<pc, attempt, polls, failure_reason>>
  <2>1. FlowOK' /\ AttemptOK'
    BY <1>5, ConstantsAssumption DEF FlowOK, AttemptOK
  <2>2. FlagsOK' /\ ValuesOK'
    BY <1>0, <1>5 DEF FlagsOK, ValuesOK, locals
  <2>3. LocalsByStep'
    BY <1>0, <1>2, <1>3, <1>5 DEF LocalsByStep, locals
  <2>4. Isolation' /\ PassedIsEarned'
    BY <1>0, <1>3 DEF Isolation, PassedIsEarned, locals
  <2>5. Reported' /\ Released'
    BY <1>0, <1>3, <1>5 DEF Reported, Released, saas
  <2>6. Bounded'
    <3>1. started \in Nat /\ attempt \in 1..MaxAttempts
          /\ post \in 1..PostAttempts
          /\ started <= (attempt - 1) * PostAttempts + (post - 1)
      BY <1>0 DEF WorldOK, FlowOK, Bounded
    <3>2. started + 1 <= MaxAttempts * PostAttempts
          /\ started + 1 <= (attempt - 1) * PostAttempts + post
      BY <3>1, RoomForSessions, ConstantsAssumption
    <3>3. (attempt - 1) * PostAttempts \in Int
      BY <3>1, ConstantsAssumption
    <3>4. /\ attempt' = attempt /\ post' - 1 = post
      BY <1>5, <3>1
    <3>5. /\ started' <= MaxAttempts * PostAttempts
          /\ started' <= (attempt - 1) * PostAttempts + post
      <4>1. CASE started' = started + 1
        BY <3>2, <4>1
      <4>2. CASE started' = started
        <5>1. started <= MaxAttempts * PostAttempts
          BY DEF Bounded
        <5>. QED
          BY <3>1, <3>3, <4>2, <5>1
      <4>. QED
        BY <1>2, <4>1, <4>2
    <3>. QED
      BY <1>2, <1>3, <3>4, <3>5 DEF Bounded
  <2>. QED
    BY <1>1, <2>1, <2>2, <2>3, <2>4, <2>5, <2>6
<1>. QED
  BY <1>0, <1>4, <1>5 DEF PostFails

(* Veeam created a session whose id was lost. *)
LEMMA StartInstantRecoveryLostInv == ASSUME IndInv, StartInstantRecoveryLost PROVE IndInv'
<1>. USE DEF IndInv, TypeOK, TrySteps, FinallySteps, TeardownSteps, Ends
<1>0. AttemptFails /\ pc \in TrySteps \cup FinallySteps
  BY DEF StartInstantRecoveryLost
<1>1. FlowOK' /\ AttemptOK'
  BY <1>0, FailedFlow
<1>2. FlagsOK' /\ ValuesOK'
  BY <1>0, FailedAttempt DEF FlagsOK, ValuesOK,
     StartInstantRecoveryLost, locals
<1>3. WorldOK'
  BY DEF WorldOK, StartInstantRecoveryLost, CreateSession, locals,
     veeam, saas
<1>4. LocalsByStep'
  BY <1>0, FailedAttempt DEF LocalsByStep, FirstCall,
     StartInstantRecoveryLost, CreateSession, locals
<1>5. Isolation' /\ PassedIsEarned'
  BY <1>0, FailedAttempt DEF Isolation, PassedIsEarned, LocalsByStep,
     WorldOK, StartInstantRecoveryLost, CreateSession, locals, veeam,
     saas
<1>6. Reported' /\ Released'
  BY <1>0, FailedAttempt DEF Reported, Scored, Released, WorldOK,
     FirstCall, StartInstantRecoveryLost, CreateSession, locals, veeam,
     saas
<1>7. Bounded'
  BY <1>0, FailedBounded DEF Bounded, StartInstantRecoveryLost,
     CreateSession, locals, veeam
<1>. QED
  BY <1>1, <1>2, <1>3, <1>4, <1>5, <1>6, <1>7

(* wait_for_vm_boot returns a moref that vCenter found, or the placeholder. *)
LEMMA MorefType == MorefOutcomes \subseteq {"moref", "original", "placeholder"}
<1>1. ASSUME NEW identity \in Identities, NEW found \in Searches,
             NEW x \in ResolveMoref(identity, found)
      PROVE  x \in {"moref", "original", "placeholder"}
  BY <1>1 DEF ResolveMoref, FirstHit, Identities, Searches
<1>. QED
  BY <1>1 DEF MorefOutcomes

(* A session that names the instance UUID of a VM vCenter knows is         *)
(* resolved to that VM by resolve_moref, whatever its other identifiers    *)
(* find.                                                                   *)
THEOREM MorefReliable == MorefIsReliable
<1>1. ASSUME NEW identity \in Identities, NEW found \in Searches,
             "instance_uuid" \in identity, found["instance_uuid"] = "moref"
      PROVE  ResolveMoref(identity, found) = {"moref"}
  <2>. /\ Rank["instance_uuid"] = 1 /\ Rank["bios_uuid"] = 2
       /\ Rank["dns_name"] = 3 /\ Rank["vm_name"] = 4
    BY DEF Rank
  <2>. \A n \in Methods : n # "instance_uuid" => Rank[n] > Rank["instance_uuid"]
    BY DEF Methods
  <2>1. /\ \A n \in identity : n \in Methods
        /\ \A n \in Methods : Rank[n] \in Nat
        /\ \A n \in identity : n # "instance_uuid" => Rank[n] > Rank["instance_uuid"]
    BY DEF Identities, Methods
  <2>2. FirstHit(identity, found, "instance_uuid")
    BY <1>1, <2>1 DEF FirstHit
  <2>3. \A n \in identity : FirstHit(identity, found, n) => n = "instance_uuid"
    BY <1>1, <2>1 DEF FirstHit
  <2>. QED
    BY <1>1, <2>2, <2>3 DEF ResolveMoref
<1>2. ASSUME NEW identity \in Identities, NEW found \in Searches,
             "placeholder" \in ResolveMoref(identity, found)
      PROVE  \A m \in identity : found[m] = "none"
  BY <1>2 DEF ResolveMoref, Identities, Searches
<1>. QED
  BY <1>1, <1>2 DEF MorefIsReliable

(* The session is published. *)
LEMMA WaitForVmBootInv == ASSUME IndInv, WaitForVmBoot PROVE IndInv'
<1>. USE ConstantsAssumption DEF IndInv, TypeOK, TrySteps, FinallySteps, TeardownSteps, Ends
<1>1. FlowOK' /\ AttemptOK'
  BY DEF FlowOK, AttemptOK, AttemptsOf, WaitForVmBoot, Goto
<1>2. FlagsOK' /\ ValuesOK'
  BY MorefType DEF FlagsOK, ValuesOK, WaitForVmBoot, Goto, locals
<1>3. WorldOK'
  BY DEF WorldOK, WaitForVmBoot, Goto, locals, veeam, saas
<1>4. LocalsByStep'
  BY MorefType DEF LocalsByStep, WorldOK, WaitForVmBoot, Goto, locals, veeam
<1>5. Isolation' /\ PassedIsEarned'
  BY DEF Isolation, PassedIsEarned, LocalsByStep, FlagsOK, WorldOK,
     WaitForVmBoot, Goto, locals, veeam, saas
<1>6. Reported' /\ Released'
  BY DEF Reported, Scored, Released, WorldOK, WaitForVmBoot, Goto,
     locals, veeam, saas
<1>7. Bounded'
  BY RoomForSessions DEF Bounded, LocalsByStep, FlowOK, WorldOK,
     WaitForVmBoot, Goto, locals, veeam
<1>. QED
  BY <1>1, <1>2, <1>3, <1>4, <1>5, <1>6, <1>7

(* The session failed: the attempt fails and nothing else changes. *)
LEMMA WaitForVmBootFailedInv ==
    ASSUME IndInv, WaitForVmBootFailed PROVE IndInv'
BY QuietFailure DEF WaitForVmBootFailed, TrySteps

(* The session is not published yet: sleep, or give up after MaxPolls. *)
LEMMA WaitForVmBootSleepInv ==
    ASSUME IndInv, WaitForVmBootSleep PROVE IndInv'
<1>1. pc = "wait_for_vm_boot"
      /\ UNCHANGED <<locals, backend, portgroup, veeam, saas>>
  BY DEF WaitForVmBootSleep
<1>2. CASE AttemptFails
  BY <1>1, <1>2, QuietFailure DEF TrySteps
<1>3. CASE /\ polls + 1 < MaxPolls
           /\ polls' = polls + 1
           /\ UNCHANGED <<pc, attempt, post, failure_reason>>
  <2>. USE DEF IndInv, TypeOK
  <2>1. FlowOK' /\ AttemptOK'
    BY <1>3, ConstantsAssumption DEF FlowOK, AttemptOK
  <2>2. FlagsOK' /\ ValuesOK'
    BY <1>1, <1>3 DEF FlagsOK, ValuesOK, locals
  <2>3. WorldOK'
    BY <1>1 DEF WorldOK, locals, veeam, saas
  <2>4. LocalsByStep' /\ Isolation' /\ PassedIsEarned'
    BY <1>1, <1>3 DEF LocalsByStep, Isolation, PassedIsEarned, locals,
       veeam, saas
  <2>5. Reported' /\ Released' /\ Bounded'
    BY <1>1, <1>3 DEF Reported, Scored, Released, Bounded, locals, veeam,
       saas
  <2>. QED
    BY <2>1, <2>2, <2>3, <2>4, <2>5
<1>. QED
  BY <1>2, <1>3 DEF WaitForVmBootSleep

(* Every check answered: passed is their conjunction. *)
LEMMA RunHealthChecksInv == ASSUME IndInv, RunHealthChecks PROVE IndInv'
<1>. USE ConstantsAssumption DEF IndInv, TypeOK, TrySteps, FinallySteps, TeardownSteps, Ends
<1>1. FlowOK' /\ AttemptOK'
  BY DEF FlowOK, AttemptOK, AttemptsOf, RunHealthChecks, Goto
<1>2. FlagsOK' /\ ValuesOK'
  BY DEF FlagsOK, ValuesOK, RunHealthChecks, Goto, locals
<1>3. WorldOK'
  BY DEF WorldOK, RunHealthChecks, Goto, locals, veeam, saas
<1>4. LocalsByStep'
  BY DEF LocalsByStep, WorldOK, RunHealthChecks, Goto, locals, veeam
<1>5. Isolation' /\ PassedIsEarned'
  BY DEF Isolation, PassedIsEarned, LocalsByStep, FlagsOK, WorldOK,
     RunHealthChecks, Goto, locals, veeam, saas
<1>6. Reported' /\ Released'
  BY DEF Reported, Scored, Released, WorldOK, RunHealthChecks, Goto,
     locals, veeam, saas
<1>7. Bounded'
  BY RoomForSessions DEF Bounded, LocalsByStep, FlowOK, WorldOK,
     RunHealthChecks, Goto, locals, veeam
<1>. QED
  BY <1>1, <1>2, <1>3, <1>4, <1>5, <1>6, <1>7

(* A progress post raised. *)
LEMMA RunHealthChecksLostInv == ASSUME IndInv, RunHealthChecksLost PROVE IndInv'
<1>. USE DEF IndInv, TypeOK, TrySteps, FinallySteps, TeardownSteps, Ends
<1>0. AttemptFails /\ pc \in TrySteps \cup FinallySteps
  BY DEF RunHealthChecksLost
<1>1. FlowOK' /\ AttemptOK'
  BY <1>0, FailedFlow
<1>2. FlagsOK' /\ ValuesOK'
  BY <1>0, FailedAttempt DEF FlagsOK, ValuesOK, RunHealthChecksLost,
     locals
<1>3. WorldOK'
  BY DEF WorldOK, RunHealthChecksLost, locals, veeam, saas
<1>4. LocalsByStep'
  BY <1>0, FailedAttempt DEF LocalsByStep, FirstCall,
     RunHealthChecksLost, locals, veeam
<1>5. Isolation' /\ PassedIsEarned'
  BY <1>0, FailedAttempt DEF Isolation, PassedIsEarned, LocalsByStep,
     WorldOK, RunHealthChecksLost, locals, veeam, saas
<1>6. Reported' /\ Released'
  BY <1>0, FailedAttempt DEF Reported, Scored, Released, WorldOK,
     FirstCall, RunHealthChecksLost, locals, veeam, saas
<1>7. Bounded'
  BY <1>0, FailedBounded DEF Bounded, RunHealthChecksLost, locals,
     veeam
<1>. QED
  BY <1>1, <1>2, <1>3, <1>4, <1>5, <1>6, <1>7

(* capture_evidence succeeds. *)
LEMMA CaptureEvidenceInv == ASSUME IndInv, CaptureEvidence PROVE IndInv'
<1>. USE ConstantsAssumption DEF IndInv, TypeOK, TrySteps, FinallySteps, TeardownSteps, Ends
<1>1. FlowOK' /\ AttemptOK'
  BY DEF FlowOK, AttemptOK, AttemptsOf, CaptureEvidence, Goto
<1>2. FlagsOK' /\ ValuesOK'
  BY DEF FlagsOK, ValuesOK, CaptureEvidence, Goto, locals
<1>3. WorldOK'
  BY DEF WorldOK, CaptureEvidence, Goto, locals, veeam, saas
<1>4. LocalsByStep'
  BY DEF LocalsByStep, WorldOK, CaptureEvidence, Goto, locals, veeam
<1>5. Isolation' /\ PassedIsEarned'
  BY DEF Isolation, PassedIsEarned, LocalsByStep, FlagsOK, WorldOK,
     CaptureEvidence, Goto, locals, veeam, saas
<1>6. Reported' /\ Released'
  BY DEF Reported, Scored, Released, WorldOK, CaptureEvidence, Goto,
     locals, veeam, saas
<1>7. Bounded'
  BY RoomForSessions DEF Bounded, LocalsByStep, FlowOK, WorldOK,
     CaptureEvidence, Goto, locals, veeam
<1>. QED
  BY <1>1, <1>2, <1>3, <1>4, <1>5, <1>6, <1>7

(* The RTO, the RPO and the score are measured. *)
LEMMA RecordRtoRpoInv == ASSUME IndInv, RecordRtoRpo PROVE IndInv'
<1>. USE ConstantsAssumption DEF IndInv, TypeOK, TrySteps, FinallySteps, TeardownSteps, Ends
<1>0. PICK rto \in Minutes, rpo \in Minutes :
         \E score \in 0..100 :
            /\ result' = [rto |-> rto, rpo |-> rpo, score |-> score]
            /\ IF passed THEN score \in HealthPoints..100
                         ELSE score \in 0..(2 * ObjectiveMax)
  <2>1. PICK rto \in (IF isolated_network /\ recovered_vm_moref # "none"
                      THEN Minutes ELSE {0}),
             rpo \in (IF restore_point THEN Minutes ELSE {0}) :
             \E score \in ReadinessScore(passed, rto, RtoTarget, rpo,
                                         RpoTarget) :
                result' = [rto |-> rto, rpo |-> rpo, score |-> score]
    BY DEF RecordRtoRpo
  <2>2. rto \in Minutes /\ rpo \in Minutes /\ rto \in Int /\ rpo \in Int
    BY <2>1 DEF Minutes
  <2>3. passed \in BOOLEAN
    BY DEF FlagsOK
  <2>4. PICK score \in ReadinessScore(passed, rto, RtoTarget, rpo,
                                      RpoTarget) :
           result' = [rto |-> rto, rpo |-> rpo, score |-> score]
    BY <2>1
  <2>5. /\ score \in 0..100
        /\ IF passed THEN score \in HealthPoints..100
                     ELSE score \in 0..(2 * ObjectiveMax)
    BY <2>2, <2>3, <2>4, ScoreRange
  <2>. QED
    BY <2>2, <2>4, <2>5
<1>1. FlowOK' /\ AttemptOK'
  BY DEF FlowOK, AttemptOK, AttemptsOf, RecordRtoRpo, Goto
<1>2. FlagsOK' /\ ValuesOK'
  BY <1>0 DEF FlagsOK, ValuesOK, Results, RecordRtoRpo, Goto, locals
<1>3. WorldOK'
  BY DEF WorldOK, RecordRtoRpo, Goto, locals, veeam, saas
<1>4. LocalsByStep'
  BY DEF LocalsByStep, WorldOK, RecordRtoRpo, Goto, locals, veeam
<1>5. Isolation' /\ PassedIsEarned'
  BY DEF Isolation, PassedIsEarned, LocalsByStep, FlagsOK, WorldOK,
     RecordRtoRpo, Goto, locals, veeam, saas
<1>6. Reported' /\ Released'
  BY <1>0, ScoreRange DEF Reported, Scored, Released, FlagsOK,
     RecordRtoRpo, Goto, locals, veeam, saas
<1>7. Bounded'
  BY RoomForSessions DEF Bounded, LocalsByStep, FlowOK, WorldOK,
     RecordRtoRpo, Goto, locals, veeam
<1>. QED
  BY <1>1, <1>2, <1>3, <1>4, <1>5, <1>6, <1>7

(* The API has the result. *)
LEMMA ReportResultsInv == ASSUME IndInv, ReportResults PROVE IndInv'
<1>. USE ConstantsAssumption DEF IndInv, TypeOK, TrySteps, FinallySteps, TeardownSteps, Ends
<1>1. FlowOK' /\ AttemptOK'
  BY DEF FlowOK, AttemptOK, AttemptsOf, ReportResults, Goto
<1>2. FlagsOK' /\ ValuesOK'
  BY DEF FlagsOK, ValuesOK, ReportResults, Goto, locals
<1>3. WorldOK'
  BY DEF WorldOK, ReportResults, Goto, locals, veeam, saas
<1>4. LocalsByStep'
  BY DEF LocalsByStep, WorldOK, ReportResults, Goto, locals, veeam
<1>5. Isolation' /\ PassedIsEarned'
  BY DEF Isolation, PassedIsEarned, LocalsByStep, FlagsOK, WorldOK,
     ReportResults, Goto, locals, veeam, saas
<1>6. Reported' /\ Released'
  BY DEF Reported, Scored, Released, WorldOK, ReportResults, Goto,
     locals, veeam, saas
<1>7. Bounded'
  BY RoomForSessions DEF Bounded, LocalsByStep, FlowOK, WorldOK,
     ReportResults, Goto, locals, veeam
<1>. QED
  BY <1>1, <1>2, <1>3, <1>4, <1>5, <1>6, <1>7

(* The API has the result but the attempt failed. *)
LEMMA ReportResultsLostInv == ASSUME IndInv, ReportResultsLost PROVE IndInv'
<1>. USE DEF IndInv, TypeOK, TrySteps, FinallySteps, TeardownSteps, Ends
<1>0. AttemptFails /\ pc \in TrySteps \cup FinallySteps
  BY DEF ReportResultsLost
<1>1. FlowOK' /\ AttemptOK'
  BY <1>0, FailedFlow
<1>2. FlagsOK' /\ ValuesOK'
  BY <1>0, FailedAttempt DEF FlagsOK, ValuesOK, ReportResultsLost,
     locals
<1>3. WorldOK'
  BY DEF WorldOK, ReportResultsLost, locals, veeam, saas
<1>4. LocalsByStep'
  BY <1>0, FailedAttempt DEF LocalsByStep, FirstCall,
     ReportResultsLost, locals, veeam
<1>5. Isolation' /\ PassedIsEarned'
  BY <1>0, FailedAttempt DEF Isolation, PassedIsEarned, LocalsByStep,
     WorldOK, ReportResultsLost, locals, veeam, saas
<1>6. Reported' /\ Released'
  BY <1>0, FailedAttempt DEF Reported, Scored, Released, WorldOK,
     FirstCall, ReportResultsLost, locals, veeam, saas
<1>7. Bounded'
  BY <1>0, FailedBounded DEF Bounded, ReportResultsLost, locals,
     veeam
<1>. QED
  BY <1>1, <1>2, <1>3, <1>4, <1>5, <1>6, <1>7

(* The known session is stopped. *)
LEMMA StopInstantRecoveryInv == ASSUME IndInv, StopInstantRecovery PROVE IndInv'
<1>. USE ConstantsAssumption DEF IndInv, TypeOK, TrySteps, FinallySteps, TeardownSteps, Ends
<1>1. FlowOK' /\ AttemptOK'
  BY DEF FlowOK, AttemptOK, AttemptsOf, StopInstantRecovery, Goto,
     StopAccepted, Unmount
<1>2. FlagsOK' /\ ValuesOK'
  BY DEF FlagsOK, ValuesOK, StopInstantRecovery, Goto, StopAccepted,
     Unmount, locals
<1>3. WorldOK'
  BY DEF WorldOK, StopInstantRecovery, Goto, StopAccepted, Unmount,
     locals, veeam, saas
<1>4. LocalsByStep'
  BY DEF LocalsByStep, WorldOK, StopInstantRecovery, Goto,
     StopAccepted, Unmount, locals, veeam
<1>5. Isolation' /\ PassedIsEarned'
  BY DEF Isolation, PassedIsEarned, LocalsByStep, FlagsOK, WorldOK,
     StopInstantRecovery, Goto, StopAccepted, Unmount, locals, veeam,
     saas
<1>6. Reported' /\ Released'
  BY DEF Reported, Scored, Released, WorldOK, StopInstantRecovery,
     Goto, StopAccepted, Unmount, locals, veeam, saas
<1>7. Bounded'
  BY RoomForSessions DEF Bounded, LocalsByStep, FlowOK, WorldOK,
     StopInstantRecovery, Goto, StopAccepted, Unmount, locals, veeam
<1>. QED
  BY <1>1, <1>2, <1>3, <1>4, <1>5, <1>6, <1>7

(* A stopPublishing POST that failed, with or without effect. *)
LEMMA StopInstantRecoveryRetryPostInv ==
    ASSUME IndInv, StopInstantRecoveryRetryPost PROVE IndInv'
<1>. USE DEF IndInv, TypeOK, TrySteps, FinallySteps, TeardownSteps, Ends
<1>0. /\ pc = "stop_instant_recovery"
      /\ recovery_session_id # 0
      /\ UNCHANGED <<locals, backend, portgroup, saas>>
      /\ StopAccepted \/ UNCHANGED veeam
      /\ PostFails
  BY DEF StopInstantRecoveryRetryPost
<1>1. WorldOK' /\ started' = started
      /\ stopped' \subseteq {recovery_session_id'}
  BY <1>0 DEF WorldOK, Bounded, StopAccepted, Unmount, veeam, locals, saas
<1>2. CASE AttemptFails
  <2>1. FlowOK' /\ AttemptOK'
    BY <1>0, <1>2, FailedFlow
  <2>2. FlagsOK' /\ ValuesOK'
    BY <1>0, <1>2, FailedAttempt DEF FlagsOK, ValuesOK, locals
  <2>3. LocalsByStep' /\ Isolation' /\ PassedIsEarned'
    BY <1>0, <1>1, <1>2, FailedAttempt DEF LocalsByStep, Isolation,
       PassedIsEarned, FirstCall, locals, saas
  <2>4. Reported' /\ Released'
    BY <1>0, <1>2, FailedAttempt DEF Reported, Scored, Released, FirstCall,
       locals, saas
  <2>5. Bounded'
    BY <1>0, <1>1, <1>2, FailedBounded
  <2>. QED
    BY <1>1, <2>1, <2>2, <2>3, <2>4, <2>5
<1>3. CASE /\ post < PostAttempts
           /\ post' = post + 1
           /\ UNCHANGED <<pc, attempt, polls, failure_reason>>
  <2>1. FlowOK' /\ AttemptOK'
    BY <1>3, ConstantsAssumption DEF FlowOK, AttemptOK
  <2>2. FlagsOK' /\ ValuesOK'
    BY <1>0, <1>3 DEF FlagsOK, ValuesOK, locals
  <2>3. LocalsByStep' /\ Isolation' /\ PassedIsEarned'
    BY <1>0, <1>1, <1>3 DEF LocalsByStep, Isolation, PassedIsEarned,
       locals, saas
  <2>4. Reported' /\ Released' /\ Bounded'
    BY <1>0, <1>1, <1>3 DEF Reported, Scored, Released, Bounded, locals,
       saas
  <2>. QED
    BY <1>1, <2>1, <2>2, <2>3, <2>4
<1>. QED
  BY <1>0, <1>2, <1>3 DEF PostFails

(* There is no known session. *)
LEMMA NothingToStopInv == ASSUME IndInv, NothingToStop PROVE IndInv'
<1>. USE ConstantsAssumption DEF IndInv, TypeOK, TrySteps, FinallySteps, TeardownSteps, Ends
<1>1. FlowOK' /\ AttemptOK'
  BY DEF FlowOK, AttemptOK, AttemptsOf, NothingToStop, Goto
<1>2. FlagsOK' /\ ValuesOK'
  BY DEF FlagsOK, ValuesOK, NothingToStop, Goto, locals
<1>3. WorldOK'
  BY DEF WorldOK, NothingToStop, Goto, locals, veeam, saas
<1>4. LocalsByStep'
  BY DEF LocalsByStep, WorldOK, NothingToStop, Goto, locals, veeam
<1>5. Isolation' /\ PassedIsEarned'
  BY DEF Isolation, PassedIsEarned, LocalsByStep, FlagsOK, WorldOK,
     NothingToStop, Goto, locals, veeam, saas
<1>6. Reported' /\ Released'
  BY DEF Reported, Scored, Released, WorldOK, NothingToStop, Goto,
     locals, veeam, saas
<1>7. Bounded'
  BY RoomForSessions DEF Bounded, LocalsByStep, FlowOK, WorldOK,
     NothingToStop, Goto, locals, veeam
<1>. QED
  BY <1>1, <1>2, <1>3, <1>4, <1>5, <1>6, <1>7

(* remove_portgroup returns: the workflow ends. *)
LEMMA RemovePortgroupInv == ASSUME IndInv, RemovePortgroup PROVE IndInv'
<1>. USE ConstantsAssumption DEF IndInv, TypeOK, TrySteps, FinallySteps, TeardownSteps, Ends
<1>1. FlowOK' /\ AttemptOK'
  BY DEF FlowOK, AttemptOK, AttemptsOf, RemovePortgroup, Goto
<1>2. FlagsOK' /\ ValuesOK'
  BY DEF FlagsOK, ValuesOK, RemovePortgroup, Goto, locals
<1>3. WorldOK'
  BY DEF WorldOK, RemovePortgroup, Goto, locals, veeam, saas
<1>4. LocalsByStep'
  BY DEF LocalsByStep, WorldOK, RemovePortgroup, Goto, locals, veeam
<1>5. Isolation' /\ PassedIsEarned'
  BY DEF Isolation, PassedIsEarned, LocalsByStep, FlagsOK, WorldOK,
     RemovePortgroup, Goto, locals, veeam, saas
<1>6. Reported' /\ Released'
  BY DEF Reported, Scored, Released, WorldOK, RemovePortgroup, Goto,
     locals, veeam, saas
<1>7. Bounded'
  BY RoomForSessions DEF Bounded, LocalsByStep, FlowOK, WorldOK,
     RemovePortgroup, Goto, locals, veeam
<1>. QED
  BY <1>1, <1>2, <1>3, <1>4, <1>5, <1>6, <1>7

(* The Veeam server publishes or drops a session. *)
LEMMA VeeamServerInv == ASSUME IndInv, VeeamServer PROVE IndInv'
<1>. USE DEF IndInv, TypeOK
<1>1. PICK s \in mounted : SessionPublished(s) \/ SessionFailed(s)
  BY DEF VeeamServer
<1>2. UNCHANGED <<flow, locals, failure_reason, backend, portgroup, started,
                  stopped, saas>> /\ mounted' \subseteq mounted
      /\ published' \subseteq mounted'
  BY <1>1 DEF SessionPublished, SessionFailed, WorldOK
<1>3. FlowOK' /\ AttemptOK'
  BY <1>2 DEF FlowOK, AttemptOK, flow
<1>4. FlagsOK' /\ ValuesOK'
  BY <1>2 DEF FlagsOK, ValuesOK, locals
<1>5. WorldOK'
  BY <1>2 DEF WorldOK, locals, saas
<1>6. LocalsByStep' /\ Isolation' /\ PassedIsEarned'
  BY <1>2 DEF LocalsByStep, Isolation, PassedIsEarned, flow, locals, saas
<1>7. Reported' /\ Released' /\ Bounded'
  BY <1>2 DEF Reported, Scored, Released, Bounded, flow, locals, saas
<1>. QED
  BY <1>3, <1>4, <1>5, <1>6, <1>7

(* Every step of the system keeps the invariant. *)
LEMMA NextIndInv == IndInv /\ [Next]_vars => IndInv'
<1>. SUFFICES ASSUME IndInv, [Next]_vars PROVE IndInv'
  OBVIOUS
<1>1. CASE TryBlock
  BY <1>1, SyncInventoryInv, SelectRestorePointInv,
     ProvisionIsolatedNetworkInv, ProvisionIsolatedNetworkLostInv,
     StartInstantRecoveryInv, StartInstantRecoveryRetryPostInv,
     StartInstantRecoveryLostInv, WaitForVmBootInv, WaitForVmBootFailedInv,
     WaitForVmBootSleepInv, RunHealthChecksInv, RunHealthChecksLostInv
     DEF TryBlock
<1>2. CASE FinallyBlock
  BY <1>2, CaptureEvidenceInv, RecordRtoRpoInv, ReportResultsInv,
     ReportResultsLostInv, StopInstantRecoveryInv,
     StopInstantRecoveryRetryPostInv, NothingToStopInv, RemovePortgroupInv
     DEF FinallyBlock
<1>3. CASE ActivityError
  BY <1>3, QuietFailure DEF ActivityError
<1>4. CASE VeeamServer
  BY <1>4, VeeamServerInv
<1>5. CASE UNCHANGED vars
  BY <1>5 DEF vars, flow, locals, veeam, saas, IndInv, TypeOK, FlowOK,
     FlagsOK, ValuesOK, WorldOK, AttemptOK, LocalsByStep, Isolation,
     PassedIsEarned, Reported, Scored, Released, Bounded
<1>. QED
  BY <1>1, <1>2, <1>3, <1>4, <1>5 DEF Next, Workflow, Ended

-----------------------------------------------------------------------------
(* The theorems *)

(* IndInv holds in every reachable state of the workflow and its world.    *)
THEOREM Invariance == Spec => []IndInv
BY InitIndInv, NextIndInv, PTL DEF Spec

(* The locals of RecoveryTestWorkflow.run and the two servers' state keep  *)
(* their types, for any retry limits.                                      *)
THEOREM TypeCorrect == Spec => []TypeOK
<1>1. IndInv => TypeOK
  BY DEF IndInv
<1>. QED
  BY <1>1, Invariance, PTL

(* No recovered VM is mounted outside the isolated port group, however     *)
(* often activities and POSTs are repeated.                                *)
THEOREM IsolationTheorem == Spec => []MountIsIsolated
<1>1. IndInv => MountIsIsolated
  <2>. SUFFICES ASSUME IndInv, mounted # {} PROVE portgroup /\ isolated_network
    BY DEF MountIsIsolated
  <2>0. PICK m \in mounted : m \in 1..started
    BY DEF IndInv, TypeOK, WorldOK
  <2>1. started > 0
    BY <2>0 DEF IndInv, TypeOK, WorldOK
  <2>. QED
    BY <2>1 DEF IndInv, Isolation
<1>. QED
  BY <1>1, Invariance, PTL

(* A run passes only on the strength of a booted VM and of all its health  *)
(* checks.                                                                 *)
THEOREM VerdictTheorem == Spec => []PassedIsEarned
<1>1. IndInv => PassedIsEarned
  BY DEF IndInv
<1>. QED
  BY <1>1, Invariance, PTL

(* The score of record_rto_rpo that the API receives tells a passed run    *)
(* from a failed one, for any RTO and RPO measured and any targets.        *)
THEOREM ScoreTheorem == Spec => []ScoreSeparates
<1>1. IndInv => ScoreSeparates
  BY DEF IndInv, Reported, ScoreSeparates
<1>. QED
  BY <1>1, Invariance, PTL

(* A workflow that returns has released the mount it knew of. *)
THEOREM ReleaseTheorem == Spec => []ReturnReleasesMount
<1>1. IndInv => ReturnReleasesMount
  BY DEF IndInv, Released, ReturnReleasesMount
<1>. QED
  BY <1>1, Invariance, PTL

(* The two layers of retries create at most MaxAttempts * PostAttempts     *)
(* sessions, and only the run's own one is ever stopped.                   *)
THEOREM SessionBoundTheorem == Spec => []SessionsBounded
<1>1. IndInv => SessionsBounded
  BY DEF IndInv, Bounded, SessionsBounded
<1>. QED
  BY <1>1, Invariance, PTL

(* A step of the finally block after the first report. *)
LEMMA ReportedStep ==
    ASSUME IndInv, Next, reports > 0
    PROVE  UNCHANGED <<passed, failure_reason, result>>
<1>1. pc \in {"report_results"} \cup TeardownSteps \cup Ends
  BY DEF IndInv, Reported
<1>2. CASE TryBlock
  BY <1>1, <1>2 DEF TryBlock, SyncInventory, SelectRestorePoint,
     ProvisionIsolatedNetwork, ProvisionIsolatedNetworkLost,
     StartInstantRecovery, StartInstantRecoveryRetryPost,
     StartInstantRecoveryLost, WaitForVmBoot, WaitForVmBootFailed,
     WaitForVmBootSleep, RunHealthChecks, RunHealthChecksLost,
     TeardownSteps, Ends
<1>3. ASSUME AttemptFails PROVE UNCHANGED failure_reason
  BY <1>1, <1>3 DEF AttemptFails, Retry, RaiseInTry, RaiseInFinally,
     TrySteps, TeardownSteps, Ends
<1>4. CASE ActivityError
  BY <1>3, <1>4 DEF ActivityError, locals
<1>5. CASE FinallyBlock
  BY <1>1, <1>3, <1>5 DEF FinallyBlock, CaptureEvidence, RecordRtoRpo,
     ReportResults, ReportResultsLost, StopInstantRecovery,
     StopInstantRecoveryRetryPost, NothingToStop, RemovePortgroup, Goto,
     PostFails, locals, TeardownSteps, Ends
<1>6. CASE VeeamServer
  BY <1>6 DEF VeeamServer, SessionPublished, SessionFailed, locals
<1>7. CASE Ended
  BY <1>7 DEF Ended, vars, locals
<1>. QED
  BY <1>2, <1>4, <1>5, <1>6, <1>7 DEF Next, Workflow

(* Whatever is repeated after the first report, every report and the value *)
(* the workflow returns agree.                                             *)
THEOREM ReportFinalTheorem == Spec => ReportIsFinal
<1>1. IndInv /\ [Next]_vars =>
         [reports > 0 => UNCHANGED <<passed, failure_reason, result>>]_vars
  BY ReportedStep
<1>. QED
  BY <1>1, Invariance, PTL DEF Spec, ReportIsFinal
-----------------------------------------------------------------------------
(* RecoveryTest implements IsolatedTest *)

(* Nothing that the abstract specification sees has changed. *)
LEMMA AbstractStutter ==
    ASSUME UNCHANGED <<portgroup, started, mounted, stopped, passed, reports>>
    PROVE  UNCHANGED Abstract!absVars
BY DEF Abstract!absVars, Verdict

(* Creating a session is a Mount. *)
LEMMA CreateIsMount ==
    ASSUME IndInv, IndInv', pc = "start_instant_recovery", CreateSession,
           UNCHANGED <<portgroup, passed, reports>>
    PROVE  Abstract!Mount
<1>1. portgroup /\ reports = 0
  BY DEF IndInv, LocalsByStep, Isolation, Reported, TypeOK, WorldOK,
     TeardownSteps, Ends
<1>2. started \in Nat /\ started + 1 <= MaxAttempts * PostAttempts
      /\ MaxAttempts * PostAttempts \in Nat
  BY ConstantsAssumption DEF IndInv, TypeOK, WorldOK, Bounded, CreateSession
<1>3. started + 1 \in (1..(MaxAttempts * PostAttempts)) \ (1..started)
  BY <1>2
<1>4. 1..started' = (1..started) \cup {started + 1}
  BY <1>2 DEF CreateSession
<1>. QED
  BY <1>1, <1>3, <1>4 DEF Abstract!Mount, Verdict, CreateSession

(* Stopping the known session is a Halt. *)
LEMMA UnmountIsHalt ==
    ASSUME IndInv, pc = "stop_instant_recovery", Unmount(recovery_session_id),
           UNCHANGED <<portgroup, passed, reports>>
    PROVE  Abstract!Halt
<1>1. reports > 0
  BY DEF IndInv, Reported, TeardownSteps
<1>2. Verdict # "none" /\ Verdict' = Verdict
  BY <1>1 DEF Verdict
<1>. QED
  BY <1>2 DEF Abstract!Halt, Unmount

(* The first report is the Decide step; the others repeat it. *)
LEMMA ReportIsDecide ==
    ASSUME IndInv, reports' = reports + 1,
           UNCHANGED <<portgroup, started, mounted, stopped, passed>>
    PROVE  Abstract!Decide \/ UNCHANGED Abstract!absVars
<1>0. reports \in Nat /\ started \in Nat /\ recovery_session_id \in 0..started
  BY DEF IndInv, TypeOK, WorldOK
<1>1. CASE reports = 0
  <2>1. Verdict = "none"
    BY <1>1 DEF Verdict
  <2>2. Verdict' = IF passed THEN "passed" ELSE "failed"
    BY <1>0, <1>1 DEF Verdict
  <2>3. passed => 1..started # {}
    <3>. SUFFICES ASSUME passed PROVE 1..started # {}
      OBVIOUS
    <3>1. recovery_session_id \in 1..started
      BY DEF IndInv, PassedIsEarned
    <3>. QED
      BY <3>1
  <2>. QED
    BY <2>1, <2>2, <2>3 DEF Abstract!Decide
<1>2. CASE reports # 0
  BY <1>0, <1>2 DEF Abstract!absVars, Verdict
<1>. QED
  BY <1>1, <1>2

(* Every step of the workflow and of the Veeam server is a step of         *)
(* IsolatedTest or changes nothing it can see.                             *)
LEMMA StepRefines ==
    ASSUME IndInv, IndInv', [Next]_vars
    PROVE  [Abstract!AbsNext]_Abstract!absVars
<1>. USE DEF Abstract!AbsNext
<1>1. CASE ProvisionIsolatedNetwork \/ ProvisionIsolatedNetworkLost
  <2>1. portgroup' = TRUE
        /\ UNCHANGED <<started, mounted, stopped, passed, reports>>
    BY <1>1 DEF ProvisionIsolatedNetwork, ProvisionIsolatedNetworkLost,
       locals, veeam, saas
  <2>. QED
    BY <2>1 DEF Abstract!Isolate, Verdict
<1>2. CASE StartInstantRecovery \/ StartInstantRecoveryLost
  BY <1>2, CreateIsMount DEF StartInstantRecovery, StartInstantRecoveryLost,
     locals, saas
<1>3. CASE StartInstantRecoveryRetryPost
  <2>1. /\ pc = "start_instant_recovery"
        /\ UNCHANGED <<portgroup, passed, reports>>
        /\ CreateSession \/ UNCHANGED veeam
    BY <1>3 DEF StartInstantRecoveryRetryPost, locals, saas
  <2>2. CASE CreateSession
    BY <2>1, <2>2, CreateIsMount
  <2>3. CASE UNCHANGED veeam
    BY <2>1, <2>3, AbstractStutter DEF veeam
  <2>. QED
    BY <2>1, <2>2, <2>3
<1>4. CASE RunHealthChecks
  <2>1. reports = 0
    BY <1>4 DEF RunHealthChecks, IndInv, Reported, TypeOK, WorldOK,
       TeardownSteps, Ends
  <2>. QED
    BY <1>4, <2>1 DEF RunHealthChecks, Abstract!absVars, Verdict, veeam
<1>5. CASE ReportResults \/ ReportResultsLost
  BY <1>5, ReportIsDecide DEF ReportResults, ReportResultsLost, locals,
     veeam
<1>6. CASE StopInstantRecovery \/ StopInstantRecoveryRetryPost
  <2>1. /\ pc = "stop_instant_recovery"
        /\ UNCHANGED <<portgroup, passed, reports>>
        /\ Unmount(recovery_session_id) \/ UNCHANGED veeam
    BY <1>6 DEF StopInstantRecovery, StopInstantRecoveryRetryPost,
       StopAccepted, locals, saas
  <2>2. CASE Unmount(recovery_session_id)
    BY <2>1, <2>2, UnmountIsHalt
  <2>3. CASE UNCHANGED veeam
    BY <2>1, <2>3, AbstractStutter DEF veeam
  <2>. QED
    BY <2>1, <2>2, <2>3
<1>7. CASE VeeamServer
  <2>1. PICK s \in mounted : SessionPublished(s) \/ SessionFailed(s)
    BY <1>7 DEF VeeamServer
  <2>2. CASE SessionPublished(s)
    BY <2>2, AbstractStutter DEF SessionPublished, locals, saas
  <2>3. CASE SessionFailed(s)
    BY <2>3 DEF SessionFailed, Abstract!Drop, Verdict, locals, saas
  <2>. QED
    BY <2>1, <2>2, <2>3
<1>8. CASE \/ SyncInventory \/ SelectRestorePoint \/ WaitForVmBoot
           \/ WaitForVmBootFailed \/ WaitForVmBootSleep
           \/ RunHealthChecksLost \/ CaptureEvidence \/ RecordRtoRpo
           \/ NothingToStop \/ RemovePortgroup \/ ActivityError \/ Ended
           \/ UNCHANGED vars
  <2>1. UNCHANGED <<portgroup, started, mounted, stopped, passed, reports>>
    BY <1>8 DEF SyncInventory, SelectRestorePoint, WaitForVmBoot,
       WaitForVmBootFailed, WaitForVmBootSleep, RunHealthChecksLost,
       CaptureEvidence, RecordRtoRpo, NothingToStop, RemovePortgroup,
       ActivityError, Ended, vars, locals, veeam, saas
  <2>. QED
    BY <2>1, AbstractStutter
<1>. QED
  BY <1>1, <1>2, <1>3, <1>4, <1>5, <1>6, <1>7, <1>8 DEF Next, Workflow,
     TryBlock, FinallyBlock

(* RecoveryTestWorkflow, with its retries, lost answers and early ends,    *)
(* keeps the promise of IsolatedTest.                                      *)
THEOREM Refinement == Spec => ImplementsIsolatedTest
<1>1. Init => Abstract!AbsInit
  BY DEF Init, Abstract!AbsInit, Verdict
<1>2. IndInv /\ IndInv' /\ [Next]_vars => [Abstract!AbsNext]_Abstract!absVars
  BY StepRefines
<1>. QED
  BY <1>1, <1>2, Invariance, PTL DEF Spec, ImplementsIsolatedTest,
     Abstract!AbsSpec

=============================================================================
