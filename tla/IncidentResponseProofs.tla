----------------------- MODULE IncidentResponseProofs -----------------------
(***************************************************************************)
(* Proofs about IncidentResponse for any number of requests, scans,        *)
(* findings and errors, and about ThreatAnalysis for lists of any length.  *)
(***************************************************************************)
EXTENDS IncidentResponse, ThreatAnalysis, TLAPS, FiniteSetTheorems,
        SequenceTheorems, WellFoundedInduction, NaturalsInduction

(* Nothing is stored and every request is idle. *)
LEMMA InitIndInv == Init => IndInv
<1>. SUFFICES ASSUME Init PROVE IndInv
  OBVIOUS
<1>. USE ScansAssumption DEF Init
<1>1. TypeOK
  BY DEF TypeOK
<1>2. RequestOK /\ HeldOK /\ UnstoredOK /\ NumbersOK /\ MarksOK
  BY DEF RequestOK, HeldOK, Held, UnstoredOK, NumbersOK, MarksOK, Handling
<1>3. OneIncident /\ NoFindingSkipped /\ FlagsHonest
  BY DEF OneIncident, NoFindingSkipped, FlagsHonest
<1>. QED
  BY <1>1, <1>2, <1>3 DEF IndInv

-----------------------------------------------------------------------------
(* One lemma per step *)

(* A scan arrives. *)
LEMMA SubmitInv ==
    ASSUME IndInv, NEW r \in Requests, NEW s \in Scans,
           Submit(r, s) PROVE IndInv'
<1>. USE ScansAssumption DEF IndInv
<1>1. TypeOK'
  BY DEF TypeOK, RequestOK, table, request, Handling, Submit
<1>2. RequestOK'
  BY DEF TypeOK, RequestOK, table, request, Handling, Submit
<1>3. HeldOK'
  BY DEF TypeOK, RequestOK, HeldOK, Held, UnstoredOK, table, request,
     Handling, Submit
<1>4. UnstoredOK' /\ OneIncident'
  BY DEF TypeOK, RequestOK, HeldOK, Held, UnstoredOK, OneIncident, table,
     request, Handling, Submit
<1>5. NumbersOK'
  BY DEF TypeOK, RequestOK, NumbersOK, table, request, Handling, Submit
<1>6. MarksOK'
  BY DEF TypeOK, RequestOK, MarksOK, Acknowledged, table, request,
     Handling, Submit
<1>7. NoFindingSkipped'
  BY DEF TypeOK, RequestOK, NoFindingSkipped, table, request, Handling,
     Submit
<1>8. FlagsHonest'
  BY DEF TypeOK, RequestOK, HeldOK, Held, MarksOK, FlagsHonest, table,
     request, Handling, Submit
<1>. QED
  BY <1>1, <1>2, <1>3, <1>4, <1>5, <1>6, <1>7, <1>8

(* The scan is stored: no other request holds its findings, since it was   *)
(* not stored before.                                                      *)
LEMMA StoreScanInv ==
    ASSUME IndInv, NEW r \in Requests,
           StoreScan(r) PROVE IndInv'
<1>. USE ScansAssumption DEF IndInv
<1>1. TypeOK'
  BY DEF TypeOK, RequestOK, table, request, Handling, StoreScan,
     FindingsOf
<1>2. RequestOK'
  BY DEF TypeOK, RequestOK, table, request, Handling, StoreScan,
     FindingsOf
<1>3. HeldOK'
  BY DEF TypeOK, RequestOK, HeldOK, Held, UnstoredOK, table, request,
     Handling, StoreScan, FindingsOf
<1>4. UnstoredOK' /\ OneIncident'
  BY DEF TypeOK, RequestOK, HeldOK, Held, UnstoredOK, OneIncident, table,
     request, Handling, StoreScan, FindingsOf
<1>5. NumbersOK'
  BY DEF TypeOK, RequestOK, NumbersOK, table, request, Handling,
     StoreScan, FindingsOf
<1>6. MarksOK'
  BY DEF TypeOK, RequestOK, MarksOK, Acknowledged, table, request,
     Handling, StoreScan, FindingsOf
<1>7. NoFindingSkipped'
  BY DEF TypeOK, RequestOK, NoFindingSkipped, table, request, Handling,
     StoreScan, FindingsOf
<1>8. FlagsHonest'
  BY DEF TypeOK, RequestOK, HeldOK, Held, MarksOK, FlagsHonest, table,
     request, Handling, StoreScan, FindingsOf
<1>. QED
  BY <1>1, <1>2, <1>3, <1>4, <1>5, <1>6, <1>7, <1>8

(* A scan that is stored is refused. *)
LEMMA RefuseScanInv ==
    ASSUME IndInv, NEW r \in Requests,
           RefuseScan(r) PROVE IndInv'
<1>. USE ScansAssumption DEF IndInv
<1>1. TypeOK'
  BY DEF TypeOK, RequestOK, table, request, Handling, RefuseScan
<1>2. RequestOK'
  BY DEF TypeOK, RequestOK, table, request, Handling, RefuseScan
<1>3. HeldOK'
  BY DEF TypeOK, RequestOK, HeldOK, Held, UnstoredOK, table, request,
     Handling, RefuseScan
<1>4. UnstoredOK' /\ OneIncident'
  BY DEF TypeOK, RequestOK, HeldOK, Held, UnstoredOK, OneIncident, table,
     request, Handling, RefuseScan
<1>5. NumbersOK'
  BY DEF TypeOK, RequestOK, NumbersOK, table, request, Handling,
     RefuseScan
<1>6. MarksOK'
  BY DEF TypeOK, RequestOK, MarksOK, Acknowledged, table, request,
     Handling, RefuseScan
<1>7. NoFindingSkipped'
  BY DEF TypeOK, RequestOK, NoFindingSkipped, table, request, Handling,
     RefuseScan
<1>8. FlagsHonest'
  BY DEF TypeOK, RequestOK, HeldOK, Held, MarksOK, FlagsHonest, table,
     request, Handling, RefuseScan
<1>. QED
  BY <1>1, <1>2, <1>3, <1>4, <1>5, <1>6, <1>7, <1>8

(* The transaction fails. *)
LEMMA StoreErrorInv ==
    ASSUME IndInv, NEW r \in Requests,
           StoreError(r) PROVE IndInv'
<1>. USE ScansAssumption DEF IndInv
<1>1. TypeOK'
  BY DEF TypeOK, RequestOK, table, request, Handling, StoreError, Error,
     FindingsOf
<1>2. RequestOK'
  BY DEF TypeOK, RequestOK, table, request, Handling, StoreError, Error,
     FindingsOf
<1>3. HeldOK'
  BY DEF TypeOK, RequestOK, HeldOK, Held, UnstoredOK, table, request,
     Handling, StoreError, Error, FindingsOf
<1>4. UnstoredOK' /\ OneIncident'
  BY DEF TypeOK, RequestOK, HeldOK, Held, UnstoredOK, OneIncident, table,
     request, Handling, StoreError, Error, FindingsOf
<1>5. NumbersOK'
  BY DEF TypeOK, RequestOK, NumbersOK, table, request, Handling,
     StoreError, Error, FindingsOf
<1>6. MarksOK'
  BY DEF TypeOK, RequestOK, MarksOK, Acknowledged, table, request,
     Handling, StoreError, Error, FindingsOf
<1>7. NoFindingSkipped'
  BY DEF TypeOK, RequestOK, NoFindingSkipped, table, request, Handling,
     StoreError, Error, FindingsOf
<1>8. FlagsHonest'
  BY DEF TypeOK, RequestOK, HeldOK, Held, MarksOK, FlagsHonest, table,
     request, Handling, StoreError, Error, FindingsOf
<1>. QED
  BY <1>1, <1>2, <1>3, <1>4, <1>5, <1>6, <1>7, <1>8

(* The loop is over. *)
LEMMA AnswerInv ==
    ASSUME IndInv, NEW r \in Requests,
           Answer(r) PROVE IndInv'
<1>. USE ScansAssumption DEF IndInv
<1>1. TypeOK'
  BY DEF TypeOK, RequestOK, table, request, Handling, Answer
<1>2. RequestOK'
  BY DEF TypeOK, RequestOK, table, request, Handling, Answer
<1>3. HeldOK'
  BY DEF TypeOK, RequestOK, HeldOK, Held, UnstoredOK, table, request,
     Handling, Answer
<1>4. UnstoredOK' /\ OneIncident'
  BY DEF TypeOK, RequestOK, HeldOK, Held, UnstoredOK, OneIncident, table,
     request, Handling, Answer
<1>5. NumbersOK'
  BY DEF TypeOK, RequestOK, NumbersOK, table, request, Handling, Answer
<1>6. MarksOK'
  BY DEF TypeOK, RequestOK, MarksOK, Acknowledged, table, request,
     Handling, Answer
<1>7. NoFindingSkipped'
  BY DEF TypeOK, RequestOK, NoFindingSkipped, table, request, Handling,
     Answer
<1>8. FlagsHonest'
  BY DEF TypeOK, RequestOK, HeldOK, Held, MarksOK, FlagsHonest, table,
     request, Handling, Answer
<1>. QED
  BY <1>1, <1>2, <1>3, <1>4, <1>5, <1>6, <1>7, <1>8

(* The next finding is taken. *)
LEMMA LoadConfigsInv ==
    ASSUME IndInv, NEW r \in Requests, NEW f \in Findings, NEW c \in SUBSET Targets,
           LoadConfigs(r, f, c) PROVE IndInv'
<1>. USE ScansAssumption DEF IndInv
<1>1. TypeOK'
  BY DEF TypeOK, RequestOK, table, request, Handling, LoadConfigs
<1>2. RequestOK'
  BY DEF TypeOK, RequestOK, table, request, Handling, LoadConfigs
<1>3. HeldOK'
  BY DEF TypeOK, RequestOK, HeldOK, Held, UnstoredOK, table, request,
     Handling, LoadConfigs
<1>4. UnstoredOK' /\ OneIncident'
  BY DEF TypeOK, RequestOK, HeldOK, Held, UnstoredOK, OneIncident, table,
     request, Handling, LoadConfigs
<1>5. NumbersOK'
  BY DEF TypeOK, RequestOK, NumbersOK, table, request, Handling,
     LoadConfigs
<1>6. MarksOK'
  BY DEF TypeOK, RequestOK, MarksOK, Acknowledged, table, request,
     Handling, LoadConfigs
<1>7. NoFindingSkipped'
  BY DEF TypeOK, RequestOK, NoFindingSkipped, table, request, Handling,
     LoadConfigs
<1>8. FlagsHonest'
  BY DEF TypeOK, RequestOK, HeldOK, Held, MarksOK, FlagsHonest, table,
     request, Handling, LoadConfigs
<1>. QED
  BY <1>1, <1>2, <1>3, <1>4, <1>5, <1>6, <1>7, <1>8

(* The session refuses a statement. *)
LEMMA SessionBrokenInv ==
    ASSUME IndInv, NEW r \in Requests, NEW f \in Findings,
           SessionBroken(r, f) PROVE IndInv'
<1>. USE ScansAssumption DEF IndInv
<1>1. TypeOK'
  BY DEF TypeOK, RequestOK, table, request, Handling, SessionBroken
<1>2. RequestOK'
  BY DEF TypeOK, RequestOK, table, request, Handling, SessionBroken
<1>3. HeldOK'
  BY DEF TypeOK, RequestOK, HeldOK, Held, UnstoredOK, table, request,
     Handling, SessionBroken
<1>4. UnstoredOK' /\ OneIncident'
  BY DEF TypeOK, RequestOK, HeldOK, Held, UnstoredOK, OneIncident, table,
     request, Handling, SessionBroken
<1>5. NumbersOK'
  BY DEF TypeOK, RequestOK, NumbersOK, table, request, Handling,
     SessionBroken
<1>6. MarksOK'
  BY DEF TypeOK, RequestOK, MarksOK, Acknowledged, table, request,
     Handling, SessionBroken
<1>7. NoFindingSkipped'
  BY DEF TypeOK, RequestOK, NoFindingSkipped, table, request, Handling,
     SessionBroken
<1>8. FlagsHonest'
  BY DEF TypeOK, RequestOK, HeldOK, Held, MarksOK, FlagsHonest, table,
     request, Handling, SessionBroken
<1>. QED
  BY <1>1, <1>2, <1>3, <1>4, <1>5, <1>6, <1>7, <1>8

(* The configuration cannot be read. *)
LEMMA LoadConfigsErrorInv ==
    ASSUME IndInv, NEW r \in Requests, NEW f \in Findings,
           LoadConfigsError(r, f) PROVE IndInv'
<1>. USE ScansAssumption DEF IndInv
<1>1. TypeOK'
  BY DEF TypeOK, RequestOK, table, request, Handling, LoadConfigsError,
     Error
<1>2. RequestOK'
  BY DEF TypeOK, RequestOK, table, request, Handling, LoadConfigsError,
     Error
<1>3. HeldOK'
  BY DEF TypeOK, RequestOK, HeldOK, Held, UnstoredOK, table, request,
     Handling, LoadConfigsError, Error
<1>4. UnstoredOK' /\ OneIncident'
  BY DEF TypeOK, RequestOK, HeldOK, Held, UnstoredOK, OneIncident, table,
     request, Handling, LoadConfigsError, Error
<1>5. NumbersOK'
  BY DEF TypeOK, RequestOK, NumbersOK, table, request, Handling,
     LoadConfigsError, Error
<1>6. MarksOK'
  BY DEF TypeOK, RequestOK, MarksOK, Acknowledged, table, request,
     Handling, LoadConfigsError, Error
<1>7. NoFindingSkipped'
  BY DEF TypeOK, RequestOK, NoFindingSkipped, table, request, Handling,
     LoadConfigsError, Error
<1>8. FlagsHonest'
  BY DEF TypeOK, RequestOK, HeldOK, Held, MarksOK, FlagsHonest, table,
     request, Handling, LoadConfigsError, Error
<1>. QED
  BY <1>1, <1>2, <1>3, <1>4, <1>5, <1>6, <1>7, <1>8

(* The incident is numbered. *)
LEMMA AssignNumberInv ==
    ASSUME IndInv, NEW r \in Requests,
           AssignNumber(r) PROVE IndInv'
<1>. USE ScansAssumption DEF IndInv, TriggerBackup
<1>1. TypeOK'
  BY DEF TypeOK, RequestOK, table, request, Handling, AssignNumber
<1>2. RequestOK'
  BY DEF TypeOK, RequestOK, table, request, Handling, AssignNumber
<1>3. HeldOK'
  BY DEF TypeOK, RequestOK, HeldOK, Held, UnstoredOK, table, request,
     Handling, AssignNumber
<1>4. UnstoredOK' /\ OneIncident'
  BY DEF TypeOK, RequestOK, HeldOK, Held, UnstoredOK, OneIncident, table,
     request, Handling, AssignNumber
<1>5. NumbersOK'
  BY DEF TypeOK, RequestOK, NumbersOK, table, request, Handling,
     AssignNumber
<1>6. MarksOK'
  BY DEF TypeOK, RequestOK, MarksOK, Acknowledged, table, request,
     Handling, AssignNumber
<1>7. NoFindingSkipped'
  BY DEF TypeOK, RequestOK, NoFindingSkipped, table, request, Handling,
     AssignNumber
<1>8. FlagsHonest'
  BY DEF TypeOK, RequestOK, HeldOK, Held, MarksOK, FlagsHonest, table,
     request, Handling, AssignNumber
<1>. QED
  BY <1>1, <1>2, <1>3, <1>4, <1>5, <1>6, <1>7, <1>8

(* It cannot be numbered. *)
LEMMA AssignNumberErrorInv ==
    ASSUME IndInv, NEW r \in Requests,
           AssignNumberError(r) PROVE IndInv'
<1>. USE ScansAssumption DEF IndInv
<1>1. TypeOK'
  BY DEF TypeOK, RequestOK, table, request, Handling, AssignNumberError,
     Error, EndHandler
<1>2. RequestOK'
  BY DEF TypeOK, RequestOK, table, request, Handling, AssignNumberError,
     Error, EndHandler
<1>3. HeldOK'
  BY DEF TypeOK, RequestOK, HeldOK, Held, UnstoredOK, table, request,
     Handling, AssignNumberError, Error, EndHandler
<1>4. UnstoredOK' /\ OneIncident'
  BY DEF TypeOK, RequestOK, HeldOK, Held, UnstoredOK, OneIncident, table,
     request, Handling, AssignNumberError, Error, EndHandler
<1>5. NumbersOK'
  BY DEF TypeOK, RequestOK, NumbersOK, table, request, Handling,
     AssignNumberError, Error, EndHandler
<1>6. MarksOK'
  BY DEF TypeOK, RequestOK, MarksOK, Acknowledged, table, request,
     Handling, AssignNumberError, Error, EndHandler
<1>7. NoFindingSkipped'
  BY DEF TypeOK, RequestOK, NoFindingSkipped, table, request, Handling,
     AssignNumberError, Error, EndHandler
<1>8. FlagsHonest'
  BY DEF TypeOK, RequestOK, HeldOK, Held, MarksOK, FlagsHonest, table,
     request, Handling, AssignNumberError, Error, EndHandler
<1>. QED
  BY <1>1, <1>2, <1>3, <1>4, <1>5, <1>6, <1>7, <1>8

(* SOAR and VeeamONE are recorded as told only when the call arrived. *)
LEMMA RecordedArrives ==
    ASSUME NEW t \in Acknowledged, NEW a \in BOOLEAN, NEW b \in BOOLEAN, b,
           [arrives |-> a, recorded |-> b] \in Outcomes(t)
    PROVE  a
<1>1. CASE t = "soar"
  BY <1>1 DEF Outcomes, SoarOutcomes, WebhookOutcomes
<1>2. CASE t = "veeamone"
  BY <1>2 DEF Outcomes, VeeamOneOutcomes
<1>. QED
  BY <1>1, <1>2 DEF Acknowledged

(* One integration is called. *)
LEMMA DispatchInv ==
    ASSUME IndInv, NEW r \in Requests, NEW t \in Targets,
           NEW a \in BOOLEAN, NEW b \in BOOLEAN,
           Dispatch(r, t, a, b) PROVE IndInv'
<1>. USE ScansAssumption DEF IndInv
<1>1. TypeOK'
  BY DEF TypeOK, RequestOK, table, request, Handling, Dispatch, First,
     Reached, Quoted
<1>2. RequestOK'
  BY DEF TypeOK, RequestOK, table, request, Handling, Dispatch, First,
     Reached
<1>3. HeldOK'
  BY DEF TypeOK, RequestOK, HeldOK, Held, UnstoredOK, table, request,
     Handling, Dispatch, First, Reached
<1>4. UnstoredOK' /\ OneIncident'
  BY DEF TypeOK, RequestOK, HeldOK, Held, UnstoredOK, OneIncident, table,
     request, Handling, Dispatch, First, Reached
<1>5. NumbersOK'
  BY DEF TypeOK, RequestOK, NumbersOK, table, request, Handling, Dispatch,
     First, Reached
<1>6. MarksOK'
  BY RecordedArrives DEF TypeOK, RequestOK, MarksOK, Acknowledged, table,
     request, Handling, Dispatch, First, Reached
<1>7. NoFindingSkipped'
  BY DEF TypeOK, RequestOK, NoFindingSkipped, table, request, Handling,
     Dispatch, First, Reached
<1>8. FlagsHonest'
  BY DEF TypeOK, RequestOK, HeldOK, Held, MarksOK, FlagsHonest, table,
     request, Handling, Dispatch, First, Reached
<1>. QED
  BY <1>1, <1>2, <1>3, <1>4, <1>5, <1>6, <1>7, <1>8

(* All have been called. *)
LEMMA DispatchedInv ==
    ASSUME IndInv, NEW r \in Requests,
           Dispatched(r) PROVE IndInv'
<1>. USE ScansAssumption DEF IndInv
<1>1. TypeOK'
  BY DEF TypeOK, RequestOK, table, request, Handling, Dispatched
<1>2. RequestOK'
  BY DEF TypeOK, RequestOK, table, request, Handling, Dispatched
<1>3. HeldOK'
  BY DEF TypeOK, RequestOK, HeldOK, Held, UnstoredOK, table, request,
     Handling, Dispatched
<1>4. UnstoredOK' /\ OneIncident'
  BY DEF TypeOK, RequestOK, HeldOK, Held, UnstoredOK, OneIncident, table,
     request, Handling, Dispatched
<1>5. NumbersOK'
  BY DEF TypeOK, RequestOK, NumbersOK, table, request, Handling,
     Dispatched
<1>6. MarksOK'
  BY DEF TypeOK, RequestOK, MarksOK, Acknowledged, table, request,
     Handling, Dispatched
<1>7. NoFindingSkipped'
  BY DEF TypeOK, RequestOK, NoFindingSkipped, table, request, Handling,
     Dispatched
<1>8. FlagsHonest'
  BY DEF TypeOK, RequestOK, HeldOK, Held, MarksOK, FlagsHonest, table,
     request, Handling, Dispatched
<1>. QED
  BY <1>1, <1>2, <1>3, <1>4, <1>5, <1>6, <1>7, <1>8

(* The incident is committed. *)
LEMMA CommitInv ==
    ASSUME IndInv, NEW r \in Requests,
           Commit(r) PROVE IndInv'
<1>. USE ScansAssumption DEF IndInv
<1>1. TypeOK'
  BY DEF TypeOK, RequestOK, table, request, Handling, Commit,
     InsertIncident, EndHandler
<1>2. RequestOK'
  BY DEF TypeOK, RequestOK, table, request, Handling, Commit,
     InsertIncident, EndHandler
<1>3. HeldOK'
  BY DEF TypeOK, RequestOK, HeldOK, Held, UnstoredOK, table, request,
     Handling, Commit, InsertIncident, EndHandler
<1>4. UnstoredOK' /\ OneIncident'
  BY DEF TypeOK, RequestOK, HeldOK, Held, UnstoredOK, OneIncident, table,
     request, Handling, Commit, InsertIncident, EndHandler
<1>5. NumbersOK'
  BY DEF TypeOK, RequestOK, NumbersOK, table, request, Handling, Commit,
     InsertIncident, EndHandler
<1>6. MarksOK'
  BY DEF TypeOK, RequestOK, MarksOK, Acknowledged, table, request,
     Handling, Commit, InsertIncident, EndHandler
<1>7. NoFindingSkipped'
  BY DEF TypeOK, RequestOK, NoFindingSkipped, table, request, Handling,
     Commit, InsertIncident, EndHandler
<1>8. FlagsHonest'
  BY DEF TypeOK, RequestOK, HeldOK, Held, MarksOK, FlagsHonest, table,
     request, Handling, Commit, InsertIncident, EndHandler
<1>. QED
  BY <1>1, <1>2, <1>3, <1>4, <1>5, <1>6, <1>7, <1>8

(* The commit raises. *)
LEMMA CommitErrorInv ==
    ASSUME IndInv, NEW r \in Requests,
           CommitError(r) PROVE IndInv'
<1>. USE ScansAssumption DEF IndInv
<1>1. TypeOK'
  BY DEF TypeOK, RequestOK, table, request, Handling, CommitError, Error,
     InsertIncident, EndHandler
<1>2. RequestOK'
  BY DEF TypeOK, RequestOK, table, request, Handling, CommitError, Error,
     InsertIncident, EndHandler
<1>3. HeldOK'
  BY DEF TypeOK, RequestOK, HeldOK, Held, UnstoredOK, table, request,
     Handling, CommitError, Error, InsertIncident, EndHandler
<1>4. UnstoredOK' /\ OneIncident'
  BY SMTT(30) DEF TypeOK, RequestOK, HeldOK, Held, UnstoredOK, OneIncident, table,
     request, Handling, CommitError, Error, InsertIncident, EndHandler
<1>5. NumbersOK'
  BY SMTT(30) DEF TypeOK, RequestOK, NumbersOK, table, request, Handling,
     CommitError, Error, InsertIncident, EndHandler
<1>6. MarksOK'
  BY DEF TypeOK, RequestOK, MarksOK, Acknowledged, table, request,
     Handling, CommitError, Error, InsertIncident, EndHandler
<1>7. NoFindingSkipped'
  BY DEF TypeOK, RequestOK, NoFindingSkipped, table, request, Handling,
     CommitError, Error, InsertIncident, EndHandler
<1>8. FlagsHonest'
  <2>1. CASE UNCHANGED table
    BY <2>1 DEF FlagsHonest, table, CommitError
  <2>2. CASE \E f \in cur[r] : InsertIncident(r, f)
    BY <2>2 DEF TypeOK, RequestOK, MarksOK, FlagsHonest, CommitError,
       InsertIncident
  <2>. QED
    BY <2>1, <2>2 DEF CommitError
<1>. QED
  BY <1>1, <1>2, <1>3, <1>4, <1>5, <1>6, <1>7, <1>8

(* The process dies. *)
LEMMA CrashInv ==
    ASSUME IndInv, NEW r \in Requests,
           Crash(r) PROVE IndInv'
<1>. USE ScansAssumption DEF IndInv
<1>1. TypeOK'
  BY DEF TypeOK, RequestOK, table, request, Handling, Crash, Error
<1>2. RequestOK'
  BY DEF TypeOK, RequestOK, table, request, Handling, Crash, Error
<1>3. HeldOK'
  BY DEF TypeOK, RequestOK, HeldOK, Held, UnstoredOK, table, request,
     Handling, Crash, Error
<1>4. UnstoredOK' /\ OneIncident'
  BY DEF TypeOK, RequestOK, HeldOK, Held, UnstoredOK, OneIncident, table,
     request, Handling, Crash, Error
<1>5. NumbersOK'
  BY DEF TypeOK, RequestOK, NumbersOK, table, request, Handling, Crash,
     Error
<1>6. MarksOK'
  BY DEF TypeOK, RequestOK, MarksOK, Acknowledged, table, request,
     Handling, Crash, Error
<1>7. NoFindingSkipped'
  BY DEF TypeOK, RequestOK, NoFindingSkipped, table, request, Handling,
     Crash, Error
<1>8. FlagsHonest'
  BY DEF TypeOK, RequestOK, HeldOK, Held, MarksOK, FlagsHonest, table,
     request, Handling, Crash, Error
<1>. QED
  BY <1>1, <1>2, <1>3, <1>4, <1>5, <1>6, <1>7, <1>8

(* A user resolves an incident. *)
LEMMA ResolveIncidentInv ==
    ASSUME IndInv, NEW f \in Findings, ResolveIncident(f) PROVE IndInv'
  BY DEF IndInv, TypeOK, RequestOK, HeldOK, Held, UnstoredOK, NumbersOK,
     MarksOK, OneIncident, NoFindingSkipped, FlagsHonest, ResolveIncident,
     request

(* Every step keeps the invariant. *)
LEMMA NextIndInv == IndInv /\ [Next]_vars => IndInv'
<1>. SUFFICES ASSUME IndInv, [Next]_vars PROVE IndInv'
  OBVIOUS
<1>1. ASSUME NEW r \in Requests, NEW s \in Scans, Submit(r, s) PROVE IndInv'
  BY <1>1, SubmitInv
<1>2. ASSUME NEW r \in Requests,
             StoreScan(r) \/ RefuseScan(r) \/ StoreError(r) \/ Answer(r)
      PROVE  IndInv'
  BY <1>2, StoreScanInv, RefuseScanInv, StoreErrorInv, AnswerInv
<1>3. ASSUME NEW r \in Requests, NEW f \in Findings,
             \/ \E c \in SUBSET Targets : LoadConfigs(r, f, c)
             \/ SessionBroken(r, f)
             \/ LoadConfigsError(r, f)
      PROVE  IndInv'
  BY <1>3, LoadConfigsInv, SessionBrokenInv, LoadConfigsErrorInv
<1>4. ASSUME NEW r \in Requests, AssignNumber(r) \/ AssignNumberError(r)
      PROVE  IndInv'
  BY <1>4, AssignNumberInv, AssignNumberErrorInv
<1>5. ASSUME NEW r \in Requests, NEW t \in Targets, NEW a \in BOOLEAN,
             NEW b \in BOOLEAN, Dispatch(r, t, a, b)
      PROVE  IndInv'
  BY <1>5, DispatchInv
<1>6. ASSUME NEW r \in Requests,
             Dispatched(r) \/ Commit(r) \/ CommitError(r) \/ Crash(r)
      PROVE  IndInv'
  BY <1>6, DispatchedInv, CommitInv, CommitErrorInv, CrashInv
<1>7. ASSUME NEW f \in Findings, ResolveIncident(f) PROVE IndInv'
  BY <1>7, ResolveIncidentInv
<1>8. CASE UNCHANGED vars
  BY <1>8 DEF vars, table, request, IndInv, TypeOK, RequestOK, HeldOK, Held,
     UnstoredOK, NumbersOK, MarksOK, OneIncident, NoFindingSkipped, FlagsHonest
<1>. QED
  BY <1>1, <1>2, <1>3, <1>4, <1>5, <1>6, <1>7, <1>8 DEF Next

-----------------------------------------------------------------------------
(* Every reachable state satisfies the inductive invariant. *)
THEOREM IncidentInvariance == Spec => []IndInv
  BY InitIndInv, NextIndInv, PTL DEF Spec

(* Tables and requests keep their shape. *)
THEOREM TypeCorrect == Spec => []TypeOK
<1>1. IndInv => TypeOK
  BY DEF IndInv
<1>. QED
  BY <1>1, IncidentInvariance, PTL

(* A finding never has two incidents, however often its scan is posted and *)
(* whatever fails in between.                                              *)
THEOREM OneIncidentTheorem == Spec => []OneIncident
<1>1. IndInv => OneIncident
  BY DEF IndInv
<1>. QED
  BY <1>1, IncidentInvariance, PTL

(* Only an error in the handler of a stored finding leaves that finding    *)
(* without an incident.                                                    *)
THEOREM NoSkipTheorem == Spec => []NoFindingSkipped
<1>1. IndInv => NoFindingSkipped
  BY DEF IndInv
<1>. QED
  BY <1>1, IncidentInvariance, PTL

(* The columns soar_dispatched and veeamone_reported are right, and SOAR   *)
(* was given the number of the row.                                        *)
THEOREM FlagsTheorem == Spec => []FlagsHonest
<1>1. IndInv => FlagsHonest
  BY DEF IndInv
<1>. QED
  BY <1>1, IncidentInvariance, PTL

(* The number a handler assigns is above every number in the table. *)
THEOREM FreshNumberTheorem == Spec => FreshNumber
<1>1. IndInv /\ [Next]_vars =>
        [\A r \in Requests : pc[r] = "number" /\ pc'[r] = "dispatch" =>
            \A f \in Findings : opened[f] > 0 => number[f] < num'[r]]_vars
  <2>1. SUFFICES ASSUME IndInv, Next, NEW r \in Requests, pc[r] = "number",
                        pc'[r] = "dispatch"
                 PROVE  \A f \in Findings : opened[f] > 0 => number[f] < num'[r]
    OBVIOUS
  <2>t. pc \in [Requests -> Handling \cup {"idle", "store", "done"}]
    BY <2>1 DEF IndInv, TypeOK
  <2>2. AssignNumber(r)
    <3>. DEFINE Elsewhere(q) ==
           \E v \in {"store", "configs", "number", "commit", "done"} :
              pc' = [pc EXCEPT ![q] = v]
    <3>1. PICK q \in Requests :
            AssignNumber(q) \/ Elsewhere(q) \/ UNCHANGED pc
      <4>1. ASSUME NEW q \in Requests,
                   \/ \E s \in Scans : Submit(q, s)
                   \/ StoreScan(q) \/ RefuseScan(q) \/ StoreError(q) \/ Answer(q)
            PROVE  Elsewhere(q)
        BY <4>1 DEF Submit, StoreScan, RefuseScan, StoreError, Answer
      <4>2. ASSUME NEW q \in Requests, NEW f \in Findings,
                   \/ \E c \in SUBSET Targets : LoadConfigs(q, f, c)
                   \/ SessionBroken(q, f) \/ LoadConfigsError(q, f)
            PROVE  Elsewhere(q) \/ UNCHANGED pc
        BY <4>2 DEF LoadConfigs, SessionBroken, LoadConfigsError
      <4>3. ASSUME NEW q \in Requests,
                   \/ AssignNumberError(q)
                   \/ \E t \in Targets : \E a, m \in BOOLEAN : Dispatch(q, t, a, m)
                   \/ Dispatched(q) \/ Commit(q) \/ CommitError(q) \/ Crash(q)
            PROVE  Elsewhere(q) \/ UNCHANGED pc
        BY <4>3 DEF AssignNumberError, EndHandler, Dispatch, Dispatched,
           Commit, CommitError, Crash
      <4>4. ASSUME NEW f \in Findings, ResolveIncident(f)
            PROVE  UNCHANGED pc
        BY <4>4 DEF ResolveIncident
      <4>. HIDE DEF Elsewhere
      <4>. QED
        BY <2>1, <4>1, <4>2, <4>3, <4>4 DEF Next
    <3>2. CASE AssignNumber(q)
      <4>1. pc' = [pc EXCEPT ![q] = "dispatch"]
        BY <3>2 DEF AssignNumber
      <4>2. q = r
        BY <2>1, <2>t, <4>1
      <4>. QED
        BY <3>2, <4>2
    <3>3. CASE Elsewhere(q)
      BY <2>1, <2>t, <3>3
    <3>4. CASE UNCHANGED pc
      BY <2>1, <3>4
    <3>. QED
      BY <3>1, <3>2, <3>3, <3>4
  <2>. QED
    BY <2>1, <2>2 DEF AssignNumber, IndInv, TypeOK, NumbersOK
<1>. QED
  BY <1>1, IncidentInvariance, PTL DEF Spec, FreshNumber

-----------------------------------------------------------------------------
(* The recommended restore point                                            *)

(* Every answer is the one for the list that is kept beside it.            *)
AnswerFits ==
    answer # NoAnswer =>
        /\ posted \in Lists
        /\ answer = [flagged     |-> Cardinality({k \in DOMAIN posted : ~IsClean(posted, k)}),
                     recommended |-> SelectClean(posted)]

LEMMA LeastNatural ==
    ASSUME NEW T, T \subseteq Nat, T # {}
    PROVE  \E x \in T : \A y \in T : x <= y
<1>. DEFINE R == {p \in Nat \X Nat : p[1] < p[2]}
<1>1. IsWellFoundedOn(R, Nat)
  BY NatLessThanWellFounded, Zenon DEF OpToRel
<1>. HIDE DEF R
<1>2. PICK x \in T : \A y \in T : <<y, x>> \notin R
  BY <1>1, WFMin
<1>3. \A y \in T : ~(y < x)
  BY <1>2 DEF R
<1>. QED
  BY <1>3

(* k comes first among C: no date is later, and no such point is earlier   *)
(* in the list.                                                            *)
ComesFirst(date, C, k) ==
    \A j \in C : date[j] < date[k] \/ (date[j] = date[k] /\ k <= j)

(* Some point comes first: there is no shortest prefix without one.        *)
LEMMA FirstExists ==
    ASSUME NEW n \in Nat, NEW C \in SUBSET (1..n), C # {}, NEW date \in [C -> Nat]
    PROVE  \E k \in C : ComesFirst(date, C, k)
<1>. DEFINE Upto(i) == {j \in C : j <= i}
            Has(i)  == \E k \in Upto(i) : ComesFirst(date, Upto(i), k)
            Bad     == {i \in 1..n : Upto(i) # {} /\ ~Has(i)}
<1>1. ASSUME Bad # {}
      PROVE  FALSE
  <2>1. PICK x \in Bad : \A y \in Bad : x <= y
    <3>1. Bad \subseteq Nat
      OBVIOUS
    <3>. HIDE DEF Bad
    <3>. QED
      BY <1>1, <3>1, LeastNatural
  <2>. HIDE DEF Has
  <2>2. x \in 1..n /\ Upto(x) # {} /\ ~Has(x)
    BY <2>1
  <2>3. /\ Upto(x) = Upto(x - 1) \cup ({x} \cap C)
        /\ Upto(x - 1) \subseteq C /\ \A j \in Upto(x - 1) : j < x
    <3>1. \A j \in C : j \in 1..n
      OBVIOUS
    <3>2. \A j \in C : (j <= x <=> j <= x - 1 \/ j = x) /\ (j <= x - 1 => j < x)
      BY <2>2, <3>1
    <3>. QED
      BY <3>2, Zenon
  <2>4. ASSUME Upto(x - 1) # {} PROVE x - 1 \in 1..n
    <3>1. PICK j \in C : j <= x - 1
      BY <2>4
    <3>2. j \in 1..n
      OBVIOUS
    <3>. QED
      BY <2>2, <3>1, <3>2
  <2>5. x - 1 \notin Bad
    BY <2>1, <2>2
  <2>6. Upto(x - 1) # {} => Has(x - 1)
    BY <2>4, <2>5
  <2>. HIDE DEF Bad, Upto
  <2>7. CASE Upto(x - 1) = {}
    <3>1. Upto(x) = {x} /\ x \in C
      BY <2>2, <2>3, <2>7
    <3>2. ComesFirst(date, {x}, x)
      BY <2>2, <3>1 DEF ComesFirst
    <3>. QED
      BY <2>2, <3>1, <3>2 DEF Has
  <2>8. CASE Upto(x - 1) # {}
    <3>1. PICK k \in Upto(x - 1) : ComesFirst(date, Upto(x - 1), k)
      BY <2>6, <2>8 DEF Has
    <3>2. k \in Upto(x) /\ k \in C /\ k < x /\ date[k] \in Nat
      BY <2>3, <3>1
    <3>3. CASE x \in C /\ date[k] < date[x]
      <4>1. ASSUME NEW j \in Upto(x)
            PROVE  date[j] < date[x] \/ (date[j] = date[x] /\ x <= j)
        <5>1. CASE j = x
          BY <2>2, <5>1
        <5>2. CASE j \in Upto(x - 1)
          <6>1. date[j] \in Nat /\ date[j] <= date[k]
            BY <2>3, <3>1, <3>2, <5>2 DEF ComesFirst
          <6>2. date[x] \in Nat
            BY <3>3
          <6>. QED
            BY <3>2, <3>3, <6>1, <6>2
        <5>. QED
          BY <2>3, <5>1, <5>2
      <4>2. x \in Upto(x)
        BY <2>3, <3>3
      <4>. QED
        BY <2>2, <4>1, <4>2 DEF Has, ComesFirst
    <3>4. CASE ~(x \in C /\ date[k] < date[x])
      <4>1. ASSUME NEW j \in Upto(x)
            PROVE  date[j] < date[k] \/ (date[j] = date[k] /\ k <= j)
        <5>1. CASE j \in Upto(x - 1)
          BY <3>1, <5>1 DEF ComesFirst
        <5>2. CASE j = x /\ x \in C
          <6>1. date[x] \in Nat /\ ~(date[k] < date[x])
            BY <3>4, <5>2
          <6>2. k \in Nat
            BY <3>2
          <6>. QED
            BY <2>2, <3>2, <5>2, <6>1, <6>2
        <5>. QED
          BY <2>3, <5>1, <5>2
      <4>. QED
        BY <2>2, <3>2, <4>1 DEF Has, ComesFirst
    <3>. QED
      BY <3>3, <3>4
  <2>. QED
    BY <2>7, <2>8
<1>2. n \in 1..n /\ Upto(n) = C
  <2>1. \A j \in C : j \in 1..n /\ j <= n
    OBVIOUS
  <2>2. PICK c \in C : TRUE
    OBVIOUS
  <2>3. n \in 1..n
    BY <2>1, <2>2
  <2>. QED
    BY <2>1, <2>3, Zenon
<1>3. Has(n)
  <2>. HIDE DEF Has
  <2>. QED
    BY <1>1, <1>2
<1>. QED
  BY <1>2, <1>3

(* A list of n restore points.                                             *)
LEMMA ListTyped ==
    ASSUME NEW rps \in Lists
    PROVE  /\ Len(rps) \in Nat /\ DOMAIN rps = 1..Len(rps)
           /\ \A k \in DOMAIN rps : rps[k] \in Metadata
<1>1. PICK n \in 0..MaxPoints : rps \in [1..n -> Metadata]
  BY DEF Lists
<1>2. n \in Nat
  BY <1>1, AnalysisAssumption
<1>3. rps \in Seq(Metadata)
  BY <1>1, <1>2
<1>. QED
  BY <1>3, LenProperties

(* A point is clean unless it carries a sign of its own: a jump in entropy *)
(* alone does not count.                                                   *)
LEMMA CleanIsUnsigned ==
    ASSUME NEW rps \in Lists, NEW k \in DOMAIN rps
    PROVE  IsClean(rps, k) <=>
             /\ ~(rps[k].entropy >= EncryptedThreshold)
             /\ FileIndicators(rps[k]) = {}
<1>. DEFINE own == rps[k].entropy >= EncryptedThreshold
            entropy == EntropyIndicators(rps, k)
            files == FileIndicators(rps[k])
<1>1. /\ own => entropy = {"high"}
      /\ ~own => entropy \in {{}, {"medium"}}
  BY DEF EntropyIndicators
<1>2. files \subseteq {"high", "critical"}
  BY DEF FileIndicators
<1>3. /\ SeverityOrder["medium"] < SeverityOrder["high"]
      /\ ~(SeverityOrder["high"] < SeverityOrder["high"])
      /\ ~(SeverityOrder["critical"] < SeverityOrder["high"])
  BY DEF SeverityOrder
<1>4. IsClean(rps, k) <=>
        \A i \in entropy \cup files : SeverityOrder[i] < SeverityOrder["high"]
  BY DEF IsClean, Indicators
<1>. HIDE DEF own, entropy, files
<1>5. IsClean(rps, k) <=> ~own /\ files = {}
  BY <1>1, <1>2, <1>3, <1>4, Zenon
<1>. QED
  BY <1>5 DEF own, files

(* select_clean_restore_point finds a point whenever one is clean, the     *)
(* first of those with the latest date.                                    *)
LEMMA SelectFinds ==
    ASSUME NEW rps \in Lists
    PROVE  LET clean == {k \in DOMAIN rps : IsClean(rps, k)}
           IN  /\ clean = {} => SelectClean(rps) = 0
               /\ clean # {} =>
                    /\ SelectClean(rps) \in clean
                    /\ \A j \in clean :
                         \/ rps[j].created < rps[SelectClean(rps)].created
                         \/ /\ rps[j].created = rps[SelectClean(rps)].created
                            /\ SelectClean(rps) <= j
<1>. DEFINE clean == {k \in DOMAIN rps : IsClean(rps, k)}
            date == [k \in clean |-> rps[k].created]
<1>1. SelectClean(rps) =
        IF clean = {} THEN 0
        ELSE CHOOSE k \in clean : \A j \in clean :
                \/ rps[j].created < rps[k].created
                \/ rps[j].created = rps[k].created /\ k <= j
  BY DEF SelectClean
<1>2. Len(rps) \in Nat /\ clean \in SUBSET (1..Len(rps))
  BY ListTyped
<1>3. \A k \in clean : rps[k].created \in Nat
  BY ListTyped, AnalysisAssumption
<1>4. ASSUME clean # {}
      PROVE  \E k \in clean : \A j \in clean :
                \/ rps[j].created < rps[k].created
                \/ rps[j].created = rps[k].created /\ k <= j
  <2>. HIDE DEF clean
  <2>1. date \in [clean -> Nat]
    BY <1>3
  <2>2. PICK k \in clean : ComesFirst(date, clean, k)
    <3>. HIDE DEF date
    <3>. QED
      BY <1>2, <1>4, <2>1, FirstExists
  <2>. QED
    BY <2>2 DEF ComesFirst
<1>. HIDE DEF clean
<1>5. ASSUME clean # {}
      PROVE  /\ SelectClean(rps) \in clean
             /\ \A j \in clean :
                  \/ rps[j].created < rps[SelectClean(rps)].created
                  \/ rps[j].created = rps[SelectClean(rps)].created
                     /\ SelectClean(rps) <= j
  BY <1>1, <1>4, <1>5
<1>. QED
  BY <1>1, <1>5 DEF clean

(* All points are flagged exactly when none is clean.                      *)
LEMMA AllFlagged ==
    ASSUME NEW rps \in Lists
    PROVE  Cardinality({k \in DOMAIN rps : ~IsClean(rps, k)}) = Len(rps)
             <=> {k \in DOMAIN rps : IsClean(rps, k)} = {}
<1>. DEFINE dirty == {k \in DOMAIN rps : ~IsClean(rps, k)}
            n == Len(rps)
<1>1. n \in Nat /\ DOMAIN rps = 1..n
  BY ListTyped
<1>2. IsFiniteSet(1..n) /\ Cardinality(1..n) = n
  <2>. HIDE DEF n
  <2>1. IsFiniteSet(1..n) /\ Cardinality(1..n) = IF 1 > n THEN 0 ELSE n - 1 + 1
    BY <1>1, FS_Interval
  <2>. QED
    BY <1>1, <2>1
<1>3. dirty \in SUBSET (1..n)
  BY <1>1
<1>4. {k \in DOMAIN rps : IsClean(rps, k)} = {} <=> dirty = 1..n
  BY <1>1
<1>. HIDE DEF dirty, n
<1>5. Cardinality(dirty) = n <=> dirty = 1..n
  BY <1>2, <1>3, FS_Subset
<1>. QED
  BY <1>4, <1>5 DEF dirty, n

LEMMA AnswerStep == AnswerFits /\ [AnalysisNext]_<<posted, answer>> => AnswerFits'
<1>. SUFFICES ASSUME AnswerFits, [AnalysisNext]_<<posted, answer>>
              PROVE  AnswerFits'
  OBVIOUS
<1>1. CASE UNCHANGED <<posted, answer>>
  BY <1>1 DEF AnswerFits
<1>2. CASE AnalysisNext
  <2>1. PICK rps \in Lists : AnalyzeRestorePoints(rps)
    BY <1>2 DEF AnalysisNext
  <2>2. posted' = rps
    BY <2>1 DEF AnalyzeRestorePoints
  <2>3. answer' = [flagged     |-> Cardinality({k \in DOMAIN rps : ~IsClean(rps, k)}),
                   recommended |-> SelectClean(rps)]
    BY <2>1 DEF AnalyzeRestorePoints
  <2>. QED
    BY <2>2, <2>3 DEF AnswerFits
<1>. QED
  BY <1>1, <1>2

LEMMA AnswerIsRight == AnswerFits => RecommendationIsRight
<1>. SUFFICES ASSUME AnswerFits, answer # NoAnswer
              PROVE  RecommendationIsRight
  BY DEF RecommendationIsRight
<1>. DEFINE clean == {k \in DOMAIN posted : IsClean(posted, k)}
            signs(k) == SignsOfEncryption(posted[k])
            best == answer.recommended
<1>1. /\ posted \in Lists
      /\ best = SelectClean(posted)
      /\ answer.flagged = Cardinality({k \in DOMAIN posted : ~IsClean(posted, k)})
  BY DEF AnswerFits
<1>2. DOMAIN posted = 1..Len(posted) /\ Len(posted) \in Nat
  BY <1>1, ListTyped
<1>3. \A k \in DOMAIN posted : k \in clean <=> ~signs(k)
  BY <1>1, CleanIsUnsigned DEF SignsOfEncryption
<1>4. /\ clean = {} => best = 0
      /\ clean # {} =>
           /\ best \in clean
           /\ \A j \in clean :
                \/ posted[j].created < posted[best].created
                \/ posted[j].created = posted[best].created /\ best <= j
  BY <1>1, SelectFinds
<1>5. answer.flagged = Len(posted) <=> clean = {}
  BY <1>1, AllFlagged
<1>6. clean \subseteq DOMAIN posted /\ 0 \notin clean
  BY <1>2
<1>7. \A k \in DOMAIN posted : posted[k].created \in Nat
  BY <1>1, ListTyped, AnalysisAssumption
<1>. HIDE DEF clean, best
<1>8. /\ best = 0 <=> answer.flagged = Len(posted)
      /\ best # 0 => ~signs(best)
  <2>. HIDE DEF signs
  <2>. QED
    BY <1>3, <1>4, <1>5, <1>6
<1>9. ASSUME NEW k \in DOMAIN posted, ~signs(k)
      PROVE  /\ best # 0
             /\ Dated(posted[k]) =>
                  Dated(posted[best]) /\ posted[k].created <= posted[best].created
             /\ ~Dated(posted[best]) => best <= k
  <2>1. k \in clean /\ best \in clean /\ best # 0
    BY <1>3, <1>4, <1>6, <1>9
  <2>2. posted[k].created \in Nat /\ posted[best].created \in Nat
    BY <1>6, <1>7, <2>1
  <2>3. \/ posted[k].created < posted[best].created
        \/ posted[k].created = posted[best].created /\ best <= k
    BY <1>4, <2>1
  <2>. QED
    BY <2>1, <2>2, <2>3 DEF Dated
<1>. QED
  BY <1>8, <1>9 DEF RecommendationIsRight, best

(* analyze_restore_points and select_clean_restore_point, for lists of any *)
(* length in any order: the recommended point carries no sign of           *)
(* encryption, no dated unsigned point is newer, of undated ones it is the *)
(* first in the list, and none is recommended only when all are flagged.   *)
THEOREM RecommendationTheorem == AnalysisSpec => []RecommendationIsRight
<1>1. AnalysisInit => AnswerFits
  BY DEF AnalysisInit, AnswerFits
<1>. QED
  BY <1>1, AnswerStep, AnswerIsRight, PTL DEF AnalysisSpec
=============================================================================
