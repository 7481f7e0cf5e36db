--------------------------- MODULE RunbooksProofs ---------------------------
(***************************************************************************)
(* For runbooks of any length, with any numbers and types of steps, and    *)
(* any number of workflows, retries and lost answers: the plan respects    *)
(* the dependencies and is as short as they allow, a workflow runs a       *)
(* step at most once and none after a failure that it must not pass over,  *)
(* and an execution that is reported completed was, whatever columns the   *)
(* API serves.  For a report of any type, any number of        *)
(* recipients and of attempts that overlap: what arrives is on record.     *)
(***************************************************************************)
EXTENDS Runbooks, ReportDelivery, TLAPS, FiniteSetTheorems, FunctionTheorems

(* What the newest workflow has run of a step, and what is left to it.     *)
Effect(i)  == effects[started][i]
Todo       == 1..Len(wf.todo)
Pending(i) == \E k \in Todo : wf.todo[k] = i

(* If this workflow has seen the step fail, the runbook says to pass over. *)
Passed(i) == Effect(i) = <<"failed">> => asked.step[i].on_failure = "continue"

(* Nothing is executed before the runbook and its execution are there, and *)
(* what is executed was found valid.                                       *)
Born ==
    /\ answer # "created" => execution = "none"
    /\ execution = "none" => started = 0
    /\ started = 0 <=> wf.pc = "idle"
    /\ answer = "created" => ValidDraft(asked)

(* A row, or the plan made of it, that says completed is right.            *)
Recorded ==
    \A i \in Steps :
        /\ row[i] = "completed" => Settled(i)
        /\ wf.plan[i] = "completed" => Settled(i)

Sorted == \A k, l \in Todo : k < l => RunsBefore(wf.todo[k], wf.todo[l])

(* The loop: what is left was not run, and, unless a step has ended it,    *)
(* all the rest is settled and comes before it.                            *)
Loop ==
    wf.pc \in {"step", "update"} =>
      /\ Sorted
      /\ \A k \in Todo : k > 1 \/ wf.pc = "step" => Effect(wf.todo[k]) = <<>>
      /\ wf.todo # <<>> => wf.overall = "completed"
      /\ wf.overall = "completed" =>
           \A i \in Steps :
             \/ Pending(i)
             \/ Settled(i) /\ Passed(i) /\ \A k \in Todo : RunsBefore(i, wf.todo[k])

Phase ==
    /\ wf.pc = "fetch" => \A i \in Steps : Effect(i) = <<>>
    /\ wf.pc = "update" =>
         /\ wf.todo # <<>>
         /\ wf.result \in Outcomes
         /\ Effect(wf.todo[1]) = <<wf.result>>
    /\ wf.pc \in {"step", "update", "finalize"} => wf.overall # "none"
    /\ wf.pc = "finalize" /\ wf.overall = "completed" => \A i \in Steps : Settled(i)

Earned == execution = "completed" => \A i \in Steps : Settled(i)

IndInv ==
    /\ TypeOK
    /\ Born
    /\ Recorded
    /\ Loop
    /\ Phase
    /\ Earned
    /\ StepRunsOnce

-----------------------------------------------------------------------------
(* The sort                                                                 *)

LEMMA SeqTyped == ASSUME TypeOK PROVE asked.seq \in [Steps -> Nat]
<1>1. CASE asked \in Requests
  BY <1>1, RunbooksAssumption DEF Requests
<1>2. CASE asked = NoRequest
  BY <1>2 DEF NoRequest
<1>. QED
  BY <1>1, <1>2 DEF TypeOK

LEMMA StepsFinite == Steps \subseteq Nat /\ IsFiniteSet(Steps)
BY RunbooksAssumption, FS_Interval DEF Steps

(* The order of the steps is total.                                        *)
LEMMA BeforeIsOrder ==
    ASSUME TypeOK
    PROVE  /\ \A i \in Steps : ~RunsBefore(i, i)
           /\ \A i, j \in Steps : i = j \/ RunsBefore(i, j) \/ RunsBefore(j, i)
           /\ \A i, j \in Steps : ~(RunsBefore(i, j) /\ RunsBefore(j, i))
           /\ \A i, j, k \in Steps :
                RunsBefore(i, j) /\ RunsBefore(j, k) => RunsBefore(i, k)
BY SeqTyped, StepsFinite DEF RunsBefore

(* InSeqOrder lists every step, sorted.                                    *)
LEMMA OrderIsSorted ==
    ASSUME TypeOK
    PROVE  /\ InSeqOrder \in Seq(Steps) /\ Len(InSeqOrder) = N
           /\ \A i \in Steps : \E k \in Steps : InSeqOrder[k] = i
           /\ \A k, l \in Steps : k < l => RunsBefore(InSeqOrder[k], InSeqOrder[l])
<1>. DEFINE B(i) == {j \in Steps : RunsBefore(j, i)}
            place == [i \in Steps |-> Cardinality(B(i)) + 1]
<1>1. \A i \in Steps : IsFiniteSet(B(i)) /\ Cardinality(B(i)) \in Nat
  BY StepsFinite, FS_Subset, FS_CardinalityType
<1>2. \A i \in Steps : /\ IsFiniteSet(B(i) \cup {i})
                       /\ Cardinality(B(i) \cup {i}) = Cardinality(B(i)) + 1
  BY <1>1, FS_AddElement, BeforeIsOrder
<1>3. ASSUME NEW i \in Steps, NEW j \in Steps, RunsBefore(i, j)
      PROVE  Cardinality(B(i)) < Cardinality(B(j))
  <2>1. B(i) \cup {i} \in SUBSET B(j)
    BY <1>3, BeforeIsOrder
  <2>2. IsFiniteSet(B(j)) /\ Cardinality(B(i)) \in Nat /\ Cardinality(B(j)) \in Nat
    BY <1>1
  <2>3. Cardinality(B(i) \cup {i}) <= Cardinality(B(j))
    BY <2>1, <2>2, FS_Subset
  <2>4. Cardinality(B(i) \cup {i}) = Cardinality(B(i)) + 1
    BY <1>2
  <2>. HIDE DEF B
  <2>. QED
    BY <2>2, <2>3, <2>4
<1>4. Cardinality(Steps) = N
  BY RunbooksAssumption, FS_Interval DEF Steps
<1>5. ASSUME NEW i \in Steps PROVE Cardinality(B(i)) + 1 \in Steps
  <2>1. B(i) \cup {i} \in SUBSET Steps
    OBVIOUS
  <2>2. Cardinality(B(i) \cup {i}) <= N
    BY <1>4, <2>1, StepsFinite, FS_Subset
  <2>3. /\ Cardinality(B(i)) \in Nat
        /\ Cardinality(B(i) \cup {i}) = Cardinality(B(i)) + 1
    BY <1>1, <1>2
  <2>4. N \in Nat
    BY RunbooksAssumption
  <2>. HIDE DEF B
  <2>. QED
    BY <2>2, <2>3, <2>4 DEF Steps
<1>. HIDE DEF B
<1>6. place \in [Steps -> Steps]
  BY <1>5
<1>7. \A i, j \in Steps : place[i] = place[j] => i = j
  <2>1. ASSUME NEW i \in Steps, NEW j \in Steps, place[i] = place[j] PROVE i = j
    <3>1. Cardinality(B(i)) = Cardinality(B(j))
      BY <1>1, <2>1
    <3>. QED
      BY <1>1, <1>3, <3>1, BeforeIsOrder
  <2>. QED
    BY <2>1
<1>8. \A k \in Steps : \E i \in Steps : place[i] = k
  <2>. HIDE DEF place
  <2>1. place \in Injection(Steps, Steps)
    BY <1>6, <1>7, Fun_IsInj
  <2>2. place \in Surjection(Steps, Steps)
    BY <2>1, StepsFinite, FS_Injection
  <2>. QED
    BY <2>2, Fun_SurjectionProperties
<1>9. ASSUME NEW k \in Steps
      PROVE  /\ InSeqOrder[k] \in Steps
             /\ Cardinality(B(InSeqOrder[k])) = k - 1
  <2>1. InSeqOrder[k] = CHOOSE i \in Steps : Cardinality(B(i)) = k - 1
    BY DEF InSeqOrder, B
  <2>2. \E i \in Steps : Cardinality(B(i)) = k - 1
    <3>1. PICK i \in Steps : Cardinality(B(i)) + 1 = k
      BY <1>8
    <3>. QED
      BY <1>1, <3>1
  <2>. QED
    BY <2>1, <2>2
<1>10. InSeqOrder \in Seq(Steps) /\ Len(InSeqOrder) = N
  <2>1. InSeqOrder \in [1..N -> Steps]
    BY <1>9 DEF InSeqOrder, Steps
  <2>. QED
    BY <2>1, RunbooksAssumption
<1>11. ASSUME NEW i \in Steps PROVE \E k \in Steps : InSeqOrder[k] = i
  <2>1. place[i] \in Steps /\ place[i] = Cardinality(B(i)) + 1
    BY <1>6
  <2>2. Cardinality(B(InSeqOrder[place[i]])) = Cardinality(B(i))
    BY <1>1, <1>9, <2>1
  <2>3. InSeqOrder[place[i]] = i
    BY <1>7, <1>9, <2>1, <2>2
  <2>. QED
    BY <2>1, <2>3
<1>12. ASSUME NEW k \in Steps, NEW l \in Steps, k < l
       PROVE  RunsBefore(InSeqOrder[k], InSeqOrder[l])
  <2>1. Cardinality(B(InSeqOrder[k])) < Cardinality(B(InSeqOrder[l]))
    BY <1>9, <1>12, StepsFinite
  <2>2. ~RunsBefore(InSeqOrder[l], InSeqOrder[k])
    BY <1>1, <1>3, <1>9, <2>1
  <2>3. InSeqOrder[k] # InSeqOrder[l]
    BY <1>1, <1>9, <2>1
  <2>. QED
    BY <1>9, <2>2, <2>3, BeforeIsOrder
<1>. QED
  BY <1>10, <1>11, <1>12

-----------------------------------------------------------------------------
(* The history                                                              *)

(* Steps that leave the history alone.                                     *)
LEMMA Quiet ==
    ASSUME IndInv, UNCHANGED <<asked, started, effects>>
    PROVE  /\ StepRunsOnce'
           /\ \A i \in Steps : Settled(i)' <=> Settled(i)
           /\ \A i \in Steps : Passed(i)' <=> Passed(i)
<1>1. StepRunsOnce'
  BY DEF IndInv, StepRunsOnce
<1>2. \A i \in Steps : Settled(i)' <=> Settled(i)
  BY DEF Settled, Ran
<1>3. \A i \in Steps : Passed(i)' <=> Passed(i)
  BY DEF Passed, Effect
<1>. QED
  BY <1>1, <1>2, <1>3

(* A workflow that has ended its loop has nothing more to prove.           *)
LEMMA Afterwards ==
    ASSUME IndInv, TypeOK', UNCHANGED <<asked, answer, started, effects>>,
           wf'.pc \in {"finalize", "ended", "error"}, wf.pc # "idle",
           execution # "none",
           execution' \in {execution, "completed", "failed", "rolled_back"},
           \A i \in Steps : row'[i] = "completed" => Settled(i),
           wf'.plan = wf.plan,
           execution' = "completed" => \A i \in Steps : Settled(i),
           wf'.pc = "finalize" =>
             /\ wf'.overall # "none"
             /\ wf'.overall = "completed" => \A i \in Steps : Settled(i)
    PROVE  IndInv'
<1>1. StepRunsOnce' /\ \A i \in Steps : Settled(i)' <=> Settled(i)
  BY Quiet
<1>2. Born'
  BY DEF IndInv, Born
<1>3. Recorded'
  BY <1>1 DEF IndInv, Recorded
<1>4. Loop'
  BY DEF Loop
<1>5. Phase' /\ Earned'
  BY <1>1 DEF Phase, Earned
<1>. QED
  BY <1>1, <1>2, <1>3, <1>4, <1>5 DEF IndInv

LEMMA Existing == ASSUME IndInv, wf.pc # "idle"
                  PROVE  execution # "none" /\ started \in Nat /\ started > 0
                         /\ answer = "created"
BY DEF IndInv, TypeOK, Born

-----------------------------------------------------------------------------
(* The actions                                                              *)

LEMMA InitInv == Init => IndInv
<1>. SUFFICES ASSUME Init PROVE IndInv
  OBVIOUS
<1>1. TypeOK
  BY DEF Init, TypeOK, NoWorkflow, Workflows, Statuses, Outcomes
<1>2. Born /\ Recorded /\ Loop /\ Phase /\ Earned
  BY DEF Init, NoWorkflow, Born, Recorded, Loop, Phase, Earned
<1>3. StepRunsOnce
  BY DEF Init, StepRunsOnce
<1>. QED
  BY <1>1, <1>2, <1>3 DEF IndInv

LEMMA CreateInv ==
    ASSUME IndInv, NEW r \in Requests, CreateRunbook(r) PROVE IndInv'
<1>1. /\ answer = "none" /\ asked' = r
      /\ answer' \in {"created", "invalid", "refused"}
      /\ answer' = "created" => ValidDraft(r)
      /\ UNCHANGED <<execution, row, wf, started, effects, faults>>
  BY DEF CreateRunbook
<1>2. execution = "none" /\ started = 0 /\ wf.pc = "idle"
  BY <1>1 DEF IndInv, Born
<1>3. TypeOK' /\ Born'
  BY <1>1, <1>2 DEF IndInv, TypeOK, Born
<1>4. \A i \in Steps : row[i] # "completed" /\ wf.plan[i] # "completed"
  BY <1>2 DEF IndInv, Recorded, Settled, Ran
<1>5. Recorded'
  BY <1>1, <1>4 DEF Recorded
<1>6. StepRunsOnce'
  BY <1>1, <1>2 DEF StepRunsOnce
<1>7. Loop' /\ Phase' /\ Earned'
  BY <1>1, <1>2 DEF Loop, Phase, Earned
<1>. QED
  BY <1>3, <1>5, <1>6, <1>7 DEF IndInv

LEMMA TriggerInv == ASSUME IndInv, TriggerExecution PROVE IndInv'
<1>1. /\ answer = "created" /\ execution = "none" /\ execution' = "pending"
      /\ row' = [i \in Steps |-> "pending"]
      /\ UNCHANGED <<asked, answer, wf, started, effects, faults>>
  BY DEF TriggerExecution
<1>2. started = 0 /\ wf.pc = "idle"
  BY <1>1 DEF IndInv, Born
<1>3. TypeOK'
  BY <1>1 DEF IndInv, TypeOK, Statuses
<1>4. Born'
  BY <1>1, <1>2 DEF IndInv, Born
<1>5. StepRunsOnce' /\ \A i \in Steps : Settled(i)' <=> Settled(i)
  BY <1>1, Quiet
<1>6. Recorded'
  BY <1>1, <1>5 DEF IndInv, Recorded
<1>7. Loop' /\ Phase' /\ Earned'
  BY <1>1, <1>2 DEF Loop, Phase, Earned
<1>. QED
  BY <1>3, <1>4, <1>5, <1>6, <1>7 DEF IndInv

LEMMA NoWorkflowTyped ==
    /\ NoWorkflow \in Workflows
    /\ \A i \in Steps : NoWorkflow.plan[i] = "none"
BY DEF NoWorkflow, Workflows, Statuses, Outcomes

LEMMA StartInv == ASSUME IndInv, StartWorkflow PROVE IndInv'
<1>1. /\ execution # "none" /\ started' = started + 1
      /\ wf' = [NoWorkflow EXCEPT !.pc = "fetch"]
      /\ effects' = Append(effects, [i \in Steps |-> <<>>])
      /\ UNCHANGED <<asked, answer, execution, row, faults>>
  BY DEF StartWorkflow
<1>2. /\ wf' \in Workflows /\ wf'.pc = "fetch"
      /\ \A i \in Steps : wf'.plan[i] = "none"
  BY <1>1, NoWorkflowTyped DEF Workflows
<1>3. started \in Nat /\ Len(effects) = started
      /\ effects \in Seq([Steps -> Seq(Outcomes)])
  BY DEF IndInv, TypeOK
<1>4. [i \in Steps |-> <<>>] \in [Steps -> Seq(Outcomes)]
  OBVIOUS
<1>5. /\ effects' \in Seq([Steps -> Seq(Outcomes)])
      /\ Len(effects') = started + 1
      /\ effects'[started + 1] = [i \in Steps |-> <<>>]
      /\ \A w \in 1..started : effects'[w] = effects[w]
  BY <1>1, <1>3, <1>4
<1>6. TypeOK' /\ Born'
  BY <1>1, <1>2, <1>3, <1>5 DEF IndInv, TypeOK, Born
<1>7. \A w \in 1..started' : w = started + 1 \/ w \in 1..started
  BY <1>1, <1>3
<1>9. StepRunsOnce'
  <2>1. ASSUME NEW w \in 1..started'
        PROVE  /\ \A i \in Steps : Len(effects'[w][i]) <= 1
               /\ \A i, j \in Steps :
                    /\ effects'[w][i] = <<"failed">>
                    /\ asked.step[i].on_failure # "continue"
                    /\ asked.seq[i] < asked.seq[j]
                    => effects'[w][j] = <<>>
    <3>1. CASE w = started + 1
      BY <1>5, <3>1
    <3>2. CASE w \in 1..started
      <4>1. effects'[w] = effects[w]
        BY <1>5, <3>2
      <4>2. /\ \A i \in Steps : Len(effects[w][i]) <= 1
            /\ \A i, j \in Steps :
                 /\ effects[w][i] = <<"failed">>
                 /\ asked.step[i].on_failure # "continue"
                 /\ asked.seq[i] < asked.seq[j]
                 => effects[w][j] = <<>>
        BY <3>2 DEF IndInv, StepRunsOnce
      <4>. QED
        BY <4>1, <4>2
    <3>. QED
      BY <1>7, <3>1, <3>2
  <2>. QED
    BY <1>1, <2>1 DEF StepRunsOnce
<1>10. \A i \in Steps : Settled(i) => Settled(i)'
  <2>1. 1..started \subseteq 1..started'
    BY <1>1, <1>3
  <2>. QED
    BY <1>1, <1>5, <2>1 DEF Settled, Ran
<1>11. Recorded' /\ Earned'
  BY <1>1, <1>2, <1>10 DEF IndInv, Recorded, Earned
<1>12. Loop'
  BY <1>2 DEF Loop
<1>13. Phase'
  BY <1>1, <1>2, <1>5 DEF Phase, Effect
<1>. QED
  BY <1>6, <1>9, <1>11, <1>12, <1>13 DEF IndInv

LEMMA FetchInv == ASSUME IndInv, FetchExecutionPlan PROVE IndInv'
<1>0. PICK told \in Tells :
           wf' = [wf EXCEPT !.pc = "step", !.plan = row, !.told = told,
                            !.todo = InSeqOrder, !.overall = "completed",
                            !.attempt = 1]
  BY DEF FetchExecutionPlan
<1>1. /\ wf.pc = "fetch" /\ told \in SUBSET {"config", "on_failure"}
      /\ UNCHANGED <<asked, answer, execution, row, started, effects, faults>>
  BY RunbooksAssumption DEF FetchExecutionPlan
<1>2. wf \in Workflows /\ row \in [Steps -> Statuses] /\ InSeqOrder \in Seq(Steps)
  BY OrderIsSorted DEF IndInv, TypeOK
<1>3. /\ wf' \in Workflows /\ wf'.pc = "step" /\ wf'.plan = row
      /\ wf'.todo = InSeqOrder /\ wf'.overall = "completed"
  BY <1>0, <1>1, <1>2 DEF Workflows
<1>4. TypeOK'
  BY <1>1, <1>3 DEF IndInv, TypeOK
<1>5. Born'
  BY <1>1, <1>3 DEF IndInv, Born
<1>6. /\ StepRunsOnce' /\ \A i \in Steps : Settled(i)' <=> Settled(i)
  BY <1>1, Quiet
<1>7. Recorded'
  BY <1>1, <1>3, <1>6 DEF IndInv, Recorded
<1>8. /\ Todo' = Steps
      /\ \A k \in Steps : InSeqOrder[k] \in Steps
      /\ \A i \in Steps : \E k \in Steps : InSeqOrder[k] = i
      /\ \A k, l \in Steps : k < l => RunsBefore(InSeqOrder[k], InSeqOrder[l])
  <2>1. TypeOK
    BY DEF IndInv
  <2>2. Len(InSeqOrder) = N
    BY <2>1, OrderIsSorted
  <2>3. \A k \in Steps : InSeqOrder[k] \in Steps
    BY <1>2, <2>2 DEF Steps
  <2>. QED
    BY <1>3, <2>1, <2>2, <2>3, OrderIsSorted DEF Todo, Steps
<1>9. Loop'
  <2>1. Sorted'
    BY <1>1, <1>3, <1>8 DEF Sorted, RunsBefore
  <2>2. \A k \in Todo' : effects'[started'][wf'.todo[k]] = <<>>
    BY <1>1, <1>3, <1>8 DEF IndInv, Phase, Effect
  <2>3. \A i \in Steps : Pending(i)'
    BY <1>3, <1>8 DEF Pending
  <2>. QED
    BY <1>3, <2>1, <2>2, <2>3 DEF Loop, Effect
<1>10. Phase' /\ Earned'
  BY <1>1, <1>3, <1>6 DEF IndInv, Phase, Earned
<1>. QED
  BY <1>4, <1>5, <1>6, <1>7, <1>9, <1>10 DEF IndInv

(* The loop goes on with the next step when the one at the head is fine.   *)
LEMMA NextStep ==
    ASSUME IndInv, wf.pc \in {"step", "update"}, wf.todo # <<>>,
           TypeOK', UNCHANGED <<asked, answer, execution, started, effects>>,
           \A i \in Steps : row'[i] = "completed" => Settled(i),
           wf'.pc = "step", wf'.plan = wf.plan, wf'.todo = Tail(wf.todo),
           wf'.overall = wf.overall, Settled(wf.todo[1]), Passed(wf.todo[1])
    PROVE  IndInv'
<1>1. /\ StepRunsOnce' /\ \A i \in Steps : Settled(i)' <=> Settled(i)
      /\ \A i \in Steps : Passed(i)' <=> Passed(i)
  BY Quiet
<1>2. wf.todo \in Seq(Steps) /\ Len(wf.todo) \in Nat /\ Len(wf.todo) > 0
  BY DEF IndInv, TypeOK, Workflows
<1>3. /\ 1 \in Todo /\ \A k \in Todo : wf.todo[k] \in Steps
      /\ \A k \in Todo' : k + 1 \in Todo /\ k + 1 > 1
                          /\ wf'.todo[k] = wf.todo[k + 1]
      /\ \A k \in Todo : k = 1 \/ (k - 1 \in Todo' /\ wf'.todo[k - 1] = wf.todo[k])
  BY <1>2 DEF Todo
<1>4. /\ Sorted /\ wf.overall = "completed"
      /\ \A k \in Todo : k > 1 => Effect(wf.todo[k]) = <<>>
      /\ \A i \in Steps :
           Pending(i) \/ (Settled(i) /\ Passed(i) /\ \A k \in Todo : RunsBefore(i, wf.todo[k]))
  BY DEF IndInv, Loop
<1>5. Born'
  BY DEF IndInv, Born
<1>6. Recorded' /\ Earned' /\ Phase'
  BY <1>1 DEF IndInv, Recorded, Earned, Phase
<1>7. Sorted'
  <2>1. ASSUME NEW k \in Todo', NEW l \in Todo', k < l
        PROVE  RunsBefore(wf'.todo[k], wf'.todo[l])
    <3>1. k + 1 < l + 1
      BY <2>1 DEF Todo
    <3>2. RunsBefore(wf.todo[k + 1], wf.todo[l + 1])
      BY <1>3, <1>4, <3>1 DEF Sorted
    <3>. QED
      BY <1>3, <3>2
  <2>. QED
    BY <2>1 DEF Sorted, RunsBefore
<1>8. \A k \in Todo' : effects[started][wf'.todo[k]] = <<>>
  BY <1>3, <1>4 DEF Effect
<1>9. ASSUME NEW i \in Steps
      PROVE  \/ Pending(i)'
             \/ Settled(i) /\ Passed(i) /\ \A k \in Todo' : RunsBefore(i, wf'.todo[k])
  <2>1. CASE i = wf.todo[1]
    <3>1. \A k \in Todo' : RunsBefore(i, wf.todo[k + 1])
      BY <1>3, <1>4, <2>1 DEF Sorted
    <3>. QED
      BY <1>3, <2>1, <3>1
  <2>2. CASE Pending(i) /\ i # wf.todo[1]
    <3>1. PICK k \in Todo : wf.todo[k] = i
      BY <2>2 DEF Pending
    <3>2. k - 1 \in Todo' /\ wf'.todo[k - 1] = i
      BY <1>3, <2>2, <3>1
    <3>. QED
      BY <3>2 DEF Pending
  <2>3. CASE Settled(i) /\ Passed(i) /\ \A k \in Todo : RunsBefore(i, wf.todo[k])
    BY <1>3, <2>3
  <2>. QED
    BY <1>4, <2>1, <2>2, <2>3
<1>10. Loop'
  BY <1>1, <1>4, <1>7, <1>8, <1>9 DEF Loop, Effect, RunsBefore
<1>. QED
  BY <1>1, <1>5, <1>6, <1>10 DEF IndInv

LEMMA HeadTyped ==
    ASSUME IndInv, wf.todo # <<>>
    PROVE  /\ Head(wf.todo) = wf.todo[1] /\ wf.todo[1] \in Steps /\ 1 \in Todo
           /\ Tail(wf.todo) \in Seq(Steps) /\ \A k \in Todo : wf.todo[k] \in Steps
<1>1. wf.todo \in Seq(Steps)
  BY DEF IndInv, TypeOK, Workflows
<1>. QED
  BY <1>1 DEF Todo

LEMMA SkipInv == ASSUME IndInv, SkipStep PROVE IndInv'
<1>1. /\ wf.pc = "step" /\ wf.todo # <<>> /\ Skipped(Head(wf.todo))
      /\ wf' = [wf EXCEPT !.todo = Tail(wf.todo)]
      /\ UNCHANGED <<asked, answer, execution, row, started, effects, faults>>
  BY DEF SkipStep
<1>2. wf \in Workflows /\ Tail(wf.todo) \in Seq(Steps) /\ wf.todo[1] \in Steps
  BY <1>1, HeadTyped DEF IndInv, TypeOK
<1>3. /\ wf' \in Workflows /\ wf'.pc = "step" /\ wf'.plan = wf.plan
      /\ wf'.todo = Tail(wf.todo) /\ wf'.overall = wf.overall
  BY <1>1, <1>2 DEF Workflows
<1>4. Settled(wf.todo[1])
  <2>1. wf.plan[wf.todo[1]] \in Statuses
    BY <1>2 DEF Workflows
  <2>2. wf.plan[wf.todo[1]] = "completed"
    BY <1>1, <2>1, HeadTyped DEF Skipped, Statuses, Outcomes
  <2>. QED
    BY <1>2, <2>2 DEF IndInv, Recorded
<1>5. TypeOK'
  BY <1>1, <1>3 DEF IndInv, TypeOK
<1>6. \A i \in Steps : row'[i] = "completed" => Settled(i)
  BY <1>1 DEF IndInv, Recorded
<1>7. Passed(wf.todo[1])
  <2>1. Effect(wf.todo[1]) = <<>>
    BY <1>1, HeadTyped DEF IndInv, Loop
  <2>2. <<"failed">> # <<>>
    OBVIOUS
  <2>. QED
    BY <2>1, <2>2 DEF Passed
<1>. QED
  BY <1>1, <1>3, <1>4, <1>5, <1>6, <1>7, NextStep

LEMMA ResultTyped == \A i : Results(i) \subseteq Outcomes
BY DEF Results, Outcomes

(* What running the step at the head does to the history.                  *)
LEMMA RunStep ==
    ASSUME IndInv, wf.pc = "step", wf.todo # <<>>, NEW h, h = wf.todo[1],
           NEW out \in Outcomes, Run(h, out), UNCHANGED <<asked, started>>
    PROVE  /\ effects' \in Seq([Steps -> Seq(Outcomes)]) /\ Len(effects') = started
           /\ effects'[started][h] = <<out>>
           /\ \A i \in Steps : i # h => effects'[started][i] = effects[started][i]
           /\ \A i \in Steps : Settled(i) => Settled(i)'
           /\ \A i \in Steps : i # h /\ Passed(i) => Passed(i)'
           /\ StepRunsOnce'
<1>. DEFINE Hist == [Steps -> Seq(Outcomes)]
<1>1. h \in Steps /\ started \in Nat /\ started \in 1..started
  BY HeadTyped, Existing DEF IndInv
<1>2. effects \in [1..started -> Hist]
  BY DEF IndInv, TypeOK
<1>3. effects' = [effects EXCEPT ![started][h] = Append(effects[started][h], out)]
  BY DEF Run
<1>4. effects[started][h] = <<>>
  BY <1>1, HeadTyped DEF IndInv, Loop, Effect
<1>5. Append(effects[started][h], out) = <<out>> /\ <<out>> \in Seq(Outcomes)
  BY <1>2, <1>4
<1>. HIDE DEF Hist
<1>6. /\ effects' \in [1..started -> Hist]
      /\ effects'[started][h] = <<out>>
      /\ \A i \in Steps : i # h => effects'[started][i] = effects[started][i]
      /\ \A w \in 1..started : w # started => effects'[w] = effects[w]
  BY <1>1, <1>2, <1>3, <1>5 DEF Hist
<1>7. effects' \in Seq(Hist) /\ Len(effects') = started
  BY <1>1, <1>6
<1>8. \A i \in Steps : Settled(i) => Settled(i)'
  <2>1. ASSUME NEW i \in Steps, NEW r, Ran(i, r) PROVE Ran(i, r)'
    <3>1. PICK w \in 1..started : effects[w][i] = <<r>>
      BY <2>1 DEF Ran
    <3>2. <<r>> # <<>>
      OBVIOUS
    <3>3. effects'[w][i] = <<r>>
      BY <1>4, <1>6, <3>1, <3>2
    <3>. QED
      BY <3>3 DEF Ran
  <2>. QED
    BY <2>1 DEF Settled
<1>9. \A i \in Steps : i # h /\ Passed(i) => Passed(i)'
  BY <1>6 DEF Passed, Effect
<1>10. StepRunsOnce'
  <2>1. \A w \in 1..started, i \in Steps : Len(effects'[w][i]) <= 1
    <3>1. \A w \in 1..started, i \in Steps : Len(effects[w][i]) <= 1
      BY DEF IndInv, StepRunsOnce
    <3>2. Len(<<out>>) <= 1
      OBVIOUS
    <3>. QED
      BY <1>6, <3>1, <3>2
  <2>2. ASSUME NEW w \in 1..started, NEW i \in Steps, NEW j \in Steps,
               effects'[w][i] = <<"failed">>, asked.seq[i] < asked.seq[j],
               asked.step[i].on_failure # "continue"
        PROVE  effects'[w][j] = <<>>
    <3>1. CASE w # started
      BY <1>6, <2>2, <3>1 DEF IndInv, StepRunsOnce
    <3>2. CASE w = started
      <4>1. /\ i # j
            /\ ~RunsBefore(j, i)
        BY <2>2, SeqTyped, StepsFinite DEF IndInv, RunsBefore
      <4>2. /\ Sorted
            /\ \A k \in Todo : effects[started][wf.todo[k]] = <<>>
            /\ \A g \in Steps :
                 Pending(g) \/ (Passed(g) /\ \A k \in Todo : RunsBefore(g, wf.todo[k]))
        BY DEF IndInv, Loop, Effect
      <4>3. CASE i = h
        <5>1. Pending(j)
          BY <4>1, <4>2, <4>3, HeadTyped
        <5>2. effects[started][j] = <<>>
          BY <4>2, <5>1 DEF Pending
        <5>. QED
          BY <1>6, <3>2, <4>1, <4>3, <5>2
      <4>4. CASE i # h
        <5>1. effects[started][i] = <<"failed">>
          BY <1>6, <2>2, <3>2, <4>4
        <5>2. effects[started][j] = <<>>
          BY <1>1, <2>2, <5>1 DEF IndInv, StepRunsOnce
        <5>3. j # h
          <6>0. <<"failed">> # <<>>
            OBVIOUS
          <6>1. ~Pending(i)
            BY <4>2, <5>1, <6>0 DEF Pending
          <6>2. Passed(i)
            BY <4>2, <6>1
          <6>. QED
            BY <2>2, <5>1, <6>2 DEF Passed, Effect
        <5>. QED
          BY <1>6, <3>2, <5>2, <5>3
      <4>. QED
        BY <4>3, <4>4
    <3>. QED
      BY <3>1, <3>2
  <2>. QED
    BY <2>1, <2>2 DEF StepRunsOnce
<1>. QED
  BY <1>6, <1>7, <1>8, <1>9, <1>10 DEF Hist

LEMMA ExecuteInv == ASSUME IndInv, ExecuteStep PROVE IndInv'
<1>. DEFINE h == wf.todo[1]
<1>0. PICK out \in Results(h) :
         Run(h, out) /\ wf' = [wf EXCEPT !.pc = "update", !.result = out]
  BY HeadTyped DEF ExecuteStep
<1>1. /\ wf.pc = "step" /\ wf.todo # <<>> /\ out \in Outcomes
      /\ UNCHANGED <<asked, answer, execution, row, started, faults>>
  BY ResultTyped DEF ExecuteStep
<1>2. h \in Steps /\ wf \in Workflows
  BY <1>1, HeadTyped DEF IndInv, TypeOK
<1>3. /\ wf' \in Workflows /\ wf'.pc = "update" /\ wf'.plan = wf.plan
      /\ wf'.todo = wf.todo /\ wf'.overall = wf.overall
      /\ wf'.result = out
  BY <1>0, <1>1, <1>2 DEF Workflows, Outcomes
<1>. HIDE DEF h
<1>4. /\ effects' \in Seq([Steps -> Seq(Outcomes)]) /\ Len(effects') = started
      /\ effects'[started][h] = <<out>>
      /\ \A i \in Steps : i # h => effects'[started][i] = effects[started][i]
      /\ \A i \in Steps : Settled(i) => Settled(i)'
      /\ \A i \in Steps : i # h /\ Passed(i) => Passed(i)'
      /\ StepRunsOnce'
  BY <1>0, <1>1, RunStep DEF h
<1>5. TypeOK'
  BY <1>1, <1>3, <1>4 DEF IndInv, TypeOK
<1>6. Born'
  BY <1>1, <1>3, Existing DEF IndInv, Born
<1>7. Recorded' /\ Earned'
  BY <1>1, <1>3, <1>4 DEF IndInv, Recorded, Earned
<1>8. Phase'
  BY <1>1, <1>3, <1>4 DEF IndInv, Phase, Effect, h
<1>9. Loop'
  <2>1. /\ Sorted
        /\ \A k \in Todo : effects[started][wf.todo[k]] = <<>>
        /\ wf.overall = "completed"
        /\ \A g \in Steps :
             Pending(g) \/ (Settled(g) /\ Passed(g) /\ \A k \in Todo : RunsBefore(g, wf.todo[k]))
    BY <1>1 DEF IndInv, Loop, Effect
  <2>2. Todo' = Todo /\ \A g \in Steps : Pending(g) => Pending(g)'
    BY <1>3 DEF Todo, Pending
  <2>3. Sorted'
    BY <1>1, <1>3, <2>1, <2>2 DEF Sorted, RunsBefore
  <2>4. ASSUME NEW k \in Todo, k > 1 PROVE effects'[started][wf.todo[k]] = <<>>
    <3>1. wf.todo[k] \in Steps /\ 1 \in Todo
      BY <1>1, HeadTyped
    <3>2. RunsBefore(h, wf.todo[k])
      BY <2>1, <2>4, <3>1 DEF Sorted, h
    <3>3. wf.todo[k] # h
      BY <1>2, <3>2, BeforeIsOrder DEF IndInv
    <3>. QED
      BY <1>4, <2>1, <3>1, <3>3
  <2>5. ASSUME NEW g \in Steps
        PROVE  \/ Pending(g)'
               \/ Settled(g)' /\ Passed(g)' /\ \A k \in Todo : RunsBefore(g, wf.todo[k])
    <3>1. Pending(h)
      BY <1>1, HeadTyped DEF Pending, h
    <3>. QED
      BY <1>4, <2>1, <2>2, <3>1
  <2>. QED
    BY <1>1, <1>3, <2>1, <2>2, <2>3, <2>4, <2>5 DEF Loop, Effect, RunsBefore
<1>. QED
  BY <1>4, <1>5, <1>6, <1>7, <1>8, <1>9 DEF IndInv

LEMMA ExecuteLostInv == ASSUME IndInv, ExecuteStepLost PROVE IndInv'
<1>1. /\ wf.pc = "step" /\ wf.todo # <<>>
      /\ (\E out \in Outcomes : Run(wf.todo[1], out)) \/ UNCHANGED effects
      /\ wf' = [wf EXCEPT !.pc = "error"] /\ faults' \in Nat
      /\ UNCHANGED <<asked, answer, execution, row, started>>
  BY HeadTyped, ResultTyped DEF ExecuteStepLost, Fault, IndInv, TypeOK
<1>2. wf' \in Workflows /\ wf'.pc = "error" /\ wf'.plan = wf.plan
  BY <1>1 DEF Workflows, IndInv, TypeOK
<1>3. CASE \E out \in Outcomes : Run(wf.todo[1], out)
  <2>1. /\ effects' \in Seq([Steps -> Seq(Outcomes)]) /\ Len(effects') = started
        /\ \A i \in Steps : Settled(i) => Settled(i)'
        /\ StepRunsOnce'
    BY <1>1, <1>3, RunStep
  <2>2. TypeOK'
    BY <1>1, <1>2, <2>1 DEF IndInv, TypeOK
  <2>3. Born'
    BY <1>1, <1>2, Existing DEF IndInv, Born
  <2>4. Recorded' /\ Earned'
    BY <1>1, <1>2, <2>1 DEF IndInv, Recorded, Earned
  <2>5. Loop' /\ Phase'
    BY <1>2 DEF Loop, Phase
  <2>. QED
    BY <2>1, <2>2, <2>3, <2>4, <2>5 DEF IndInv
<1>4. CASE UNCHANGED effects
  <2>1. TypeOK'
    BY <1>1, <1>2, <1>4 DEF IndInv, TypeOK
  <2>2. /\ \A i \in Steps : row'[i] = "completed" => Settled(i)
        /\ execution' = "completed" => \A i \in Steps : Settled(i)
    BY <1>1 DEF IndInv, Recorded, Earned
  <2>3. execution # "none"
    BY <1>1, Existing
  <2>. QED
    BY <1>1, <1>2, <1>4, <2>1, <2>2, <2>3, Afterwards
<1>. QED
  BY <1>1, <1>3, <1>4

(* What update_step_status may write, at the first or a later attempt, is  *)
(* what the step returned.                                                 *)
LEMMA UpdateWrites ==
    ASSUME IndInv, wf.pc = "update",
           row' = [row EXCEPT ![Head(wf.todo)] = wf.result]
    PROVE  /\ row' \in [Steps -> Statuses]
           /\ \A i \in Steps : row'[i] = "completed" => Settled(i)
<1>1. /\ wf.todo # <<>> /\ wf.result \in Outcomes
      /\ Effect(wf.todo[1]) = <<wf.result>>
  BY DEF IndInv, Phase
<1>2. wf.todo[1] \in Steps /\ row' = [row EXCEPT ![wf.todo[1]] = wf.result]
  BY <1>1, HeadTyped
<1>3. row \in [Steps -> Statuses] /\ wf.result \in Statuses
  BY <1>1 DEF IndInv, TypeOK, Statuses
<1>4. wf.result = "completed" => Settled(wf.todo[1])
  <2>1. started \in 1..started
    BY Existing
  <2>. QED
    BY <1>1, <2>1 DEF Settled, Ran, Effect
<1>. QED
  BY <1>2, <1>3, <1>4 DEF IndInv, Recorded

LEMMA UpdateInv ==
    ASSUME IndInv, UpdateStepStatus \/ UpdateStepStatusRefused PROVE IndInv'
<1>. DEFINE policy == OnFailure(wf.todo[1])
            ends == wf.result = "failed" /\ policy \in {"stop", "rollback"}
            overall == CASE ends /\ policy = "stop" -> "failed"
                         [] ends /\ policy = "rollback" -> "rolled_back"
                         [] OTHER -> wf.overall
<1>0. wf.pc = "update" /\ wf.todo # <<>> /\ Head(wf.todo) = wf.todo[1]
  BY HeadTyped DEF UpdateStepStatus, UpdateStepStatusRefused, IndInv, Phase
<1>1. /\ wf.pc = "update"
      /\ wf' = [wf EXCEPT !.pc = "step",
                          !.todo = IF ends THEN <<>> ELSE Tail(wf.todo),
                          !.overall = overall,
                          !.result = "none", !.attempt = 1]
      /\ UNCHANGED <<asked, answer, execution, started, effects>>
      /\ faults' \in Nat
  BY <1>0 DEF UpdateStepStatus, UpdateStepStatusRefused, AfterUpdate, Fault,
     IndInv, TypeOK
<1>2. /\ row' \in [Steps -> Statuses]
      /\ \A i \in Steps : row'[i] = "completed" => Settled(i)
  <2>1. CASE UNCHANGED row
    BY <2>1 DEF IndInv, TypeOK, Recorded
  <2>2. CASE row' = [row EXCEPT ![Head(wf.todo)] = wf.result]
    BY <1>1, <2>2, UpdateWrites
  <2>. QED
    BY <2>1, <2>2 DEF UpdateStepStatus, UpdateStepStatusRefused
<1>3. /\ wf.todo # <<>> /\ wf.result \in Outcomes
      /\ Effect(wf.todo[1]) = <<wf.result>>
      /\ wf.overall \in {"completed", "failed", "rolled_back"}
  BY <1>1 DEF IndInv, Phase, TypeOK, Workflows
<1>4. wf \in Workflows /\ wf.todo[1] \in Steps /\ Tail(wf.todo) \in Seq(Steps)
  BY <1>3, HeadTyped DEF IndInv, TypeOK
<1>a. /\ overall \in {"completed", "failed", "rolled_back"}
      /\ ends => overall \in {"failed", "rolled_back"}
      /\ ~ends => overall = wf.overall
  BY <1>3
<1>b. ~ends /\ wf.result = "failed" => asked.step[wf.todo[1]].on_failure = "continue"
  <2>1. answer = "created"
    BY <1>1, Existing
  <2>2. asked.step[wf.todo[1]].on_failure \in {"stop", "continue", "rollback"}
    BY <1>4, <2>1 DEF IndInv, Born, ValidDraft
  <2>. QED
    BY <2>2 DEF OnFailure
<1>. HIDE DEF ends, overall, policy
<1>5. /\ wf' \in Workflows /\ wf'.pc = "step" /\ wf'.plan = wf.plan
      /\ wf'.todo = IF ends THEN <<>> ELSE Tail(wf.todo)
      /\ wf'.overall = overall
  <2>1. <<>> \in Seq(Steps)
    OBVIOUS
  <2>. QED
    BY <1>1, <1>4, <1>a, <2>1 DEF Workflows
<1>6. TypeOK'
  BY <1>1, <1>2, <1>5 DEF IndInv, TypeOK
<1>7. CASE ~ends
  <2>1. Settled(wf.todo[1])
    <3>1. started \in 1..started
      BY <1>1, Existing
    <3>2. Ran(wf.todo[1], wf.result)
      BY <1>3, <3>1 DEF Ran, Effect
    <3>. QED
      BY <1>3, <1>7, <1>b, <3>2 DEF Settled, Outcomes
  <2>2. Passed(wf.todo[1])
    <3>1. Effect(wf.todo[1]) = <<"failed">> => wf.result = "failed"
      BY <1>3
    <3>. QED
      BY <1>7, <1>b, <3>1 DEF Passed
  <2>. QED
    BY <1>1, <1>2, <1>3, <1>5, <1>6, <1>7, <1>a, <2>1, <2>2, NextStep
<1>8. CASE ends
  <2>1. StepRunsOnce' /\ \A i \in Steps : Settled(i)' <=> Settled(i)
    BY <1>1, Quiet
  <2>2. Born'
    BY <1>1, <1>5 DEF IndInv, Born
  <2>3. Recorded' /\ Earned'
    BY <1>1, <1>2, <1>5, <2>1 DEF IndInv, Recorded, Earned
  <2>4. Loop'
    <3>1. Todo' = {}
      BY <1>5, <1>8 DEF Todo
    <3>. QED
      BY <1>5, <1>8, <1>a, <3>1 DEF Loop, Sorted
  <2>5. Phase'
    BY <1>5, <1>8, <1>a DEF Phase
  <2>. QED
    BY <1>6, <2>1, <2>2, <2>3, <2>4, <2>5 DEF IndInv
<1>. QED
  BY <1>7, <1>8

LEMMA EndInv == ASSUME IndInv, EndLoop PROVE IndInv'
<1>1. /\ wf.pc = "step" /\ wf.todo = <<>> /\ wf' = [wf EXCEPT !.pc = "finalize"]
      /\ UNCHANGED <<asked, answer, execution, row, started, effects, faults>>
  BY DEF EndLoop
<1>2. /\ wf' \in Workflows /\ wf'.pc = "finalize" /\ wf'.plan = wf.plan
      /\ wf'.overall = wf.overall
  BY <1>1 DEF Workflows, IndInv, TypeOK
<1>3. TypeOK'
  BY <1>1, <1>2 DEF IndInv, TypeOK
<1>4. /\ wf.overall # "none"
      /\ wf.overall = "completed" => \A i \in Steps : Settled(i)
  <2>1. \A i : ~Pending(i)
    BY <1>1 DEF Pending, Todo
  <2>. QED
    BY <1>1, <2>1 DEF IndInv, Loop, Phase
<1>5. /\ \A i \in Steps : row'[i] = "completed" => Settled(i)
      /\ execution' = "completed" => \A i \in Steps : Settled(i)
  BY <1>1 DEF IndInv, Recorded, Earned
<1>6. execution # "none"
  BY <1>1, Existing
<1>. QED
  BY <1>1, <1>2, <1>3, <1>4, <1>5, <1>6, Afterwards

(* What finalize_execution may write is what the loop has found.           *)
LEMMA FinalizeWrites ==
    ASSUME IndInv, wf.pc = "finalize", execution' \in {execution, wf.overall}
    PROVE  /\ execution' = "completed" => \A i \in Steps : Settled(i)
           /\ execution # "none"
BY Existing DEF IndInv, Phase, Earned

LEMMA FinalizeInv ==
    ASSUME IndInv, FinalizeExecution \/ FinalizeExecutionRefused PROVE IndInv'
<1>1. /\ wf.pc = "finalize" /\ execution' \in {execution, wf.overall}
      /\ wf' = [wf EXCEPT !.pc = "ended"] /\ faults' \in Nat
      /\ UNCHANGED <<asked, answer, row, started, effects>>
  BY DEF FinalizeExecution, FinalizeExecutionRefused, Fault, IndInv, TypeOK
<1>2. wf' \in Workflows /\ wf'.pc = "ended" /\ wf'.plan = wf.plan
  BY <1>1 DEF Workflows, IndInv, TypeOK
<1>3. wf.overall \in {"completed", "failed", "rolled_back"}
  BY <1>1 DEF IndInv, TypeOK, Workflows, Phase
<1>4. TypeOK'
  BY <1>1, <1>2, <1>3 DEF IndInv, TypeOK
<1>5. \A i \in Steps : row'[i] = "completed" => Settled(i)
  BY <1>1 DEF IndInv, Recorded
<1>6. /\ execution' = "completed" => \A i \in Steps : Settled(i)
      /\ execution # "none"
  BY <1>1, FinalizeWrites
<1>. QED
  BY <1>1, <1>2, <1>3, <1>4, <1>5, <1>6, Afterwards

(* An activity that raises, before or after its effect, is tried again: the *)
(* workflow stays where it is, or ends.                                     *)
LEMMA RaisesInv == ASSUME IndInv, ActivityRaises PROVE IndInv'
<1>1. /\ wf.pc \in {"fetch", "update", "finalize"} /\ faults' \in Nat
      /\ \/ UNCHANGED <<row, execution>>
         \/ /\ wf.pc = "update"
            /\ row' = [row EXCEPT ![Head(wf.todo)] = wf.result]
            /\ UNCHANGED execution
         \/ wf.pc = "finalize" /\ execution' = wf.overall /\ UNCHANGED row
      /\ UNCHANGED <<asked, answer, started, effects>>
  BY DEF ActivityRaises, Fault, IndInv, TypeOK
<1>2. /\ row' \in [Steps -> Statuses]
      /\ \A i \in Steps : row'[i] = "completed" => Settled(i)
  <2>1. CASE UNCHANGED row
    BY <2>1 DEF IndInv, TypeOK, Recorded
  <2>2. CASE wf.pc = "update" /\ row' = [row EXCEPT ![Head(wf.todo)] = wf.result]
    BY <2>2, UpdateWrites
  <2>. QED
    BY <1>1, <2>1, <2>2
<1>3. /\ execution' = "completed" => \A i \in Steps : Settled(i)
      /\ execution # "none"
      /\ execution' \in {execution, "completed", "failed", "rolled_back"}
  <2>1. CASE UNCHANGED execution
    BY <1>1, <2>1, Existing DEF IndInv, Earned
  <2>2. CASE wf.pc = "finalize" /\ execution' = wf.overall
    <3>1. wf.overall \in {"completed", "failed", "rolled_back"}
      BY <2>2 DEF IndInv, TypeOK, Workflows, Phase
    <3>. QED
      BY <2>2, <3>1, FinalizeWrites
  <2>. QED
    BY <1>1, <2>1, <2>2
<1>4. wf' \in {[wf EXCEPT !.attempt = wf.attempt + 1], [wf EXCEPT !.pc = "error"]}
  BY DEF ActivityRaises, Retry
<1>5. /\ wf' \in Workflows
      /\ wf'.plan = wf.plan /\ wf'.todo = wf.todo /\ wf'.result = wf.result
      /\ wf'.overall = wf.overall
      /\ wf'.pc = wf.pc \/ wf'.pc = "error"
  <2>1. wf \in Workflows
    BY DEF IndInv, TypeOK
  <2>2. CASE wf' = [wf EXCEPT !.attempt = wf.attempt + 1]
    BY <2>1, <2>2 DEF Workflows
  <2>3. CASE wf' = [wf EXCEPT !.pc = "error"]
    BY <2>1, <2>3 DEF Workflows
  <2>. QED
    BY <1>4, <2>2, <2>3
<1>6. TypeOK'
  BY <1>1, <1>2, <1>3, <1>5 DEF IndInv, TypeOK
<1>7. CASE wf'.pc = "error"
  BY <1>1, <1>2, <1>3, <1>5, <1>6, <1>7, Afterwards
<1>8. CASE wf'.pc = wf.pc
  <2>1. StepRunsOnce' /\ (\A i \in Steps : Settled(i)' <=> Settled(i))
      /\ \A i \in Steps : Passed(i)' <=> Passed(i)
    BY <1>1, Quiet
  <2>2. Born'
    BY <1>1, <1>3, <1>8 DEF IndInv, Born
  <2>3. Recorded' /\ Earned'
    BY <1>2, <1>3, <1>5, <2>1 DEF IndInv, Recorded, Earned
  <2>4. Phase'
    BY <1>1, <1>5, <1>8, <2>1 DEF IndInv, Phase, Effect
  <2>5. Loop'
    <3>1. Todo' = Todo /\ \A i \in Steps : Pending(i)' <=> Pending(i)
      BY <1>5 DEF Todo, Pending
    <3>2. Sorted => Sorted'
      BY <1>1, <1>5, <3>1 DEF Sorted, RunsBefore
    <3>. QED
      BY <1>1, <1>5, <1>8, <2>1, <3>1, <3>2 DEF IndInv, Loop, Effect, RunsBefore
  <2>. QED
    BY <1>6, <2>1, <2>2, <2>3, <2>4, <2>5 DEF IndInv
<1>. QED
  BY <1>5, <1>7, <1>8

LEMMA StutterInv == ASSUME IndInv, UNCHANGED vars PROVE IndInv'
<1>1. UNCHANGED <<asked, answer, execution, row, wf, started, effects, faults>>
  BY DEF vars
<1>2. StepRunsOnce' /\ (\A i \in Steps : Settled(i)' <=> Settled(i))
      /\ \A i \in Steps : Passed(i)' <=> Passed(i)
  BY <1>1, Quiet
<1>3. TypeOK' /\ Born' /\ Recorded' /\ Earned'
  BY <1>1, <1>2 DEF IndInv, TypeOK, Born, Recorded, Earned
<1>4. Phase'
  BY <1>1, <1>2 DEF IndInv, Phase, Effect
<1>5. Loop'
  <2>1. Todo' = Todo /\ \A i \in Steps : Pending(i)' <=> Pending(i)
    BY <1>1 DEF Todo, Pending
  <2>2. Sorted => Sorted'
    BY <1>1, <2>1 DEF Sorted, RunsBefore
  <2>. QED
    BY <1>1, <1>2, <2>1, <2>2 DEF IndInv, Loop, Effect, RunsBefore
<1>. QED
  BY <1>2, <1>3, <1>4, <1>5 DEF IndInv

LEMMA NextInv == ASSUME IndInv, [Next]_vars PROVE IndInv'
<1>1. ASSUME NEW r \in Requests, CreateRunbook(r) PROVE IndInv'
  BY <1>1, CreateInv
<1>2. CASE TriggerExecution
  BY <1>2, TriggerInv
<1>3. CASE StartWorkflow
  BY <1>3, StartInv
<1>4. CASE FetchExecutionPlan
  BY <1>4, FetchInv
<1>5. CASE SkipStep
  BY <1>5, SkipInv
<1>6. CASE ExecuteStep
  BY <1>6, ExecuteInv
<1>7. CASE EndLoop
  BY <1>7, EndInv
<1>8. CASE UpdateStepStatus \/ UpdateStepStatusRefused
  BY <1>8, UpdateInv
<1>9. CASE FinalizeExecution \/ FinalizeExecutionRefused
  BY <1>9, FinalizeInv
<1>10. CASE ExecuteStepLost
  BY <1>10, ExecuteLostInv
<1>11. CASE ActivityRaises
  BY <1>11, RaisesInv
<1>12. CASE UNCHANGED vars
  BY <1>12, StutterInv
<1>. QED
  BY <1>1, <1>2, <1>3, <1>4, <1>5, <1>6, <1>7, <1>8, <1>9, <1>10, <1>11,
     <1>12 DEF Next, Workflow

LEMMA SpecInv == Spec => []IndInv
<1>1. IndInv /\ [Next]_vars => IndInv'
  BY NextInv
<1>. QED
  BY <1>1, InitInv, PTL DEF Spec

-----------------------------------------------------------------------------
(* The rows, the workflow and the history keep their types.                *)
THEOREM TypeTheorem == Spec => []TypeOK
<1>1. IndInv => TypeOK
  BY DEF IndInv
<1>. QED
  BY <1>1, SpecInv, PTL

(* RunbookWorkflow.run: no workflow runs a step twice, or a step with a    *)
(* higher number than one that has failed and is not to be passed over.    *)
THEOREM StepTheorem == Spec => []StepRunsOnce
<1>1. IndInv => StepRunsOnce
  BY DEF IndInv
<1>. QED
  BY <1>1, SpecInv, PTL

(* finalize_execution: an execution is completed only when every step has  *)
(* been completed, passed over or, a manual gate, reached, for any number  *)
(* of workflows and lost writes.                                           *)
THEOREM CompletedTheorem == Spec => []CompletedIsEarned
<1>1. IndInv => CompletedIsEarned
  BY DEF IndInv, Earned, CompletedIsEarned
<1>. QED
  BY <1>1, SpecInv, PTL

-----------------------------------------------------------------------------
(* The plan                                                                 *)

(* A set of numbers that has 0, and after each number the next one, up to  *)
(* n, has all of them: there is no least one that it lacks.                *)
LEMMA Upwards ==
    ASSUME NEW n \in Nat, NEW S, 0 \in S,
           \A k \in 0..(n - 1) : k \in S => k + 1 \in S
    PROVE  \A k \in 0..n : k \in S
<1>. DEFINE T == {k \in 0..n : k \notin S}
            R == {p \in Nat \X Nat : p[1] < p[2]}
<1>1. SUFFICES ASSUME T # {} PROVE FALSE
  OBVIOUS
<1>2. IsWellFoundedOn(R, Nat)
  BY NatLessThanWellFounded, Zenon DEF OpToRel
<1>3. T \subseteq Nat
  OBVIOUS
<1>. HIDE DEF R
<1>4. PICK m \in T : \A y \in T : <<y, m>> \notin R
  <2>. HIDE DEF T
  <2>. QED
    BY <1>1, <1>2, <1>3, WFMin
<1>5. m \in 0..n /\ m \notin S /\ m # 0
  BY <1>4
<1>6. m - 1 \in T
  BY <1>5
<1>7. <<m - 1, m>> \in R
  BY <1>5 DEF R
<1>. QED
  BY <1>4, <1>6, <1>7

(* f[k] is the value after k turns of a loop that starts with a and whose  *)
(* k-th turn is F[k].                                                      *)
Turns(n, T, F) == F \in [1..n -> [T -> T]]

IsLoop(n, T, a, F, f) ==
    /\ f \in [0..n -> T] /\ f[0] = a
    /\ \A k \in 1..n : f[k] = F[k][f[k - 1]]

(* A loop has a value after every turn: no turn is the least that has none. *)
LEMMA LoopExists ==
    ASSUME NEW n \in Nat, NEW T, NEW a \in T, NEW F, Turns(n, T, F)
    PROVE  \E f : IsLoop(n, T, a, F, f)
<1>. USE DEF Turns, IsLoop
<1>. DEFINE Good(m, f) == f[0] = a /\ \A k \in 1..m : f[k] = F[k][f[k - 1]]
            S == {m \in 0..n : \E f \in [0..m -> T] : Good(m, f)}
<1>1. 0 \in S
  <2>1. [k \in 0..0 |-> a] \in [0..0 -> T] /\ Good(0, [k \in 0..0 |-> a])
    OBVIOUS
  <2>2. 0 \in 0..n
    OBVIOUS
  <2>. HIDE DEF Good
  <2>. QED
    BY <2>1, <2>2
<1>2. ASSUME NEW m \in 0..(n - 1), m \in S PROVE m + 1 \in S
  <2>1. PICK f \in [0..m -> T] : Good(m, f)
    BY <1>2
  <2>. DEFINE b == F[m + 1][f[m]]
              g == [k \in 0..(m + 1) |-> IF k = m + 1 THEN b ELSE f[k]]
  <2>2. m \in Nat /\ m + 1 \in 1..n /\ m \in 0..m
    OBVIOUS
  <2>3. f[m] \in T /\ F[m + 1] \in [T -> T]
    BY <2>2
  <2>4. b \in T
    BY <2>3
  <2>5. g \in [0..(m + 1) -> T]
    BY <2>2, <2>4
  <2>6. g[0] = a
    BY <2>1, <2>2
  <2>7. ASSUME NEW k \in 1..(m + 1) PROVE g[k] = F[k][g[k - 1]]
    <3>1. CASE k = m + 1
      <4>1. g[k] = b /\ g[k - 1] = f[m]
        BY <2>2, <3>1
      <4>. QED
        BY <3>1, <4>1
    <3>2. CASE k # m + 1
      <4>1. k \in 1..m /\ g[k] = f[k] /\ g[k - 1] = f[k - 1]
        BY <2>2, <3>2
      <4>. QED
        BY <2>1, <4>1
    <3>. QED
      BY <3>1, <3>2
  <2>8. Good(m + 1, g)
    BY <2>6, <2>7
  <2>9. m + 1 \in 0..n
    BY <2>2
  <2>. HIDE DEF Good, g
  <2>. QED
    BY <2>5, <2>8, <2>9
<1>3. n \in S
  <2>. HIDE DEF S
  <2>1. \A k \in 0..n : k \in S
    BY <1>1, <1>2, Upwards
  <2>. QED
    BY <2>1
<1>. QED
  BY <1>3

(* The requests to create a runbook that the model knows.                  *)
LEMMA RequestTyped ==
    ASSUME NEW r \in Requests
    PROVE  r.seq \in [Steps -> Nat] /\ r.deps \in [Steps -> SUBSET Nat]
BY RunbooksAssumption DEF Requests

(* The loop of resolve_execution_order, turn by turn.                      *)
LEMMA CompletedLoop ==
    ASSUME NEW r
    PROVE  LET C == CompletedAfter(r) IN
             /\ C \in [0..N -> SUBSET Steps]
             /\ C[0] = {}
             /\ \A k \in 1..N : C[k] = C[k - 1] \cup Ready(r, C[k - 1])
<1>. DEFINE Is(f) == f = [k \in 0..N |-> IF k = 0 THEN {}
                                         ELSE f[k - 1] \cup Ready(r, f[k - 1])]
            Turn == [S \in SUBSET Steps |-> S \cup Ready(r, S)]
            F == [k \in 1..N |-> Turn]
            C == CompletedAfter(r)
<1>1. N \in Nat /\ {} \in SUBSET Steps
  BY RunbooksAssumption
<1>2. Turn \in [SUBSET Steps -> SUBSET Steps]
  BY DEF Ready
<1>3. F \in [1..N -> [SUBSET Steps -> SUBSET Steps]]
  BY <1>2
<1>4. PICK f : IsLoop(N, SUBSET Steps, {}, F, f)
  <2>1. Turns(N, SUBSET Steps, F)
    BY <1>3 DEF Turns
  <2>. HIDE DEF F
  <2>. QED
    BY <1>1, <2>1, LoopExists, Zenon
<1>5. Is(f)
  <2>1. ASSUME NEW k \in 1..N PROVE f[k] = f[k - 1] \cup Ready(r, f[k - 1])
    <3>1. f[k - 1] \in SUBSET Steps
      BY <1>1, <1>4 DEF IsLoop
    <3>2. F[k] = Turn
      OBVIOUS
    <3>. HIDE DEF F
    <3>. QED
      BY <1>4, <3>1, <3>2 DEF IsLoop
  <2>. QED
    BY <1>1, <1>4, <2>1 DEF IsLoop
<1>6. C = CHOOSE g : Is(g)
  BY DEF CompletedAfter
<1>7. Is(C)
  BY <1>5, <1>6
<1>8. C = [k \in 0..N |-> IF k = 0 THEN {} ELSE C[k - 1] \cup Ready(r, C[k - 1])]
  BY <1>7
<1>. HIDE DEF C, Turn, F
<1>9. C[0] = {} /\ \A k \in 1..N : C[k] = C[k - 1] \cup Ready(r, C[k - 1])
  <2>1. 0 \in 0..N /\ \A k \in 1..N : k \in 0..N /\ k # 0
    BY <1>1
  <2>. DEFINE E(k) == IF k = 0 THEN {} ELSE C[k - 1] \cup Ready(r, C[k - 1])
  <2>2. \A k \in 0..N : C[k] = E(k)
    <3>1. C = [k \in 0..N |-> E(k)]
      BY <1>8
    <3>. HIDE DEF E
    <3>. QED
      BY <3>1
  <2>. QED
    BY <2>1, <2>2
<1>10. \A k \in 0..N : C[k] \in SUBSET Steps
  <2>. DEFINE S == {k \in 0..N : C[k] \in SUBSET Steps}
  <2>1. 0 \in S
    BY <1>1, <1>9
  <2>2. ASSUME NEW k \in 0..(N - 1), k \in S PROVE k + 1 \in S
    <3>1. k + 1 \in 1..N /\ (k + 1) - 1 = k
      BY <1>1
    <3>2. C[k + 1] = C[k] \cup Ready(r, C[k])
      BY <1>9, <3>1
    <3>3. Ready(r, C[k]) \subseteq Steps
      BY DEF Ready
    <3>. QED
      BY <2>2, <3>1, <3>2, <3>3
  <2>. HIDE DEF S
  <2>3. \A k \in 0..N : k \in S
    BY <1>1, <2>1, <2>2, Upwards
  <2>. QED
    BY <2>3 DEF S
<1>11. C \in [0..N -> SUBSET Steps]
  BY <1>8, <1>10
<1>. QED
  BY <1>9, <1>11 DEF C

(* What is completed stays completed.                                      *)
LEMMA CompletedGrows ==
    ASSUME NEW r, NEW j \in 0..N, NEW k \in 0..N, j <= k
    PROVE  CompletedAfter(r)[j] \subseteq CompletedAfter(r)[k]
<1>. DEFINE C == CompletedAfter(r)
            S == {m \in 0..N : m < j \/ C[j] \subseteq C[m]}
<1>1. N \in Nat
  BY RunbooksAssumption
<1>2. \A m \in 1..N : C[m] = C[m - 1] \cup Ready(r, C[m - 1])
  BY CompletedLoop
<1>. HIDE DEF C
<1>3. 0 \in S
  BY <1>1
<1>4. ASSUME NEW m \in 0..(N - 1), m \in S PROVE m + 1 \in S
  <2>1. m + 1 \in 1..N /\ (m + 1) - 1 = m /\ m + 1 \in 0..N
    BY <1>1
  <2>2. C[m] \subseteq C[m + 1]
    BY <1>2, <2>1
  <2>3. CASE m < j
    <3>1. m + 1 < j \/ m + 1 = j
      BY <2>1, <2>3
    <3>. QED
      BY <2>1, <3>1
  <2>4. CASE C[j] \subseteq C[m]
    BY <2>1, <2>2, <2>4
  <2>. QED
    BY <1>4, <2>3, <2>4
<1>5. \A m \in 0..N : m \in S
  <2>. HIDE DEF S
  <2>. QED
    BY <1>1, <1>3, <1>4, Upwards
<1>6. ~(k < j)
  BY <1>1
<1>. QED
  BY <1>5, <1>6 DEF C

(* The orders that put every dependency of a step before it.               *)
Comes(r, o, i, d) == \E j \in Steps : r.seq[j] = d /\ o[j] < o[i]
OrdersOf(r) == {o \in [Steps -> Steps] :
                  \A i \in Steps : \A d \in r.deps[i] : Comes(r, o, i, d)}

(* If there is such an order, the loop is never behind it.                 *)
LEMMA OrderResolves ==
    ASSUME NEW r \in Requests, NEW o \in OrdersOf(r)
    PROVE  Resolves(r)
<1>. DEFINE C == CompletedAfter(r)
            S == {k \in 0..N : \A i \in Steps : o[i] <= k => i \in C[k]}
<1>1. N \in Nat /\ Steps = 1..N /\ o \in [Steps -> Steps]
  BY RunbooksAssumption DEF Steps, OrdersOf
<1>2. /\ C \in [0..N -> SUBSET Steps]
      /\ \A k \in 1..N : C[k] = C[k - 1] \cup Ready(r, C[k - 1])
  BY CompletedLoop
<1>. HIDE DEF C
<1>3. 0 \in S
  BY <1>1
<1>4. ASSUME NEW k \in 0..(N - 1), k \in S PROVE k + 1 \in S
  <2>1. k + 1 \in 1..N /\ (k + 1) - 1 = k /\ k + 1 \in 0..N
    BY <1>1
  <2>2. C[k + 1] = C[k] \cup Ready(r, C[k])
    BY <1>2, <2>1
  <2>3. ASSUME NEW i \in Steps, o[i] <= k + 1 PROVE i \in C[k + 1]
    <3>1. CASE i \in C[k]
      BY <2>2, <3>1
    <3>2. CASE i \notin C[k]
      <4>1. ASSUME NEW d \in r.deps[i] PROVE d \in {r.seq[j] : j \in C[k]}
        <5>1. PICK j \in Steps : r.seq[j] = d /\ o[j] < o[i]
          BY <4>1 DEF OrdersOf, Comes
        <5>2. o[j] \in Nat /\ o[i] \in Nat
          BY <1>1
        <5>3. o[j] <= k
          BY <2>1, <2>3, <5>1, <5>2
        <5>. QED
          BY <1>4, <5>1, <5>3
      <4>2. i \in Ready(r, C[k])
        BY <3>2, <4>1 DEF Ready
      <4>. QED
        BY <2>2, <4>2
    <3>. QED
      BY <3>1, <3>2
  <2>. QED
    BY <2>1, <2>3
<1>5. N \in S
  <2>. HIDE DEF S
  <2>1. \A k \in 0..N : k \in S
    BY <1>1, <1>3, <1>4, Upwards
  <2>. QED
    BY <1>1, <2>1
<1>6. \A i \in Steps : o[i] <= N
  BY <1>1
<1>7. C[N] = Steps
  BY <1>1, <1>2, <1>5, <1>6
<1>. QED
  BY <1>7 DEF C, Resolves

(* The wave a step of a plan is in.                                        *)
WaveOf(r) == [i \in Steps |-> CHOOSE k \in Steps : i \in Wave(r, k)]

(* It is in one, and is completed from then on and not before.             *)
LEMMA WaveOfStep ==
    ASSUME NEW r, Resolves(r), NEW i \in Steps
    PROVE  /\ WaveOf(r)[i] \in Steps
           /\ \A k \in 0..N : i \in CompletedAfter(r)[k] <=> WaveOf(r)[i] <= k
<1>. DEFINE C == CompletedAfter(r)
            S == {k \in 0..N : i \notin C[k]}
            w == WaveOf(r)[i]
<1>1. N \in Nat /\ Steps = 1..N
  BY RunbooksAssumption DEF Steps
<1>2. C[0] = {} /\ C[N] = Steps
  BY CompletedLoop DEF Resolves
<1>3. \E k \in Steps : i \in Wave(r, k)
  <2>1. SUFFICES ASSUME \A k \in Steps : i \notin Wave(r, k) PROVE FALSE
    OBVIOUS
  <2>2. 0 \in S
    BY <1>1, <1>2
  <2>3. ASSUME NEW k \in 0..(N - 1), k \in S PROVE k + 1 \in S
    <3>1. k + 1 \in Steps /\ (k + 1) - 1 = k /\ k + 1 \in 0..N
      BY <1>1
    <3>2. Wave(r, k + 1) = C[k + 1] \ C[k]
      BY <3>1 DEF Wave
    <3>. QED
      BY <2>1, <2>3, <3>1, <3>2
  <2>. HIDE DEF S
  <2>4. \A k \in 0..N : k \in S
    BY <1>1, <2>2, <2>3, Upwards
  <2>. QED
    BY <1>1, <1>2, <2>4 DEF S
<1>4. w \in Steps /\ i \in Wave(r, w)
  BY <1>3 DEF WaveOf
<1>. HIDE DEF w
<1>5. i \in C[w] /\ i \notin C[w - 1] /\ w \in 0..N /\ w - 1 \in 0..N
  BY <1>1, <1>4 DEF Wave
<1>6. ASSUME NEW k \in 0..N, w <= k PROVE i \in C[k]
  BY <1>5, <1>6, CompletedGrows
<1>7. ASSUME NEW k \in 0..N, ~(w <= k) PROVE i \notin C[k]
  <2>1. k <= w - 1
    BY <1>1, <1>5, <1>7
  <2>. QED
    BY <1>5, <2>1, CompletedGrows
<1>. QED
  BY <1>4, <1>6, <1>7 DEF w

(* The dependencies of a step are in prior waves, one in the wave before.  *)
LEMMA WavesOrder ==
    ASSUME NEW r \in Requests, Resolves(r), NEW i \in Steps
    PROVE  /\ \A d \in r.deps[i] : \E j \in Steps :
                r.seq[j] = d /\ WaveOf(r)[j] < WaveOf(r)[i]
           /\ WaveOf(r)[i] > 1 =>
                \E d \in r.deps[i] : \A j \in Steps :
                   r.seq[j] = d => WaveOf(r)[j] >= WaveOf(r)[i] - 1
<1>. DEFINE C == CompletedAfter(r)
            w == WaveOf(r)[i]
<1>1. N \in Nat /\ Steps = 1..N
  BY RunbooksAssumption DEF Steps
<1>2. /\ C \in [0..N -> SUBSET Steps]
      /\ \A k \in 1..N : C[k] = C[k - 1] \cup Ready(r, C[k - 1])
  BY CompletedLoop
<1>3. w \in 1..N
  BY <1>1, WaveOfStep
<1>4. \A j \in Steps : /\ WaveOf(r)[j] \in 1..N
                       /\ \A k \in 0..N : j \in C[k] <=> WaveOf(r)[j] <= k
  BY <1>1, WaveOfStep
<1>. HIDE DEF C, w
<1>5. i \in C[w] /\ i \notin C[w - 1]
  BY <1>1, <1>3, <1>4 DEF w
<1>6. i \in Ready(r, C[w - 1])
  BY <1>2, <1>3, <1>5
<1>7. ASSUME NEW d \in r.deps[i]
      PROVE  \E j \in Steps : r.seq[j] = d /\ WaveOf(r)[j] < w
  <2>1. PICK j \in C[w - 1] : r.seq[j] = d
    BY <1>6 DEF Ready
  <2>2. w - 1 \in 0..N
    BY <1>1, <1>3
  <2>3. j \in Steps
    BY <1>2, <2>2
  <2>4. WaveOf(r)[j] <= w - 1 /\ WaveOf(r)[j] \in 1..N
    BY <1>4, <2>1, <2>2, <2>3
  <2>. QED
    BY <1>1, <1>3, <2>1, <2>3, <2>4
<1>8. ASSUME w > 1
      PROVE  \E d \in r.deps[i] : \A j \in Steps :
               r.seq[j] = d => WaveOf(r)[j] >= w - 1
  <2>1. w - 1 \in 1..N /\ (w - 1) - 1 = w - 2 /\ w - 2 \in 0..N
    BY <1>1, <1>3, <1>8
  <2>2. C[w - 1] = C[w - 2] \cup Ready(r, C[w - 2])
    BY <1>2, <2>1
  <2>3. i \notin C[w - 2] /\ i \notin Ready(r, C[w - 2])
    BY <1>5, <2>2
  <2>4. PICK d \in r.deps[i] : d \notin {r.seq[j] : j \in C[w - 2]}
    BY <2>3 DEF Ready
  <2>5. ASSUME NEW j \in Steps, r.seq[j] = d PROVE WaveOf(r)[j] >= w - 1
    <3>1. j \notin C[w - 2]
      BY <2>4, <2>5
    <3>2. ~(WaveOf(r)[j] <= w - 2) /\ WaveOf(r)[j] \in 1..N
      BY <1>4, <2>1, <3>1
    <3>. QED
      BY <1>1, <1>3, <3>2
  <2>. QED
    BY <2>5
<1>. QED
  BY <1>7, <1>8 DEF w

-----------------------------------------------------------------------------
(* Its duration                                                             *)

(* A nonempty set of steps has one with the longest timeout.               *)
LEMMA LongestExists ==
    ASSUME NEW W \in SUBSET Steps, W # {}
    PROVE  \E i \in W : \A j \in W : TimeoutOf[i] >= TimeoutOf[j]
<1>. DEFINE Part(k) == {i \in W : i <= k}
            Longest(k) == \E i \in Part(k) : \A j \in Part(k) :
                             TimeoutOf[i] >= TimeoutOf[j]
            S == {k \in 0..N : Part(k) = {} \/ Longest(k)}
<1>1. N \in Nat /\ W \subseteq 1..N /\ \A i \in W : TimeoutOf[i] \in Nat
  BY RunbooksAssumption DEF Steps
<1>1a. \A i \in W : i \in Nat /\ 1 <= i /\ i <= N
  BY <1>1
<1>2. 0 \in S
  <2>1. \A i \in W : ~(i <= 0)
    BY <1>1a
  <2>2. Part(0) = {}
    BY <2>1
  <2>3. 0 \in 0..N
    BY <1>1
  <2>. HIDE DEF Part, Longest
  <2>. QED
    BY <2>2, <2>3
<1>3. ASSUME NEW k \in 0..(N - 1), k \in S PROVE k + 1 \in S
  <2>1. k + 1 \in 0..N /\ k \in Nat
    BY <1>1
  <2>2. CASE k + 1 \notin W
    <3>1. Part(k + 1) = Part(k)
      <4>1. \A i \in W : i <= k + 1 <=> i <= k
        BY <1>1a, <2>1, <2>2
      <4>. QED
        BY <4>1
    <3>. QED
      BY <1>3, <2>1, <3>1
  <2>3. CASE k + 1 \in W
    <3>1. Part(k + 1) = Part(k) \cup {k + 1}
      <4>1. \A i \in W : i <= k + 1 <=> i <= k \/ i = k + 1
        BY <1>1a, <2>1
      <4>. QED
        BY <2>3, <4>1
    <3>2. CASE Part(k) = {}
      <4>1. Longest(k + 1)
        BY <1>1, <2>3, <3>1, <3>2
      <4>. QED
        BY <2>1, <4>1
    <3>3. CASE Longest(k)
      <4>1. PICK i \in Part(k) : \A j \in Part(k) : TimeoutOf[i] >= TimeoutOf[j]
        BY <3>3
      <4>2. /\ TimeoutOf[i] \in Nat /\ TimeoutOf[k + 1] \in Nat
            /\ \A j \in Part(k) : TimeoutOf[j] \in Nat
        BY <1>1, <2>3
      <4>3. CASE TimeoutOf[i] >= TimeoutOf[k + 1]
        BY <2>1, <3>1, <4>1, <4>3
      <4>4. CASE ~(TimeoutOf[i] >= TimeoutOf[k + 1])
        <5>1. \A j \in Part(k + 1) : TimeoutOf[k + 1] >= TimeoutOf[j]
          <6>. HIDE DEF Part
          <6>. QED
            BY <3>1, <4>1, <4>2, <4>4
        <5>. QED
          BY <2>1, <3>1, <5>1
      <4>. QED
        BY <4>3, <4>4
    <3>. QED
      BY <1>3, <3>2, <3>3
  <2>. QED
    BY <2>2, <2>3
<1>4. N \in S
  <2>. HIDE DEF S
  <2>1. \A k \in 0..N : k \in S
    BY <1>1, <1>2, <1>3, Upwards
  <2>. QED
    BY <1>1, <2>1
<1>5. Part(N) = W
  BY <1>1a
<1>. QED
  BY <1>4, <1>5

(* No step of a wave takes longer than the wave.                           *)
LEMMA WaveIsLongEnough ==
    ASSUME NEW r, NEW k \in 1..N
    PROVE  /\ WaveDuration(r, k) \in Nat
           /\ \A i \in Wave(r, k) : TimeoutOf[i] <= WaveDuration(r, k)
<1>. DEFINE W == Wave(r, k)
            T == {TimeoutOf[i] : i \in W}
<1>1. N \in Nat /\ TimeoutOf \in [Steps -> Nat]
  BY RunbooksAssumption
<1>2. W \in SUBSET Steps
  BY <1>1, CompletedLoop DEF Wave
<1>3. CASE W = {}
  BY <1>3 DEF WaveDuration
<1>4. CASE W # {}
  <2>1. PICK i \in W : \A j \in W : TimeoutOf[i] >= TimeoutOf[j]
    BY <1>2, <1>4, LongestExists
  <2>2. WaveDuration(r, k) = CHOOSE x \in T : \A y \in T : x >= y
    BY <1>4 DEF WaveDuration, Max
  <2>3. TimeoutOf[i] \in T /\ \A y \in T : TimeoutOf[i] >= y
    BY <2>1
  <2>4. WaveDuration(r, k) \in T /\ \A y \in T : WaveDuration(r, k) >= y
    BY <2>2, <2>3
  <2>5. T \subseteq Nat
    BY <1>1, <1>2
  <2>. HIDE DEF W
  <2>. QED
    BY <2>4, <2>5 DEF W
<1>. QED
  BY <1>3, <1>4

(* total_timeout, wave by wave.                                            *)
LEMMA TotalLoop ==
    ASSUME NEW r
    PROVE  LET T == TotalTimeout(r) IN
             /\ T \in [0..N -> Nat]
             /\ T[0] = 0
             /\ \A k \in 1..N : T[k] = T[k - 1] + WaveDuration(r, k)
<1>. DEFINE Is(f) == f = [k \in 0..N |-> IF k = 0 THEN 0
                                         ELSE f[k - 1] + WaveDuration(r, k)]
            F == [k \in 1..N |-> [x \in Nat |-> x + WaveDuration(r, k)]]
            T == TotalTimeout(r)
<1>1. N \in Nat /\ 0 \in Nat
  BY RunbooksAssumption
<1>2. F \in [1..N -> [Nat -> Nat]]
  BY WaveIsLongEnough
<1>3. PICK f : IsLoop(N, Nat, 0, F, f)
  <2>1. Turns(N, Nat, F)
    BY <1>2 DEF Turns
  <2>. HIDE DEF F
  <2>. QED
    BY <1>1, <2>1, LoopExists, Zenon
<1>4. \A k \in 1..N : f[k] = f[k - 1] + WaveDuration(r, k)
  <2>1. ASSUME NEW k \in 1..N PROVE f[k] = f[k - 1] + WaveDuration(r, k)
    <3>1. f[k - 1] \in Nat
      BY <1>1, <1>3 DEF IsLoop
    <3>2. F[k][f[k - 1]] = f[k - 1] + WaveDuration(r, k)
      BY <3>1
    <3>. QED
      BY <1>3, <3>2 DEF IsLoop
  <2>. QED
    BY <2>1
<1>5. Is(f)
  BY <1>1, <1>3, <1>4 DEF IsLoop
<1>6. T = CHOOSE g : Is(g)
  BY DEF TotalTimeout
<1>7. Is(T)
  BY <1>5, <1>6
<1>8. T = [k \in 0..N |-> IF k = 0 THEN 0 ELSE T[k - 1] + WaveDuration(r, k)]
  BY <1>7
<1>. HIDE DEF T, F
<1>9. T[0] = 0 /\ \A k \in 1..N : T[k] = T[k - 1] + WaveDuration(r, k)
  BY <1>1, <1>8
<1>10. \A k \in 0..N : T[k] \in Nat
  <2>. DEFINE S == {k \in 0..N : T[k] \in Nat}
  <2>1. 0 \in S
    BY <1>1, <1>9
  <2>2. ASSUME NEW k \in 0..(N - 1), k \in S PROVE k + 1 \in S
    <3>1. k + 1 \in 1..N /\ (k + 1) - 1 = k
      BY <1>1
    <3>2. T[k + 1] = T[k] + WaveDuration(r, k + 1)
      BY <1>9, <3>1
    <3>3. WaveDuration(r, k + 1) \in Nat
      BY <3>1, WaveIsLongEnough
    <3>. QED
      BY <2>2, <3>1, <3>2, <3>3
  <2>. HIDE DEF S
  <2>3. \A k \in 0..N : k \in S
    BY <1>1, <2>1, <2>2, Upwards
  <2>. QED
    BY <2>3 DEF S
<1>11. T \in [0..N -> Nat]
  BY <1>8, <1>10
<1>. QED
  BY <1>9, <1>11 DEF T

(* A later wave ends no earlier.                                           *)
LEMMA TotalGrows ==
    ASSUME NEW r, NEW j \in 0..N, NEW k \in 0..N, j <= k
    PROVE  TotalTimeout(r)[j] <= TotalTimeout(r)[k]
<1>. DEFINE T == TotalTimeout(r)
            S == {m \in 0..N : m < j \/ T[j] <= T[m]}
<1>1. N \in Nat
  BY RunbooksAssumption
<1>2. T \in [0..N -> Nat] /\ \A m \in 1..N : T[m] = T[m - 1] + WaveDuration(r, m)
  BY TotalLoop
<1>. HIDE DEF T
<1>3. 0 \in S
  BY <1>1, <1>2
<1>4. ASSUME NEW m \in 0..(N - 1), m \in S PROVE m + 1 \in S
  <2>1. m + 1 \in 1..N /\ (m + 1) - 1 = m /\ m + 1 \in 0..N /\ m \in 0..N
    BY <1>1
  <2>2. T[m] <= T[m + 1] /\ T[m] \in Nat /\ T[m + 1] \in Nat /\ T[j] \in Nat
    <3>1. T[m + 1] = T[m] + WaveDuration(r, m + 1)
      BY <1>2, <2>1
    <3>2. WaveDuration(r, m + 1) \in Nat
      BY <2>1, WaveIsLongEnough
    <3>3. T[m] \in Nat /\ T[m + 1] \in Nat /\ T[j] \in Nat
      BY <1>2, <2>1
    <3>. QED
      BY <3>1, <3>2, <3>3
  <2>3. CASE m < j
    <3>1. m + 1 < j \/ m + 1 = j
      BY <2>1, <2>3
    <3>. QED
      BY <2>1, <2>2, <3>1
  <2>4. CASE T[j] <= T[m]
    BY <2>1, <2>2, <2>4
  <2>. QED
    BY <1>4, <2>3, <2>4
<1>5. \A m \in 0..N : m \in S
  <2>. HIDE DEF S
  <2>. QED
    BY <1>1, <1>3, <1>4, Upwards
<1>6. ~(k < j)
  BY <1>1
<1>. QED
  BY <1>5, <1>6 DEF T

(* The timeouts of a chain, added up.                                      *)
LEMMA ChainLoop ==
    ASSUME NEW n \in Nat, NEW c \in [1..n -> Steps]
    PROVE  LET s == ChainTimeout(c) IN
             /\ Len(c) = n
             /\ s[0] = 0
             /\ \A k \in 1..n : s[k] = s[k - 1] + TimeoutOf[c[k]]
<1>. DEFINE Is(f) == f = [k \in 0..Len(c) |->
                            IF k = 0 THEN 0 ELSE f[k - 1] + TimeoutOf[c[k]]]
            F == [k \in 1..n |-> [x \in Nat |-> x + TimeoutOf[c[k]]]]
            s == ChainTimeout(c)
<1>1. c \in Seq(Steps) /\ Len(c) = n
  OBVIOUS
<1>2. \A k \in 1..n : TimeoutOf[c[k]] \in Nat
  BY RunbooksAssumption
<1>3. F \in [1..n -> [Nat -> Nat]]
  BY <1>2
<1>4. PICK f : IsLoop(n, Nat, 0, F, f)
  <2>1. Turns(n, Nat, F) /\ 0 \in Nat
    BY <1>3 DEF Turns
  <2>. HIDE DEF F
  <2>. QED
    BY <2>1, LoopExists, Zenon
<1>5. \A k \in 1..n : f[k] = f[k - 1] + TimeoutOf[c[k]]
  <2>1. ASSUME NEW k \in 1..n PROVE f[k] = f[k - 1] + TimeoutOf[c[k]]
    <3>1. f[k - 1] \in Nat
      BY <1>4 DEF IsLoop
    <3>2. F[k][f[k - 1]] = f[k - 1] + TimeoutOf[c[k]]
      BY <3>1
    <3>. QED
      BY <1>4, <3>2 DEF IsLoop
  <2>. QED
    BY <2>1
<1>6. Is(f)
  BY <1>1, <1>4, <1>5 DEF IsLoop
<1>7. s = CHOOSE g : Is(g)
  BY DEF ChainTimeout
<1>8. Is(s)
  BY <1>6, <1>7
<1>9. s = [k \in 0..n |-> IF k = 0 THEN 0 ELSE s[k - 1] + TimeoutOf[c[k]]]
  BY <1>1, <1>8
<1>. HIDE DEF s, F
<1>10. s[0] = 0 /\ \A k \in 1..n : s[k] = s[k - 1] + TimeoutOf[c[k]]
  BY <1>9
<1>. QED
  BY <1>1, <1>10 DEF s

(* When the k-th step of a chain ends, its wave has not ended before.      *)
LEMMA ChainFits ==
    ASSUME NEW r \in Requests, Resolves(r), Numbered(r), NEW c \in Chains(r)
    PROVE  ChainTimeout(c)[Len(c)] <= EstimatedDuration(r)
<1>. DEFINE n == Len(c)
            s == ChainTimeout(c)
            T == TotalTimeout(r)
            w(k) == WaveOf(r)[c[k]]
            S == {k \in 0..n : s[k] \in Nat /\ (k = 0 \/ s[k] <= T[w(k)])}
<1>1. PICK m \in Steps : c \in [1..m -> Steps]
  BY DEF Chains
<1>2. N \in Nat /\ Steps = 1..N /\ m \in Nat
  BY RunbooksAssumption DEF Steps
<1>3. /\ n = m /\ s[0] = 0
      /\ \A k \in 1..m : s[k] = s[k - 1] + TimeoutOf[c[k]]
  BY <1>1, <1>2, ChainLoop
<1>4. /\ T \in [0..N -> Nat] /\ T[0] = 0
      /\ \A k \in 1..N : T[k] = T[k - 1] + WaveDuration(r, k)
  BY TotalLoop
<1>. HIDE DEF n, s, T
<1>5. ASSUME NEW k \in 1..m
      PROVE  /\ c[k] \in Steps /\ w(k) \in 1..N
             /\ TimeoutOf[c[k]] \in Nat /\ TimeoutOf[c[k]] <= WaveDuration(r, w(k))
             /\ WaveDuration(r, w(k)) \in Nat
  <2>1. c[k] \in Steps
    BY <1>1
  <2>2. w(k) \in 1..N
    BY <1>2, <2>1, WaveOfStep
  <2>3. w(k) \in 0..N /\ w(k) - 1 \in 0..N /\ w(k) <= w(k) /\ ~(w(k) <= w(k) - 1)
    <3>. HIDE DEF w
    <3>. QED
      BY <1>2, <2>2
  <2>4. c[k] \in Wave(r, w(k))
    BY <2>1, <2>3, WaveOfStep DEF Wave
  <2>. QED
    BY <2>1, <2>2, <2>4, WaveIsLongEnough, RunbooksAssumption
<1>6. 0 \in S
  BY <1>2, <1>3
<1>7. ASSUME NEW k \in 0..(m - 1), k \in S PROVE k + 1 \in S
  <2>. DEFINE v == w(k + 1)
  <2>1. k + 1 \in 1..m /\ (k + 1) - 1 = k /\ k + 1 \in 0..n /\ s[k] \in Nat
    BY <1>2, <1>3, <1>7
  <2>2. s[k + 1] = s[k] + TimeoutOf[c[k + 1]]
    BY <1>3, <2>1
  <2>3. /\ v \in 1..N /\ TimeoutOf[c[k + 1]] \in Nat
        /\ TimeoutOf[c[k + 1]] <= WaveDuration(r, v) /\ WaveDuration(r, v) \in Nat
    BY <1>5, <2>1
  <2>4. s[k] <= T[v - 1]
    <3>1. CASE k = 0
      <4>1. v - 1 \in 0..N
        BY <1>2, <2>3
      <4>. QED
        BY <1>3, <1>4, <3>1, <4>1
    <3>2. CASE k # 0
      <4>1. k \in 1..m /\ k \in 1..(Len(c) - 1)
        BY <1>2, <1>3, <2>1, <3>2 DEF n
      <4>2. r.seq[c[k]] \in r.deps[c[k + 1]]
        BY <4>1 DEF Chains
      <4>3. c[k] \in Steps /\ c[k + 1] \in Steps
        BY <1>5, <2>1, <4>1
      <4>4. PICK j \in Steps : r.seq[j] = r.seq[c[k]] /\ WaveOf(r)[j] < v
        BY <4>2, <4>3, WavesOrder
      <4>5. j = c[k]
        BY <4>3, <4>4 DEF Numbered
      <4>6. w(k) < v /\ w(k) \in 1..N
        BY <1>5, <4>1, <4>4, <4>5
      <4>. HIDE DEF w, v
      <4>7. w(k) \in 0..N /\ v - 1 \in 0..N /\ w(k) <= v - 1
        BY <1>2, <2>3, <4>6
      <4>8. T[w(k)] <= T[v - 1]
        BY <4>7, TotalGrows DEF T
      <4>9. s[k] <= T[w(k)]
        BY <1>7, <3>2
      <4>. QED
        BY <1>4, <2>1, <4>7, <4>8, <4>9
    <3>. QED
      BY <3>1, <3>2
  <2>. HIDE DEF w, v
  <2>5. T[v] = T[v - 1] + WaveDuration(r, v) /\ T[v - 1] \in Nat
    BY <1>2, <1>4, <2>3
  <2>6. s[k + 1] <= T[v] /\ s[k + 1] \in Nat
    BY <2>1, <2>2, <2>3, <2>4, <2>5
  <2>. QED
    BY <2>1, <2>6 DEF v
<1>8. m \in S
  <2>. HIDE DEF S
  <2>1. \A k \in 0..m : k \in S
    BY <1>2, <1>6, <1>7, Upwards
  <2>. QED
    BY <1>2, <2>1
<1>9. m \in 1..m /\ m # 0
  BY <1>2
<1>10. s[m] <= T[w(m)] /\ s[m] \in Nat /\ w(m) \in 1..N
  BY <1>5, <1>8, <1>9
<1>. HIDE DEF w
<1>11. w(m) \in 0..N /\ N \in 0..N /\ w(m) <= N
  BY <1>2, <1>10
<1>12. T[w(m)] <= T[N]
  BY <1>11, TotalGrows DEF T
<1>13. s[m] <= T[N]
  BY <1>4, <1>10, <1>11, <1>12
<1>. QED
  BY <1>3, <1>13 DEF n, s, T, EstimatedDuration

-----------------------------------------------------------------------------
(* create_runbook's answer is the one of the loop.                         *)
Decided ==
    answer \in {"created", "refused"} =>
      /\ asked \in Requests
      /\ answer = IF Resolves(asked) THEN "created" ELSE "refused"

LEMMA DecidedStep == Decided /\ [Next]_vars => Decided'
<1>. SUFFICES ASSUME Decided, [Next]_vars PROVE Decided'
  OBVIOUS
<1>1. CASE \E r \in Requests : CreateRunbook(r)
  BY <1>1 DEF CreateRunbook, Decided
<1>2. CASE UNCHANGED <<asked, answer>>
  BY <1>2 DEF Decided
<1>3. Next => (\E r \in Requests : CreateRunbook(r)) \/ UNCHANGED <<asked, answer>>
  BY DEF Next, Workflow, TriggerExecution, StartWorkflow, FetchExecutionPlan,
         SkipStep, ExecuteStep, EndLoop, UpdateStepStatus, FinalizeExecution,
         ExecuteStepLost, UpdateStepStatusRefused, FinalizeExecutionRefused,
         ActivityRaises
<1>. QED
  BY <1>1, <1>2, <1>3 DEF vars

LEMMA PlanIsShown == Decided => PlanIsRight
<1>. SUFFICES ASSUME Decided, answer \in {"created", "refused"} PROVE PlanIsRight
  BY DEF PlanIsRight
<1>. DEFINE r == asked
            Before(o, i, d) == \E j \in Steps : r.seq[j] = d /\ o[j] < o[i]
            Orders == {o \in [Steps -> Steps] :
                         \A i \in Steps : \A d \in r.deps[i] : Before(o, i, d)}
            waveOf == [i \in Steps |-> CHOOSE k \in Steps : i \in Wave(r, k)]
<1>1. r \in Requests /\ answer = IF Resolves(r) THEN "created" ELSE "refused"
  BY DEF Decided
<1>2. Orders = OrdersOf(r) /\ waveOf = WaveOf(r)
  BY DEF OrdersOf, Comes, WaveOf
<1>3. CASE ~Resolves(r)
  <2>1. Orders = {}
    BY <1>1, <1>2, <1>3, OrderResolves
  <2>. QED
    BY <1>1, <1>3, <2>1 DEF PlanIsRight
<1>4. CASE Resolves(r)
  <2>1. waveOf \in Orders
    <3>1. WaveOf(r) \in [Steps -> Steps]
      <4>1. \A i \in Steps : WaveOf(r)[i] \in Steps
        BY <1>4, WaveOfStep
      <4>2. WaveOf(r) = [i \in Steps |-> WaveOf(r)[i]]
        BY DEF WaveOf
      <4>. HIDE DEF r
      <4>. QED
        BY <4>1, <4>2
    <3>2. \A i \in Steps : \A d \in r.deps[i] : Comes(r, WaveOf(r), i, d)
      BY <1>1, <1>4, WavesOrder DEF Comes
    <3>. QED
      BY <1>2, <3>1, <3>2 DEF OrdersOf
  <2>2. \A i \in Steps : waveOf[i] > 1 =>
          \E d \in r.deps[i] : \A j \in Steps :
             r.seq[j] = d => waveOf[j] >= waveOf[i] - 1
    BY <1>1, <1>2, <1>4, WavesOrder
  <2>3. Numbered(r) => \A c \in Chains(r) :
          ChainTimeout(c)[Len(c)] <= EstimatedDuration(r)
    BY <1>1, <1>4, ChainFits
  <2>4. answer # "refused"
    BY <1>1, <1>4
  <2>. QED
    BY <2>1, <2>2, <2>3, <2>4 DEF PlanIsRight
<1>. QED
  BY <1>3, <1>4

(* resolve_execution_order and build_execution_plan, for runbooks of any   *)
(* length: a runbook is refused only if no order of its steps is possible, *)
(* and otherwise the waves respect the dependencies, no step waits longer  *)
(* than it must, and the estimate is enough for every chain.               *)
THEOREM PlanTheorem == Spec => []PlanIsRight
<1>1. Init => Decided
  BY DEF Init, Decided
<1>. QED
  BY <1>1, DecidedStep, PlanIsShown, PTL DEF Spec

-----------------------------------------------------------------------------
(* Reports                                                                  *)

(* An attempt that was not started is idle.                                *)
NotStarted ==
    \A a \in Attempts :
        \/ stage \in {"idle", "fetch_schedule_config"}
        \/ stage = "generate_and_deliver_report" /\ a > tries
        => step[a] = "idle"

(* An attempt has a report from the time it delivers one, and its own.     *)
OwnReport ==
    /\ \A a \in Attempts :
        /\ step[a] \in {"idle", "read", "record"} => report_id[a] = 0
        /\ step[a] = "deliver" => report_id[a] # 0
    /\ \A a, b \in Attempts : report_id[a] = report_id[b] /\ report_id[a] # 0 => a = b

(* Every copy is of the report of the attempt that sent it, and every      *)
(* recipient an attempt counts has one.                                    *)
CopiesOwn == \A c \in inbox : c.report = report_id[c.by] /\ c.report # 0

Served ==
    \A a \in Attempts : \A r \in success[a] :
        /\ report_id[a] # 0
        /\ \E c \in inbox : c.to = r /\ c.report = report_id[a]

(* A report that counts no test run claims no control that rests on one.   *)
ClaimsBacked ==
    \A i \in DOMAIN records :
        records[i].total_runs = 0 =>
          \A k \in records[i].controls_passing :
             FrameworkControls[reportType][k] = "always"

ReportInv ==
    /\ ReportTypeOK
    /\ NotStarted
    /\ OwnReport
    /\ CopiesOwn
    /\ Served
    /\ ClaimsBacked

Metrics == {"pass_rate", "rto_rate", "runs", "always"}

(* Every control of a framework is decided by a metric the code knows.     *)
LEMMA MetricsKnown ==
  ASSUME NEW t \in DOMAIN FrameworkControls,
         NEW k \in DOMAIN FrameworkControls[t]
  PROVE  k \in Nat /\ FrameworkControls[t][k] \in Metrics
<1>1. CASE t = "soc2"
  BY <1>1 DEF FrameworkControls, Metrics
<1>2. CASE t = "iso27001"
  BY <1>2 DEF FrameworkControls, Metrics
<1>3. CASE t = "nist_csf"
  BY <1>3 DEF FrameworkControls, Metrics
<1>4. CASE t = "monthly_summary"
  BY <1>4 DEF FrameworkControls, Metrics
<1>. QED
  BY <1>1, <1>2, <1>3, <1>4 DEF FrameworkControls

(* A period without test runs passes no control that rests on them.        *)
LEMMA EmptyPeriod ==
  ASSUME NEW runs, Len(runs) = 0,
         NEW metric \in Metrics, Passing(metric, runs)
  PROVE  metric = "always"
<1>1. PassRate(runs) = 0 /\ RtoRate(runs) = 0
  BY DEF PassRate, RtoRate, Percent
<1>2. metric # "pass_rate"
  BY <1>1 DEF Passing
<1>3. metric # "rto_rate"
  BY <1>1 DEF Passing
<1>4. metric # "runs"
  BY DEF Passing
<1>. QED
  BY <1>2, <1>3, <1>4 DEF Metrics

(* What an attempt records is about the runs its request read.             *)
LEMMA SummaryBacked ==
  ASSUME ReportTypeOK, NEW a \in Attempts
  PROVE  /\ Summary(a) \in [total_runs : Nat, controls_passing : SUBSET Nat]
         /\ Summary(a).total_runs = 0 =>
              \A k \in Summary(a).controls_passing :
                 FrameworkControls[reportType][k] = "always"
<1>. DEFINE runs == SubSeq(testRuns, 1, rows[a])
            passing == ControlsPassing(reportType, runs)
<1>1. rows[a] \in 0..Len(testRuns) /\ Len(testRuns) \in Nat
  BY DEF ReportTypeOK
<1>2. Len(runs) \in Nat
  <2>1. testRuns \in Seq(CompletedRun)
    BY DEF ReportTypeOK
  <2>. QED
    BY <1>1, <2>1
<1>3. Summary(a) = [total_runs |-> Len(runs), controls_passing |-> passing]
  BY DEF Summary
<1>4. reportType \in DOMAIN FrameworkControls
  BY DEF ReportTypeOK
<1>5. passing \subseteq Nat
  BY <1>4, MetricsKnown DEF ControlsPassing
<1>6. ASSUME Len(runs) = 0, NEW k \in passing
      PROVE  FrameworkControls[reportType][k] = "always"
  <2>1. /\ k \in DOMAIN FrameworkControls[reportType]
        /\ Passing(FrameworkControls[reportType][k], runs)
    BY <1>6 DEF ControlsPassing
  <2>2. FrameworkControls[reportType][k] \in Metrics
    BY <1>4, <2>1, MetricsKnown
  <2>. HIDE DEF runs
  <2>. QED
    BY <1>6, <2>1, <2>2, EmptyPeriod
<1>. HIDE DEF runs, passing
<1>7. Summary(a).total_runs = Len(runs) /\ Summary(a).controls_passing = passing
  BY <1>3
<1>8. Summary(a) \in [total_runs : Nat, controls_passing : SUBSET Nat]
  BY <1>2, <1>3, <1>5
<1>. QED
  BY <1>6, <1>7, <1>8

-----------------------------------------------------------------------------
LEMMA ReportInitInv == ReportInit => ReportInv
<1>. SUFFICES ASSUME ReportInit
              PROVE  ReportInv
  OBVIOUS
<1>. USE ReportAssumption
<1>1. ReportTypeOK
  BY DEF ReportInit, ReportTypeOK, Attempts, Recipients
<1>2. NotStarted /\ OwnReport /\ Served /\ CopiesOwn
  BY DEF ReportInit, NotStarted, OwnReport, Served, CopiesOwn
<1>3. ClaimsBacked
  BY DEF ReportInit, ClaimsBacked
<1>. QED
  BY <1>1, <1>2, <1>3 DEF ReportInv

LEMMA CompleteRunInv ==
  ASSUME ReportInv, NEW run \in CompletedRun, CompleteRun(run)
  PROVE  ReportInv'
<1>1. ReportTypeOK'
  <2>1. testRuns \in Seq(CompletedRun) /\ rows \in [Attempts -> 0..Len(testRuns)]
    BY DEF ReportInv, ReportTypeOK
  <2>2. testRuns' \in Seq(CompletedRun) /\ Len(testRuns') = Len(testRuns) + 1
    BY <2>1 DEF CompleteRun
  <2>3. rows' \in [Attempts -> 0..Len(testRuns')]
    BY <2>1, <2>2 DEF CompleteRun
  <2>. QED
    BY <2>2, <2>3 DEF ReportInv, ReportTypeOK, CompleteRun
<1>2. NotStarted' /\ OwnReport' /\ CopiesOwn' /\ Served' /\ ClaimsBacked'
  BY DEF ReportInv, CompleteRun, NotStarted, OwnReport, CopiesOwn, Served, ClaimsBacked
<1>. QED
  BY <1>1, <1>2 DEF ReportInv

LEMMA StartReportInv ==
  ASSUME ReportInv, StartReport
  PROVE  ReportInv'
<1>1. ReportTypeOK'
  BY ReportAssumption DEF ReportInv, ReportTypeOK, StartReport
<1>2. NotStarted'
  BY DEF ReportInv, StartReport, NotStarted
<1>3. OwnReport' /\ CopiesOwn' /\ Served' /\ ClaimsBacked'
  BY DEF ReportInv, StartReport, OwnReport, CopiesOwn, Served, ClaimsBacked
<1>. QED
  BY <1>1, <1>2, <1>3 DEF ReportInv

LEMMA FetchScheduleConfigInv ==
  ASSUME ReportInv, FetchScheduleConfig
  PROVE  ReportInv'
<1>. USE ReportAssumption
<1>1. step \in [Attempts -> {"idle", "read", "record", "deliver", "ended"}]
  BY DEF ReportInv, ReportTypeOK
<1>2. ReportTypeOK'
  <2>1. step' \in [Attempts -> {"idle", "read", "record", "deliver", "ended"}]
    BY <1>1 DEF FetchScheduleConfig
  <2>2. tries' \in 0..ReportAttempts
    BY DEF FetchScheduleConfig
  <2>. QED
    BY <2>1, <2>2 DEF ReportInv, ReportTypeOK, FetchScheduleConfig
<1>3. \A a \in Attempts : step[a] = "idle"
  BY DEF ReportInv, NotStarted, FetchScheduleConfig
<1>4. NotStarted'
  BY <1>1, <1>3 DEF FetchScheduleConfig, NotStarted, Attempts
<1>5. OwnReport'
  BY <1>1, <1>3 DEF ReportInv, OwnReport, FetchScheduleConfig
<1>6. CopiesOwn' /\ Served' /\ ClaimsBacked'
  BY DEF ReportInv, FetchScheduleConfig, CopiesOwn, Served, ClaimsBacked
<1>. QED
  BY <1>2, <1>4, <1>5, <1>6 DEF ReportInv

LEMMA FetchFailsInv ==
  ASSUME ReportInv, FetchFails
  PROVE  ReportInv'
<1>1. ReportTypeOK'
  BY ReportAssumption DEF ReportInv, ReportTypeOK, FetchFails
<1>2. NotStarted'
  BY DEF ReportInv, FetchFails, NotStarted
<1>3. OwnReport' /\ CopiesOwn' /\ Served' /\ ClaimsBacked'
  BY DEF ReportInv, FetchFails, OwnReport, CopiesOwn, Served, ClaimsBacked
<1>. QED
  BY <1>1, <1>2, <1>3 DEF ReportInv

(* The part of the type invariant that a new attempt touches.               *)
WorkflowTyped ==
    /\ stage \in {"idle", "fetch_schedule_config", "generate_and_deliver_report",
                  "returned", "failed"}
    /\ tries \in 0..ReportAttempts
    /\ step \in [Attempts -> {"idle", "read", "record", "deliver", "ended"}]

(* The attempt a is over or goes on as it was, and the one started after it *)
(* has made nothing yet.                                                    *)
LEMMA NextAttemptInv ==
  ASSUME ReportInv, NEW a \in Attempts, NEW ended, NextAttempt(a, ended),
         ended = step[a] \/ (ended = "ended" /\ step[a] # "idle")
  PROVE  WorkflowTyped' /\ NotStarted' /\ OwnReport' /\ CopiesOwn' /\ Served'
<1>. USE ReportAssumption
<1>. DEFINE AttemptSteps == {"idle", "read", "record", "deliver", "ended"}
            waits == stage = "generate_and_deliver_report" /\ tries = a
<1>1. /\ step \in [Attempts -> AttemptSteps]
      /\ a \in 1..ReportAttempts
      /\ ended \in AttemptSteps
  BY DEF ReportInv, ReportTypeOK, Attempts
<1>2. NotStarted /\ OwnReport /\ WorkflowTyped
  BY DEF ReportInv, ReportTypeOK, WorkflowTyped
<1>3. CopiesOwn' /\ Served'
  BY DEF ReportInv, CopiesOwn, Served, NextAttempt
<1>4. CASE waits /\ a < ReportAttempts
  <2>1. /\ tries' = a + 1
        /\ step' = [step EXCEPT ![a] = ended, ![a + 1] = "read"]
        /\ stage' = stage
        /\ report_id' = report_id
    BY <1>4 DEF NextAttempt
  <2>2. a + 1 \in Attempts /\ step[a + 1] = "idle"
    BY <1>1, <1>2, <1>4 DEF NotStarted, Attempts
  <2>3. /\ step' \in [Attempts -> AttemptSteps]
        /\ step'[a] = ended /\ step'[a + 1] = "read"
        /\ \A b \in Attempts \ {a, a + 1} : step'[b] = step[b]
    BY <1>1, <2>1, <2>2 DEF Attempts
  <2>4. NotStarted'
    <3>. SUFFICES ASSUME NEW b \in Attempts, b > tries'
                  PROVE  step'[b] = "idle"
      BY <1>4, <2>1 DEF NotStarted
    <3>. QED
      BY <1>1, <1>2, <1>4, <2>1, <2>3 DEF NotStarted, Attempts
  <2>5. OwnReport'
    BY <1>1, <1>2, <2>1, <2>2, <2>3 DEF OwnReport
  <2>6. WorkflowTyped'
    BY <1>1, <1>2, <1>4, <2>1, <2>3 DEF WorkflowTyped
  <2>. QED
    BY <1>3, <2>4, <2>5, <2>6
<1>5. CASE waits /\ ~(a < ReportAttempts)
  <2>1. /\ stage' = "failed" /\ tries' = tries
        /\ step' = [step EXCEPT ![a] = ended]
        /\ report_id' = report_id
    BY <1>5 DEF NextAttempt
  <2>2. NotStarted'
    BY <2>1 DEF NotStarted
  <2>3. OwnReport'
    BY <1>1, <1>2, <2>1 DEF OwnReport
  <2>4. WorkflowTyped'
    BY <1>1, <1>2, <2>1 DEF WorkflowTyped
  <2>. QED
    BY <1>3, <2>2, <2>3, <2>4
<1>6. CASE ~waits
  <2>1. /\ stage' = stage /\ tries' = tries
        /\ step' = [step EXCEPT ![a] = ended]
        /\ report_id' = report_id
    BY <1>6 DEF NextAttempt
  <2>2. NotStarted'
    BY <1>1, <1>2, <2>1 DEF NotStarted
  <2>3. OwnReport'
    BY <1>1, <1>2, <2>1 DEF OwnReport
  <2>4. WorkflowTyped'
    BY <1>1, <1>2, <2>1 DEF WorkflowTyped
  <2>. QED
    BY <1>3, <2>2, <2>3, <2>4
<1>. QED
  BY <1>4, <1>5, <1>6

LEMMA ReportTimeoutInv ==
  ASSUME ReportInv, NEW a \in Attempts, ReportTimeout(a)
  PROVE  ReportInv'
<1>1. NextAttempt(a, step[a])
  BY DEF ReportTimeout
<1>2. WorkflowTyped' /\ NotStarted' /\ OwnReport' /\ CopiesOwn' /\ Served'
  BY <1>1, NextAttemptInv
<1>3. ReportTypeOK' /\ ClaimsBacked'
  BY <1>1, <1>2 DEF ReportInv, ReportTypeOK, WorkflowTyped, ClaimsBacked, ReportTimeout,
                    NextAttempt
<1>. QED
  BY <1>2, <1>3 DEF ReportInv

(* A record that is added leaves the others where they are.                *)
LEMMA ReportRecorded ==
  ASSUME ReportInv, NEW a \in Attempts, records' = Append(records, Summary(a)),
         reportType' = reportType
  PROVE  /\ records' \in Seq([total_runs : Nat, controls_passing : SUBSET Nat])
         /\ Len(records') = Len(records) + 1
         /\ ClaimsBacked'
<1>. DEFINE Record == [total_runs : Nat, controls_passing : SUBSET Nat]
<1>1. records \in Seq(Record) /\ ClaimsBacked /\ ReportTypeOK
  BY DEF ReportInv, ReportTypeOK
<1>2. /\ Summary(a) \in Record
      /\ Summary(a).total_runs = 0 =>
           \A k \in Summary(a).controls_passing :
              FrameworkControls[reportType][k] = "always"
  BY <1>1, SummaryBacked
<1>. DEFINE new == Summary(a)
<1>. HIDE DEF new, Record
<1>3. /\ records' \in Seq(Record)
      /\ Len(records') = Len(records) + 1
      /\ DOMAIN records' = DOMAIN records \cup {Len(records) + 1}
      /\ \A i \in DOMAIN records : records'[i] = records[i]
      /\ records'[Len(records) + 1] = new
  <2>1. records' = Append(records, new) /\ new \in Record
    BY <1>2 DEF new
  <2>. QED
    BY <1>1, <2>1
<1>4. ClaimsBacked'
  BY <1>1, <1>2, <1>3 DEF ClaimsBacked, new
<1>. QED
  BY <1>3, <1>4 DEF Record

LEMMA GenerateFailsInv ==
  ASSUME ReportInv, NEW a \in Attempts, GenerateFails(a)
  PROVE  ReportInv'
<1>1. NextAttempt(a, "ended") /\ step[a] # "idle"
  BY DEF GenerateFails
<1>2. WorkflowTyped' /\ NotStarted' /\ OwnReport' /\ CopiesOwn' /\ Served'
  BY <1>1, NextAttemptInv
<1>3. /\ testRuns' = testRuns /\ reportType' = reportType /\ result' = result
      /\ rows' = rows /\ report_id' = report_id /\ recipient' = recipient
      /\ success' = success /\ inbox' = inbox
  BY <1>1 DEF NextAttempt
<1>4. ClaimsBacked' /\ records' \in Seq([total_runs : Nat, controls_passing : SUBSET Nat])
      /\ Len(records') >= Len(records)
  <2>1. CASE records' = records
    BY <1>3, <2>1 DEF ReportInv, ReportTypeOK, ClaimsBacked
  <2>2. CASE records' = Append(records, Summary(a))
    <3>1. Len(records) \in Nat
      BY DEF ReportInv, ReportTypeOK
    <3>. QED
      BY <1>3, <2>2, <3>1, ReportRecorded
  <2>. QED
    BY <2>1, <2>2 DEF GenerateFails
<1>5. report_id' \in [Attempts -> 0..Len(records')]
  <2>1. Len(records) \in Nat /\ Len(records') \in Nat
    BY <1>4 DEF ReportInv, ReportTypeOK
  <2>2. report_id \in [Attempts -> 0..Len(records)]
    BY DEF ReportInv, ReportTypeOK
  <2>. QED
    BY <1>3, <1>4, <2>1, <2>2
<1>6. ReportTypeOK'
  BY <1>2, <1>3, <1>4, <1>5 DEF ReportInv, ReportTypeOK, WorkflowTyped
<1>. QED
  BY <1>2, <1>4, <1>6 DEF ReportInv

LEMMA ReadRunsInv ==
  ASSUME ReportInv, NEW a \in Attempts, ReadRuns(a)
  PROVE  ReportInv'
<1>. USE ReportAssumption
<1>1. ReportTypeOK'
  BY DEF ReportInv, ReportTypeOK, ReadRuns
<1>2. step \in [Attempts -> {"idle", "read", "record", "deliver", "ended"}]
  BY DEF ReportInv, ReportTypeOK
<1>3. NotStarted'
  BY <1>2 DEF ReportInv, NotStarted, ReadRuns
<1>4. OwnReport'
  BY <1>2 DEF ReportInv, OwnReport, ReadRuns
<1>5. CopiesOwn' /\ Served' /\ ClaimsBacked'
  BY DEF ReportInv, ReadRuns, CopiesOwn, Served, ClaimsBacked
<1>. QED
  BY <1>1, <1>3, <1>4, <1>5 DEF ReportInv

(* The new report has a number nobody quotes yet.                          *)
LEMMA GenerateInv ==
  ASSUME ReportInv, NEW a \in Attempts, GenerateComplianceReport(a)
  PROVE  ReportInv'
<1>. DEFINE n == Len(records) + 1
<1>1. /\ step \in [Attempts -> {"idle", "read", "record", "deliver", "ended"}]
      /\ report_id \in [Attempts -> 0..Len(records)]
      /\ Len(records) \in Nat
      /\ step[a] = "record" /\ report_id[a] = 0
      /\ step' = [step EXCEPT ![a] = "deliver"]
      /\ report_id' = [report_id EXCEPT ![a] = n]
  BY DEF ReportInv, ReportTypeOK, OwnReport, GenerateComplianceReport
<1>2. /\ records' \in Seq([total_runs : Nat, controls_passing : SUBSET Nat])
      /\ Len(records') = n
      /\ ClaimsBacked'
  BY ReportRecorded DEF GenerateComplianceReport
<1>3. report_id' \in [Attempts -> 0..Len(records')]
  BY <1>1, <1>2
<1>4. step' \in [Attempts -> {"idle", "read", "record", "deliver", "ended"}]
  BY <1>1
<1>5. ReportTypeOK'
  BY <1>2, <1>3, <1>4 DEF ReportInv, ReportTypeOK, GenerateComplianceReport
<1>6. /\ report_id'[a] = n /\ n # 0
      /\ \A b \in Attempts \ {a} : report_id'[b] = report_id[b] /\ report_id[b] # n
  BY <1>1
<1>7. NotStarted'
  BY <1>1 DEF ReportInv, NotStarted, GenerateComplianceReport
<1>. HIDE DEF n
<1>8. OwnReport'
  BY <1>1, <1>6 DEF ReportInv, OwnReport
<1>9. CopiesOwn'
  <2>1. \A c \in inbox : c.by \in Attempts
    BY DEF ReportInv, ReportTypeOK
  <2>. QED
    BY <1>1, <1>6, <2>1 DEF ReportInv, CopiesOwn, GenerateComplianceReport
<1>10. Served'
  <2>1. success[a] = {}
    BY <1>1 DEF ReportInv, Served
  <2>. QED
    BY <1>6, <2>1 DEF ReportInv, Served, GenerateComplianceReport
<1>. QED
  BY <1>2, <1>5, <1>7, <1>8, <1>9, <1>10 DEF ReportInv

LEMMA DeliverInv ==
  ASSUME ReportInv, NEW a \in Attempts, NEW arrives \in BOOLEAN,
         NEW raises \in BOOLEAN, Deliver(a, arrives, raises)
  PROVE  ReportInv'
<1>. DEFINE copy == [to |-> recipient[a], by |-> a, report |-> report_id[a]]
<1>1. /\ recipient[a] \in Recipients
      /\ report_id[a] \in Nat /\ report_id[a] # 0
  BY DEF ReportInv, ReportTypeOK, OwnReport, Deliver
<1>2. inbox' = IF arrives THEN inbox \cup {copy} ELSE inbox
  BY DEF Deliver
<1>3. /\ copy \in [to : Recipients, by : Attempts, report : Nat]
      /\ copy.to = recipient[a] /\ copy.by = a /\ copy.report = report_id[a]
  BY <1>1
<1>. HIDE DEF copy
<1>4. success \in [Attempts -> SUBSET Recipients] /\ recipient \in [Attempts -> Nat]
  BY DEF ReportInv, ReportTypeOK
<1>5. success' = [success EXCEPT ![a] =
                    IF raises THEN success[a] ELSE success[a] \cup {recipient[a]}]
  BY <1>4 DEF Deliver
<1>6. ReportTypeOK'
  <2>1. inbox' \subseteq [to : Recipients, by : Attempts, report : Nat]
    BY <1>2, <1>3 DEF ReportInv, ReportTypeOK
  <2>2. success' \in [Attempts -> SUBSET Recipients]
    BY <1>1, <1>4, <1>5
  <2>3. recipient' \in [Attempts -> Nat]
    BY <1>4 DEF Deliver
  <2>. QED
    BY <2>1, <2>2, <2>3 DEF ReportInv, ReportTypeOK, Deliver
<1>7. NotStarted' /\ OwnReport' /\ ClaimsBacked'
  BY DEF ReportInv, NotStarted, OwnReport, ClaimsBacked, Deliver
<1>8. CopiesOwn'
  BY <1>1, <1>2, <1>3 DEF ReportInv, CopiesOwn, Deliver
<1>9. Served'
  <2>. SUFFICES ASSUME NEW b \in Attempts, NEW r \in success'[b]
                PROVE  /\ report_id[b] # 0
                       /\ \E c \in inbox' : c.to = r /\ c.report = report_id[b]
    BY DEF Served, Deliver
  <2>1. CASE r \in success[b]
    BY <1>2, <2>1 DEF ReportInv, Served
  <2>2. CASE r \notin success[b]
    <3>1. b = a /\ r = recipient[a] /\ ~raises
      BY <1>4, <1>5, <2>2
    <3>2. copy \in inbox'
      BY <1>2, <3>1 DEF Deliver
    <3>. QED
      BY <1>1, <1>3, <3>1, <3>2
  <2>. QED
    BY <2>1, <2>2
<1>. QED
  BY <1>6, <1>7, <1>8, <1>9 DEF ReportInv

LEMMA ReturnReportInv ==
  ASSUME ReportInv, NEW a \in Attempts, ReturnReport(a)
  PROVE  ReportInv'
<1>1. step \in [Attempts -> {"idle", "read", "record", "deliver", "ended"}]
  BY DEF ReportInv, ReportTypeOK
<1>2. ReportTypeOK'
  BY DEF ReportInv, ReportTypeOK, ReturnReport
<1>3. NotStarted'
  BY <1>1 DEF ReportInv, NotStarted, ReturnReport
<1>4. OwnReport'
  BY <1>1 DEF ReportInv, OwnReport, ReturnReport
<1>5. CopiesOwn' /\ Served' /\ ClaimsBacked'
  BY DEF ReportInv, ReturnReport, CopiesOwn, Served, ClaimsBacked
<1>. QED
  BY <1>2, <1>3, <1>4, <1>5 DEF ReportInv

LEMMA ReportStep == ReportInv /\ [ReportNext]_reportVars => ReportInv'
<1>. SUFFICES ASSUME ReportInv, [ReportNext]_reportVars
              PROVE  ReportInv'
  OBVIOUS
<1>1. CASE UNCHANGED reportVars
  BY <1>1 DEF reportVars, ReportInv, ReportTypeOK, NotStarted, OwnReport, CopiesOwn,
              Served, ClaimsBacked
<1>2. CASE ReportNext
  BY <1>2, CompleteRunInv, StartReportInv, FetchScheduleConfigInv, FetchFailsInv,
     ReportTimeoutInv, ReadRunsInv, GenerateFailsInv, GenerateInv, DeliverInv,
     ReturnReportInv
     DEF ReportNext
<1>. QED
  BY <1>1, <1>2

LEMMA ReportSpecInv == ReportSpec => []ReportInv
BY ReportInitInv, ReportStep, PTL DEF ReportSpec

(* Two copies of one report have one sender: with one addressee they are   *)
(* the same copy.                                                          *)
LEMMA HonestIsShown == ReportInv => ReportIsHonest
<1>. SUFFICES ASSUME ReportInv
              PROVE  ReportIsHonest
  OBVIOUS
<1>1. /\ inbox \subseteq [to : Recipients, by : Attempts, report : Nat]
      /\ report_id \in [Attempts -> 0..Len(records)]
      /\ Len(records) \in Nat /\ DOMAIN records = 1..Len(records)
      /\ result \in {0} \cup Attempts
  BY DEF ReportInv, ReportTypeOK
<1>2. ASSUME NEW c \in inbox
      PROVE  c.report \in DOMAIN records /\ c.by \in Attempts
  BY <1>1 DEF ReportInv, CopiesOwn
<1>3. ASSUME NEW c \in inbox, NEW d \in inbox, c.to = d.to, c.report = d.report
      PROVE  c = d
  <2>1. c.by = d.by
    BY <1>2, <1>3 DEF ReportInv, CopiesOwn, OwnReport
  <2>. QED
    BY <1>1, <1>3, <2>1
<1>4. result # 0 =>
         \A r \in success[result] :
            \E c \in inbox : c.to = r /\ c.report = report_id[result]
  BY <1>1 DEF ReportInv, Served
<1>. QED
  BY <1>2, <1>3, <1>4 DEF ReportIsHonest, ReportInv, ClaimsBacked

(* generate_and_deliver_report and generate_compliance_report: whatever    *)
(* attempts overlap, fail or are given up, every copy quotes a report on   *)
(* record and reaches a recipient at most once, the recipients the         *)
(* workflow says it served have the report it returned, and a period       *)
(* without test runs claims no control that rests on one.                  *)
THEOREM ReportTheorem == ReportSpec => []ReportIsHonest
BY HonestIsShown, ReportSpecInv, PTL
=============================================================================
