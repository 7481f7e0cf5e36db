--------------------- MODULE ContinuousValidationProofs ---------------------
(***************************************************************************)
(* The alerts of ContinuousValidation, for any workloads, threshold and    *)
(* checks and any number of API processes.                                 *)
(***************************************************************************)
EXTENDS ContinuousValidation, FiniteSetTheorems, TLAPS

Histories == [Times -> Statuses \cup {NoRun}]

(* What evaluate_check_results returns is a status. *)
LEMMA EvaluateType ==
    ASSUME NEW results PROVE EvaluateCheckResults(results) \in Statuses
BY DEF EvaluateCheckResults, Statuses

(* The query of the job and the property agree on a history that ends at t *)
(* with a failure.                                                         *)
LEMMA StreakIsEarned ==
    ASSUME NEW h \in Histories, NEW t \in Times, h[t] = "fail",
           \A u \in Times : u > t => h[u] = NoRun
    PROVE  StreakReached(h) <=> EarnedAt(h, t)
<1>. DEFINE Tail == {s \in Recorded(h) :
                        \A u \in Recorded(h) : u >= s => h[u] # "pass"}
            Upto == {s \in 1..t : h[s] # NoRun /\ \A u \in s..t : h[u] # "pass"}
<1>1. Tail = Upto
  <2>1. ASSUME NEW s \in Tail PROVE s \in Upto
    <3>1. s \in Times /\ h[s] # NoRun /\ s <= t
      BY <2>1, PolicyAssumption DEF Recorded, Times
    <3>2. \A u \in s..t : u \in Times
      BY <3>1, PolicyAssumption DEF Times
    <3>3. ASSUME NEW u \in s..t PROVE h[u] # "pass"
      <4>1. CASE h[u] = NoRun
        BY <4>1 DEF NoRun
      <4>2. CASE h[u] # NoRun
        BY <2>1, <3>1, <3>2, <4>2, PolicyAssumption DEF Recorded, Times
      <4>. QED
        BY <4>1, <4>2
    <3>. QED
      BY <3>1, <3>3, PolicyAssumption DEF Times
  <2>2. ASSUME NEW s \in Upto PROVE s \in Tail
    <3>1. s \in Times
      BY <2>2, PolicyAssumption DEF Times
    <3>2. ASSUME NEW u \in Recorded(h), u >= s PROVE h[u] # "pass"
      <4>1. u \in Times /\ h[u] # NoRun
        BY DEF Recorded
      <4>2. u <= t
        BY <4>1, PolicyAssumption DEF Times
      <4>. QED
        BY <2>2, <3>1, <3>2, <4>1, <4>2, PolicyAssumption DEF Times
    <3>. QED
      BY <2>2, <3>1, <3>2 DEF Recorded
  <2>. QED
    BY <2>1, <2>2
<1>. QED
  BY <1>1 DEF StreakReached, EarnedAt

(* A run that is added later does not change what was earned before. *)
LEMMA EarnedStays ==
    ASSUME NEW h \in Histories, NEW t \in Times, NEW n \in Times, n > t,
           NEW status, EarnedAt(h, t)
    PROVE  EarnedAt([h EXCEPT ![n] = status], t)
<1>. DEFINE g == [h EXCEPT ![n] = status]
<1>1. \A u \in 1..t : g[u] = h[u]
  BY PolicyAssumption DEF Histories, Times
<1>2. t \in 1..t
  BY PolicyAssumption DEF Times
<1>3. \A s \in 1..t : s..t \subseteq 1..t
  BY PolicyAssumption DEF Times
<1>4. {s \in 1..t : h[s] # NoRun /\ \A u \in s..t : h[u] # "pass"}
      = {s \in 1..t : g[s] # NoRun /\ \A u \in s..t : g[u] # "pass"}
  BY <1>1, <1>3
<1>5. g[t] = h[t]
  BY <1>1, <1>2
<1>. HIDE DEF g
<1>6. EarnedAt(g, t)
  BY <1>4, <1>5 DEF EarnedAt
<1>. QED
  BY <1>6 DEF g

(* The times are finite, and so is every set of them that is counted. *)
LEMMA TimesFinite ==
    ASSUME NEW S, S \subseteq Times
    PROVE  IsFiniteSet(S) /\ Cardinality(S) \in Nat
<1>1. IsFiniteSet(Times)
  BY FS_Interval, PolicyAssumption DEF Times
<1>2. IsFiniteSet(S)
  BY <1>1, FS_Subset
<1>. QED
  BY <1>2, FS_CardinalityType

(* More times, at least as many. *)
LEMMA CountGrows ==
    ASSUME NEW S, NEW T, S \subseteq T, T \subseteq Times,
           Cardinality(S) >= Threshold
    PROVE  Cardinality(T) >= Threshold
<1>1. IsFiniteSet(T) /\ Cardinality(T) \in Nat
  BY TimesFinite
<1>2. IsFiniteSet(S) /\ Cardinality(S) \in Nat
  BY TimesFinite
<1>3. Cardinality(S) <= Cardinality(T)
  BY <1>1, FS_Subset
<1>. QED
  BY <1>1, <1>2, <1>3, PolicyAssumption

(* What the query counts are failures. *)
LEMMA StreakFailedEnough ==
    ASSUME NEW h \in Histories, NEW t \in Times, h[t] = "fail", StreakReached(h)
    PROVE  FailedEnough(h, t)
<1>. DEFINE S == {s \in Recorded(h) :
                     \A u \in Recorded(h) : u >= s => h[u] # "pass"}
            T == {s \in Times : h[s] \notin {NoRun, "pass"}}
<1>1. S \subseteq T
  BY PolicyAssumption DEF Recorded, Times
<1>2. T \subseteq Times
  OBVIOUS
<1>3. Cardinality(S) >= Threshold
  BY DEF StreakReached
<1>. HIDE DEF S, T
<1>4. Cardinality(T) >= Threshold
  BY <1>1, <1>2, <1>3, CountGrows
<1>. QED
  BY <1>4 DEF FailedEnough, T

(* A full streak is made of enough failures. *)
LEMMA EarnedFailedEnough ==
    ASSUME NEW h \in Histories, NEW t \in Times, EarnedAt(h, t)
    PROVE  FailedEnough(h, t)
<1>. DEFINE S == {s \in 1..t : h[s] # NoRun /\ \A u \in s..t : h[u] # "pass"}
            T == {s \in Times : h[s] \notin {NoRun, "pass"}}
<1>1. S \subseteq T
  BY PolicyAssumption DEF Times
<1>2. T \subseteq Times
  OBVIOUS
<1>3. Cardinality(S) >= Threshold /\ h[t] = "fail"
  BY DEF EarnedAt
<1>. HIDE DEF S, T
<1>4. Cardinality(T) >= Threshold
  BY <1>1, <1>2, <1>3, CountGrows
<1>. QED
  BY <1>3, <1>4 DEF FailedEnough, T

(* A run added at a free time takes no failure away. *)
LEMMA FailedStays ==
    ASSUME NEW h \in Histories, NEW t \in Times, NEW n \in Times,
           h[n] = NoRun, NEW status, FailedEnough(h, t)
    PROVE  FailedEnough([h EXCEPT ![n] = status], t)
<1>. DEFINE g == [h EXCEPT ![n] = status]
            S == {s \in Times : h[s] \notin {NoRun, "pass"}}
            T == {s \in Times : g[s] \notin {NoRun, "pass"}}
<1>1. S \subseteq T
  BY DEF Histories
<1>2. T \subseteq Times
  OBVIOUS
<1>3. Cardinality(S) >= Threshold /\ h[t] = "fail"
  BY DEF FailedEnough
<1>4. g[t] = "fail"
  BY <1>3 DEF Histories, NoRun
<1>. HIDE DEF S, T
<1>5. Cardinality(T) >= Threshold
  BY <1>1, <1>2, <1>3, CountGrows
<1>. QED
  BY <1>4, <1>5 DEF FailedEnough, T

(* What backs an alert goes on backing it when another job commits: the    *)
(* run is added later, or the one that failed ran beside it.               *)
LEMMA BackingStays ==
    ASSUME NEW h \in Histories, NEW t \in Times, NEW n \in Times, n # t,
           h[n] = NoRun, NEW status, n < t => t \in crowded, BackedAt(h, t)
    PROVE  BackedAt([h EXCEPT ![n] = status], t)
<1>1. FailedEnough(h, t)
  BY EarnedFailedEnough DEF BackedAt
<1>2. FailedEnough([h EXCEPT ![n] = status], t)
  BY <1>1, FailedStays
<1>3. CASE t \in crowded
  BY <1>2, <1>3 DEF BackedAt
<1>4. CASE t \notin crowded
  <2>1. EarnedAt(h, t) /\ n > t
    BY <1>4 DEF BackedAt, Times
  <2>. QED
    BY <2>1, EarnedStays DEF BackedAt
<1>. QED
  BY <1>3, <1>4

(* The processes that are about to commit an alert are not more than there *)
(* are processes.                                                          *)
LEMMA RaisersFinite ==
    ASSUME NEW S, S \subseteq Replicas
    PROVE  /\ IsFiniteSet(S)
           /\ Cardinality(S) \in Nat
           /\ Cardinality(Replicas) \in Nat
           /\ Cardinality(S) <= Cardinality(Replicas)
<1>1. IsFiniteSet(Replicas)
  BY PolicyAssumption
<1>2. IsFiniteSet(S) /\ Cardinality(S) <= Cardinality(Replicas)
  BY <1>1, FS_Subset
<1>. QED
  BY <1>1, <1>2, FS_CardinalityType

LEMMA InitIndInv == Init => IndInv
<1>. SUFFICES ASSUME Init PROVE IndInv
  OBVIOUS
<1>1. TypeOK
  BY PolicyAssumption DEF Init, TypeOK, Statuses, Times
<1>2. AlertIsEarned
  BY DEF Init, AlertIsEarned
<1>3. NoMissedAlert
  BY DEF Init, NoMissedAlert, EarnedAt, NoRun
<1>4. AlertsCounted
  <2>. SUFFICES ASSUME NEW w \in Workloads
                PROVE  open[w] + Cardinality(Raisers(w)) <= Cardinality(Replicas)
    BY DEF AlertsCounted
  <2>1. open[w] = 0 /\ Raisers(w) \subseteq Replicas
    BY DEF Init, Raisers
  <2>. QED
    BY <2>1, RaisersFinite
<1>. QED
  BY <1>1, <1>2, <1>3, <1>4 DEF Init, IndInv, JobsOK, CrowdOK, Idle,
     FutureEmpty, DoubtOK, RaisedOK, WatchedOK

(* Steps that leave the tables and the jobs that go on alone; a job may    *)
(* end without a commit.                                                   *)
LEMMA QuietInv ==
    ASSUME IndInv, TypeOK', Idle', busy' \subseteq busy, UNCHANGED <<ticks, rows>>,
           \A p \in busy' : /\ at'[p] = at[p]
                            /\ todo'[p] = todo[p]
                            /\ doubtful'[p] = doubtful[p]
                            /\ added'[p] = added[p]
                            /\ raised'[p] = raised[p]
    PROVE  IndInv'
<1>1. UNCHANGED <<clock, crowded, runs, open, resolvedAt>>
  BY DEF ticks, rows
<1>2. \A p \in busy' : \A w : Outlook(p, w)' = Outlook(p, w) /\ at'[p] = at[p]
  BY <1>1 DEF Outlook, Seen
<1>3. ASSUME NEW p \in busy', NEW w PROVE WillBack(p, w)' <=> WillBack(p, w)
  <2>. DEFINE h == Outlook(p, w)
  <2>1. h' = h /\ at'[p] = at[p]
    BY <1>2
  <2>. HIDE DEF h
  <2>2. FailedEnough(h, at[p])' <=> FailedEnough(h, at[p])
    BY <2>1 DEF FailedEnough
  <2>3. EarnedAt(h, at[p])' <=> EarnedAt(h, at[p])
    BY <2>1 DEF EarnedAt
  <2>. QED
    BY <1>1, <2>1, <2>2, <2>3 DEF WillBack, h
<1>4. JobsOK' /\ CrowdOK' /\ FutureEmpty'
  <2>. JobsOK /\ CrowdOK /\ FutureEmpty
    BY DEF IndInv
  <2>1. JobsOK'
    BY <1>1 DEF JobsOK
  <2>2. CrowdOK'
    BY <1>1 DEF CrowdOK
  <2>3. FutureEmpty'
    BY <1>1 DEF FutureEmpty
  <2>. QED
    BY <2>1, <2>2, <2>3
<1>5. DoubtOK' /\ RaisedOK'
  BY <1>1, <1>3 DEF IndInv, DoubtOK, RaisedOK
<1>6. WatchedOK'
  <2>. SUFFICES ASSUME NEW p \in busy', NEW w \in Workloads \ todo'[p],
                       AlertOnFailure, at'[p] \notin crowded',
                       EarnedAt(Outlook(p, w)', at'[p])
                PROVE  \/ w \in doubtful'[p] \cup raised'[p]
                       \/ open'[w] > 0
                       \/ resolvedAt'[w] >= at'[p]
    BY DEF WatchedOK, EarnedAt
  <2>1. EarnedAt(Outlook(p, w), at[p])
    BY <1>2
  <2>. QED
    BY <1>1, <2>1 DEF IndInv, WatchedOK
<1>7. AlertIsEarned' /\ NoMissedAlert'
  <2>. AlertIsEarned /\ NoMissedAlert
    BY DEF IndInv
  <2>1. AlertIsEarned'
    BY <1>1 DEF AlertIsEarned, BackedAt, FailedEnough, EarnedAt
  <2>2. NoMissedAlert'
    BY <1>1 DEF NoMissedAlert, EarnedAt, Recorded
  <2>. QED
    BY <2>1, <2>2
<1>8. AlertsCounted'
  <2>. SUFFICES ASSUME NEW w \in Workloads
                PROVE  open[w] + Cardinality(Raisers(w)') <= Cardinality(Replicas)
    BY <1>1 DEF AlertsCounted
  <2>1. Raisers(w)' \subseteq Raisers(w) /\ Raisers(w) \subseteq Replicas
    BY DEF Raisers, IndInv, TypeOK
  <2>2. /\ IsFiniteSet(Raisers(w))
        /\ Cardinality(Raisers(w)) \in Nat
        /\ Cardinality(Replicas) \in Nat
    BY <2>1, RaisersFinite
  <2>3. Cardinality(Raisers(w)') <= Cardinality(Raisers(w))
    BY <2>1, <2>2, FS_Subset
  <2>4. Cardinality(Raisers(w)') \in Nat
    BY <2>1, RaisersFinite
  <2>5. open[w] + Cardinality(Raisers(w)) <= Cardinality(Replicas)
    BY DEF IndInv, AlertsCounted
  <2>6. open[w] \in Nat
    BY DEF IndInv, TypeOK
  <2>. QED
    BY <2>2, <2>3, <2>4, <2>5, <2>6
<1>. QED
  BY <1>4, <1>5, <1>6, <1>7, <1>8 DEF IndInv

(* A job starts. *)
LEMMA FireInv ==
    ASSUME IndInv, NEW p \in Replicas, Fire(p) PROVE IndInv'
<1>. USE PolicyAssumption
<1>0. TypeOK /\ p \notin busy /\ clock < MaxJobs /\ clock \in Nat
  BY DEF IndInv, TypeOK, Fire
<1>1. /\ busy' = busy \cup {p}
      /\ clock' = clock + 1
      /\ at' = [at EXCEPT ![p] = clock + 1]
      /\ todo' = [todo EXCEPT ![p] = Workloads]
      /\ crowded' = IF busy = {} THEN crowded
                    ELSE crowded \cup {clock + 1} \cup {at[q] : q \in busy}
      /\ UNCHANGED <<doubtful, added, raised, runs, open, resolvedAt>>
  BY DEF Fire, rows
<1>2. crowded' \subseteq Times /\ crowded \subseteq crowded'
  <2>1. \A q \in busy : at[q] \in Times
    BY <1>0 DEF IndInv, TypeOK, JobsOK, Times
  <2>2. clock + 1 \in Times /\ crowded \subseteq Times
    BY <1>0 DEF TypeOK, Times
  <2>. QED
    BY <1>1, <2>1, <2>2
<1>3. TypeOK'
  <2>1. at' \in [Replicas -> 0..MaxJobs] /\ clock' \in 0..MaxJobs
    BY <1>0, <1>1 DEF TypeOK
  <2>2. todo' \in [Replicas -> SUBSET Workloads]
    BY <1>0, <1>1 DEF TypeOK
  <2>. QED
    BY <1>0, <1>1, <1>2, <2>1, <2>2 DEF TypeOK, Fire, rows
<1>4. /\ at'[p] = clock + 1
      /\ todo'[p] = Workloads
      /\ \A q \in busy : q # p /\ at'[q] = at[q] /\ todo'[q] = todo[q]
  BY <1>0, <1>1 DEF TypeOK
<1>5. \A q \in busy : at[q] \in crowded' /\ clock + 1 \in crowded'
  BY <1>1
<1>6. \A q \in busy : at[q] \in 1..clock
  BY DEF IndInv, JobsOK
<1>7. doubtful[p] = {} /\ raised[p] = {}
  BY <1>0 DEF IndInv, Idle
<1>8. JobsOK'
  <2>1. \A w \in Workloads : runs[w][clock + 1] = NoRun
    BY <1>0 DEF IndInv, FutureEmpty, Times
  <2>. SUFFICES ASSUME NEW q \in busy'
                PROVE  /\ at'[q] \in 1..clock'
                       /\ \A r \in busy' : at'[q] = at'[r] => q = r
                       /\ \A w \in Workloads : runs'[w][at'[q]] = NoRun
                       /\ \A w \in Workloads \ todo'[q] : added'[q][w] # NoRun
    BY DEF JobsOK
  <2>2. CASE q = p
    BY <1>0, <1>1, <1>4, <1>6, <2>1, <2>2
  <2>3. CASE q \in busy
    BY <1>0, <1>1, <1>4, <1>6, <2>3 DEF IndInv, JobsOK
  <2>. QED
    BY <1>1, <2>2, <2>3
<1>9. CrowdOK'
  <2>. SUFFICES ASSUME NEW q \in busy'
                PROVE  /\ at'[q] \notin crowded' => at'[q] = clock' /\ busy' = {q}
                       /\ \A t \in Times : at'[q] < t /\ t <= clock' => t \in crowded'
    BY DEF CrowdOK
  <2>1. CASE q = p
    <3>1. at'[q] \notin crowded' => busy = {}
      BY <1>1, <1>4, <2>1
    <3>2. \A t \in Times : ~(at'[q] < t /\ t <= clock')
      BY <1>0, <1>1, <1>4, <2>1 DEF Times
    <3>. QED
      BY <1>1, <1>4, <2>1, <3>1, <3>2
  <2>2. CASE q \in busy
    <3>1. \A t \in Times : at[q] < t /\ t <= clock => t \in crowded
      BY <2>2 DEF IndInv, CrowdOK
    <3>2. ASSUME NEW t \in Times, at[q] < t, t <= clock + 1 PROVE t \in crowded'
      <4>1. t <= clock \/ t = clock + 1
        BY <1>0, <3>2 DEF Times
      <4>. QED
        BY <1>2, <1>5, <2>2, <3>1, <3>2, <4>1
    <3>. QED
      BY <1>1, <1>4, <1>5, <2>2, <3>2
  <2>. QED
    BY <1>1, <2>1, <2>2
<1>10. FutureEmpty'
  <2>. SUFFICES ASSUME NEW w \in Workloads, NEW t \in Times, t > clock + 1
                PROVE  runs[w][t] = NoRun
    BY <1>1 DEF FutureEmpty
  <2>. QED
    BY <1>0 DEF IndInv, FutureEmpty, Times
<1>11. \A q \in busy : \A w : Outlook(q, w)' = Outlook(q, w)
  BY <1>1, <1>4 DEF Outlook, Seen
<1>12. ASSUME NEW q \in busy, NEW w, WillBack(q, w) PROVE WillBack(q, w)'
  <2>1. FailedEnough(Outlook(q, w), at[q])'
    BY <1>4, <1>11, <1>12 DEF WillBack, FailedEnough
  <2>. QED
    BY <1>4, <1>5, <2>1 DEF WillBack
<1>13. DoubtOK' /\ RaisedOK'
  <2>. DoubtOK /\ RaisedOK
    BY DEF IndInv
  <2>1. DoubtOK'
    BY <1>1, <1>4, <1>7, <1>12 DEF DoubtOK
  <2>2. RaisedOK'
    BY <1>1, <1>4, <1>7, <1>12 DEF RaisedOK
  <2>. QED
    BY <2>1, <2>2
<1>14. WatchedOK'
  BY <1>1, <1>4, <1>5 DEF WatchedOK
<1>15. AlertIsEarned'
  <2>. SUFFICES ASSUME NEW w \in Workloads, open[w] > 0
                PROVE  \E t \in Times : BackedAt(runs[w], t)'
    BY <1>1 DEF AlertIsEarned, BackedAt, EarnedAt, FailedEnough
  <2>1. PICK t \in Times : BackedAt(runs[w], t)
    BY DEF IndInv, AlertIsEarned
  <2>2. BackedAt(runs[w], t)'
    BY <1>1, <1>2, <2>1 DEF BackedAt, EarnedAt, FailedEnough
  <2>. QED
    BY <2>2
<1>16. NoMissedAlert'
  <2>. SUFFICES ASSUME NEW w \in Workloads, NEW t \in Times \ crowded',
                       AlertOnFailure, EarnedAt(runs[w], t),
                       \A u \in Recorded(runs[w]) : u <= t
                PROVE  open[w] > 0 \/ resolvedAt[w] >= t
    BY <1>1 DEF NoMissedAlert, EarnedAt, Recorded
  <2>. QED
    BY <1>2 DEF IndInv, NoMissedAlert
<1>17. AlertsCounted'
  <2>1. \A w \in Workloads : Raisers(w)' = Raisers(w)
    BY <1>1, <1>7 DEF Raisers
  <2>. QED
    BY <1>1, <2>1 DEF IndInv, AlertsCounted
<1>18. Idle'
  BY <1>1 DEF IndInv, Idle
<1>. QED
  BY <1>3, <1>8, <1>9, <1>10, <1>13, <1>14, <1>15, <1>16, <1>17, <1>18 DEF IndInv

(* One workload is checked. *)
LEMMA RunChecksInv ==
    ASSUME IndInv, NEW p \in Replicas, NEW w \in Workloads, RunChecks(p, w)
    PROVE  IndInv'
<1>. USE PolicyAssumption
<1>1. PICK status \in Statuses :
        /\ added' = [added EXCEPT ![p][w] = status]
        /\ doubtful' = [doubtful EXCEPT ![p] =
              IF AlertOnFailure /\ status = "fail"
                    /\ StreakReached(Seen(p, w, status))
              THEN {w} ELSE {}]
  <2>1. PICK backup, heartbeat \in Ages \cup {NoAge} :
          LET st == EvaluateCheckResults(BuildCheckResults(backup, heartbeat))
          IN  /\ added' = [added EXCEPT ![p][w] = st]
              /\ doubtful' = [doubtful EXCEPT ![p] =
                    IF AlertOnFailure /\ st = "fail"
                          /\ StreakReached(Seen(p, w, st))
                    THEN {w} ELSE {}]
    BY DEF RunChecks
  <2>. DEFINE st == EvaluateCheckResults(BuildCheckResults(backup, heartbeat))
  <2>2. st \in Statuses
    BY EvaluateType
  <2>. WITNESS st \in Statuses
  <2>. QED
    BY <2>1
<1>2. /\ p \in busy
      /\ UNCHANGED <<busy, at, raised, clock, crowded, runs, open, resolvedAt>>
      /\ todo' = [todo EXCEPT ![p] = @ \ {w}]
      /\ doubtful[p] = {}
      /\ w \in todo[p]
  BY DEF RunChecks, rows, ticks
<1>3. /\ todo'[p] = todo[p] \ {w}
      /\ added'[p][w] = status
      /\ \A v \in Workloads \ {w} : added'[p][v] = added[p][v]
      /\ doubtful'[p] = IF AlertOnFailure /\ status = "fail"
                              /\ StreakReached(Seen(p, w, status))
                        THEN {w} ELSE {}
      /\ \A q \in Replicas \ {p} : /\ todo'[q] = todo[q]
                                   /\ added'[q] = added[q]
                                   /\ doubtful'[q] = doubtful[q]
  BY <1>1, <1>2 DEF IndInv, TypeOK
<1>4. TypeOK'
  <2>1. added' \in [Replicas -> [Workloads -> Statuses \cup {NoRun}]]
    BY <1>1 DEF IndInv, TypeOK
  <2>2. doubtful' \in [Replicas -> SUBSET Workloads]
    BY <1>1 DEF IndInv, TypeOK
  <2>3. todo' \in [Replicas -> SUBSET Workloads]
    BY DEF IndInv, TypeOK, RunChecks
  <2>. QED
    BY <2>1, <2>2, <2>3 DEF IndInv, TypeOK, RunChecks, rows, ticks
<1>5. clock \in Nat /\ at[p] \in Times /\ busy \subseteq Replicas
  BY <1>2 DEF IndInv, TypeOK, JobsOK, Times
<1>. DEFINE h == Seen(p, w, status)
<1>6. h \in Histories
  BY <1>5 DEF IndInv, TypeOK, Seen, Histories
<1>7. h[at[p]] = status
  BY <1>5 DEF IndInv, TypeOK, Seen
<1>8. at[p] \notin crowded => \A u \in Times : u > at[p] => h[u] = NoRun
  BY <1>2, <1>5 DEF IndInv, TypeOK, FutureEmpty, CrowdOK, Seen, Times
<1>9. status = "fail" /\ StreakReached(h) => FailedEnough(h, at[p])
  BY <1>5, <1>6, <1>7, StreakFailedEnough
<1>10. status = "fail" /\ at[p] \notin crowded =>
          (StreakReached(h) <=> EarnedAt(h, at[p]))
  BY <1>5, <1>6, <1>7, <1>8, StreakIsEarned
<1>11. EarnedAt(h, at[p]) => status = "fail"
  <2>. HIDE DEF h
  <2>. QED
    BY <1>7 DEF EarnedAt
<1>12. Outlook(p, w)' = h
  BY <1>2, <1>3 DEF Outlook, Seen
<1>. HIDE DEF h
<1>13. \A v \in Workloads \ {w} : Outlook(p, v)' = Outlook(p, v)
  BY <1>2, <1>3 DEF Outlook, Seen
<1>14. \A q \in Replicas \ {p} : \A v : Outlook(q, v)' = Outlook(q, v)
  BY <1>2, <1>3 DEF Outlook, Seen
<1>15. \A q \in Replicas, v \in Workloads : q # p \/ v # w =>
          (WillBack(q, v)' <=> WillBack(q, v))
  <2>. SUFFICES ASSUME NEW q \in Replicas, NEW v \in Workloads, q # p \/ v # w
                PROVE  WillBack(q, v)' <=> WillBack(q, v)
    OBVIOUS
  <2>. DEFINE g == Outlook(q, v)
  <2>1. g' = g
    BY <1>13, <1>14
  <2>. HIDE DEF g
  <2>2. FailedEnough(g, at[q])' <=> FailedEnough(g, at[q])
    BY <1>2, <2>1 DEF FailedEnough
  <2>3. EarnedAt(g, at[q])' <=> EarnedAt(g, at[q])
    BY <1>2, <2>1 DEF EarnedAt
  <2>. QED
    BY <1>2, <2>2, <2>3 DEF WillBack, g
<1>16. status = "fail" /\ StreakReached(h) => WillBack(p, w)'
  <2>. SUFFICES ASSUME status = "fail", StreakReached(h) PROVE WillBack(p, w)'
    OBVIOUS
  <2>1. FailedEnough(h, at[p]) /\ (at[p] \notin crowded => EarnedAt(h, at[p]))
    BY <1>9, <1>10
  <2>. QED
    BY <1>2, <1>12, <2>1 DEF WillBack, FailedEnough, EarnedAt
<1>17. JobsOK'
  <2>1. \A q \in busy : \A v \in Workloads \ todo'[q] : added'[q][v] # NoRun
    <3>. SUFFICES ASSUME NEW q \in busy, NEW v \in Workloads \ todo'[q]
                  PROVE  added'[q][v] # NoRun
      OBVIOUS
    <3>1. CASE q = p /\ v = w
      BY <1>3, <3>1 DEF Statuses, NoRun
    <3>2. CASE q = p /\ v # w
      BY <1>2, <1>3, <3>2 DEF IndInv, JobsOK
    <3>3. CASE q # p
      BY <1>3, <1>5, <3>3 DEF IndInv, JobsOK
    <3>. QED
      BY <3>1, <3>2, <3>3
  <2>. QED
    BY <1>2, <2>1 DEF IndInv, JobsOK
<1>18. CrowdOK' /\ FutureEmpty' /\ Idle'
  <2>1. CrowdOK' /\ FutureEmpty'
    BY <1>2 DEF IndInv, CrowdOK, FutureEmpty
  <2>2. Idle'
    BY <1>2, <1>3 DEF IndInv, Idle
  <2>. QED
    BY <2>1, <2>2
<1>19. AlertIsEarned' /\ NoMissedAlert' /\ AlertsCounted'
  <2>. AlertIsEarned /\ NoMissedAlert /\ AlertsCounted
    BY DEF IndInv
  <2>1. AlertIsEarned'
    BY <1>2 DEF AlertIsEarned, BackedAt, EarnedAt, FailedEnough
  <2>2. NoMissedAlert'
    BY <1>2 DEF NoMissedAlert, EarnedAt, Recorded
  <2>3. AlertsCounted'
    BY <1>2 DEF AlertsCounted, Raisers
  <2>. QED
    BY <2>1, <2>2, <2>3
<1>20. DoubtOK'
  <2>. SUFFICES ASSUME NEW q \in busy, NEW v \in doubtful'[q]
                PROVE  v \notin todo'[q] /\ doubtful'[q] = {v} /\ WillBack(q, v)'
    BY <1>2 DEF DoubtOK
  <2>1. CASE q = p
    BY <1>3, <1>16, <2>1 DEF h
  <2>2. CASE q # p
    <3>1. v \in doubtful[q] /\ v \in Workloads
      BY <1>3, <1>5, <2>2 DEF IndInv, TypeOK
    <3>. QED
      BY <1>3, <1>5, <1>15, <2>2, <3>1 DEF IndInv, DoubtOK
  <2>. QED
    BY <2>1, <2>2
<1>21. RaisedOK'
  <2>. SUFFICES ASSUME NEW q \in busy, NEW v \in raised[q]
                PROVE  v \notin todo'[q] /\ WillBack(q, v)'
    BY <1>2 DEF RaisedOK
  <2>1. v \notin todo[q] /\ WillBack(q, v) /\ v \in Workloads
    BY <1>5 DEF IndInv, RaisedOK, TypeOK
  <2>2. q # p \/ v # w
    BY <1>2, <2>1
  <2>. QED
    BY <1>3, <1>5, <1>15, <2>1, <2>2
<1>22. WatchedOK'
  <2>. SUFFICES ASSUME NEW q \in busy, NEW v \in Workloads \ todo'[q],
                       AlertOnFailure, at[q] \notin crowded,
                       EarnedAt(Outlook(q, v)', at[q])
                PROVE  \/ v \in doubtful'[q] \cup raised[q]
                       \/ open[v] > 0
                       \/ resolvedAt[v] >= at[q]
    BY <1>2 DEF WatchedOK, EarnedAt
  <2>1. CASE q = p /\ v = w
    <3>1. EarnedAt(h, at[p])
      BY <1>12, <2>1
    <3>2. status = "fail" /\ StreakReached(h)
      BY <1>10, <1>11, <2>1, <3>1
    <3>. QED
      BY <1>3, <2>1, <3>2 DEF h
  <2>2. CASE q = p /\ v # w
    <3>1. v \in Workloads \ todo[q] /\ EarnedAt(Outlook(q, v), at[q])
      BY <1>3, <1>13, <2>2
    <3>2. doubtful[q] = {}
      BY <1>2, <2>2
    <3>. QED
      BY <2>2, <3>1, <3>2 DEF IndInv, WatchedOK
  <2>3. CASE q # p
    <3>1. v \in Workloads \ todo[q] /\ EarnedAt(Outlook(q, v), at[q])
      BY <1>3, <1>5, <1>14, <2>3
    <3>. QED
      BY <1>3, <1>5, <2>3, <3>1 DEF IndInv, WatchedOK
  <2>. QED
    BY <2>1, <2>2, <2>3
<1>. QED
  BY <1>4, <1>17, <1>18, <1>19, <1>20, <1>21, <1>22 DEF IndInv

(* The job looks for an open alert. *)
LEMMA RaiseAlertInv ==
    ASSUME IndInv, NEW p \in Replicas, NEW w \in Workloads, RaiseAlert(p, w)
    PROVE  IndInv'
<1>. USE PolicyAssumption
<1>1. TypeOK'
  BY DEF IndInv, TypeOK, RaiseAlert, rows, ticks
<1>2. /\ p \in busy
      /\ UNCHANGED <<busy, at, todo, added, clock, crowded, runs, open, resolvedAt>>
      /\ w \in doubtful[p]
      /\ doubtful'[p] = {}
      /\ raised'[p] = IF open[w] > 0 THEN raised[p] ELSE raised[p] \cup {w}
      /\ \A q \in Replicas \ {p} : doubtful'[q] = doubtful[q] /\ raised'[q] = raised[q]
      /\ busy \subseteq Replicas
  BY DEF IndInv, TypeOK, RaiseAlert, rows, ticks
<1>3. \A q, v : Outlook(q, v)' = Outlook(q, v)
  BY <1>2 DEF Outlook, Seen
<1>4. \A q, v : WillBack(q, v)' = WillBack(q, v)
  BY <1>2, <1>3 DEF WillBack, FailedEnough, EarnedAt
<1>5. JobsOK' /\ CrowdOK' /\ FutureEmpty' /\ Idle'
  <2>. JobsOK /\ CrowdOK /\ FutureEmpty /\ Idle
    BY DEF IndInv
  <2>1. JobsOK' /\ CrowdOK' /\ FutureEmpty'
    BY <1>2 DEF JobsOK, CrowdOK, FutureEmpty
  <2>2. Idle'
    BY <1>2 DEF Idle
  <2>. QED
    BY <2>1, <2>2
<1>6. AlertIsEarned' /\ NoMissedAlert'
  <2>. AlertIsEarned /\ NoMissedAlert
    BY DEF IndInv
  <2>0. UNCHANGED <<runs, open, crowded>>
    BY <1>2
  <2>1. AlertIsEarned'
    <3>1. \A v \in Workloads, t \in Times :
             BackedAt(runs[v], t)' <=> BackedAt(runs[v], t)
      BY <2>0 DEF BackedAt, EarnedAt, FailedEnough
    <3>. QED
      BY <2>0, <3>1 DEF AlertIsEarned
  <2>2. NoMissedAlert'
    BY <1>2 DEF NoMissedAlert, EarnedAt, Recorded
  <2>. QED
    BY <2>1, <2>2
<1>7. w \notin todo[p] /\ doubtful[p] = {w} /\ WillBack(p, w)
  BY <1>2 DEF IndInv, DoubtOK
<1>8. DoubtOK'
  BY <1>2, <1>4 DEF IndInv, DoubtOK
<1>9. RaisedOK'
  BY <1>2, <1>4, <1>7 DEF IndInv, RaisedOK
<1>10. open \in [Workloads -> Nat]
  BY DEF IndInv, TypeOK
<1>11. WatchedOK'
  <2>. SUFFICES ASSUME NEW q \in busy, NEW v \in Workloads \ todo[q],
                       AlertOnFailure, at[q] \notin crowded,
                       EarnedAt(Outlook(q, v), at[q])
                PROVE  \/ v \in doubtful'[q] \cup raised'[q]
                       \/ open[v] > 0
                       \/ resolvedAt[v] >= at[q]
    BY <1>2, <1>3 DEF WatchedOK, EarnedAt
  <2>1. \/ v \in doubtful[q] \cup raised[q]
        \/ open[v] > 0
        \/ resolvedAt[v] >= at[q]
    BY DEF IndInv, WatchedOK
  <2>. QED
    BY <1>2, <1>7, <2>1
<1>12. AlertsCounted'
  <2>. SUFFICES ASSUME NEW v \in Workloads
                PROVE  open[v] + Cardinality(Raisers(v)') <= Cardinality(Replicas)
    BY <1>2 DEF AlertsCounted
  <2>1. CASE v = w /\ ~(open[w] > 0)
    <3>1. open[v] = 0
      BY <1>10, <2>1
    <3>2. Raisers(v)' \subseteq Replicas
      BY <1>2 DEF Raisers
    <3>3. Cardinality(Raisers(v)') \in Nat
          /\ Cardinality(Raisers(v)') <= Cardinality(Replicas)
      BY <3>2, RaisersFinite
    <3>. QED
      BY <3>1, <3>3
  <2>2. CASE ~(v = w /\ ~(open[w] > 0))
    <3>1. \A q \in busy : v \in raised'[q] <=> v \in raised[q]
      BY <1>2, <2>2
    <3>2. Raisers(v)' = Raisers(v)
      BY <1>2, <3>1 DEF Raisers
    <3>. QED
      BY <3>2 DEF IndInv, AlertsCounted
  <2>. QED
    BY <2>1, <2>2
<1>. QED
  BY <1>1, <1>5, <1>6, <1>8, <1>9, <1>11, <1>12 DEF IndInv

(* A job commits: its runs and its alerts become visible to the others. *)
LEMMA CommitInv ==
    ASSUME IndInv, NEW p \in Replicas, Commit(p) PROVE IndInv'
<1>. USE PolicyAssumption
<1>1. /\ p \in busy
      /\ busy' = busy \ {p}
      /\ busy \subseteq Replicas
      /\ UNCHANGED <<clock, crowded, resolvedAt>>
      /\ todo[p] = {}
      /\ doubtful[p] = {}
      /\ doubtful'[p] = {}
      /\ raised'[p] = {}
      /\ \A q \in Replicas \ {p} : /\ at'[q] = at[q]
                                   /\ todo'[q] = todo[q]
                                   /\ doubtful'[q] = doubtful[q]
                                   /\ added'[q] = added[q]
                                   /\ raised'[q] = raised[q]
  BY DEF IndInv, TypeOK, Commit, EndJob, ticks
<1>. DEFINE n == at[p]
<1>2. n \in Times /\ clock \in Nat /\ n <= clock
  BY <1>1 DEF IndInv, TypeOK, JobsOK, Times
<1>3. \A w \in Workloads :
        /\ runs'[w] = [runs[w] EXCEPT ![n] = added[p][w]]
        /\ runs'[w] = Outlook(p, w)
        /\ runs'[w] \in Histories
        /\ runs'[w][n] = added[p][w]
        /\ \A t \in Times \ {n} : runs'[w][t] = runs[w][t]
  BY <1>2 DEF IndInv, TypeOK, Commit, Seen, Outlook, Histories
<1>4. \A w \in Workloads : open'[w] = IF w \in raised[p] THEN open[w] + 1 ELSE open[w]
  BY DEF Commit
<1>5. \A w \in Workloads : open[w] \in Nat /\ open'[w] \in Nat
  <2>1. open \in [Workloads -> Nat]
    BY DEF IndInv, TypeOK
  <2>. QED
    BY <1>4, <2>1
<1>6. TypeOK'
  <2>1. runs' \in [Workloads -> [Times -> Statuses \cup {NoRun}]]
    BY <1>3 DEF Commit, Histories
  <2>2. open' \in [Workloads -> Nat]
    BY <1>5 DEF Commit
  <2>3. added' \in [Replicas -> [Workloads -> Statuses \cup {NoRun}]]
    BY DEF IndInv, TypeOK, Commit, EndJob
  <2>4. at' \in [Replicas -> 0..MaxJobs]
    BY DEF IndInv, TypeOK, Commit, EndJob
  <2>. QED
    BY <2>1, <2>2, <2>3, <2>4 DEF IndInv, TypeOK, Commit, EndJob, ticks
<1>7. \A w \in Workloads : runs[w] \in Histories /\ runs[w][n] = NoRun
  BY <1>1 DEF IndInv, TypeOK, Histories, JobsOK
<1>8. \A q \in busy' : q \in Replicas \ {p} /\ q \in busy /\ at[q] # n
                        /\ at[q] \in Times /\ at[q] \in crowded /\ n \in crowded
  BY <1>1 DEF IndInv, JobsOK, CrowdOK, TypeOK, Times
<1>9. ASSUME NEW q \in busy', NEW w \in Workloads, WillBack(q, w)
      PROVE  WillBack(q, w)'
  <2>1. /\ Outlook(q, w) = [runs[w] EXCEPT ![at[q]] = added[q][w]]
        /\ Outlook(q, w)' = [runs'[w] EXCEPT ![at[q]] = added[q][w]]
    BY <1>1, <1>8 DEF Outlook, Seen
  <2>2. Outlook(q, w) \in Histories /\ Outlook(q, w)[n] = NoRun
    BY <1>1, <1>2, <1>7, <1>8, <2>1 DEF IndInv, TypeOK, Histories
  <2>3. Outlook(q, w)' = [Outlook(q, w) EXCEPT ![n] = added[p][w]]
    <3>. DEFINE m == at[q]
                x == added[p][w]
                y == added[q][w]
    <3>1. m \in Times /\ n \in Times /\ m # n /\ runs[w] \in Histories
      BY <1>2, <1>7, <1>8
    <3>2. runs'[w] = [runs[w] EXCEPT ![n] = x]
      BY <1>3
    <3>. HIDE DEF m, n, x, y
    <3>3. [[runs[w] EXCEPT ![n] = x] EXCEPT ![m] = y]
          = [[runs[w] EXCEPT ![m] = y] EXCEPT ![n] = x]
      BY <3>1 DEF Histories
    <3>. QED
      BY <2>1, <3>2, <3>3 DEF m, x, y
  <2>4. FailedEnough(Outlook(q, w), at[q])
    BY <1>9 DEF WillBack
  <2>5. FailedEnough([Outlook(q, w) EXCEPT ![n] = added[p][w]], at[q])
    BY <1>2, <1>8, <2>2, <2>4, FailedStays
  <2>6. FailedEnough(Outlook(q, w), at[q])'
    BY <1>1, <1>8, <2>3, <2>5 DEF FailedEnough
  <2>. QED
    BY <1>1, <1>8, <2>6 DEF WillBack
<1>10. JobsOK'
  <2>. SUFFICES ASSUME NEW q \in busy'
                PROVE  /\ at[q] \in 1..clock
                       /\ \A r \in busy' : at[q] = at[r] => q = r
                       /\ \A w \in Workloads : runs'[w][at[q]] = NoRun
                       /\ \A w \in Workloads \ todo[q] : added[q][w] # NoRun
    BY <1>1, <1>8 DEF JobsOK
  <2>1. q \in busy /\ at[q] \in Times \ {n}
    BY <1>8
  <2>2. \A w \in Workloads : runs'[w][at[q]] = runs[w][at[q]]
    BY <1>3, <2>1
  <2>. QED
    BY <1>1, <2>1, <2>2 DEF IndInv, JobsOK
<1>11. CrowdOK'
  BY <1>1, <1>8 DEF IndInv, CrowdOK
<1>12. Idle'
  BY <1>1 DEF IndInv, Idle
<1>13. FutureEmpty'
  <2>. SUFFICES ASSUME NEW w \in Workloads, NEW t \in Times, t > clock
                PROVE  runs'[w][t] = NoRun
    BY <1>1 DEF FutureEmpty
  <2>1. t # n
    BY <1>2 DEF Times
  <2>2. runs'[w][t] = runs[w][t]
    BY <1>3, <2>1
  <2>3. runs[w][t] = NoRun
    BY DEF IndInv, FutureEmpty
  <2>. QED
    BY <2>2, <2>3
<1>14. DoubtOK'
  <2>. SUFFICES ASSUME NEW q \in busy', NEW w \in doubtful[q]
                PROVE  w \notin todo[q] /\ doubtful[q] = {w} /\ WillBack(q, w)'
    BY <1>1, <1>8 DEF DoubtOK
  <2>. QED
    BY <1>8, <1>9 DEF IndInv, DoubtOK, TypeOK
<1>15. RaisedOK'
  <2>. SUFFICES ASSUME NEW q \in busy', NEW w \in raised[q]
                PROVE  w \notin todo[q] /\ WillBack(q, w)'
    BY <1>1, <1>8 DEF RaisedOK
  <2>. QED
    BY <1>8, <1>9 DEF IndInv, RaisedOK, TypeOK
<1>16. WatchedOK'
  <2>1. \A q \in busy' : at'[q] \in crowded'
    BY <1>1, <1>8
  <2>. QED
    BY <2>1 DEF WatchedOK
<1>17. AlertsCounted'
  <2>. SUFFICES ASSUME NEW w \in Workloads
                PROVE  open'[w] + Cardinality(Raisers(w)') <= Cardinality(Replicas)
    BY DEF AlertsCounted
  <2>1. Raisers(w) \subseteq Replicas /\ Raisers(w)' = Raisers(w) \ {p}
    BY <1>1 DEF Raisers
  <2>2. /\ IsFiniteSet(Raisers(w))
        /\ Cardinality(Raisers(w)) \in Nat
        /\ Cardinality(Replicas) \in Nat
    BY <2>1, RaisersFinite
  <2>3. Cardinality(Raisers(w)') =
          IF p \in Raisers(w) THEN Cardinality(Raisers(w)) - 1
          ELSE Cardinality(Raisers(w))
    BY <2>1, <2>2, FS_RemoveElement
  <2>4. p \in Raisers(w) <=> w \in raised[p]
    BY <1>1 DEF Raisers
  <2>5. open[w] + Cardinality(Raisers(w)) <= Cardinality(Replicas)
    BY DEF IndInv, AlertsCounted
  <2>. QED
    BY <1>4, <1>5, <2>2, <2>3, <2>4, <2>5
<1>18. AlertIsEarned'
  <2>. SUFFICES ASSUME NEW w \in Workloads, open'[w] > 0
                PROVE  \E t \in Times : BackedAt(runs'[w], t)
    BY <1>1 DEF AlertIsEarned, BackedAt, EarnedAt, FailedEnough
  <2>1. CASE w \in raised[p]
    <3>1. WillBack(p, w)
      BY <1>1, <2>1 DEF IndInv, RaisedOK
    <3>2. BackedAt(runs'[w], n)
      BY <1>3, <3>1 DEF WillBack, BackedAt
    <3>. QED
      BY <1>2, <3>2
  <2>2. CASE w \notin raised[p]
    <3>1. PICK t \in Times : BackedAt(runs[w], t)
      BY <1>4, <2>2 DEF IndInv, AlertIsEarned
    <3>2. runs[w][t] = "fail"
      BY <3>1 DEF BackedAt, EarnedAt, FailedEnough
    <3>3. t # n /\ t <= clock
      BY <1>2, <1>7, <3>2 DEF IndInv, FutureEmpty, NoRun, Times
    <3>4. n < t => t \in crowded
      BY <1>1, <3>3 DEF IndInv, CrowdOK
    <3>5. BackedAt([runs[w] EXCEPT ![n] = added[p][w]], t)
      BY <1>2, <1>7, <3>1, <3>3, <3>4, BackingStays
    <3>. QED
      BY <1>3, <3>5
  <2>. QED
    BY <2>1, <2>2
<1>19. NoMissedAlert'
  <2>. SUFFICES ASSUME NEW w \in Workloads, NEW t \in Times \ crowded,
                       AlertOnFailure, EarnedAt(runs'[w], t),
                       \A u \in Recorded(runs'[w]) : u <= t
                PROVE  open'[w] > 0 \/ resolvedAt[w] >= t
    BY <1>1 DEF NoMissedAlert, EarnedAt, Recorded
  <2>1. added[p][w] # NoRun
    BY <1>1 DEF IndInv, JobsOK
  <2>2. n <= t
    BY <1>2, <1>3, <2>1 DEF Recorded
  <2>3. runs'[w][t] = "fail"
    BY DEF EarnedAt
  <2>4. t <= clock
    <3>1. ~(t > clock)
      BY <1>1, <1>13, <2>3 DEF FutureEmpty, NoRun
    <3>. QED
      BY <1>2, <3>1 DEF Times
  <2>5. t = n
    BY <1>1, <1>2, <2>2, <2>4 DEF IndInv, CrowdOK, Times
  <2>6. w \in raised[p] \/ open[w] > 0 \/ resolvedAt[w] >= n
    BY <1>1, <1>3, <2>5 DEF IndInv, WatchedOK
  <2>. QED
    BY <1>4, <1>5, <2>5, <2>6
<1>. QED
  BY <1>6, <1>10, <1>11, <1>12, <1>13, <1>14, <1>15, <1>16, <1>17, <1>18, <1>19
     DEF IndInv

(* A user resolves an alert. *)
LEMMA ResolveAlertInv ==
    ASSUME IndInv, NEW w \in Workloads, ResolveAlert(w) PROVE IndInv'
<1>. USE PolicyAssumption
<1>1. UNCHANGED <<busy, at, todo, doubtful, added, raised, clock, crowded, runs>>
  BY DEF ResolveAlert, local, ticks
<1>2. /\ open[w] > 0
      /\ open[w] \in Nat
      /\ open'[w] = open[w] - 1
      /\ resolvedAt'[w] = clock
      /\ \A v \in Workloads \ {w} : open'[v] = open[v]
                                   /\ resolvedAt'[v] = resolvedAt[v]
  BY DEF IndInv, TypeOK, ResolveAlert
<1>3. TypeOK'
  BY DEF IndInv, TypeOK, ResolveAlert, local, ticks
<1>4. \A p, v : Outlook(p, v)' = Outlook(p, v)
  BY <1>1 DEF Outlook, Seen
<1>5. \A p, v : WillBack(p, v)' = WillBack(p, v)
  BY <1>1, <1>4 DEF WillBack, FailedEnough, EarnedAt
<1>6. JobsOK' /\ CrowdOK' /\ FutureEmpty' /\ Idle'
  BY <1>1 DEF IndInv, JobsOK, CrowdOK, FutureEmpty, Idle
<1>7. DoubtOK' /\ RaisedOK'
  BY <1>1, <1>5 DEF IndInv, DoubtOK, RaisedOK
<1>8. WatchedOK'
  <2>1. \A p \in busy : at[p] \in 1..clock /\ clock \in Nat
    BY DEF IndInv, JobsOK, TypeOK
  <2>. SUFFICES ASSUME NEW q \in busy, NEW v \in Workloads \ todo[q],
                       AlertOnFailure, at[q] \notin crowded,
                       EarnedAt(Outlook(q, v), at[q])
                PROVE  \/ v \in doubtful[q] \cup raised[q]
                       \/ open'[v] > 0
                       \/ resolvedAt'[v] >= at[q]
    BY <1>1, <1>4 DEF WatchedOK, EarnedAt
  <2>2. CASE v = w
    BY <1>2, <2>1, <2>2
  <2>3. CASE v # w
    BY <1>2, <2>3 DEF IndInv, WatchedOK
  <2>. QED
    BY <2>2, <2>3
<1>9. AlertsCounted'
  <2>. SUFFICES ASSUME NEW v \in Workloads
                PROVE  open'[v] + Cardinality(Raisers(v)) <= Cardinality(Replicas)
    BY <1>1 DEF AlertsCounted, Raisers
  <2>1. Raisers(v) \subseteq Replicas
    BY DEF Raisers, IndInv, TypeOK
  <2>2. Cardinality(Raisers(v)) \in Nat /\ Cardinality(Replicas) \in Nat
    BY <2>1, RaisersFinite
  <2>3. open[v] + Cardinality(Raisers(v)) <= Cardinality(Replicas)
    BY DEF IndInv, AlertsCounted
  <2>4. open[v] \in Nat
    BY DEF IndInv, TypeOK
  <2>. QED
    BY <1>2, <2>2, <2>3, <2>4
<1>10. AlertIsEarned'
  <2>. SUFFICES ASSUME NEW v \in Workloads, open'[v] > 0
                PROVE  \E t \in Times : BackedAt(runs[v], t)
    BY <1>1 DEF AlertIsEarned, BackedAt, FailedEnough, EarnedAt
  <2>1. open[v] > 0
    BY <1>2
  <2>. QED
    BY <2>1 DEF IndInv, AlertIsEarned
<1>11. NoMissedAlert'
  <2>. SUFFICES ASSUME NEW v \in Workloads, NEW t \in Times \ crowded,
                       AlertOnFailure, EarnedAt(runs[v], t),
                       \A u \in Recorded(runs[v]) : u <= t
                PROVE  open'[v] > 0 \/ resolvedAt'[v] >= t
    BY <1>1 DEF NoMissedAlert, EarnedAt, Recorded
  <2>1. CASE v = w
    <3>1. runs[v][t] = "fail"
      BY DEF EarnedAt
    <3>2. t <= clock
      BY <3>1 DEF IndInv, TypeOK, FutureEmpty, NoRun, Times
    <3>. QED
      BY <1>2, <2>1, <3>2
  <2>2. CASE v # w
    BY <1>2, <2>2 DEF IndInv, NoMissedAlert
  <2>. QED
    BY <2>1, <2>2
<1>. QED
  BY <1>3, <1>6, <1>7, <1>8, <1>9, <1>10, <1>11 DEF IndInv

LEMMA NextIndInv ==
    ASSUME IndInv, [Next]_vars PROVE IndInv'
<1>1. CASE UNCHANGED vars
  <2>1. TypeOK' /\ Idle'
    BY <1>1 DEF IndInv, TypeOK, Idle, vars, local, rows, ticks
  <2>. QED
    BY <1>1, <2>1, QuietInv DEF vars, local
<1>2. CASE CreatePolicy \/ TogglePolicy
  <2>1. TypeOK' /\ Idle'
    BY <1>2 DEF IndInv, TypeOK, Idle, CreatePolicy, TogglePolicy, local, rows, ticks
  <2>. QED
    BY <1>2, <2>1, QuietInv DEF CreatePolicy, TogglePolicy, local
<1>3. ASSUME NEW p \in Replicas, Startup(p) PROVE IndInv'
  <2>1. TypeOK' /\ Idle'
    BY <1>3 DEF IndInv, TypeOK, Idle, Startup, local, rows, ticks
  <2>. QED
    BY <1>3, <2>1, QuietInv DEF Startup, local
<1>4. ASSUME NEW p \in Replicas, Shutdown(p) \/ JobError(p) PROVE IndInv'
  <2>1. EndJob(p) /\ UNCHANGED <<ticks, rows>>
    BY <1>4 DEF Shutdown, JobError
  <2>2. TypeOK'
    <3>1. /\ at' \in [Replicas -> 0..MaxJobs]
          /\ todo' \in [Replicas -> SUBSET Workloads]
          /\ doubtful' \in [Replicas -> SUBSET Workloads]
          /\ added' \in [Replicas -> [Workloads -> Statuses \cup {NoRun}]]
          /\ raised' \in [Replicas -> SUBSET Workloads]
          /\ busy' = busy \ {p}
      BY <2>1, PolicyAssumption DEF IndInv, TypeOK, EndJob
    <3>. QED
      BY <1>4, <3>1 DEF IndInv, TypeOK, Shutdown, JobError, rows, ticks
  <2>3. \A q \in Replicas \ {p} : /\ at'[q] = at[q]
                                  /\ todo'[q] = todo[q]
                                  /\ doubtful'[q] = doubtful[q]
                                  /\ added'[q] = added[q]
                                  /\ raised'[q] = raised[q]
    BY <2>1 DEF IndInv, TypeOK, EndJob
  <2>4. busy' = busy \ {p} /\ doubtful'[p] = {} /\ raised'[p] = {}
        /\ busy \subseteq Replicas
    BY <2>1 DEF IndInv, TypeOK, EndJob
  <2>5. Idle'
    BY <2>3, <2>4 DEF IndInv, Idle
  <2>. QED
    BY <2>1, <2>2, <2>3, <2>4, <2>5, QuietInv
<1>5. ASSUME NEW p \in Replicas, Fire(p) \/ Job(p) PROVE IndInv'
  BY <1>5, FireInv, RunChecksInv, RaiseAlertInv, CommitInv DEF Job
<1>6. ASSUME NEW w \in Workloads, ResolveAlert(w) PROVE IndInv'
  BY <1>6, ResolveAlertInv
<1>. QED
  BY <1>1, <1>2, <1>3, <1>4, <1>5, <1>6 DEF Next

(* The tables and the jobs under way are always in a state of the          *)
(* inductive invariant, for any API processes, workloads, checks, ages and *)
(* threshold.                                                              *)
THEOREM ValidationInvariance == Spec => []IndInv
BY InitIndInv, NextIndInv, PTL DEF Spec

(* Jobs of _run_validation_policy that overlap leave at most one open      *)
(* alert of a workload per API process, whatever users resolve meanwhile.  *)
THEOREM AlertBoundTheorem == Spec => []OpenAlertsBounded
<1>1. IndInv => OpenAlertsBounded
  <2>. SUFFICES ASSUME IndInv, NEW w \in Workloads
                PROVE  open[w] <= Cardinality(Replicas)
    BY DEF OpenAlertsBounded
  <2>1. Raisers(w) \subseteq Replicas
    BY DEF Raisers, IndInv, TypeOK
  <2>2. Cardinality(Raisers(w)) \in Nat /\ Cardinality(Replicas) \in Nat
    BY <2>1, RaisersFinite
  <2>3. open[w] + Cardinality(Raisers(w)) <= Cardinality(Replicas)
    BY DEF IndInv, AlertsCounted
  <2>4. open[w] \in Nat
    BY DEF IndInv, TypeOK
  <2>. QED
    BY <2>2, <2>3, <2>4
<1>. QED
  BY <1>1, ValidationInvariance, PTL

(* Every open alert is backed by committed runs: a roll-back takes the     *)
(* alert with it, and only a job that overlapped another may have taken    *)
(* failures for a streak between which one passed.                         *)
THEOREM AlertTheorem == Spec => []AlertIsEarned
<1>1. IndInv => AlertIsEarned
  BY DEF IndInv
<1>. QED
  BY <1>1, ValidationInvariance, PTL

(* A streak that a job on its own completes has its alert unless a user    *)
(* resolved it since: overlaps, roll-backs and restarts lose none for      *)
(* longer.                                                                 *)
THEOREM NoMissedAlertTheorem == Spec => []NoMissedAlert
<1>1. IndInv => NoMissedAlert
  BY DEF IndInv
<1>. QED
  BY <1>1, ValidationInvariance, PTL

=============================================================================
