--------------------------- MODULE InventoryProofs ---------------------------
(***************************************************************************)
(* For any appliances, tests, attempts and Veeam objects: the inventory    *)
(* syncs that run side by side never give an object a second workload, a   *)
(* list is taken as a whole or not at all, and the targets a user chose    *)
(* survive every sync.                                                     *)
(***************************************************************************)
EXTENDS Inventory, TLAPS, FiniteSetTheorems, FunctionTheorems

(* Attempts that were not made have sent nothing.                          *)
Ahead == \A s \in Syncs : s[2] > attempt[s[1]] => sync[s].state = "unsent"

(* Only an open transaction has written anything.                          *)
Released ==
    \A s \in Syncs : sync[s].state # "open" =>
        sync[s].insert = {} /\ sync[s].update = {}

(* The unique index keeps the transactions of an appliance apart.          *)
Apart ==
    \A s, t \in Syncs :
        s # t /\ App(s) = App(t) => Written(s) \cap Written(t) = {}

(* A transaction writes what its list names, and what it found when it     *)
(* wrote an object is still so.                                            *)
StillSo ==
    \A s \in Syncs :
        /\ Written(s) \subseteq Listed(s)
        /\ \A o \in sync[s].insert : RowsOf(App(s), o) = {}
        /\ \A o \in sync[s].update : RowsOf(App(s), o) # {}

OneRow ==
    \A v, w \in rows :
        v.appliance = w.appliance /\ v.object = w.object => v = w

(* A user can only choose targets for a workload that is there.            *)
Untouched ==
    \A a \in Appliances, o \in Objects :
        RowsOf(a, o) = {} => chosen[a][o] = NoTargets

IndInv ==
    /\ TypeOK
    /\ Ahead
    /\ Released
    /\ Apart
    /\ StillSo
    /\ OneRow
    /\ Untouched
    /\ SyncIsAtomic
    /\ TargetsKept

-----------------------------------------------------------------------------
(* Requests and rows                                                        *)

LEMMA SyncTyped ==
    ASSUME NEW s \in Syncs
    PROVE  s[1] \in Runs /\ s[2] \in 1..MaxAttempts /\ App(s) \in Appliances
BY InventoryAssumption DEF Syncs, App

LEMMA RequestTyped == ASSUME IndInv, NEW s \in Syncs PROVE sync[s] \in Requests
BY DEF IndInv, TypeOK

LEMMA UnsentTyped ==
    /\ Unsent \in Requests /\ Unsent.state = "unsent"
    /\ Unsent.insert = {} /\ Unsent.update = {}
BY DEF Unsent, Requests

(* Only the attempt that is made, or one that was, changes its request.    *)
LEMMA AheadStep ==
    ASSUME TypeOK, Ahead, NEW s \in Syncs, sync[s].state # "unsent", NEW v,
           sync' = [sync EXCEPT ![s] = v], UNCHANGED attempt
    PROVE  Ahead'
<1>1. ASSUME NEW t \in Syncs, t[2] > attempt[t[1]] PROVE sync'[t].state = "unsent"
  <2>1. sync[t].state = "unsent"
    BY <1>1 DEF Ahead
  <2>2. t # s
    BY <2>1
  <2>. QED
    BY <2>1, <2>2 DEF TypeOK
<1>. QED
  BY <1>1 DEF Ahead

(* What a request may become without touching the table: its transaction   *)
(* begins, writes one more object that nobody else has written, is rolled  *)
(* back, or its answer gets lost.                                          *)
LEMMA RequestStep ==
    ASSUME IndInv, NEW s \in Syncs, NEW v \in Requests,
           sync' = [sync EXCEPT ![s] = v], UNCHANGED <<rows, chosen>>,
           v.state # "open" => v.insert = {} /\ v.update = {},
           \A o \in v.insert \cup v.update :
             /\ v.list[o] > 0
             /\ \A t \in Syncs : t # s /\ App(t) = App(s) => o \notin Written(t),
           \A o \in v.insert : RowsOf(App(s), o) = {},
           \A o \in v.update : RowsOf(App(s), o) # {},
           sync[s].state \in {"committed", "lost"}
             <=> v.state \in {"committed", "lost"},
           v.state \in {"committed", "lost"} => v.list = sync[s].list
    PROVE  /\ Released' /\ Apart' /\ StillSo' /\ OneRow' /\ Untouched'
           /\ SyncIsAtomic' /\ TargetsKept'
<1>1. /\ sync'[s] = v
      /\ \A t \in Syncs : t # s => sync'[t] = sync[t]
      /\ DOMAIN sync = Syncs
  BY DEF IndInv, TypeOK
<1>2. \A a, o : RowsOf(a, o)' = RowsOf(a, o)
  BY DEF RowsOf
<1>3. Released'
  BY <1>1 DEF IndInv, Released
<1>4. Apart'
  <2>1. \A t \in Syncs : t # s => Written(t)' = Written(t)
    BY <1>1 DEF Written
  <2>2. Written(s)' = v.insert \cup v.update
    BY <1>1 DEF Written
  <2>3. ASSUME NEW t \in Syncs, t # s, App(t) = App(s)
        PROVE  Written(s)' \cap Written(t)' = {}
    BY <2>1, <2>2, <2>3
  <2>4. ASSUME NEW t \in Syncs, NEW u \in Syncs, t # u, App(t) = App(u)
        PROVE  Written(t)' \cap Written(u)' = {}
    <3>1. CASE t = s
      BY <2>3, <2>4, <3>1
    <3>2. CASE u = s
      BY <2>3, <2>4, <3>2
    <3>3. CASE t # s /\ u # s
      BY <2>1, <2>4, <3>3 DEF IndInv, Apart
    <3>. QED
      BY <3>1, <3>2, <3>3
  <2>. QED
    BY <2>4 DEF Apart, App
<1>5. StillSo'
  <2>1. ASSUME NEW t \in Syncs
        PROVE  /\ Written(t)' \subseteq Listed(t)'
               /\ \A o \in sync'[t].insert : RowsOf(App(t), o) = {}
               /\ \A o \in sync'[t].update : RowsOf(App(t), o) # {}
    <3>1. CASE t = s
      BY <1>1, <3>1 DEF Written, Listed, Requests
    <3>2. CASE t # s
      BY <1>1, <3>2 DEF IndInv, StillSo, Written, Listed
    <3>. QED
      BY <3>1, <3>2
  <2>. QED
    BY <1>2, <2>1 DEF StillSo, App
<1>6. OneRow' /\ Untouched' /\ TargetsKept'
  BY <1>2 DEF IndInv, OneRow, Untouched, TargetsKept
<1>7. SyncIsAtomic'
  <2>1. ASSUME NEW t \in Syncs, sync'[t].state \in {"committed", "lost"}
        PROVE  \A o \in Listed(t)' : RowsOf(App(t), o) # {}
    <3>1. sync[t].state \in {"committed", "lost"}
      BY <1>1, <2>1
    <3>2. Listed(t)' = Listed(t)
      BY <1>1, <2>1 DEF Listed
    <3>. QED
      BY <3>1, <3>2 DEF IndInv, SyncIsAtomic
  <2>2. ASSUME NEW w \in rows PROVE sync'[w.id].state \in {"committed", "lost"}
    <3>1. sync[w.id].state \in {"committed", "lost"} /\ w.id \in Syncs
      BY DEF IndInv, SyncIsAtomic, TypeOK, Workloads
    <3>. QED
      BY <1>1, <3>1
  <2>. QED
    BY <1>2, <2>1, <2>2 DEF SyncIsAtomic, App
<1>. QED
  BY <1>3, <1>4, <1>5, <1>6, <1>7

-----------------------------------------------------------------------------
(* The actions                                                              *)

LEMMA InitInv == Init => IndInv
<1>. SUFFICES ASSUME Init PROVE IndInv
  OBVIOUS
<1>1. TypeOK
  BY InventoryAssumption, UnsentTyped DEF Init, TypeOK
<1>2. Ahead /\ Released /\ Apart
  BY UnsentTyped DEF Init, Ahead, Released, Apart, Written
<1>3. StillSo
  BY UnsentTyped DEF Init, StillSo, Written
<1>4. OneRow /\ Untouched /\ TargetsKept
  BY DEF Init, OneRow, Untouched, TargetsKept
<1>5. SyncIsAtomic
  BY UnsentTyped DEF Init, SyncIsAtomic
<1>. QED
  BY <1>1, <1>2, <1>3, <1>4, <1>5 DEF IndInv

(* A new attempt, the first one or after a failure or a timeout.           *)
LEMMA PostInv ==
    ASSUME IndInv, NEW r \in Runs, SyncInventory(r) \/ Timeout(r) PROVE IndInv'
<1>. DEFINE s == <<r, attempt[r] + 1>>
            v == [Unsent EXCEPT !.state = "posted", !.list = veeam]
<1>1. /\ attempt[r] \in Nat /\ attempt[r] < MaxAttempts
      /\ attempt' = [attempt EXCEPT ![r] = @ + 1]
      /\ sync' = [sync EXCEPT ![s] = v]
      /\ faults' \in Nat
      /\ UNCHANGED <<veeam, registry, activity, rows, chosen>>
  BY InventoryAssumption DEF SyncInventory, Timeout, Fault, IndInv, TypeOK
<1>2. s \in Syncs /\ s[1] = r /\ s[2] = attempt[r] + 1
  BY <1>1, InventoryAssumption DEF Syncs
<1>3. v \in Requests /\ v.state = "posted" /\ v.insert = {} /\ v.update = {}
  BY DEF Unsent, Requests, IndInv, TypeOK
<1>4. sync[s].state = "unsent"
  BY <1>1, <1>2 DEF IndInv, Ahead
<1>. HIDE DEF s, v
<1>5. TypeOK'
  BY <1>1, <1>2, <1>3, InventoryAssumption DEF IndInv, TypeOK, registry
<1>6. Ahead'
  <2>1. ASSUME NEW t \in Syncs, t[2] > attempt'[t[1]]
        PROVE  sync'[t].state = "unsent"
    <3>1. t[1] \in Runs /\ t[2] \in Nat
      BY SyncTyped
    <3>2. t[2] > attempt[t[1]] /\ t # s
      BY <1>1, <1>2, <2>1, <3>1 DEF IndInv, TypeOK
    <3>. QED
      BY <1>1, <3>2 DEF IndInv, TypeOK, Ahead
  <2>. QED
    BY <2>1 DEF Ahead
<1>. QED
  BY <1>1, <1>2, <1>3, <1>4, <1>5, <1>6, RequestStep DEF IndInv

LEMMA InventorySyncInv ==
    ASSUME IndInv, NEW s \in Syncs, InventorySync(s) PROVE IndInv'
<1>. DEFINE v == [sync[s] EXCEPT !.state = "open"]
<1>1. /\ sync' = [sync EXCEPT ![s] = v] /\ sync[s].state = "posted"
      /\ UNCHANGED <<veeam, registry, attempt, activity, rows, chosen, faults>>
  BY DEF InventorySync
<1>2. v \in Requests /\ v.state = "open"
      /\ v.insert = sync[s].insert /\ v.update = sync[s].update
  BY RequestTyped DEF Requests
<1>3. v.insert = {} /\ v.update = {}
  BY <1>1, <1>2 DEF IndInv, Released
<1>. HIDE DEF v
<1>4. TypeOK' /\ Ahead'
  BY <1>1, <1>2, AheadStep DEF IndInv, TypeOK, registry
<1>5. /\ v.state \notin {"committed", "lost"}
      /\ sync[s].state \notin {"committed", "lost"}
  BY <1>1, <1>2
<1>6. /\ Released' /\ Apart' /\ StillSo' /\ OneRow' /\ Untouched'
      /\ SyncIsAtomic' /\ TargetsKept'
  BY <1>1, <1>2, <1>3, <1>5, RequestStep
<1>. QED
  BY <1>4, <1>6 DEF IndInv

LEMMA AbortInv ==
    ASSUME IndInv, NEW s \in Syncs, sync[s].state \in {"posted", "open"},
           Abort(s), faults' \in Nat,
           UNCHANGED <<veeam, registry, attempt, activity, rows, chosen>>
    PROVE  IndInv'
<1>. DEFINE v == [sync[s] EXCEPT !.state = "aborted", !.insert = {}, !.update = {}]
<1>1. sync' = [sync EXCEPT ![s] = v]
  BY DEF Abort, IndInv, TypeOK
<1>2. v \in Requests /\ v.state = "aborted" /\ v.insert = {} /\ v.update = {}
  BY RequestTyped DEF Requests
<1>. HIDE DEF v
<1>3. TypeOK' /\ Ahead'
  BY <1>1, <1>2, AheadStep DEF IndInv, TypeOK, registry
<1>. QED
  BY <1>1, <1>2, <1>3, RequestStep DEF IndInv

LEMMA AnswerLostInv ==
    ASSUME IndInv, NEW s \in Syncs, AnswerLost(s) PROVE IndInv'
<1>. DEFINE v == [sync[s] EXCEPT !.state = "lost"]
<1>1. /\ sync' = [sync EXCEPT ![s] = v] /\ sync[s].state = "committed"
      /\ faults' \in Nat
      /\ UNCHANGED <<veeam, registry, attempt, activity, rows, chosen>>
  BY DEF AnswerLost, Fault, IndInv, TypeOK
<1>2. v \in Requests /\ v.state = "lost" /\ v.list = sync[s].list
      /\ v.insert = sync[s].insert /\ v.update = sync[s].update
  BY RequestTyped DEF Requests
<1>3. v.insert = {} /\ v.update = {}
  BY <1>1, <1>2 DEF IndInv, Released
<1>. HIDE DEF v
<1>4. TypeOK' /\ Ahead'
  BY <1>1, <1>2, AheadStep DEF IndInv, TypeOK, registry
<1>5. /\ v.state \in {"committed", "lost"}
      /\ sync[s].state \in {"committed", "lost"}
  BY <1>1, <1>2
<1>6. /\ Released' /\ Apart' /\ StillSo' /\ OneRow' /\ Untouched'
      /\ SyncIsAtomic' /\ TargetsKept'
  BY <1>1, <1>2, <1>3, <1>5, RequestStep
<1>. QED
  BY <1>4, <1>6 DEF IndInv

LEMMA UpsertInv ==
    ASSUME IndInv, NEW s \in Syncs, NEW o \in Objects, Upsert(s, o) PROVE IndInv'
<1>. DEFINE v == IF RowsOf(App(s), o) = {}
                 THEN [sync[s] EXCEPT !.insert = @ \cup {o}]
                 ELSE [sync[s] EXCEPT !.update = @ \cup {o}]
<1>1. /\ sync' = [sync EXCEPT ![s] = v] /\ sync[s].state = "open"
      /\ sync[s].list[o] > 0 /\ o \notin Locked(App(s), s)
      /\ UNCHANGED <<veeam, registry, attempt, activity, rows, chosen, faults>>
  <2>1. CASE RowsOf(App(s), o) = {}
    BY <2>1 DEF Upsert, Listed
  <2>2. CASE RowsOf(App(s), o) # {}
    BY <2>2 DEF Upsert, Listed
  <2>. QED
    BY <2>1, <2>2
<1>2. /\ v \in Requests /\ v.state = sync[s].state /\ v.list = sync[s].list
      /\ v.insert = IF RowsOf(App(s), o) = {} THEN sync[s].insert \cup {o}
                    ELSE sync[s].insert
      /\ v.update = IF RowsOf(App(s), o) = {} THEN sync[s].update
                    ELSE sync[s].update \cup {o}
  <2>1. sync[s] \in Requests
    BY DEF IndInv, TypeOK
  <2>. QED
    BY <2>1 DEF Requests
<1>. HIDE DEF v
<1>3. \A x \in v.insert : RowsOf(App(s), x) = {}
  BY <1>2 DEF IndInv, StillSo
<1>4. \A x \in v.update : RowsOf(App(s), x) # {}
  BY <1>2 DEF IndInv, StillSo
<1>5. \A x \in v.insert \cup v.update : x = o \/ x \in Written(s)
  BY <1>2 DEF Written
<1>6. \A x \in v.insert \cup v.update : v.list[x] > 0
  BY <1>1, <1>2, <1>5 DEF IndInv, StillSo, Listed
<1>7. ASSUME NEW t \in Syncs, t # s, App(t) = App(s),
             NEW x \in v.insert \cup v.update
      PROVE  x \notin Written(t)
  <2>1. CASE x = o
    <3>1. CASE sync[t].state = "open"
      BY <1>1, <1>7, <2>1, <3>1 DEF Locked
    <3>2. CASE sync[t].state # "open"
      BY <3>2 DEF IndInv, Released, Written
    <3>. QED
      BY <3>1, <3>2
  <2>2. CASE x \in Written(s)
    BY <1>7, <2>2 DEF IndInv, Apart
  <2>. QED
    BY <1>5, <2>1, <2>2
<1>8. TypeOK' /\ Ahead'
  BY <1>1, <1>2, AheadStep DEF IndInv, TypeOK, registry
<1>9. \A x \in v.insert \cup v.update :
        /\ v.list[x] > 0
        /\ \A t \in Syncs : t # s /\ App(t) = App(s) => x \notin Written(t)
  BY <1>6, <1>7
<1>10. v.state = "open" /\ v.state \notin {"committed", "lost"}
       /\ sync[s].state \notin {"committed", "lost"}
  BY <1>1, <1>2
<1>11. /\ Released' /\ Apart' /\ StillSo' /\ OneRow' /\ Untouched'
       /\ SyncIsAtomic' /\ TargetsKept'
  BY <1>1, <1>2, <1>3, <1>4, <1>9, <1>10, RequestStep
<1>. QED
  BY <1>8, <1>11 DEF IndInv

(* The row a sync updates keeps all but its name.                          *)
LEMMA UpdatedRowTyped ==
    ASSUME TypeOK, NEW s \in Syncs, NEW w \in rows
    PROVE  /\ UpdatedRow(s, w) \in Workloads
           /\ UpdatedRow(s, w).appliance = w.appliance
           /\ UpdatedRow(s, w).object = w.object
           /\ UpdatedRow(s, w).id = w.id
           /\ UpdatedRow(s, w).targets = w.targets
<1>1. w \in Workloads /\ sync[s].list \in [Objects -> Nat]
  BY DEF TypeOK, Requests
<1>2. sync[s].list[w.object] \in Nat
  BY <1>1 DEF Workloads
<1>. QED
  BY <1>1, <1>2 DEF UpdatedRow, Workloads

LEMMA NewRowTyped ==
    ASSUME TypeOK, NEW s \in Syncs, NEW o \in Objects
    PROVE  /\ NewRow(s, o) \in Workloads
           /\ NewRow(s, o).appliance = App(s) /\ NewRow(s, o).object = o
           /\ NewRow(s, o).id = s /\ NewRow(s, o).targets = NoTargets
<1>1. sync[s].list[o] \in Nat /\ App(s) \in Appliances
  BY SyncTyped DEF TypeOK, Requests
<1>. QED
  BY <1>1 DEF NewRow, Workloads

LEMMA CommitInv == ASSUME IndInv, NEW s \in Syncs, Commit(s) PROVE IndInv'
<1>. DEFINE v == [sync[s] EXCEPT !.state = "committed", !.insert = {}, !.update = {}]
            insert == sync[s].insert
<1>1. /\ sync' = [sync EXCEPT ![s] = v] /\ sync[s].state = "open"
      /\ Written(s) = Listed(s)
      /\ UNCHANGED <<veeam, registry, attempt, activity, chosen, faults>>
  BY DEF Commit, IndInv, TypeOK
<1>2. /\ v \in Requests /\ v.state = "committed" /\ v.list = sync[s].list
      /\ v.insert = {} /\ v.update = {}
  BY RequestTyped DEF Requests
<1>3. /\ sync'[s] = v
      /\ \A t \in Syncs : t # s => sync'[t] = sync[t]
  BY <1>1 DEF IndInv, TypeOK
<1>. HIDE DEF v
<1>4. rows' = {UpdatedRow(s, w) : w \in rows} \cup {NewRow(s, o) : o \in insert}
  BY DEF Commit
<1>5. insert \subseteq Objects /\ \A o \in insert : RowsOf(App(s), o) = {}
  BY DEF IndInv, TypeOK, Requests, StillSo
<1>6. TypeOK
  BY DEF IndInv
<1>. HIDE DEF insert
<1>7. ASSUME NEW x \in rows'
      PROVE  \/ \E w \in rows : x = UpdatedRow(s, w)
             \/ \E o \in insert : x = NewRow(s, o)
  BY <1>4
(* Which objects have a row after the commit.                              *)
<1>8. ASSUME NEW a, NEW o, RowsOf(a, o) # {} PROVE RowsOf(a, o)' # {}
  <2>1. PICK w \in rows : w.appliance = a /\ w.object = o
    BY <1>8 DEF RowsOf
  <2>2. UpdatedRow(s, w) \in rows'
    BY <1>4
  <2>. QED
    BY <1>6, <2>1, <2>2, UpdatedRowTyped DEF RowsOf
<1>9. ASSUME NEW o \in insert PROVE RowsOf(App(s), o)' # {}
  <2>1. NewRow(s, o) \in rows'
    BY <1>4
  <2>. QED
    BY <1>5, <1>6, <2>1, NewRowTyped DEF RowsOf
<1>10. ASSUME NEW a, NEW o, RowsOf(a, o)' # {}, ~(a = App(s) /\ o \in insert)
       PROVE  RowsOf(a, o) # {}
  <2>1. PICK x \in rows' : x.appliance = a /\ x.object = o
    BY <1>10 DEF RowsOf
  <2>2. CASE \E w \in rows : x = UpdatedRow(s, w)
    BY <1>6, <2>1, <2>2, UpdatedRowTyped DEF RowsOf
  <2>3. CASE \E p \in insert : x = NewRow(s, p)
    BY <1>5, <1>6, <1>10, <2>1, <2>3, NewRowTyped
  <2>. QED
    BY <1>7, <2>2, <2>3
<1>11. TypeOK' /\ Ahead'
  <2>1. rows' \subseteq Workloads
    BY <1>5, <1>6, <1>7, UpdatedRowTyped, NewRowTyped
  <2>. QED
    BY <1>1, <1>2, <2>1, AheadStep DEF IndInv, TypeOK, registry
<1>12. Released'
  BY <1>2, <1>3 DEF IndInv, Released
<1>13. Apart' /\ StillSo'
  <2>1. Written(s)' = {} /\ \A t \in Syncs : t # s => Written(t)' = Written(t)
    BY <1>2, <1>3 DEF Written
  <2>2. Apart'
    BY <2>1 DEF IndInv, Apart, App
  <2>3. ASSUME NEW t \in Syncs, t # s, NEW o \in sync[t].insert
        PROVE  RowsOf(App(t), o)' = {}
    <3>1. RowsOf(App(t), o) = {}
      BY DEF IndInv, StillSo
    <3>2. ~(App(t) = App(s) /\ o \in insert)
      BY <2>3 DEF IndInv, Apart, Written, insert
    <3>. QED
      BY <1>10, <3>1, <3>2
  <2>4. ASSUME NEW t \in Syncs, t # s, NEW o \in sync[t].update
        PROVE  RowsOf(App(t), o)' # {}
    BY <1>8 DEF IndInv, StillSo
  <2>5. ASSUME NEW t \in Syncs
        PROVE  /\ Written(t)' \subseteq Listed(t)'
               /\ \A o \in sync'[t].insert : RowsOf(App(t), o)' = {}
               /\ \A o \in sync'[t].update : RowsOf(App(t), o)' # {}
    <3>1. CASE t = s
      BY <1>2, <1>3, <2>1, <3>1
    <3>2. CASE t # s
      BY <1>3, <2>1, <2>3, <2>4, <3>2 DEF IndInv, StillSo, Listed
    <3>. QED
      BY <3>1, <3>2
  <2>. QED
    BY <2>2, <2>5 DEF StillSo, App
<1>14. OneRow'
  <2>1. ASSUME NEW x \in rows', NEW y \in rows',
               x.appliance = y.appliance, x.object = y.object
        PROVE  x = y
    <3>1. CASE /\ \E w \in rows : x = UpdatedRow(s, w)
               /\ \E w \in rows : y = UpdatedRow(s, w)
      BY <1>6, <2>1, <3>1, UpdatedRowTyped DEF IndInv, OneRow
    <3>2. CASE /\ \E o \in insert : x = NewRow(s, o)
               /\ \E o \in insert : y = NewRow(s, o)
      BY <1>5, <1>6, <2>1, <3>2, NewRowTyped
    <3>3. CASE /\ \E w \in rows : x = UpdatedRow(s, w)
               /\ \E o \in insert : y = NewRow(s, o)
      BY <1>5, <1>6, <2>1, <3>3, UpdatedRowTyped, NewRowTyped DEF RowsOf
    <3>4. CASE /\ \E o \in insert : x = NewRow(s, o)
               /\ \E w \in rows : y = UpdatedRow(s, w)
      BY <1>5, <1>6, <2>1, <3>4, UpdatedRowTyped, NewRowTyped DEF RowsOf
    <3>. QED
      BY <1>7, <3>1, <3>2, <3>3, <3>4
  <2>. QED
    BY <2>1 DEF OneRow
<1>15. Untouched'
  BY <1>1, <1>8 DEF IndInv, Untouched
<1>16. SyncIsAtomic'
  <2>1. ASSUME NEW t \in Syncs, sync'[t].state \in {"committed", "lost"},
               NEW o \in Listed(t)'
        PROVE  RowsOf(App(t), o)' # {}
    <3>1. CASE t = s
      <4>1. o \in insert \/ o \in sync[s].update
        BY <1>1, <1>2, <1>3, <2>1, <3>1 DEF Listed, Written, insert
      <4>2. o \in sync[s].update => RowsOf(App(s), o) # {}
        BY DEF IndInv, StillSo
      <4>. QED
        BY <1>8, <1>9, <3>1, <4>1, <4>2
    <3>2. CASE t # s
      <4>1. RowsOf(App(t), o) # {}
        BY <1>3, <2>1, <3>2 DEF IndInv, SyncIsAtomic, Listed
      <4>. QED
        BY <1>8, <4>1
    <3>. QED
      BY <3>1, <3>2
  <2>2. ASSUME NEW x \in rows' PROVE sync'[x.id].state \in {"committed", "lost"}
    <3>1. CASE \E w \in rows : x = UpdatedRow(s, w)
      <4>1. PICK w \in rows : x = UpdatedRow(s, w)
        BY <3>1
      <4>2. x.id = w.id /\ w.id \in Syncs
        BY <1>6, <4>1, UpdatedRowTyped DEF TypeOK, Workloads
      <4>3. sync[w.id].state \in {"committed", "lost"}
        BY DEF IndInv, SyncIsAtomic
      <4>. QED
        BY <1>2, <1>3, <4>2, <4>3
    <3>2. CASE \E o \in insert : x = NewRow(s, o)
      BY <1>2, <1>3, <1>5, <1>6, <3>2, NewRowTyped
    <3>. QED
      BY <1>7, <3>1, <3>2
  <2>. QED
    BY <2>1, <2>2 DEF SyncIsAtomic, App
<1>17. TargetsKept'
  <2>1. ASSUME NEW x \in rows' PROVE x.targets = chosen[x.appliance][x.object]
    <3>1. CASE \E w \in rows : x = UpdatedRow(s, w)
      BY <1>6, <3>1, UpdatedRowTyped DEF IndInv, TargetsKept
    <3>2. CASE \E o \in insert : x = NewRow(s, o)
      <4>1. PICK o \in insert : x = NewRow(s, o)
        BY <3>2
      <4>2. chosen[App(s)][o] = NoTargets
        BY <1>5, SyncTyped DEF IndInv, Untouched
      <4>. QED
        BY <1>5, <1>6, <4>1, <4>2, NewRowTyped
    <3>. QED
      BY <1>7, <3>1, <3>2
  <2>. QED
    BY <1>1, <2>1 DEF TargetsKept
<1>. QED
  BY <1>11, <1>12, <1>13, <1>14, <1>15, <1>16, <1>17 DEF IndInv

LEMMA SetTargetsInv ==
    ASSUME IndInv, NEW a \in Appliances, NEW o \in Objects, NEW t \in Targets,
           SetTargets(a, o, t)
    PROVE  IndInv'
<1>. DEFINE Changed(w) == IF w \in RowsOf(a, o) THEN [w EXCEPT !.targets = t] ELSE w
<1>1. /\ rows' = {Changed(w) : w \in rows}
      /\ chosen' = [chosen EXCEPT ![a][o] = t]
      /\ RowsOf(a, o) # {}
      /\ UNCHANGED <<veeam, registry, sync, attempt, activity, faults>>
  BY DEF SetTargets
<1>2. ASSUME NEW w \in rows
      PROVE  /\ Changed(w) \in Workloads
             /\ Changed(w).appliance = w.appliance
             /\ Changed(w).object = w.object
             /\ Changed(w).id = w.id
             /\ w.appliance \in Appliances /\ w.object \in Objects
             /\ Changed(w).targets = IF w.appliance = a /\ w.object = o
                                     THEN t ELSE w.targets
  BY DEF RowsOf, IndInv, TypeOK, Workloads
<1>. HIDE DEF Changed
<1>3. \A b, p : RowsOf(b, p) # {} <=> RowsOf(b, p)' # {}
  BY <1>1, <1>2 DEF RowsOf
<1>4. \A b \in Appliances, p \in Objects :
        chosen'[b][p] = IF b = a /\ p = o THEN t ELSE chosen[b][p]
  BY <1>1 DEF IndInv, TypeOK
<1>5. TypeOK'
  <2>1. rows' \subseteq Workloads
    BY <1>1, <1>2
  <2>2. chosen' \in [Appliances -> [Objects -> Targets \cup {NoTargets}]]
    BY <1>1 DEF IndInv, TypeOK
  <2>. QED
    BY <1>1, <2>1, <2>2 DEF IndInv, TypeOK, registry
<1>6. Ahead' /\ Released' /\ Apart'
  BY <1>1 DEF IndInv, Ahead, Released, Apart, Written, App
<1>7. StillSo'
  BY <1>1, <1>3 DEF IndInv, StillSo, Written, Listed, App
<1>8. OneRow'
  BY <1>1, <1>2 DEF IndInv, OneRow
<1>9. Untouched'
  BY <1>1, <1>3, <1>4 DEF IndInv, Untouched
<1>10. SyncIsAtomic'
  <2>1. \A w \in rows' : sync[w.id].state \in {"committed", "lost"}
    BY <1>1, <1>2 DEF IndInv, SyncIsAtomic
  <2>. QED
    BY <1>1, <1>3, <2>1 DEF IndInv, SyncIsAtomic, Listed, App
<1>11. TargetsKept'
  <2>1. ASSUME NEW w \in rows
        PROVE  Changed(w).targets
                 = chosen'[Changed(w).appliance][Changed(w).object]
    BY <1>2, <1>4 DEF IndInv, TargetsKept
  <2>. QED
    BY <1>1, <2>1 DEF TargetsKept
<1>. QED
  BY <1>5, <1>6, <1>7, <1>8, <1>9, <1>10, <1>11 DEF IndInv

(* Registration, the names of the VMs and the activity's result are none   *)
(* of the invariant's business.                                            *)
LEMMA OtherInv ==
    ASSUME IndInv, TypeOK', UNCHANGED <<sync, attempt, rows, chosen>> PROVE IndInv'
BY DEF IndInv, Ahead, Released, Apart, StillSo, OneRow, Untouched,
   SyncIsAtomic, TargetsKept, Written, Listed, RowsOf, App

LEMMA NextInv == ASSUME IndInv, [Next]_vars PROVE IndInv'
<1>1. ASSUME NEW a \in Appliances, NEW g \in Orgs, Register(a, g) PROVE IndInv'
  <2>1. TypeOK'
    BY <1>1 DEF Register, RegisterAppliance, IndInv, TypeOK
  <2>. QED
    BY <1>1, <2>1, OtherInv DEF Register
<1>2. ASSUME NEW a \in Appliances, DeregisterAppliance(a) PROVE IndInv'
  <2>1. TypeOK'
    BY <1>2 DEF DeregisterAppliance, IndInv, TypeOK
  <2>. QED
    BY <1>2, <2>1, OtherInv DEF DeregisterAppliance
<1>3. ASSUME NEW a \in Appliances, NEW o \in Objects, NEW t \in Targets,
             SetTargets(a, o, t)
      PROVE  IndInv'
  BY <1>3, SetTargetsInv
<1>4. ASSUME NEW o \in Objects, Protect(o) PROVE IndInv'
  <2>1. TypeOK'
    BY <1>4 DEF Protect, registry, IndInv, TypeOK
  <2>. QED
    BY <1>4, <2>1, OtherInv DEF Protect
<1>5. ASSUME NEW r \in Runs, SyncInventory(r) \/ Timeout(r) PROVE IndInv'
  BY <1>5, PostInv
<1>6. ASSUME NEW r \in Runs, Answer(r) PROVE IndInv'
  <2>1. TypeOK'
    BY <1>6 DEF Answer, registry, IndInv, TypeOK
  <2>. QED
    BY <1>6, <2>1, OtherInv DEF Answer
<1>7. ASSUME NEW s \in Syncs, InventorySync(s) PROVE IndInv'
  BY <1>7, InventorySyncInv
<1>8. ASSUME NEW s \in Syncs, NEW o \in Objects, Upsert(s, o) PROVE IndInv'
  BY <1>8, UpsertInv
<1>9. ASSUME NEW s \in Syncs, Commit(s) PROVE IndInv'
  BY <1>9, CommitInv
<1>10. ASSUME NEW s \in Syncs, Deadlock(s) PROVE IndInv'
  BY <1>10, AbortInv DEF Deadlock, IndInv, TypeOK
<1>11. ASSUME NEW s \in Syncs, RequestFails(s) PROVE IndInv'
  BY <1>11, AbortInv DEF RequestFails, Fault, IndInv, TypeOK
<1>12. ASSUME NEW s \in Syncs, AnswerLost(s) PROVE IndInv'
  BY <1>12, AnswerLostInv
<1>13. CASE UNCHANGED vars
  BY <1>13, OtherInv DEF vars, registry, IndInv, TypeOK
<1>. QED
  BY <1>1, <1>2, <1>3, <1>4, <1>5, <1>6, <1>7, <1>8, <1>9, <1>10, <1>11,
     <1>12, <1>13 DEF Next

-----------------------------------------------------------------------------
(* The count                                                                *)

(* Rows that no two of share an object are as many as their objects.       *)
LEMMA CountIsRight == IndInv => OneRowPerObject
<1>. SUFFICES ASSUME IndInv, NEW a \in Appliances
              PROVE  WorkloadCount(a)
                       = Cardinality({o \in Objects : RowsOf(a, o) # {}})
  BY DEF OneRowPerObject
<1>. DEFINE S == {o \in Objects : RowsOf(a, o) # {}}
            T == {w \in rows : w.appliance = a}
            row == [o \in S |-> CHOOSE w \in T : w.object = o]
<1>1. IsFiniteSet(S)
  BY InventoryAssumption, FS_Subset
<1>2. ASSUME NEW o \in S PROVE row[o] \in T /\ row[o].object = o
  <2>1. \E w \in T : w.object = o
    BY DEF RowsOf
  <2>. QED
    BY <2>1
<1>3. ASSUME NEW w \in T PROVE w.object \in S
  BY DEF RowsOf, IndInv, TypeOK, Workloads
<1>4. \A v, w \in T : v.object = w.object => v = w
  BY DEF IndInv, OneRow
<1>5. row \in Bijection(S, T)
  <2>1. row \in [S -> T]
    BY <1>2
  <2>. HIDE DEF S, T, row
  <2>2. \A o, p \in S : row[o] = row[p] => o = p
    BY <1>2
  <2>3. \A w \in T : \E o \in S : row[o] = w
    BY <1>2, <1>3, <1>4
  <2>. QED
    BY <2>1, <2>2, <2>3, Fun_IsBij
<1>6. Cardinality(T) = Cardinality(S)
  <2>. HIDE DEF S, T, row
  <2>1. ExistsBijection(S, T)
    BY <1>5 DEF ExistsBijection
  <2>. QED
    BY <1>1, <2>1, FS_Bijection
<1>. QED
  BY <1>6 DEF WorkloadCount

LEMMA SpecInv == Spec => []IndInv
<1>1. IndInv /\ [Next]_vars => IndInv'
  BY NextInv
<1>. QED
  BY <1>1, InitInv, PTL DEF Spec

-----------------------------------------------------------------------------
(* The tables and the requests keep their types.                           *)
THEOREM TypeTheorem == Spec => []TypeOK
<1>1. IndInv => TypeOK
  BY DEF IndInv
<1>. QED
  BY <1>1, SpecInv, PTL

(* accept_inventory_sync: whatever is posted, retried or handled side by   *)
(* side, an appliance counts one workload per Veeam object.                *)
THEOREM CountTheorem == Spec => []OneRowPerObject
BY CountIsRight, SpecInv, PTL

(* A list that was answered for has all its rows, one that failed has left *)
(* none, for lists of any length and any number of attempts.               *)
THEOREM AtomicTheorem == Spec => []SyncIsAtomic
<1>1. IndInv => SyncIsAtomic
  BY DEF IndInv
<1>. QED
  BY <1>1, SpecInv, PTL

(* The ON CONFLICT clause names no target: the targets a user chose are    *)
(* never undone by a sync.                                                 *)
THEOREM TargetsTheorem == Spec => []TargetsKept
<1>1. IndInv => TargetsKept
  BY DEF IndInv
<1>. QED
  BY <1>1, SpecInv, PTL
=============================================================================
