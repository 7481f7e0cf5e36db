---------------------------- MODULE AccessProofs ----------------------------
(***************************************************************************)
(* For any editors, logins, organisations and subjects: a stored secret is *)
(* never lost, no setting survives a PUT that did not send it, and a user  *)
(* is overwritten by other organisations only in the race they started     *)
(* before he was provisioned.                                              *)
(***************************************************************************)
EXTENDS Access, TLAPS

(* A request that has read a secret commits to a row that still has one.   *)
LoadedSecretKept ==
    \A e \in Editors : edit[e].loaded.secret # None => sso.secret # None

(* A PUT that will commit has passed _validate_request.                    *)
PutHasBody ==
    \A e \in Editors : edit[e].phase = "put" => edit[e].body \in Bodies

(* A PUT that is under way finds each setting as it was when it read the   *)
(* row, or as a PUT has sent it that committed since.                      *)
PutsMissNothing ==
    \A e \in Editors : edit[e].phase = "put" =>
        \A c \in Settings :
            \/ sso[c] = edit[e].loaded[c]
            \/ \E b \in edit[e].missed : sso[c] = b[c]

(* A request of another organisation that has passed the check for a user  *)
(* did so before he was provisioned.                                       *)
ForeignersRace ==
    \A u \in Subs : users[u].org # None =>
        \A a \in Checked(u) : OrgOf[a] = users[u].org \/ a \in users[u].racing

(* Nobody strays to a user who is not there.                               *)
NobodyStrays ==
    \A u \in Subs : users[u].org = None => users[u].strays = {}

(* Those who stray are of another organisation.                            *)
StraysAreForeign ==
    \A u \in Subs : \A a \in users[u].strays : OrgOf[a] # users[u].org

(* A request that has passed the check is about somebody.                  *)
ProvHasSub ==
    \A a \in Admins : prov[a].phase = "upsert" => prov[a].sub \in Subs

EditInv ==
    /\ SecretKept
    /\ LoadedSecretKept
    /\ PutHasBody
    /\ PutsMissNothing
    /\ SettingsAreSent

UserInv ==
    /\ ForeignersRace
    /\ NobodyStrays
    /\ StraysAreForeign
    /\ ProvHasSub
    /\ OverwritesRace

IndInv == AccessTypeOK /\ EditInv /\ UserInv

LEMMA RowsTyped ==
    /\ NoRow \in RowTypes
    /\ \A b \in Bodies : Inserted(b) \in RowTypes
    /\ NoRow.secret = None
    /\ \A b \in Bodies : Inserted(b).secret = b.secret
    /\ \A b \in Bodies : b.secret \in Secrets \cup {None}
    /\ \A b \in Bodies, c \in Settings : Inserted(b)[c] = b[c]
    /\ \A c \in Settings : NoRow[c] = NoBody[c]
BY DEF NoRow, NoBody, RowTypes, Inserted, Bodies, Protocols, Settings

(* The UPDATE of a PUT: the row keeps its form, its secret is the new one, *)
(* or the one that is there, and a setting is the new one if it differs    *)
(* from the one that was read.                                             *)
LEMMA UpdatedRow ==
    ASSUME NEW b \in Bodies, NEW loaded \in RowTypes, sso \in RowTypes
    PROVE  /\ Updated(b, loaded) \in RowTypes
           /\ Updated(b, loaded).secret =
                IF b.secret = None \/ b.secret = loaded.secret
                THEN sso.secret ELSE b.secret
           /\ \A c \in Settings :
                Updated(b, loaded)[c] = IF b[c] # loaded[c] THEN b[c] ELSE sso[c]
<1> DEFINE p == Column(b.protocol, loaded.protocol, sso.protocol)
           i == Column(b.issuer, loaded.issuer, sso.issuer)
           n == Column(b.entity, loaded.entity, sso.entity)
           k == IF b.secret = None THEN sso.secret
                ELSE Column(b.secret, loaded.secret, sso.secret)
           u == [sso EXCEPT !.protocol = p, !.issuer = i, !.entity = n,
                            !.secret = k]
<1>1. /\ p \in Protocols \cup {"none"} /\ i \in Issuers \cup {None}
      /\ n \in Entities \cup {None} /\ k \in Secrets \cup {None}
    BY DEF Column, RowTypes, Bodies
<1>2. k = IF b.secret = None \/ b.secret = loaded.secret
          THEN sso.secret ELSE b.secret
    BY DEF Column
<1>3. Updated(b, loaded) = u
    BY DEF Updated
<1>5. /\ p = IF b.protocol # loaded.protocol THEN b.protocol ELSE sso.protocol
      /\ i = IF b.issuer # loaded.issuer THEN b.issuer ELSE sso.issuer
      /\ n = IF b.entity # loaded.entity THEN b.entity ELSE sso.entity
    BY DEF Column
<1> HIDE DEF p, i, n, k
<1>4. /\ u \in RowTypes /\ u.secret = k
      /\ u.protocol = p /\ u.issuer = i /\ u.entity = n
    BY <1>1 DEF RowTypes
<1>6. \A c \in Settings : u[c] = IF b[c] # loaded[c] THEN b[c] ELSE sso[c]
    BY <1>4, <1>5 DEF Settings
<1> QED BY <1>2, <1>3, <1>4, <1>6

LEMMA InitIndInv == AccessInit => IndInv
<1> SUFFICES ASSUME AccessInit PROVE IndInv
    OBVIOUS
<1>1. AccessTypeOK
    BY RowsTyped DEF AccessInit, AccessTypeOK, LoginTypes, Idle, NoLogin, NoUser, NoProv, NoBody
<1>2. SecretKept /\ LoadedSecretKept /\ PutHasBody /\ PutsMissNothing
    BY RowsTyped DEF AccessInit, SecretKept, LoadedSecretKept, PutHasBody,
       PutsMissNothing, Idle
<1>3. SettingsAreSent
    BY RowsTyped DEF AccessInit, SettingsAreSent
<1>4. UserInv
    BY DEF AccessInit, UserInv, ForeignersRace, NobodyStrays, OverwritesRace,
       StraysAreForeign, ProvHasSub, NoUser, NoProv
<1> QED BY <1>1, <1>2, <1>3, <1>4 DEF IndInv, EditInv

-----------------------------------------------------------------------------
(* One lemma per group of handlers.                                        *)

LEMMA KeepUsers ==
    ASSUME IndInv, UNCHANGED <<users, prov>>
    PROVE  UserInv'
BY DEF IndInv, UserInv, ForeignersRace, NobodyStrays, OverwritesRace,
   StraysAreForeign, ProvHasSub, Checked

LEMMA KeepSettings ==
    ASSUME IndInv, UNCHANGED <<sso, edit, sent>>
    PROVE  EditInv'
BY DEF IndInv, EditInv, SecretKept, LoadedSecretKept, PutHasBody,
   PutsMissNothing, SettingsAreSent, sent

EditTypes ==
    [phase : {"idle", "put", "toggle"}, body : Bodies \cup {NoBody},
     loaded : RowTypes, missed : SUBSET Bodies]

LEMMA IdleTyped ==
    /\ Idle \in EditTypes /\ Idle.phase = "idle"
    /\ Idle.loaded.secret = None
BY RowsTyped DEF Idle, EditTypes

LEMMA ReadStep ==
    ASSUME IndInv, NEW e \in Editors,
           \/ \E role \in DOMAIN SystemRoles, b \in Bodies : UpsertRead(e, role, b)
           \/ \E role \in DOMAIN SystemRoles : ToggleRead(e, role)
    PROVE  IndInv'
<1>1. PICK x \in EditTypes :
        /\ edit' = [edit EXCEPT ![e] = x]
        /\ x.phase = "put" => x.body \in Bodies
        /\ x.loaded = sso
  <2>1. ASSUME NEW b \in Bodies,
               edit' = [edit EXCEPT ![e] = [phase |-> "put", body |-> b,
                                            loaded |-> sso, missed |-> {}]]
        PROVE  \E x \in EditTypes :
                 /\ edit' = [edit EXCEPT ![e] = x]
                 /\ x.phase = "put" => x.body \in Bodies
                 /\ x.loaded = sso
    <3> DEFINE x == [phase |-> "put", body |-> b, loaded |-> sso, missed |-> {}]
    <3>1. x \in EditTypes /\ x.body \in Bodies /\ x.loaded = sso
        BY DEF EditTypes, IndInv, AccessTypeOK
    <3> QED BY <2>1, <3>1
  <2>2. ASSUME edit' = [edit EXCEPT ![e] =
                          [Idle EXCEPT !.phase = "toggle", !.loaded = sso]]
        PROVE  \E x \in EditTypes :
                 /\ edit' = [edit EXCEPT ![e] = x]
                 /\ x.phase = "put" => x.body \in Bodies
                 /\ x.loaded = sso
    <3> DEFINE x == [Idle EXCEPT !.phase = "toggle", !.loaded = sso]
    <3>1. x \in EditTypes /\ x.phase = "toggle" /\ x.loaded = sso
        BY IdleTyped DEF EditTypes, IndInv, AccessTypeOK
    <3> QED BY <2>2, <3>1
  <2> QED BY <2>1, <2>2 DEF UpsertRead, ToggleRead
<1>2. served' \in Nat /\ UNCHANGED <<sso, login, users, prov, given, latest>>
    BY DEF UpsertRead, ToggleRead, Serve, sent, IndInv, AccessTypeOK
<1>3. /\ edit' \in [Editors -> EditTypes] /\ edit'[e] = x
      /\ \A f \in Editors : f # e => edit'[f] = edit[f]
    BY <1>1 DEF IndInv, AccessTypeOK, EditTypes
<1>4. AccessTypeOK'
    BY <1>2, <1>3 DEF IndInv, AccessTypeOK, EditTypes
<1>5. SecretKept' /\ LoadedSecretKept' /\ PutHasBody' /\ SettingsAreSent'
    BY <1>1, <1>2, <1>3 DEF IndInv, EditInv, SecretKept, LoadedSecretKept,
       PutHasBody, SettingsAreSent
<1>6. PutsMissNothing'
    BY <1>1, <1>2, <1>3 DEF IndInv, EditInv, PutsMissNothing
<1> QED BY <1>2, <1>4, <1>5, <1>6, KeepUsers DEF IndInv, EditInv

(* The commit of a PUT, whether it adds the row or changes it: the secret  *)
(* and each setting are its own, or those that are there and it has read   *)
(* or missed.                                                              *)
LEMMA CommitRow ==
    ASSUME IndInv, NEW e \in Editors, UpsertCommit(e)
    PROVE  /\ edit[e].body \in Bodies
           /\ sso' \in RowTypes
           /\ sso.secret # None => sso'.secret # None
           /\ given' => sso'.secret # None
           /\ \A c \in Settings :
                \/ sso'[c] = edit[e].body[c]
                \/ /\ sso'[c] = sso[c]
                   /\ \E b \in edit[e].missed : sso[c] = b[c]
<1> DEFINE b == edit[e].body
           loaded == edit[e].loaded
<1>1. /\ b \in Bodies /\ loaded \in RowTypes /\ sso \in RowTypes
      /\ b.secret \in Secrets \cup {None}
    BY RowsTyped DEF UpsertCommit, IndInv, EditInv, PutHasBody, AccessTypeOK
<1>2. /\ given' = (given \/ b.secret # None)
      /\ loaded = NoRow => sso = NoRow
      /\ sso' = IF loaded = NoRow THEN Inserted(b) ELSE Updated(b, loaded)
      /\ edit[e].phase = "put"
    BY DEF UpsertCommit
<1>3. /\ given => sso.secret # None
      /\ loaded.secret # None => sso.secret # None
      /\ \A c \in Settings :
           sso[c] = loaded[c] \/ \E m \in edit[e].missed : sso[c] = m[c]
    BY <1>2 DEF IndInv, EditInv, SecretKept, LoadedSecretKept, PutsMissNothing
<1>4. CASE loaded = NoRow
  <2>1. sso' = Inserted(b) /\ sso = NoRow /\ sso.secret = None
      BY <1>2, <1>4, RowsTyped
  <2> HIDE DEF b, loaded
  <2>2. sso' \in RowTypes /\ sso'.secret = b.secret
      BY <1>1, <2>1, RowsTyped
  <2>3. \A c \in Settings : sso'[c] = b[c]
      BY <1>1, <2>1, RowsTyped
  <2> QED BY <1>1, <1>2, <1>3, <2>1, <2>2, <2>3 DEF b
<1>5. CASE loaded # NoRow
  <2>1. sso' = Updated(b, loaded)
      BY <1>2, <1>5
  <2> HIDE DEF b, loaded
  <2>2. /\ sso' \in RowTypes
        /\ sso'.secret = IF b.secret = None \/ b.secret = loaded.secret
                         THEN sso.secret ELSE b.secret
        /\ \A c \in Settings : sso'[c] = IF b[c] # loaded[c] THEN b[c] ELSE sso[c]
      BY <1>1, <2>1, UpdatedRow
  <2>3. ASSUME NEW c \in Settings
        PROVE  \/ sso'[c] = b[c]
               \/ sso'[c] = sso[c] /\ \E m \in edit[e].missed : sso[c] = m[c]
      BY <1>3, <2>2
  <2> QED BY <1>1, <1>2, <1>3, <2>2, <2>3 DEF b
<1> QED BY <1>4, <1>5

LEMMA CommitStep ==
    ASSUME IndInv, NEW e \in Editors, UpsertCommit(e)
    PROVE  IndInv'
<1> PICK b \in Bodies : b = edit[e].body
    BY CommitRow
<1>1. /\ sso' \in RowTypes
      /\ sso.secret # None => sso'.secret # None
      /\ given' => sso'.secret # None
      /\ \A c \in Settings :
           \/ sso'[c] = b[c]
           \/ sso'[c] = sso[c] /\ \E m \in edit[e].missed : sso[c] = m[c]
    BY CommitRow
<1>2. /\ given' \in BOOLEAN
      /\ latest' = [body |-> b, missed |-> edit[e].missed]
      /\ edit' = Missed(e, b)
      /\ UNCHANGED <<login, users, prov, served>>
    BY DEF UpsertCommit
<1>3. edit \in [Editors -> EditTypes]
    BY DEF IndInv, AccessTypeOK, EditTypes
<1>4. ASSUME NEW f \in Editors, edit[f].phase = "put"
      PROVE  LET y == [edit[f] EXCEPT !.missed = @ \cup {b}] IN
             /\ y \in EditTypes /\ y.phase = "put" /\ y.body = edit[f].body
             /\ y.loaded = edit[f].loaded
             /\ y.missed = edit[f].missed \cup {b}
    BY <1>3, <1>4 DEF EditTypes
<1>5. ASSUME NEW f \in Editors
      PROVE  /\ edit'[f] \in EditTypes
             /\ edit'[f].loaded.secret # None => edit[f].loaded.secret # None
             /\ edit'[f].phase = "put" =>
                  /\ edit[f].phase = "put" /\ edit'[f].body = edit[f].body
                  /\ edit'[f].loaded = edit[f].loaded
                  /\ edit'[f].missed = edit[f].missed \cup {b}
  <2>1. CASE f = e
      BY <1>2, <2>1, IdleTyped DEF Missed
  <2>2. CASE f # e /\ edit[f].phase = "put"
    <3>1. edit'[f] = [edit[f] EXCEPT !.missed = @ \cup {b}]
        BY <1>2, <2>2 DEF Missed
    <3> QED BY <1>4, <2>2, <3>1
  <2>3. CASE f # e /\ edit[f].phase # "put"
    <3>1. edit'[f] = edit[f]
        BY <1>2, <2>3 DEF Missed
    <3> QED BY <1>3, <2>3, <3>1
  <2> QED BY <2>1, <2>2, <2>3
<1>6. AccessTypeOK'
  <2>1. edit' \in [Editors -> EditTypes]
      BY <1>2, <1>5 DEF Missed
  <2>2. latest' \in [body : Bodies \cup {NoBody}, missed : SUBSET Bodies]
      BY <1>2, <1>3 DEF EditTypes
  <2> QED BY <1>1, <1>2, <2>1, <2>2 DEF IndInv, AccessTypeOK, EditTypes
<1>7. SecretKept' /\ LoadedSecretKept' /\ PutHasBody'
    BY <1>1, <1>5 DEF IndInv, EditInv, SecretKept, LoadedSecretKept, PutHasBody
<1>8. PutsMissNothing'
  <2>1. ASSUME NEW f \in Editors, edit'[f].phase = "put", NEW c \in Settings
        PROVE  \/ sso'[c] = edit'[f].loaded[c]
               \/ \E m \in edit'[f].missed : sso'[c] = m[c]
    <3>1. /\ edit[f].phase = "put" /\ edit'[f].loaded = edit[f].loaded
          /\ edit'[f].missed = edit[f].missed \cup {b}
        BY <1>5, <2>1
    <3>2. \/ sso[c] = edit[f].loaded[c]
          \/ \E m \in edit[f].missed : sso[c] = m[c]
        BY <3>1 DEF IndInv, EditInv, PutsMissNothing
    <3> QED BY <1>1, <3>1, <3>2
  <2> QED BY <2>1 DEF PutsMissNothing
<1>9. SettingsAreSent'
    BY <1>1, <1>2 DEF SettingsAreSent
<1> QED BY <1>2, <1>6, <1>7, <1>8, <1>9, KeepUsers DEF IndInv, EditInv

(* A request that ends without touching the settings.                      *)
LEMMA EndStep ==
    ASSUME IndInv, NEW e \in Editors, InsertConflict(e) \/ ToggleCommit(e)
    PROVE  IndInv'
<1>1. /\ edit' = [edit EXCEPT ![e] = Idle]
      /\ UNCHANGED <<login, users, prov, given, latest, served>>
    BY DEF InsertConflict, ToggleCommit, sent
<1>2. /\ sso' \in RowTypes /\ sso'.secret = sso.secret
      /\ \A c \in Settings : sso'[c] = sso[c]
  <2>1. CASE InsertConflict(e)
      BY <2>1 DEF InsertConflict, IndInv, AccessTypeOK
  <2>2. CASE ToggleCommit(e)
    <3>1. sso' = [sso EXCEPT !.enabled = ~edit[e].loaded.enabled]
        BY <2>2 DEF ToggleCommit
    <3> QED BY <3>1 DEF IndInv, AccessTypeOK, RowTypes, Settings
  <2> QED BY <2>1, <2>2
<1>3. /\ edit' \in [Editors -> EditTypes] /\ edit'[e] = Idle
      /\ \A f \in Editors : f # e => edit'[f] = edit[f]
    BY <1>1, IdleTyped DEF IndInv, AccessTypeOK, EditTypes
<1>4. AccessTypeOK'
    BY <1>1, <1>2, <1>3 DEF IndInv, AccessTypeOK, EditTypes
<1>5. SecretKept' /\ LoadedSecretKept' /\ PutHasBody' /\ SettingsAreSent'
    BY <1>1, <1>2, <1>3, IdleTyped DEF IndInv, EditInv, SecretKept,
       LoadedSecretKept, PutHasBody, SettingsAreSent
<1>6. PutsMissNothing'
    BY <1>1, <1>2, <1>3, IdleTyped DEF IndInv, EditInv, PutsMissNothing
<1> QED BY <1>1, <1>4, <1>5, <1>6, KeepUsers DEF IndInv, EditInv

LEMMA LoginStep ==
    ASSUME IndInv, NEW t \in Tabs,
           \/ OidcLogin(t) \/ Granted(t) \/ ExchangeCode(t) \/ ExchangeFails(t)
           \/ \E n \in Tabs : OidcCallback(t, n)
    PROVE  IndInv'
<1>1. UNCHANGED <<sso, edit, users, prov, sent>> /\ served' \in Nat
  <2>1. served \in Nat
      BY DEF IndInv, AccessTypeOK
  <2>2. CASE OidcLogin(t)
      BY <2>1, <2>2 DEF OidcLogin, Serve
  <2>3. CASE ~OidcLogin(t)
      BY <2>1, <2>3 DEF Granted, ExchangeCode, ExchangeFails, OidcCallback
  <2> QED BY <2>2, <2>3
<1>2. sso \in RowTypes /\ login \in [Tabs -> LoginTypes]
    BY DEF IndInv, AccessTypeOK
<1>3. login' \in [Tabs -> LoginTypes]
  <2>1. CASE OidcLogin(t)
      BY <1>2, <2>1 DEF OidcLogin, LoginTypes, RowTypes
  <2>2. CASE Granted(t) \/ ExchangeFails(t)
      BY <1>2, <2>2 DEF Granted, ExchangeFails, LoginTypes
  <2>3. CASE ExchangeCode(t)
    <3> DEFINE ph == IF ValidateIdToken(t) THEN "in" ELSE "refused"
    <3>1. ph \in {"in", "refused"} /\ login' = [login EXCEPT ![t].phase = ph]
        BY <2>3 DEF ExchangeCode
    <3> HIDE DEF ph
    <3> QED BY <1>2, <3>1 DEF LoginTypes
  <2>4. CASE \E n \in Tabs : OidcCallback(t, n)
    <3> DEFINE ph == IF OidcOffered THEN "exchange" ELSE "refused"
               at == IF OidcOffered THEN sso.issuer ELSE None
    <3>1. ph \in {"exchange", "refused"} /\ at \in Issuers \cup {None}
        BY <1>2 DEF RowTypes
    <3>2. PICK n \in Tabs :
            login' = [login EXCEPT ![t].phase = ph, ![t].posted = n, ![t].at = at]
        BY <2>4 DEF OidcCallback
    <3> HIDE DEF ph, at
    <3> QED BY <1>2, <3>1, <3>2 DEF LoginTypes
  <2> QED BY <2>1, <2>2, <2>3, <2>4
<1>4. AccessTypeOK'
    BY <1>1, <1>3 DEF IndInv, AccessTypeOK, sent
<1> QED BY <1>1, <1>4, KeepUsers, KeepSettings DEF IndInv

UserTypes ==
    [org : {OrgOf[a] : a \in Admins} \cup {None},
     role : UserRoles \cup {"none"},
     racing : SUBSET Admins, strays : SUBSET Admins]

(* A request that passes the check: the user is not there, or of its own   *)
(* organisation, and it has not strayed to him.                            *)
LEMMA CheckStep ==
    ASSUME IndInv, NEW a \in Admins, NEW role, NEW u \in Subs, NEW r \in UserRoles,
           ProvisionRead(a, role, u, r)
    PROVE  IndInv'
<1>1. /\ users[u].org \in {None, OrgOf[a]} /\ served' \in Nat
      /\ prov' = [prov EXCEPT ![a] = [phase |-> "upsert", sub |-> u, role |-> r]]
      /\ UNCHANGED <<sso, edit, login, users, sent>>
    BY DEF ProvisionRead, Serve, IndInv, AccessTypeOK
<1>2. AccessTypeOK'
    BY <1>1 DEF IndInv, AccessTypeOK, sent
<1>3. \A v \in Subs : Checked(v)' \subseteq Checked(v) \cup (IF v = u THEN {a} ELSE {})
    BY <1>1 DEF Checked, IndInv, AccessTypeOK
<1>4. ForeignersRace' /\ NobodyStrays' /\ StraysAreForeign' /\ ProvHasSub'
    BY <1>1, <1>3 DEF IndInv, UserInv, ForeignersRace, NobodyStrays,
       StraysAreForeign, ProvHasSub, AccessTypeOK
<1>5. OverwritesRace'
  <2>1. a \notin users[u].strays
      BY <1>1 DEF IndInv, UserInv, NobodyStrays, StraysAreForeign
  <2> QED BY <1>1, <1>3, <2>1 DEF IndInv, UserInv, OverwritesRace
<1> QED BY <1>1, <1>2, <1>4, <1>5, KeepSettings DEF IndInv, UserInv

(* The upsert ends its request.                                            *)
LEMMA UpsertStep ==
    ASSUME IndInv, NEW a \in Admins, ProvisionInsert(a) \/ ProvisionUpdate(a)
    PROVE  IndInv'
<1> PICK u \in Subs : u = prov[a].sub /\ a \in Checked(u)
    BY DEF ProvisionInsert, ProvisionUpdate, IndInv, UserInv, AccessTypeOK, Checked, ProvHasSub
<1>1. /\ prov' = [prov EXCEPT ![a] = NoProv]
      /\ UNCHANGED <<sso, edit, login, sent, served>>
    BY DEF ProvisionInsert, ProvisionUpdate
<1>2. /\ prov' \in [Admins -> [phase : {"idle", "upsert"}, sub : Subs \cup {None},
                               role : UserRoles \cup {"none"}]]
      /\ \A v \in Subs : Checked(v)' = Checked(v) \ {a}
      /\ \A v \in Subs : a \in Checked(v) => v = u
      /\ ProvHasSub'
    BY <1>1 DEF IndInv, UserInv, ProvHasSub, AccessTypeOK, NoProv, Checked
<1>3. PICK x \in UserTypes :
        /\ users' = [users EXCEPT ![u] = x]
        /\ x.org # None
        /\ \A d \in Checked(u) \ {a} : OrgOf[d] = x.org \/ d \in x.racing
        /\ x.strays \subseteq x.racing
        /\ x.strays \cap (Checked(u) \ {a}) = {}
        /\ \A d \in x.strays : OrgOf[d] # x.org
  <2>1. CASE ProvisionInsert(a)
    <3> DEFINE x == [org |-> OrgOf[a], role |-> prov[a].role,
                     racing |-> Checked(u) \ {a}, strays |-> {}]
    <3>1. users' = [users EXCEPT ![u] = x]
        BY <2>1 DEF ProvisionInsert
    <3>2. x \in UserTypes
        BY DEF UserTypes, IndInv, AccessTypeOK, Checked
    <3>3. x.org # None
        BY AccessAssumption
    <3> QED BY <3>1, <3>2, <3>3
  <2>2. CASE ProvisionUpdate(a)
    <3> DEFINE old == users[u]
               k == IF old.org = OrgOf[a] THEN old.strays ELSE old.strays \cup {a}
               x == [old EXCEPT !.role = prov[a].role, !.strays = k]
    <3>1. old \in UserTypes /\ old.org # None
        BY <2>2 DEF ProvisionUpdate, IndInv, AccessTypeOK, UserTypes
    <3>2. k \in SUBSET Admins
        BY <3>1 DEF UserTypes
    <3>3. /\ old.strays \subseteq old.racing /\ old.strays \cap Checked(u) = {}
          /\ \A d \in Checked(u) : OrgOf[d] = old.org \/ d \in old.racing
          /\ \A d \in old.strays : OrgOf[d] # old.org
        BY <3>1 DEF IndInv, UserInv, OverwritesRace, ForeignersRace, StraysAreForeign
    <3>4. /\ k \subseteq old.racing /\ k \cap (Checked(u) \ {a}) = {}
          /\ \A d \in k : OrgOf[d] # old.org
        BY <3>3
    <3>5. users' = [users EXCEPT ![u] = x]
        BY <2>2 DEF ProvisionUpdate, IndInv, AccessTypeOK
    <3> HIDE DEF k
    <3>6. /\ x \in UserTypes /\ x.org = old.org /\ x.racing = old.racing
          /\ x.strays = k
        BY <3>1, <3>2 DEF UserTypes, IndInv, AccessTypeOK
    <3> HIDE DEF x, old
    <3> QED BY <3>1, <3>3, <3>4, <3>5, <3>6
  <2> QED BY <2>1, <2>2
<1>4. /\ users' \in [Subs -> UserTypes] /\ users'[u] = x
      /\ \A v \in Subs : v # u => users'[v] = users[v]
    BY <1>3 DEF IndInv, AccessTypeOK, UserTypes
<1>5. AccessTypeOK'
    BY <1>1, <1>2, <1>4 DEF IndInv, AccessTypeOK, UserTypes, sent
<1>6. ForeignersRace' /\ NobodyStrays' /\ OverwritesRace' /\ StraysAreForeign'
    BY <1>2, <1>3, <1>4 DEF IndInv, UserInv, ForeignersRace, NobodyStrays,
       OverwritesRace, StraysAreForeign
<1> QED BY <1>1, <1>2, <1>5, <1>6, KeepSettings DEF IndInv, UserInv

LEMMA ClaimsAreRoles ==
    \A claim \in Claims : TokenRole(claim) \in DOMAIN SystemRoles
BY DEF Claims, TokenRole, SystemRoles

LEMMA NextIndInv == IndInv /\ [AccessNext]_accessVars => IndInv'
<1> SUFFICES ASSUME IndInv, [AccessNext]_accessVars PROVE IndInv'
    OBVIOUS
<1>1. CASE UNCHANGED accessVars
  <2>1. AccessTypeOK'
      BY <1>1 DEF accessVars, sent, IndInv, AccessTypeOK
  <2> QED BY <1>1, <2>1, KeepUsers, KeepSettings DEF accessVars, IndInv
<1>2. CASE AccessNext
    BY <1>2, ReadStep, CommitStep, EndStep, LoginStep, CheckStep, UpsertStep,
       ClaimsAreRoles DEF AccessNext
<1> QED BY <1>1, <1>2

LEMMA Invariance == AccessSpec => []IndInv
BY InitIndInv, NextIndInv, PTL DEF AccessSpec

-----------------------------------------------------------------------------
(* No number of racing PUTs and toggles loses a stored client secret       *)
(* (routers/sso.py, upsert_sso_config).                                    *)
THEOREM SecretTheorem == AccessSpec => []SecretKept
<1>1. IndInv => SecretKept
    BY DEF IndInv, EditInv
<1> QED BY <1>1, Invariance, PTL

(* Each setting of the row is what the last PUT has sent, or one that      *)
(* overlapped it, for any number of them (routers/sso.py,                  *)
(* upsert_sso_config).                                                     *)
THEOREM SettingsTheorem == AccessSpec => []SettingsAreSent
<1>1. IndInv => SettingsAreSent
    BY DEF IndInv, EditInv
<1> QED BY <1>1, Invariance, PTL

(* The check of provision_user leaves other organisations only the race:   *)
(* one write for each request that passed it before the user was there     *)
(* (routers/users.py).                                                     *)
THEOREM OverwriteTheorem == AccessSpec => []OverwritesRace
<1>1. IndInv => OverwritesRace
    BY DEF IndInv, UserInv
<1> QED BY <1>1, Invariance, PTL
=============================================================================
