------------------------------- MODULE Access -------------------------------
(***************************************************************************)
(* Who may sign in: the single sign-on settings of an organisation and the *)
(* OIDC login that uses them (routers/sso.py, services/oidc.py), and the   *)
(* users admins provision (routers/users.py).                              *)
(*                                                                         *)
(* Every handler reads rows, waits (for the database or for the identity   *)
(* provider) and writes: two admins, or an admin and a user on his way     *)
(* back from the provider, interleave there.  SQLAlchemy's UPDATE writes   *)
(* the columns whose value differs from the one this handler read, and no  *)
(* others.                                                                 *)
(***************************************************************************)
EXTENDS Integers, FiniteSets

CONSTANTS
    Editors,      \* requests to PUT /sso and PATCH /sso/toggle under way
    Issuers,      \* OIDC issuers, each with its client and redirect URI
    Entities,     \* SAML entities, each with its URL and certificate
    Secrets,      \* client secrets
    Tabs,         \* logins; each draws its own nonce and stands for it
    Admins,       \* requests to POST /users/provision under way
    OrgOf,        \* the organisation each of them comes from
    Subs,         \* subjects of Auth0, users.auth0_sub
    None,         \* SQL NULL
    MaxRequests   \* bound: requests that reach the database

ASSUME AccessAssumption ==
    /\ None \notin Issuers \cup Entities \cup Secrets
    /\ \A a \in Admins : OrgOf[a] # None
    /\ MaxRequests \in Nat

VARIABLES
    sso,      \* the row of sso_configs
    edit,     \* requests that change it
    login,    \* logins and their callbacks
    users,    \* rows of users, by auth0_sub
    prov,     \* requests to POST /users/provision
    given,    \* history: a committed PUT has given a secret
    latest,   \* history: the last committed PUT and those it has missed
    served    \* requests so far

sent == <<given, latest>>
accessVars == <<sso, edit, login, users, prov, sent, served>>

Protocols == {"saml", "oidc"}
UserRoles == {"admin", "viewer"}
Settings  == {"protocol", "issuer", "entity"}

NoRow   == [protocol |-> "none", issuer |-> None, entity |-> None,
            secret |-> None, enabled |-> FALSE]
NoBody  == [protocol |-> "none", issuer |-> None, entity |-> None,
            secret |-> None]
Idle    == [phase |-> "idle", body |-> NoBody, loaded |-> NoRow,
            missed |-> {}]
NoLogin == [phase |-> "new", issuer |-> None, posted |-> None, at |-> None]
NoUser  == [org |-> None, role |-> "none", racing |-> {}, strays |-> {}]
NoProv  == [phase |-> "idle", sub |-> None, role |-> "none"]

(* SYSTEM_ROLES, as far as these handlers ask: "sso:manage" is what an     *)
(* admin lacks and an owner has.                                           *)
SystemRoles ==
    [owner    |-> {"sso:manage", "other"},
     admin    |-> {"other"},
     operator |-> {"other"},
     auditor  |-> {"other"},
     viewer   |-> {"other"}]

(* get_current_user of a token that is valid and names an organisation:    *)
(* the role is the one it claims, and one that claims none is a viewer's.  *)
Claims == DOMAIN SystemRoles \cup {None}

TokenRole(claim) == IF claim = None THEN "viewer" ELSE claim

(* CurrentUser.permissions: those of the role, none if it is not known.    *)
HasPermission(role, required) ==
    role \in DOMAIN SystemRoles /\ required \in SystemRoles[role]

(* require_admin looks at the role's name, not at its permissions.         *)
RequireAdmin(role) == role = "admin"

(* _validate_request: the columns a protocol needs are there.  The columns *)
(* of the other protocol may be sent along.                                *)
ValidBody(b) ==
    /\ b.protocol = "saml" => b.entity # None
    /\ b.protocol = "oidc" => b.issuer # None

Bodies ==
    {b \in [protocol : Protocols, issuer : Issuers \cup {None},
            entity : Entities \cup {None}, secret : Secrets \cup {None}] :
       ValidBody(b)}

AccessInit ==
    /\ sso = NoRow
    /\ edit = [e \in Editors |-> Idle]
    /\ login = [t \in Tabs |-> NoLogin]
    /\ users = [u \in Subs |-> NoUser]
    /\ prov = [a \in Admins |-> NoProv]
    /\ given = FALSE
    /\ latest = [body |-> NoBody, missed |-> {}]
    /\ served = 0

Serve == served < MaxRequests /\ served' = served + 1

-----------------------------------------------------------------------------
(* The settings: PUT /sso and PATCH /sso/toggle                             *)

(* upsert_sso_config up to its commit: the permission, the validation and  *)
(* the SELECT.                                                             *)
UpsertRead(e, role, b) ==
    /\ edit[e].phase = "idle"
    /\ HasPermission(role, "sso:manage")
    /\ Serve
    /\ edit' = [edit EXCEPT ![e] =
                  [phase |-> "put", body |-> b, loaded |-> sso, missed |-> {}]]
    /\ UNCHANGED <<sso, login, users, prov, sent>>

(* toggle_sso up to its commit; without a row it answers 404.              *)
ToggleRead(e, role) ==
    /\ edit[e].phase = "idle"
    /\ HasPermission(role, "sso:manage")
    /\ sso # NoRow
    /\ Serve
    /\ edit' = [edit EXCEPT ![e] =
                  [Idle EXCEPT !.phase = "toggle", !.loaded = sso]]
    /\ UNCHANGED <<sso, login, users, prov, sent>>

(* The row a PUT adds: enabled by the column's default.                    *)
Inserted(b) ==
    [protocol |-> b.protocol, issuer |-> b.issuer, entity |-> b.entity,
     secret |-> b.secret, enabled |-> TRUE]

(* What an UPDATE leaves in a column: the new value if the handler saw     *)
(* another one, and what is there now otherwise.                           *)
Column(new, loaded, now) == IF new # loaded THEN new ELSE now

(* Variant: the secret is written like the other columns. *)
UpdatedAll(b, loaded) ==
    [sso EXCEPT
       !.protocol = Column(b.protocol, loaded.protocol, @),
       !.issuer = Column(b.issuer, loaded.issuer, @),
       !.entity = Column(b.entity, loaded.entity, @),
       !.secret = Column(b.secret, loaded.secret, @)]

(* Variant: no column the body leaves out is assigned. *)
UpdatedGiven(b, loaded) ==
    LET Sent(new, old, now) == IF new = None THEN now ELSE Column(new, old, now)
    IN  [sso EXCEPT
           !.protocol = Sent(b.protocol, loaded.protocol, @),
           !.issuer = Sent(b.issuer, loaded.issuer, @),
           !.entity = Sent(b.entity, loaded.entity, @),
           !.secret = Sent(b.secret, loaded.secret, @)]

(* The row a PUT changes: a secret the body leaves out is not assigned.    *)
Updated(b, loaded) ==
    [sso EXCEPT
       !.protocol = Column(b.protocol, loaded.protocol, @),
       !.issuer = Column(b.issuer, loaded.issuer, @),
       !.entity = Column(b.entity, loaded.entity, @),
       !.secret = IF b.secret = None THEN @
                  ELSE Column(b.secret, loaded.secret, @)]

(* The PUTs that are still under way miss the one of e.                    *)
Missed(e, b) ==
    [f \in Editors |->
       IF f = e THEN Idle
       ELSE IF edit[f].phase = "put"
            THEN [edit[f] EXCEPT !.missed = @ \cup {b}]
            ELSE edit[f]]

(* The commit of a PUT: an INSERT if it has read no row, an UPDATE if it   *)
(* has.                                                                    *)
UpsertCommit(e) ==
    /\ edit[e].phase = "put"
    /\ LET b == edit[e].body
           loaded == edit[e].loaded IN
         /\ sso' = IF loaded = NoRow THEN Inserted(b) ELSE Updated(b, loaded)
         /\ loaded = NoRow => sso = NoRow
         /\ given' = (given \/ b.secret # None)
         /\ latest' = [body |-> b, missed |-> edit[e].missed]
         /\ edit' = Missed(e, b)
    /\ UNCHANGED <<login, users, prov, served>>

(* A second INSERT for the org fails on the unique org_id and changes      *)
(* nothing.                                                                *)
InsertConflict(e) ==
    /\ edit[e].phase = "put"
    /\ edit[e].loaded = NoRow
    /\ sso # NoRow
    /\ edit' = [edit EXCEPT ![e] = Idle]
    /\ UNCHANGED <<sso, login, users, prov, sent, served>>

ToggleCommit(e) ==
    /\ edit[e].phase = "toggle"
    /\ sso' = [sso EXCEPT !.enabled = ~edit[e].loaded.enabled]
    /\ edit' = [edit EXCEPT ![e] = Idle]
    /\ UNCHANGED <<login, users, prov, sent, served>>

-----------------------------------------------------------------------------
(* The OIDC login                                                           *)

(* The condition of both endpoints. *)
OidcOffered == sso.protocol = "oidc" /\ sso.enabled

(* oidc_login: the row is read once; the discovery document of its issuer  *)
(* is fetched, which fails without an issuer, and the URL sends the user   *)
(* to that issuer with a new state and nonce.                              *)
OidcLogin(t) ==
    /\ login[t].phase = "new"
    /\ OidcOffered
    /\ sso.issuer # None
    /\ Serve
    /\ login' = [login EXCEPT ![t].phase = "away", ![t].issuer = sso.issuer]
    /\ UNCHANGED <<sso, edit, users, prov, sent>>

(* The provider authenticates the user and hands out a code for the nonce. *)
Granted(t) ==
    /\ login[t].phase = "away"
    /\ login' = [login EXCEPT ![t].phase = "granted"]
    /\ UNCHANGED <<sso, edit, users, prov, sent, served>>

(* oidc_callback: the portal posts the code of t and a nonce it has kept,  *)
(* of whichever login; the row is read once more.                          *)
OidcCallback(t, n) ==
    /\ login[t].phase = "granted"
    /\ login[n].phase # "new"
    /\ login' = [login EXCEPT
         ![t].phase = IF OidcOffered THEN "exchange" ELSE "refused",
         ![t].posted = n,
         ![t].at = IF OidcOffered THEN sso.issuer ELSE None]
    /\ UNCHANGED <<sso, edit, users, prov, sent, served>>

(* The provider takes a code it has handed out itself, and no other.       *)
CodeAccepted(t) == login[t].at = login[t].issuer

(* validate_id_token: the token is signed by the issuer's keys and carries *)
(* the nonce of the login its code belongs to.                             *)
ValidateIdToken(t) == CodeAccepted(t) /\ login[t].posted = t

(* The rest of oidc_callback.  A provider that cannot be reached, a token  *)
(* without sub or email and a failed validation all end in an error.       *)
ExchangeCode(t) ==
    /\ login[t].phase = "exchange"
    /\ login' = [login EXCEPT
                   ![t].phase = IF ValidateIdToken(t) THEN "in" ELSE "refused"]
    /\ UNCHANGED <<sso, edit, users, prov, sent, served>>

(* Network errors, expired tokens and missing claims.                      *)
ExchangeFails(t) ==
    /\ login[t].phase = "exchange"
    /\ login' = [login EXCEPT ![t].phase = "refused"]
    /\ UNCHANGED <<sso, edit, users, prov, sent, served>>

-----------------------------------------------------------------------------
(* Users: POST /users/provision                                             *)

(* Variant: the organisation of the subject is not looked at. *)
ProvisionReadUnscoped(a, role, u, r) ==
    /\ prov[a].phase = "idle"
    /\ RequireAdmin(role)
    /\ Serve
    /\ prov' = [prov EXCEPT ![a] = [phase |-> "upsert", sub |-> u, role |-> r]]
    /\ UNCHANGED <<sso, edit, login, users, sent>>

(* provision_user up to its check: a subject of another organisation is    *)
(* refused.                                                                *)
ProvisionRead(a, role, u, r) ==
    /\ prov[a].phase = "idle"
    /\ RequireAdmin(role)
    /\ users[u].org \in {None, OrgOf[a]}
    /\ Serve
    /\ prov' = [prov EXCEPT ![a] = [phase |-> "upsert", sub |-> u, role |-> r]]
    /\ UNCHANGED <<sso, edit, login, users, sent>>

(* The requests that have passed the check for u.                          *)
Checked(u) == {a \in Admins : prov[a].phase = "upsert" /\ prov[a].sub = u}

(* The upsert of a subject no one has provisioned.  History: the requests  *)
(* that have passed the check by then.                                     *)
ProvisionInsert(a) ==
    /\ prov[a].phase = "upsert"
    /\ users[prov[a].sub].org = None
    /\ users' = [users EXCEPT ![prov[a].sub] =
                   [org |-> OrgOf[a], role |-> prov[a].role,
                    racing |-> Checked(prov[a].sub) \ {a}, strays |-> {}]]
    /\ prov' = [prov EXCEPT ![a] = NoProv]
    /\ UNCHANGED <<sso, edit, login, sent, served>>

(* The upsert on a conflict over auth0_sub: it sets email and role, of     *)
(* whichever organisation the row is by now.  History: a request of        *)
(* another organisation strays.                                            *)
ProvisionUpdate(a) ==
    /\ prov[a].phase = "upsert"
    /\ users[prov[a].sub].org # None
    /\ users' = [users EXCEPT
                   ![prov[a].sub].role = prov[a].role,
                   ![prov[a].sub].strays =
                      IF users[prov[a].sub].org = OrgOf[a] THEN @ ELSE @ \cup {a}]
    /\ prov' = [prov EXCEPT ![a] = NoProv]
    /\ UNCHANGED <<sso, edit, login, sent, served>>

-----------------------------------------------------------------------------
AccessNext ==
    \/ \E e \in Editors, claim \in Claims :
         \/ \E b \in Bodies : UpsertRead(e, TokenRole(claim), b)
         \/ ToggleRead(e, TokenRole(claim))
    \/ \E e \in Editors : UpsertCommit(e) \/ InsertConflict(e) \/ ToggleCommit(e)
    \/ \E t \in Tabs :
         \/ OidcLogin(t) \/ Granted(t) \/ ExchangeCode(t) \/ ExchangeFails(t)
         \/ \E n \in Tabs : OidcCallback(t, n)
    \/ \E a \in Admins :
         \/ \E claim \in Claims, u \in Subs, r \in UserRoles :
              ProvisionRead(a, TokenRole(claim), u, r)
         \/ ProvisionInsert(a) \/ ProvisionUpdate(a)

AccessSpec == AccessInit /\ [][AccessNext]_accessVars

-----------------------------------------------------------------------------
RowTypes ==
    [protocol : Protocols \cup {"none"}, issuer : Issuers \cup {None},
     entity : Entities \cup {None}, secret : Secrets \cup {None},
     enabled : BOOLEAN]

LoginTypes ==
    [phase : {"new", "away", "granted", "exchange", "in", "refused"},
     issuer : Issuers \cup {None}, posted : Tabs \cup {None},
     at : Issuers \cup {None}]

(* Every row and every request in a form the handlers can produce.         *)
AccessTypeOK ==
    /\ sso \in RowTypes
    /\ edit \in [Editors -> [phase : {"idle", "put", "toggle"},
                             body : Bodies \cup {NoBody}, loaded : RowTypes,
                             missed : SUBSET Bodies]]
    /\ login \in [Tabs -> LoginTypes]
    /\ users \in [Subs -> [org : {OrgOf[a] : a \in Admins} \cup {None},
                           role : UserRoles \cup {"none"},
                           racing : SUBSET Admins, strays : SUBSET Admins]]
    /\ prov \in [Admins -> [phase : {"idle", "upsert"}, sub : Subs \cup {None},
                            role : UserRoles \cup {"none"}]]
    /\ given \in BOOLEAN
    /\ latest \in [body : Bodies \cup {NoBody}, missed : SUBSET Bodies]
    /\ served \in Nat

(* The secret is write-only: it is never read back, so an owner who edits  *)
(* the other settings does not send it.  Once a PUT has stored one, no     *)
(* sequence or race of PUTs and toggles leaves the organisation without    *)
(* ("Preserve an existing secret when the caller omits it").               *)
SecretKept == given => sso.secret # None

(* Overlapping PUTs mix, because each writes the columns it believes it    *)
(* changes.  Still nothing of an earlier configuration survives a PUT      *)
(* (upsert_sso_config assigns every column but the secret): each setting   *)
(* is what the last committed PUT has sent, or what one has sent that      *)
(* committed while that one was under way.                                 *)
SettingsAreSent ==
    \A c \in Settings :
        \E b \in {latest.body} \cup latest.missed : sso[c] = b[c]

(* An admin overwrites a user of another organisation only by a request    *)
(* that had passed the check of provision_user before that user was        *)
(* provisioned, and by each such request once: it is over, and the next is *)
(* refused.                                                                *)
OverwritesRace ==
    \A u \in Subs :
        /\ users[u].strays \subseteq users[u].racing
        /\ users[u].strays \cap Checked(u) = {}

(* What provision_user says its check is for: "Refuse to touch a sub that  *)
(* belongs to another tenant."  Email and role of a user are only ever set *)
(* by admins of his organisation.                                          *)
OwnAdminsOnly == \A u \in Subs : users[u].strays = {}
=============================================================================
