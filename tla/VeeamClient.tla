----------------------------- MODULE VeeamClient -----------------------------
(***************************************************************************)
(* The client every activity opens to talk to Veeam Backup & Replication   *)
(* (connectors/veeam/client.py) and the pure parts of the protocol         *)
(* (connectors/veeam/rest.py): the OAuth2 token and its renewal, the       *)
(* detection of the server's build, the endpoint shapes and the            *)
(* x-api-version header that depend on it, the retries, and the selection  *)
(* of a restore point.                                                     *)
(*                                                                         *)
(* Time is in minutes.  A message takes up to MaxDelay on its way: the     *)
(* client believes that its token was issued when it received it, and the  *)
(* server looks at a token when the request arrives.                       *)
(***************************************************************************)
EXTENDS Integers, Sequences, FiniteSets

CONSTANTS
    Builds,       \* build versions <<major, minor, patch, build>> of servers
    Overrides,    \* values of veeam_api_version_override, NoOverride for ""
    Operations,   \* operations an activity may ask of its client
    Lifetime,     \* expires_in of the server's tokens
    MaxDelay,     \* bound: minutes a message is under way
    MaxAttempts,  \* stop_after_attempt of _get and _post
    Targets,      \* values of rpo_target_mins, NoTarget for None
    MaxPoints,    \* bound: restore points of an object
    MaxTime,      \* bound: minutes
    MaxFaults     \* bound: errors of the server and lost messages

NoTarget == -1
NoOverride == "none"
Margin   == 2

(* The margin pays for the answer that brought the token and for the       *)
(* request that carries it.                                                *)
ASSUME VeeamClientAssumption ==
    /\ Builds \subseteq Nat \X Nat \X Nat \X Nat
    /\ MaxDelay \in Nat /\ 2 * MaxDelay <= Margin
    /\ Lifetime \in Nat /\ Lifetime > Margin
    /\ MaxAttempts \in Nat \ {0}
    /\ Targets \subseteq Int
    /\ MaxPoints \in Nat /\ MaxTime \in Nat /\ MaxFaults \in Nat

VARIABLES
    now,      \* the clock
    build,    \* the server's build
    override, \* the settings' x-api-version
    client,   \* the client of the activity under way
    message,  \* what is under way between the two, and since when
    last,     \* the request of _get or _post that arrived last
    pick,     \* the restore points an activity was given, and its choice
    faults

vars == <<now, build, override, client, message, last, pick, faults>>

Unknown == <<0, 0, 0, 0>>     \* _build_version is None
DefaultXApiVersion == "1.1-rev1"

Closed  == [pc |-> "closed", op |-> "none", token |-> FALSE, issued |-> 0,
            expires |-> 0, build |-> Unknown, header |-> DefaultXApiVersion,
            attempt |-> 1]
Silence == [kind |-> "none", since |-> 0]
NoCall  == [op |-> "none", path |-> "none", header |-> "none", known |-> FALSE,
            age |-> 0]
NoPick  == [points |-> <<>>, target |-> NoTarget, at |-> 0, chosen |-> 0]

Init ==
    /\ now = 0
    /\ build \in Builds
    /\ override \in Overrides
    /\ client = Closed
    /\ message = Silence
    /\ last = NoCall
    /\ pick = NoPick
    /\ faults = 0

Fault == faults < MaxFaults /\ faults' = faults + 1

-----------------------------------------------------------------------------
(* Versions                                                                 *)

(* api_version_for_build: the tier of endpoint shapes. *)
ApiVersionForBuild(b) ==
    CASE b[1] >= 13 -> "v1.2" [] b[1] = 12 -> "v1.1" [] OTHER -> "v1.0"

(* Tuples compare from left to right. *)
AtLeast(b, c) ==
    b = c \/ \E k \in DOMAIN c :
                b[k] > c[k] /\ \A j \in 1..(k - 1) : b[j] = c[j]

(* x_api_version: the header for a build, the first of the steps of this   *)
(* ladder that the build has reached.  A build older than 11 gets the      *)
(* default.                                                                *)
XApiVersion(b) ==
    IF AtLeast(b, <<13, 0, 1, 0>>) THEN "1.3-rev1"
    ELSE IF AtLeast(b, <<13, 0, 0, 0>>) THEN "1.3-rev0"
    ELSE IF AtLeast(b, <<12, 3, 1, 0>>) THEN "1.2-rev1"
    ELSE IF AtLeast(b, <<12, 2, 0, 0>>) THEN "1.2-rev0"
    ELSE IF AtLeast(b, <<12, 1, 0, 0>>) THEN "1.1-rev1"
    ELSE IF AtLeast(b, <<12, 0, 0, 0>>) THEN "1.1-rev0"
    ELSE IF AtLeast(b, <<11, 0, 0, 0>>) THEN "1.0-rev1"
    ELSE DefaultXApiVersion

(* The value a header is given: the settings' own goes before any other.   *)
Effective(version) == IF override = NoOverride THEN version ELSE override

(* Operations with a path of their own for some tiers. *)
RestorePointsPath(v) ==
    IF v \in {"v1.1", "v1.2"} THEN "backupObjects" ELSE "restorePoints"
InstantRecoveryPath(v) ==
    IF v = "v1.2" THEN "restore/instantRecovery" ELSE "instantRecovery"

PathOf(op, v) ==
    CASE op = "restorePoints" -> RestorePointsPath(v)
      [] op \in {"start", "stop"} -> InstantRecoveryPath(v)
      [] OTHER -> op

(* Variant: a server of unknown version is asked like an old one. *)
RaisesNever(op, v) == FALSE

(* instant_recovery_endpoint: NotImplementedError. *)
Raises(op, v) == op = "start" /\ v = "v1.0"

(* list_backup_repositories and list_malware_detection_events return an    *)
(* empty list without a request unless the server is a Veeam 13.           *)
Unasked(op, v) == op \in {"repositories", "malware"} /\ v # "v1.2"

Tier == ApiVersionForBuild(client.build)

-----------------------------------------------------------------------------
(* The client's life: __aenter__, calls, __aexit__                          *)

(* An activity opens a client; _ensure_token has no token yet and asks.    *)
Open(op) ==
    /\ client.pc = "closed"
    /\ client' = [Closed EXCEPT !.pc = "entering", !.op = op,
                                !.header = Effective(DefaultXApiVersion)]
    /\ message' = [kind |-> "tokenRequest", since |-> now]
    /\ pick' = NoPick
    /\ UNCHANGED <<now, build, override, last, faults>>

(* The server issues a token. *)
IssueToken ==
    /\ message.kind = "tokenRequest"
    /\ client' = [client EXCEPT !.issued = now]
    /\ message' = [kind |-> "tokenAnswer", since |-> now]
    /\ UNCHANGED <<now, build, override, last, pick, faults>>

(* What is sent with a token at hand: in __aenter__ the question for the   *)
(* build, afterwards the call. *)
Send == [kind |-> IF client.pc = "entering" THEN "serverInfo" ELSE "call",
         since |-> now]

(* The rest of _ensure_token.  *)
ReceiveToken ==
    /\ message.kind = "tokenAnswer"
    /\ client' = [client EXCEPT !.token = TRUE, !.expires = now + Lifetime]
    /\ message' = Send
    /\ UNCHANGED <<now, build, override, last, pick, faults>>

(* _fetch_server_info: the header is set for the detected build, unless    *)
(* the settings override it.  Any error is swallowed and the build stays   *)
(* unknown.                                                                *)
ServerInfo ==
    /\ message.kind = "serverInfo"
    /\ client' = [client EXCEPT !.pc = "ready", !.build = build,
                                !.header = Effective(XApiVersion(build))]
    /\ message' = Silence
    /\ UNCHANGED <<now, build, override, last, pick, faults>>

ServerInfoFails ==
    /\ message.kind = "serverInfo"
    /\ Fault
    /\ client' = [client EXCEPT !.pc = "ready"]
    /\ message' = Silence
    /\ UNCHANGED <<now, build, override, last, pick>>

(* Variant: a token is used to its last minute. *)
TokenFreshToTheEnd == client.token /\ now < client.expires

(* The condition of _ensure_token. *)
TokenFresh == client.token /\ now < client.expires - Margin

EnsureToken ==
    message' = IF TokenFresh THEN Send
               ELSE [kind |-> "tokenRequest", since |-> now]

(* An operation that needs no request, or cannot be expressed.             *)
Return ==
    /\ client.pc = "ready"
    /\ Raises(client.op, Tier) \/ Unasked(client.op, Tier)
    /\ client' = Closed
    /\ UNCHANGED <<now, build, override, message, last, pick, faults>>

(* _get or _post, first attempt. *)
Call ==
    /\ client.pc = "ready"
    /\ ~Raises(client.op, Tier) /\ ~Unasked(client.op, Tier)
    /\ client' = [client EXCEPT !.pc = "calling", !.attempt = 1]
    /\ EnsureToken
    /\ UNCHANGED <<now, build, override, last, pick, faults>>

(* The request arrives. *)
Arrive ==
    /\ message.kind = "call"
    /\ last' = [op |-> client.op, path |-> PathOf(client.op, Tier),
                header |-> client.header, known |-> client.build # Unknown,
                age |-> now - client.issued]
    /\ message' = [kind |-> "answer", since |-> now]
    /\ UNCHANGED <<now, build, override, client, pick, faults>>

(* A server of another tier does not know the path. *)
PathKnown == last.path = PathOf(last.op, ApiVersionForBuild(build))

(* The next attempt renews the token if it must; after the last one the    *)
(* activity fails and closes its client.                                   *)
Again ==
    IF client.attempt < MaxAttempts
    THEN /\ client' = [client EXCEPT !.attempt = @ + 1]
         /\ EnsureToken
    ELSE client' = Closed /\ message' = Silence

(* The server's error 404, or any other error on the way of the request or *)
(* of the answer. *)
Refused ==
    /\ message.kind = "answer"
    /\ ~PathKnown
    /\ Again
    /\ UNCHANGED <<now, build, override, last, pick, faults>>

RequestFails ==
    /\ client.pc = "calling"
    /\ Fault
    /\ Again
    /\ UNCHANGED <<now, build, override, last, pick>>

(* A failed token request of __aenter__ is not retried.                    *)
OpenFails ==
    /\ client.pc = "entering"
    /\ message.kind \in {"tokenRequest", "tokenAnswer"}
    /\ Fault
    /\ client' = Closed
    /\ message' = Silence
    /\ UNCHANGED <<now, build, override, last, pick>>

(* The answer.  wait_for_vm_boot asks for the session again and again with *)
(* one client, the other activities are done.                              *)
Answered ==
    /\ message.kind = "answer"
    /\ PathKnown
    /\ client.op # "restorePoints"
    /\ client' = IF client.op = "session"
                 THEN [client EXCEPT !.pc = "ready"] ELSE Closed
    /\ message' = Silence
    /\ UNCHANGED <<now, build, override, last, pick, faults>>

(* wait_for_vm_boot ends: published, failed or out of polls.               *)
StopPolling ==
    /\ client.pc = "ready"
    /\ client.op = "session"
    /\ client' = Closed
    /\ UNCHANGED <<now, build, override, message, last, pick, faults>>

-----------------------------------------------------------------------------
(* Restore points; their creation times are in seconds.                     *)

(* compute_age_minutes *)
Age(t, at) ==
    LET mins == (60 * at - t) \div 60
    IN IF mins < 0 THEN 0 ELSE mins

(* Variant: the order of the sort is left out. *)
NewestUnsorted(points, among) ==
    CHOOSE i \in among : \A j \in among : i <= j

(* The first of the points when they are sorted by time, newest first.     *)
Newest(points, among) ==
    CHOOSE i \in among : \A j \in among :
      \/ points[j].time < points[i].time
      \/ points[j].time = points[i].time /\ i <= j

(* select_restore_point; 0 for NoRestorePointError. *)
SelectRestorePoint(points, target, at) ==
    LET consistent == {i \in DOMAIN points : points[i].consistent}
        inWindow == {i \in consistent : Age(points[i].time, at) <= target}
    IN CASE consistent = {} -> 0
         [] target # NoTarget /\ inWindow # {} -> Newest(points, inWindow)
         [] OTHER -> Newest(points, consistent)

(* Points made within three minutes before now, or with a clock that is    *)
(* ahead of this one. *)
Points ==
    [time : {60 * now + s : s \in {-150, -60, -59, 0, 30}},
     consistent : BOOLEAN]

Select(points, target) ==
    /\ message.kind = "answer"
    /\ PathKnown
    /\ client.op = "restorePoints"
    /\ client' = Closed
    /\ message' = Silence
    /\ pick' = [points |-> points, target |-> target, at |-> now,
                chosen |-> SelectRestorePoint(points, target, now)]
    /\ UNCHANGED <<now, build, override, last, faults>>

-----------------------------------------------------------------------------
(* A minute passes; no message takes longer than MaxDelay.                  *)
Tick ==
    /\ now < MaxTime
    /\ message # Silence => now < message.since + MaxDelay
    /\ now' = now + 1
    /\ UNCHANGED <<build, override, client, message, last, pick, faults>>

Next ==
    \/ \E op \in Operations : Open(op)
    \/ IssueToken \/ ReceiveToken \/ OpenFails
    \/ ServerInfo \/ ServerInfoFails
    \/ Return \/ Call \/ Arrive \/ Answered \/ Refused \/ RequestFails
    \/ StopPolling
    \/ \E n \in 0..MaxPoints, target \in Targets :
         \E points \in [1..n -> Points] : Select(points, target)
    \/ Tick

Spec == Init /\ [][Next]_vars

-----------------------------------------------------------------------------
Headers ==
    {"1.3-rev1", "1.3-rev0", "1.2-rev1", "1.2-rev0", "1.1-rev1", "1.1-rev0",
     "1.0-rev1"} \cup (Overrides \ {NoOverride})

Clients ==
    [pc : {"closed", "entering", "ready", "calling"},
     op : Operations \cup {"none"}, token : BOOLEAN, issued : Nat, expires : Nat,
     build : Builds \cup {Unknown}, header : Headers, attempt : Nat]

Messages ==
    [kind : {"none", "tokenRequest", "tokenAnswer", "serverInfo", "call", "answer"},
     since : Nat]

(* The clock, the server, the client and the message are what the actions  *)
(* above take them for.                                                    *)
TypeOK ==
    /\ now \in Nat
    /\ build \in Builds /\ override \in Overrides
    /\ client \in Clients
    /\ message \in Messages
    /\ faults \in Nat

(* However long an activity keeps its client, and whatever is lost and     *)
(* sent again, every request of _get and _post reaches the server with a   *)
(* token that has not run out there (_ensure_token renews it two minutes   *)
(* early).                                                                 *)
TokenIsLive == last # NoCall => last.age < Lifetime

(* A mount is started only on a server whose version was detected, with    *)
(* the path of its build and the header of its build or of the settings;   *)
(* when serverInfo fails the client does not guess, not even with an       *)
(* override.  The other operations go to a path the server does not know   *)
(* only if its version was not detected.                                   *)
StartFitsServer ==
    last # NoCall =>
      /\ last.op \in {"start", "repositories", "malware"} =>
           last.known /\ PathKnown /\ last.header = Effective(XApiVersion(build))
      /\ ~PathKnown => ~last.known /\ last.header = Effective(DefaultXApiVersion)

(* The restore point selected is the newest consistent one, with and       *)
(* without an RPO target, and with points of the same minute or dated      *)
(* after now; the RPO the test will report is the smallest one possible.   *)
NewestConsistent ==
    LET consistent == {i \in DOMAIN pick.points : pick.points[i].consistent}
    IN IF pick.chosen = 0 THEN consistent = {}
       ELSE /\ pick.chosen \in consistent
            /\ \A i \in consistent :
                 /\ pick.points[i].time <= pick.points[pick.chosen].time
                 /\ Age(pick.points[pick.chosen].time, pick.at)
                      <= Age(pick.points[i].time, pick.at)
=============================================================================
