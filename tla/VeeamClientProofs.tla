------------------------- MODULE VeeamClientProofs -------------------------
(***************************************************************************)
(* For any token lifetime, any delay the margin pays for, any builds and   *)
(* any number of calls: no request reaches Veeam with a token that has run *)
(* out, a mount is only started the way the server understands, and the    *)
(* restore point selected is the newest consistent one.  For the clients   *)
(* of the other nine providers, any number of operations, of resources and *)
(* of answers that are lost: a success is done or has a task for it, what  *)
(* nobody can name is counted by failures and by restores that name        *)
(* nothing, and AWS never runs two instances.                              *)
(***************************************************************************)
EXTENDS VeeamClient, Connectors, TLAPS, WellFoundedInduction, SequenceTheorems,
        FiniteSetTheorems

(* A message is never older than MaxDelay, and only the absence of one has *)
(* no kind.                                                                *)
Prompt ==
    /\ message.since <= now
    /\ \/ message = Silence
       \/ message.kind # "none" /\ now <= message.since + MaxDelay

(* Which message may be under way in which phase of the client.            *)
InPhase ==
    /\ message.kind = "serverInfo" => client.pc = "entering"
    /\ message.kind \in {"call", "answer"} => client.pc = "calling"
    /\ message.kind \in {"tokenRequest", "tokenAnswer"} =>
         client.pc \in {"entering", "calling"}

(* The client's idea of its token's end is off by one message at most, and *)
(* a call was sent early enough to arrive in time.                         *)
TokenKnown ==
    /\ client.issued <= now
    /\ message.kind = "tokenAnswer" => client.issued = message.since
    /\ client.token => client.expires <= client.issued + MaxDelay + Lifetime
    /\ message.kind = "call" =>
         message.since + MaxDelay < client.issued + Lifetime

(* The client knows the server's build, or knows that it does not.         *)
BuildKnown ==
    client.pc # "closed" =>
      \/ client.build = Unknown /\ client.header = Effective(DefaultXApiVersion)
      \/ client.build = build /\ client.header = Effective(XApiVersion(build))

(* A call is one that the client could express.                            *)
Expressible ==
    client.pc = "calling" =>
      ~Raises(client.op, Tier) /\ ~Unasked(client.op, Tier)

IndInv ==
    /\ TypeOK
    /\ Prompt
    /\ InPhase
    /\ TokenKnown
    /\ BuildKnown
    /\ Expressible
    /\ TokenIsLive
    /\ StartFitsServer
    /\ NewestConsistent

Core == TypeOK /\ Prompt /\ InPhase /\ TokenKnown /\ BuildKnown /\ Expressible

-----------------------------------------------------------------------------
(* The client and its messages                                              *)

LEMMA HeaderType ==
    /\ DefaultXApiVersion \in Headers
    /\ override \in Overrides =>
         Effective(DefaultXApiVersion) \in Headers /\ Effective(XApiVersion(build)) \in Headers
<1>1. XApiVersion(build) \in Headers /\ DefaultXApiVersion \in Headers
  BY DEF XApiVersion, DefaultXApiVersion, Headers
<1>2. override \in Overrides /\ override # NoOverride => override \in Headers
  BY DEF Headers
<1>. QED
  BY <1>1, <1>2 DEF Effective

LEMMA ClosedClient ==
    /\ Closed \in Clients
    /\ Closed.pc = "closed" /\ ~Closed.token /\ Closed.build = Unknown
    /\ Closed.header = DefaultXApiVersion /\ Closed.issued = 0
BY HeaderType DEF Closed, Clients

(* An activity that ends leaves a closed client and no message.            *)
LEMMA CloseInv ==
    ASSUME Core, client' = Closed, message' = Silence,
           UNCHANGED <<now, build, override>>, faults' \in Nat
    PROVE  Core'
BY ClosedClient DEF Core, TypeOK, Prompt, InPhase, TokenKnown, BuildKnown,
   Effective, Expressible, Messages, Silence

LEMMA OpenInv == ASSUME Core, NEW o \in Operations, Open(o) PROVE Core'
<1>. USE VeeamClientAssumption DEF Core
<1>1. TypeOK' /\ Prompt' /\ InPhase'
  <2>1. TypeOK'
    BY HeaderType DEF Open, Closed, TypeOK, Clients, Messages, Silence
  <2>2. Prompt'
    BY HeaderType DEF Open, Closed, TypeOK, Prompt, Silence
  <2>3. InPhase'
    BY HeaderType DEF Open, Closed, TypeOK, Prompt, InPhase, Clients, Silence
  <2>. QED
    BY <2>1, <2>2, <2>3
<1>2. TokenKnown'
  BY HeaderType DEF Open, Closed, TypeOK, Prompt, InPhase, TokenKnown, Clients, Messages, Silence, Margin
<1>3. BuildKnown' /\ Expressible'
  BY HeaderType DEF Open, Closed, TypeOK, InPhase, BuildKnown, Effective, Expressible, Tier, Clients
<1>. QED
  BY <1>1, <1>2, <1>3

LEMMA IssueTokenInv == ASSUME Core, IssueToken PROVE Core'
<1>. USE VeeamClientAssumption DEF Core
<1>1. TypeOK' /\ Prompt' /\ InPhase'
  <2>1. TypeOK'
    BY DEF IssueToken, TypeOK, Clients, Messages, Silence
  <2>2. Prompt'
    BY DEF IssueToken, TypeOK, Prompt, Silence
  <2>3. InPhase'
    BY DEF IssueToken, TypeOK, Prompt, InPhase, Clients, Silence
  <2>. QED
    BY <2>1, <2>2, <2>3
<1>2. TokenKnown'
  BY DEF IssueToken, TypeOK, Prompt, InPhase, TokenKnown, Clients, Messages, Silence, Margin
<1>3. BuildKnown' /\ Expressible'
  BY DEF IssueToken, TypeOK, InPhase, BuildKnown, Effective, Expressible, Tier, Clients
<1>. QED
  BY <1>1, <1>2, <1>3

LEMMA ReceiveTokenInv == ASSUME Core, ReceiveToken PROVE Core'
<1>. USE VeeamClientAssumption DEF Core
<1>1. TypeOK' /\ Prompt' /\ InPhase'
  <2>1. TypeOK'
    <3>1. now + Lifetime \in Nat /\ client \in Clients
      BY DEF TypeOK
    <3>2. client' \in Clients
      BY <3>1 DEF ReceiveToken, Clients
    <3>3. message' \in Messages
      BY DEF ReceiveToken, Send, TypeOK, Messages
    <3>. QED
      BY <3>2, <3>3 DEF ReceiveToken, TypeOK
  <2>2. Prompt'
    BY DEF ReceiveToken, Send, TypeOK, Prompt, Silence
  <2>3. InPhase'
    BY DEF ReceiveToken, Send, TypeOK, Prompt, InPhase, Clients, Silence
  <2>. QED
    BY <2>1, <2>2, <2>3
<1>2. TokenKnown'
  BY DEF ReceiveToken, Send, TypeOK, Prompt, InPhase, TokenKnown, Clients, Messages, Silence, Margin
<1>3. BuildKnown' /\ Expressible'
  BY DEF ReceiveToken, Send, TypeOK, InPhase, BuildKnown, Effective, Expressible, Tier, Clients
<1>. QED
  BY <1>1, <1>2, <1>3

LEMMA ServerInfoInv == ASSUME Core, ServerInfo PROVE Core'
<1>. USE VeeamClientAssumption DEF Core
<1>1. TypeOK' /\ Prompt' /\ InPhase'
  <2>1. TypeOK'
    BY HeaderType DEF ServerInfo, TypeOK, Clients, Messages, Silence
  <2>2. Prompt'
    BY HeaderType DEF ServerInfo, TypeOK, Prompt, Silence
  <2>3. InPhase'
    BY HeaderType DEF ServerInfo, TypeOK, Prompt, InPhase, Clients, Silence
  <2>. QED
    BY <2>1, <2>2, <2>3
<1>2. TokenKnown'
  BY DEF ServerInfo, TypeOK, Prompt, InPhase, TokenKnown, Clients, Messages, Silence, Margin
<1>3. BuildKnown' /\ Expressible'
  BY DEF ServerInfo, TypeOK, InPhase, BuildKnown, Effective, Expressible, Tier, Clients
<1>. QED
  BY <1>1, <1>2, <1>3

LEMMA ServerInfoFailsInv == ASSUME Core, ServerInfoFails PROVE Core'
<1>. USE VeeamClientAssumption DEF Core
<1>1. TypeOK' /\ Prompt' /\ InPhase'
  <2>1. TypeOK'
    BY DEF ServerInfoFails, Fault, TypeOK, Clients, Messages, Silence
  <2>2. Prompt'
    BY DEF ServerInfoFails, Fault, TypeOK, Prompt, Silence
  <2>3. InPhase'
    BY DEF ServerInfoFails, Fault, TypeOK, Prompt, InPhase, Clients, Silence
  <2>. QED
    BY <2>1, <2>2, <2>3
<1>2. TokenKnown'
  BY DEF ServerInfoFails, Fault, TypeOK, Prompt, InPhase, TokenKnown, Clients, Messages, Silence, Margin
<1>3. BuildKnown' /\ Expressible'
  BY DEF ServerInfoFails, Fault, TypeOK, InPhase, BuildKnown, Effective, Expressible, Tier, Clients
<1>. QED
  BY <1>1, <1>2, <1>3

LEMMA CallInv == ASSUME Core, Call PROVE Core'
<1>. USE VeeamClientAssumption DEF Core
<1>1. TypeOK' /\ Prompt' /\ InPhase'
  <2>1. TypeOK'
    BY DEF Call, EnsureToken, TokenFresh, Send, Margin, TypeOK, Clients, Messages, Silence
  <2>2. Prompt'
    BY DEF Call, EnsureToken, TokenFresh, Send, Margin, TypeOK, Prompt, Silence
  <2>3. InPhase'
    BY DEF Call, EnsureToken, TokenFresh, Send, Margin, TypeOK, Prompt, InPhase, Clients, Silence
  <2>. QED
    BY <2>1, <2>2, <2>3
<1>2. TokenKnown'
  BY DEF Call, EnsureToken, TokenFresh, Send, Margin, TypeOK, Prompt, InPhase, TokenKnown, Clients, Messages, Silence
<1>3. BuildKnown' /\ Expressible'
  BY DEF Call, EnsureToken, TokenFresh, Send, Margin, TypeOK, InPhase, BuildKnown, Effective, Expressible, Tier, Clients
<1>. QED
  BY <1>1, <1>2, <1>3

(* The next attempt of a call. *)
LEMMA AgainInv ==
    ASSUME Core, client.pc = "calling", Again, UNCHANGED <<now, build, override>>,
           faults' \in Nat
    PROVE  Core'
<1>1. CASE client' = Closed /\ message' = Silence
  BY <1>1, CloseInv
<1>2. CASE client' = [client EXCEPT !.attempt = @ + 1] /\ EnsureToken
  <2>. USE VeeamClientAssumption DEF Core
  <2>1. TypeOK' /\ Prompt' /\ InPhase'
    <3>1. TypeOK'
      BY <1>2 DEF EnsureToken, Send, TypeOK, Clients, Messages, Silence
    <3>2. Prompt'
      BY <1>2 DEF EnsureToken, Send, TypeOK, Prompt, Silence
    <3>3. InPhase'
      BY <1>2 DEF EnsureToken, Send, TypeOK, Prompt, InPhase, Clients, Silence
    <3>. QED
      BY <3>1, <3>2, <3>3
  <2>2. TokenKnown'
    BY <1>2 DEF EnsureToken, TokenFresh, Send, TypeOK, Prompt, InPhase,
       TokenKnown, Clients, Messages, Margin
  <2>3. BuildKnown' /\ Expressible'
    BY <1>2 DEF TypeOK, BuildKnown, Effective, Expressible, Tier, Clients
  <2>. QED
    BY <2>1, <2>2, <2>3
<1>. QED
  BY <1>1, <1>2 DEF Again

LEMMA ArriveInv == ASSUME Core, Arrive PROVE Core'
<1>. USE VeeamClientAssumption DEF Core
<1>1. TypeOK' /\ Prompt' /\ InPhase'
  <2>1. TypeOK'
    BY DEF Arrive, TypeOK, Clients, Messages, Silence
  <2>2. Prompt'
    BY DEF Arrive, TypeOK, Prompt, Silence
  <2>3. InPhase'
    BY DEF Arrive, TypeOK, Prompt, InPhase, Clients, Silence
  <2>. QED
    BY <2>1, <2>2, <2>3
<1>2. TokenKnown'
  BY DEF Arrive, TypeOK, Prompt, InPhase, TokenKnown, Clients, Messages, Silence, Margin
<1>3. BuildKnown' /\ Expressible'
  BY DEF Arrive, TypeOK, InPhase, BuildKnown, Effective, Expressible, Tier, Clients
<1>. QED
  BY <1>1, <1>2, <1>3

LEMMA AnsweredInv == ASSUME Core, Answered PROVE Core'
<1>1. CASE client' = Closed
  BY <1>1, CloseInv DEF Answered, Core, TypeOK
<1>2. CASE client' = [client EXCEPT !.pc = "ready"]
  <2>. USE VeeamClientAssumption DEF Core
  <2>1. TypeOK'
    BY <1>2 DEF Answered, TypeOK, Clients, Messages, Silence
  <2>2. Prompt' /\ InPhase'
    BY <1>2 DEF Answered, TypeOK, Prompt, InPhase, Clients, Silence
  <2>3. TokenKnown'
    BY <1>2 DEF Answered, TypeOK, TokenKnown, Clients, Silence
  <2>4. BuildKnown' /\ Expressible'
    BY <1>2 DEF Answered, TypeOK, InPhase, BuildKnown, Effective, Expressible, Clients
  <2>. QED
    BY <2>1, <2>2, <2>3, <2>4
<1>. QED
  BY <1>1, <1>2 DEF Answered

(* A client that is ready has nothing under way.                           *)
LEMMA ReadyIsQuiet == ASSUME Core, client.pc = "ready" PROVE message = Silence
BY DEF Core, TypeOK, Prompt, InPhase, Messages

LEMMA TickInv == ASSUME Core, Tick PROVE Core'
<1>. USE VeeamClientAssumption DEF Core
<1>1. TypeOK' /\ Prompt'
  BY DEF Tick, TypeOK, Prompt, Messages, Silence
<1>2. InPhase' /\ BuildKnown' /\ Expressible'
  BY DEF Tick, InPhase, BuildKnown, Effective, Expressible, Tier
<1>3. TokenKnown'
  BY DEF Tick, TypeOK, Clients, TokenKnown
<1>. QED
  BY <1>1, <1>2, <1>3

LEMMA CoreNext == ASSUME Core, [Next]_vars PROVE Core'
<1>1. ASSUME NEW o \in Operations, Open(o) PROVE Core'
  BY <1>1, OpenInv
<1>2. CASE IssueToken
  BY <1>2, IssueTokenInv
<1>3. CASE ReceiveToken
  BY <1>3, ReceiveTokenInv
<1>4. CASE OpenFails
  BY <1>4, CloseInv DEF OpenFails, Fault, Core, TypeOK
<1>5. CASE ServerInfo
  BY <1>5, ServerInfoInv
<1>6. CASE ServerInfoFails
  BY <1>6, ServerInfoFailsInv
<1>7. CASE Return
  BY <1>7, ReadyIsQuiet, CloseInv DEF Return, Core, TypeOK
<1>8. CASE Call
  BY <1>8, CallInv
<1>9. CASE Arrive
  BY <1>9, ArriveInv
<1>10. CASE Answered
  BY <1>10, AnsweredInv
<1>11. CASE Refused
  BY <1>11, AgainInv DEF Refused, Core, TypeOK, InPhase
<1>12. CASE RequestFails
  BY <1>12, AgainInv DEF RequestFails, Fault, Core, TypeOK
<1>13. CASE StopPolling
  BY <1>13, ReadyIsQuiet, CloseInv DEF StopPolling, Core, TypeOK
<1>14. ASSUME NEW points, NEW target \in Targets, Select(points, target)
       PROVE  Core'
  BY <1>14, CloseInv DEF Select, Core, TypeOK
<1>15. CASE Tick
  BY <1>15, TickInv
<1>16. CASE UNCHANGED vars
  BY <1>16 DEF vars, Core, TypeOK, Prompt, InPhase, TokenKnown, BuildKnown,
     Effective, Expressible, Tier
<1>. QED
  BY <1>1, <1>2, <1>3, <1>4, <1>5, <1>6, <1>7, <1>8, <1>9, <1>10, <1>11,
     <1>12, <1>13, <1>14, <1>15, <1>16 DEF Next

LEMMA CoreInit == Init => Core
BY VeeamClientAssumption, ClosedClient DEF Init, Core, TypeOK, Prompt, InPhase,
   TokenKnown, BuildKnown, Effective, Expressible, Messages, Silence, Closed

-----------------------------------------------------------------------------
(* What the server sees                                                     *)

(* Every step but the arrival of a request leaves the last one alone.      *)
LEMMA QuietLast ==
    ASSUME [Next]_vars, ~Arrive PROVE UNCHANGED <<last, build, override>>
<1>1. ASSUME NEW o \in Operations, Open(o) PROVE UNCHANGED <<last, build, override>>
  BY <1>1, Zenon DEF Open
<1>. QED
  BY <1>1, Zenon DEF Next, vars, IssueToken, ReceiveToken, OpenFails, ServerInfo,
     ServerInfoFails, Return, Call, Answered, Refused, RequestFails,
     StopPolling, Select, Tick

LEMMA TokenStep == ASSUME Core, TokenIsLive, [Next]_vars PROVE TokenIsLive'
<1>1. CASE Arrive
  BY <1>1, VeeamClientAssumption DEF Arrive, Core, TypeOK, Clients, Messages,
     Prompt, TokenKnown, Silence, TokenIsLive, NoCall
<1>2. CASE ~Arrive
  BY <1>2, QuietLast DEF TokenIsLive
<1>. QED
  BY <1>1, <1>2

(* A client that does not know the build can express no mount and asks for *)
(* nothing that only a Veeam 13 has.                                       *)
LEMMA ExpressibleIsKnown ==
    ASSUME Core, client.pc = "calling",
           client.op \in {"start", "repositories", "malware"}
    PROVE  /\ client.build # Unknown /\ client.build = build
           /\ client.header = Effective(XApiVersion(build))
<1>1. ApiVersionForBuild(Unknown) = "v1.0"
  BY DEF ApiVersionForBuild, Unknown
<1>2. client.build # Unknown
  BY <1>1 DEF Core, Expressible, Raises, Unasked, Tier
<1>. QED
  BY <1>2 DEF Core, BuildKnown

LEMMA StartStep ==
    ASSUME Core, StartFitsServer, [Next]_vars PROVE StartFitsServer'
<1>1. CASE Arrive
  <2>1. client.pc = "calling" /\ build' = build /\ override' = override
    BY <1>1 DEF Arrive, Core, InPhase
  <2>2. /\ last'.op = client.op /\ last'.path = PathOf(client.op, Tier)
        /\ last'.header = client.header /\ last'.known = (client.build # Unknown)
    BY <1>1 DEF Arrive
  <2>3. CASE client.build = build /\ client.header = Effective(XApiVersion(build))
    <3>1. last'.path = PathOf(last'.op, ApiVersionForBuild(build'))
      BY <2>1, <2>2, <2>3 DEF Tier
    <3>2. PathKnown' /\ last'.header = Effective(XApiVersion(build))'
      BY <2>1, <2>2, <2>3, <3>1 DEF PathKnown, Effective
    <3>3. last'.op \in {"start", "repositories", "malware"} => last'.known
      BY <2>1, <2>2, ExpressibleIsKnown
    <3>. QED
      BY <3>2, <3>3 DEF StartFitsServer
  <2>4. CASE client.build = Unknown /\ client.header = Effective(DefaultXApiVersion)
    <3>1. last'.op \notin {"start", "repositories", "malware"}
      BY <2>1, <2>2, <2>4, ExpressibleIsKnown
    <3>2. ~last'.known /\ last'.header = Effective(DefaultXApiVersion)'
      BY <2>1, <2>2, <2>4 DEF Effective
    <3>. QED
      BY <3>1, <3>2 DEF StartFitsServer
  <2>. QED
    BY <2>1, <2>3, <2>4 DEF Core, BuildKnown
<1>2. CASE ~Arrive
  BY <1>2, QuietLast DEF StartFitsServer, PathKnown, Effective
<1>. QED
  BY <1>1, <1>2

-----------------------------------------------------------------------------
(* The restore point                                                        *)

LEMMA LeastNatural ==
    ASSUME NEW T, T \subseteq Nat, T # {}
    PROVE  \E x \in T : \A y \in T : x <= y
<1> DEFINE R == {ss \in Nat \X Nat : ss[1] < ss[2]}
<1>0. IsWellFoundedOn(R, Nat)
  BY NatLessThanWellFounded, Zenon DEF OpToRel
<1> HIDE DEF R
<1>1. PICK x \in T : \A y \in T : <<y, x>> \notin R
  BY <1>0, WFMin
<1>2. \A y \in T : ~(y < x)
  BY <1>1 DEF R
<1>. QED
  BY <1>2

(* The points named have a date that is not after the given second.        *)
Dated(points, among, top) ==
    \A i \in among : points[i].time \in Int /\ points[i].time <= top

(* Newest finds a point: the first of those with the latest time.          *)
LEMMA NewestExists ==
    ASSUME NEW n \in Nat, NEW points, NEW top \in Nat,
           NEW among \in SUBSET (1..n), among # {}, Dated(points, among, top)
    PROVE  /\ Newest(points, among) \in among
           /\ \A j \in among :
                points[j].time <= points[Newest(points, among)].time
<1>. USE DEF Dated
<1>1. PICK k \in among : \A j \in among : points[j].time <= points[k].time
  <2>. DEFINE T == {top - points[i].time : i \in among}
  <2>1. \A i \in among : top - points[i].time \in Nat
    OBVIOUS
  <2>2. PICK x \in T : \A y \in T : x <= y
    <3>1. T \subseteq Nat
      BY <2>1
    <3>2. T # {}
      OBVIOUS
    <3>. HIDE DEF T
    <3>. QED
      BY <3>1, <3>2, LeastNatural
  <2>3. PICK i \in among : x = top - points[i].time
    BY <2>2
  <2>4. ASSUME NEW j \in among PROVE points[j].time <= points[i].time
    <3>1. x <= top - points[j].time
      BY <2>2
    <3>. QED
      BY <3>1, <2>3
  <2>. QED
    BY <2>4
<1>2. PICK i \in among :
        /\ points[i].time = points[k].time
        /\ \A j \in among : points[j].time = points[k].time => i <= j
  <2>. DEFINE T == {j \in among : points[j].time = points[k].time}
  <2>1. T \subseteq Nat /\ k \in T
    <3>1. among \subseteq Nat
      OBVIOUS
    <3>. QED
      BY <3>1
  <2>2. PICK x \in T : \A y \in T : x <= y
    <3>. HIDE DEF T
    <3>. QED
      BY <2>1, LeastNatural
  <2>. QED
    BY <2>2
<1>3. \A j \in among : \/ points[j].time < points[i].time
                       \/ points[j].time = points[i].time /\ i <= j
  BY <1>1, <1>2
<1>. DEFINE P(m) == \A j \in among :
                      \/ points[j].time < points[m].time
                      \/ points[j].time = points[m].time /\ m <= j
<1>4. Newest(points, among) = CHOOSE m \in among : P(m)
  BY DEF Newest
<1>5. \E m \in among : P(m)
  BY <1>3
<1>6. Newest(points, among) \in among /\ P(Newest(points, among))
  BY <1>4, <1>5
<1>7. ASSUME NEW m \in among, P(m), NEW j \in among
      PROVE  points[j].time <= points[m].time
  <2>1. points[j].time \in Int /\ points[m].time \in Int
    OBVIOUS
  <2>2. points[j].time < points[m].time \/ points[j].time = points[m].time
    BY <1>7
  <2>. HIDE DEF P, Dated
  <2>. QED
    BY <2>1, <2>2
<1>. QED
  BY <1>6, <1>7

(* The newer a point, the smaller its age.                                 *)
LEMMA AgeIsAntitone ==
    ASSUME NEW at \in Int, NEW t \in Int, NEW u \in Int, t <= u
    PROVE  /\ Age(t, at) \in Int /\ Age(u, at) \in Int
           /\ Age(u, at) <= Age(t, at)
<1>1. (60 * at - u) \div 60 <= (60 * at - t) \div 60
  OBVIOUS
<1>. QED
  BY <1>1 DEF Age

(* select_restore_point is right about any list of points that are dated   *)
(* before some time, with and without a target.                            *)
LEMMA SelectIsRight ==
    ASSUME NEW n \in Nat, NEW points, DOMAIN points = 1..n, NEW top \in Nat,
           NEW at \in Int, NEW target \in Int, Dated(points, 1..n, top),
           NEW chosen, chosen = SelectRestorePoint(points, target, at),
           chosen # 0 \/ {i \in 1..n : points[i].consistent} # {}
    PROVE  /\ chosen \in 1..n /\ points[chosen].consistent
           /\ \A i \in 1..n : points[i].consistent =>
                /\ points[i].time <= points[chosen].time
                /\ Age(points[chosen].time, at) <= Age(points[i].time, at)
<1>. DEFINE consistent == {i \in 1..n : points[i].consistent}
            inWindow == {i \in consistent : Age(points[i].time, at) <= target}
<1>1. chosen = CASE consistent = {} -> 0
                 [] target # NoTarget /\ inWindow # {} -> Newest(points, inWindow)
                 [] OTHER -> Newest(points, consistent)
  BY DEF SelectRestorePoint
<1>2. consistent # {}
  BY <1>1
<1>3. \/ inWindow # {} /\ chosen = Newest(points, inWindow)
      \/ chosen = Newest(points, consistent)
  <2>. HIDE DEF consistent, inWindow
  <2>. QED
    BY <1>1, <1>2
<1>4. ASSUME NEW i \in 1..n, NEW j \in 1..n, points[j].time <= points[i].time
      PROVE  /\ Age(points[i].time, at) \in Int
             /\ Age(points[j].time, at) \in Int
             /\ Age(points[i].time, at) <= Age(points[j].time, at)
  <2>1. points[i].time \in Int /\ points[j].time \in Int
    BY DEF Dated
  <2>. QED
    BY <1>4, <2>1, AgeIsAntitone
<1>5. CASE inWindow # {} /\ chosen = Newest(points, inWindow)
  <2>1. inWindow \in SUBSET (1..n) /\ Dated(points, inWindow, top)
    BY DEF Dated
  <2>2. /\ chosen \in inWindow
        /\ \A j \in inWindow : points[j].time <= points[chosen].time
    <3>. HIDE DEF inWindow
    <3>. QED
      BY <1>5, <2>1, NewestExists
  <2>3. chosen \in 1..n /\ points[chosen].consistent
        /\ Age(points[chosen].time, at) <= target
    BY <2>2
  <2>4. ASSUME NEW i \in 1..n, points[i].consistent
        PROVE  points[i].time <= points[chosen].time
    <3>1. CASE points[chosen].time <= points[i].time
      <4>1. Age(points[i].time, at) <= target
        BY <1>4, <2>3, <3>1
      <4>2. i \in inWindow
        BY <2>4, <4>1
      <4>. QED
        BY <2>2, <4>2
    <3>2. points[i].time \in Int /\ points[chosen].time \in Int
      BY <2>3 DEF Dated
    <3>. QED
      BY <3>1, <3>2
  <2>. QED
    BY <1>4, <2>3, <2>4
<1>6. CASE chosen = Newest(points, consistent)
  <2>1. consistent \in SUBSET (1..n) /\ Dated(points, consistent, top)
    BY DEF Dated
  <2>2. /\ chosen \in consistent
        /\ \A j \in consistent : points[j].time <= points[chosen].time
    <3>. HIDE DEF consistent
    <3>. QED
      BY <1>2, <1>6, <2>1, NewestExists
  <2>. QED
    BY <1>4, <2>2
<1>. QED
  BY <1>3, <1>5, <1>6

LEMMA SelectStep ==
    ASSUME Core, NEW n \in 0..MaxPoints, NEW target \in Targets,
           NEW points \in [1..n -> Points], Select(points, target)
    PROVE  NewestConsistent'
<1>. DEFINE chosen == SelectRestorePoint(points, target, now)
<1>1. /\ pick'.points = points /\ pick'.at = now /\ pick'.chosen = chosen
  BY DEF Select
<1>2. now \in Nat /\ target \in Int /\ n \in Nat /\ DOMAIN points = 1..n
  BY VeeamClientAssumption DEF Core, TypeOK
<1>3. Dated(points, 1..n, 60 * now + 30)
  <2>1. \A p \in Points : p.time \in Int /\ p.time <= 60 * now + 30
    BY <1>2 DEF Points
  <2>. QED
    BY <2>1 DEF Dated
<1>4. 60 * now + 30 \in Nat /\ now \in Int
  BY <1>2
<1>. HIDE DEF chosen
<1>5. chosen = SelectRestorePoint(points, target, now)
  BY DEF chosen
<1>6. \/ chosen = 0 /\ {i \in 1..n : points[i].consistent} = {}
      \/ /\ chosen \in 1..n /\ points[chosen].consistent
         /\ \A i \in 1..n : points[i].consistent =>
              /\ points[i].time <= points[chosen].time
              /\ Age(points[chosen].time, now) <= Age(points[i].time, now)
  BY <1>2, <1>3, <1>4, <1>5, SelectIsRight
<1>. QED
  BY <1>1, <1>2, <1>6 DEF NewestConsistent

LEMMA NewestStep ==
    ASSUME Core, NewestConsistent, [Next]_vars PROVE NewestConsistent'
<1>1. ASSUME NEW n \in 0..MaxPoints, NEW target \in Targets,
             NEW points \in [1..n -> Points], Select(points, target)
      PROVE  NewestConsistent'
  BY <1>1, SelectStep
<1>2. ASSUME NEW o \in Operations, Open(o) PROVE NewestConsistent'
  BY <1>2 DEF Open, NoPick, NewestConsistent
<1>3. CASE UNCHANGED pick
  BY <1>3 DEF NewestConsistent
<1>. QED
  BY <1>1, <1>2, <1>3, Zenon DEF Next, vars, IssueToken, ReceiveToken, OpenFails,
     ServerInfo, ServerInfoFails, Return, Call, Arrive, Answered, Refused,
     RequestFails, StopPolling, Tick

-----------------------------------------------------------------------------
LEMMA InitInv == Init => IndInv
<1>. SUFFICES ASSUME Init PROVE IndInv
  OBVIOUS
<1>1. TokenIsLive /\ StartFitsServer
  BY DEF Init, TokenIsLive, StartFitsServer
<1>2. NewestConsistent
  BY DEF Init, NoPick, NewestConsistent
<1>. QED
  BY <1>1, <1>2, CoreInit DEF Core, IndInv

LEMMA NextInv == ASSUME IndInv, [Next]_vars PROVE IndInv'
BY CoreNext, TokenStep, StartStep, NewestStep DEF IndInv, Core

LEMMA SpecInv == Spec => []IndInv
<1>1. IndInv /\ [Next]_vars => IndInv'
  BY NextInv
<1>. QED
  BY <1>1, InitInv, PTL DEF Spec

(* The client and its messages keep their types.                           *)
THEOREM TypeTheorem == Spec => []TypeOK
<1>1. IndInv => TypeOK
  BY DEF IndInv
<1>. QED
  BY <1>1, SpecInv, PTL

(* _ensure_token with its margin of two minutes: no request of _get or     *)
(* _post reaches Veeam with a token that has run out there, whatever the   *)
(* lifetime of the tokens, as long as the margin pays for two messages.    *)
THEOREM TokenTheorem == Spec => []TokenIsLive
<1>1. IndInv => TokenIsLive
  BY DEF IndInv
<1>. QED
  BY <1>1, SpecInv, PTL

(* instant_recovery_endpoint and x_api_version: a mount is started only on *)
(* a server whose build was detected, with its path, and with its header   *)
(* or the one of the settings.                                             *)
THEOREM StartTheorem == Spec => []StartFitsServer
<1>1. IndInv => StartFitsServer
  BY DEF IndInv
<1>. QED
  BY <1>1, SpecInv, PTL

(* select_restore_point: the newest consistent restore point is chosen, of *)
(* any number of points and for any RPO target.                            *)
THEOREM NewestTheorem == Spec => []NewestConsistent
<1>1. IndInv => NewestConsistent
  BY DEF IndInv
<1>. QED
  BY <1>1, SpecInv, PTL

-----------------------------------------------------------------------------
(***************************************************************************)
(* The other providers                                                      *)
(***************************************************************************)
CallNames == {"read", "find", "snaps", "vms", "job", "snap", "switch", "clone",
              "kill", "drop", "unswitch", "roll", "preview", "commit", "start",
              "stop"}
Kinds == {"free", "snap", "vm", "switch", "gone"}
Removals == {"kill", "drop", "unswitch"}
TaskType == [call : Creations \cup Removals \cup {"roll"}, on : {0} \cup Ids, by : Nat]

(* The client, its caller and the provider.                                *)
ClientTypeOK ==
    /\ prov \in Providers /\ lib \in BOOLEAN /\ handle \in BOOLEAN
    /\ op \in {"connect"} \cup DOMAIN Calls[prov]
    /\ rest \in Seq(CallNames)
    /\ arg \in {0} \cup Ids /\ got \in {0} \cup Ids /\ left \subseteq Ids
    /\ answer \in {"new", "none", "ok", "failed"}
CallerTypeOK ==
    /\ ops \in Nat /\ failed \in Nat /\ restores \in Nat
    /\ told \subseteq Ids /\ traced \subseteq Ids
ProviderTypeOK ==
    /\ res \in [Ids -> Kinds]
    /\ disk \in {"live", "preview", "restored"} /\ power \in BOOLEAN
    /\ job \in {0} \cup Ids /\ tasks \subseteq TaskType /\ aborted \subseteq Nat
ConnectorTypeOK == ClientTypeOK /\ CallerTypeOK /\ ProviderTypeOK

(* The one instance AWS runs is the one of the job under the token.        *)
TokenHolds == prov = "aws" => \A i \in Ids : res[i] = "vm" => i = job

(* A list of calls looks things up and has its one effect.  Only a preview *)
(* is followed by another effect, and only XenServer reads once more.      *)
WellFormed(p, calls) ==
    \A j, k \in 1..Len(calls) : j < k =>
        \/ calls[j] \in {"read", "find"}
        \/ calls[k] = "read" /\ p = "xenserver"
        \/ calls[j] = "preview" /\ calls[k] = "commit"

OnlyReads(calls) == \A k \in 1..Len(calls) : calls[k] = "read"

(* An operation is under way as long as it has calls to make, and once it  *)
(* has created something it only reads.                                    *)
Progress ==
    /\ WellFormed(prov, rest)
    /\ Idle <=> rest = <<>>
    /\ ~Idle => op # "connect" /\ ToSet(rest) \subseteq ToSet(Calls[prov][op])
    /\ ~Idle /\ got # 0 => OnlyReads(rest) /\ prov = "xenserver"

(* Whatever is spoken of was created at some time.                         *)
Used(i) == i \in Ids => res[i] # "free"

AllUsed ==
    /\ Used(arg) /\ Used(got) /\ Used(job)
    /\ \A i \in left \cup traced : Used(i)
    /\ \A t \in tasks : Used(t.on)

(* A resource is being made by one task, and nothing else touches it.      *)
KindOf(c) == IF c = "clone" THEN "vm" ELSE c

TasksFit ==
    /\ \A t \in tasks : t.call \in Creations => t.on \in Ids /\ res[t.on] = KindOf(t.call)
    /\ \A t, u \in tasks :
         t.call \in Creations /\ u.call \in Creations /\ t.on = u.on => t = u

(* A call of the operation that was made.  What it leaves behind is there, *)
(* or a task for it was started that has not ended or ended without.       *)
Finals == {"snap", "switch", "clone", "kill", "drop", "unswitch", "roll",
           "commit", "start", "stop"}

Made(c) == Does(c) /\ c \notin ToSet(rest)

Safe(i) == \A t \in tasks : t.call \in Removals => t.on # i

Asked(c) ==
    /\ c # "unswitch"
    /\ \E t \in tasks : t.by = ops /\ t.call = c
                        /\ t.on = (IF c \in Creations THEN got ELSE arg)

Has(c) ==
    /\ c \in Creations => got \in OfKind(KindOf(c))
    /\ c \in {"kill", "drop"} => arg \in Ids /\ res[arg] = "gone"
    /\ c = "unswitch" => got \in Ids /\ res[got] = "gone"
    /\ c \in {"roll", "commit"} => disk = "restored"
    /\ c = "start" => power
    /\ c = "stop" => ~power

Took(c) ==
    IF c = "clone" /\ prov = "aws" THEN got = job /\ got \in Ids
    ELSE /\ c \in Creations => got \in Ids /\ Safe(got)
         /\ ops \in aborted \/ Asked(c) \/ Has(c)

DoneSoFar ==
    answer \in {"none", "ok"} =>
      \A c \in Finals : Made(c) => OnlyReads(rest) /\ Took(c)

(* What the caller can neither speak of nor ask after: a failure was       *)
(* answered for each, or a success that named nothing.                     *)
Lost == {i \in Ids : Live(i) /\ i \notin Known \cup traced /\ (Idle \/ i # got)}
Blind == IF prov \in {"azure", "nutanix"} THEN restores ELSE 0
LostCounted == Cardinality(Lost) <= failed + Blind

ConnectorInv ==
    /\ ConnectorTypeOK
    /\ TokenHolds
    /\ Progress
    /\ AllUsed
    /\ TasksFit
    /\ DoneSoFar
    /\ LostCounted

-----------------------------------------------------------------------------
(* The lists of calls                                                       *)

FineList(p, calls) ==
    /\ calls \in Seq(CallNames) /\ calls # <<>> /\ WellFormed(p, calls)
    /\ "preview" \in ToSet(calls) => "commit" \in ToSet(calls)

LEMMA OneCall ==
    ASSUME NEW p, NEW c \in CallNames, c # "preview" PROVE FineList(p, <<c>>)
BY DEF FineList, WellFormed, ToSet

LEMMA ListsFine ==
    ASSUME NEW p
    PROVE  /\ FineList(p, <<"read", "read">>) /\ FineList(p, <<"preview", "commit">>)
           /\ FineList(p, <<"read", "drop">>)
           /\ FineList(p, <<"read", "read", "snap">>)
           /\ FineList(p, <<"read", "read", "roll">>)
           /\ FineList(p, <<"read", "read", "switch">>)
           /\ FineList(p, <<"read", "find", "unswitch">>)
           /\ FineList(p, <<"read", "read", "snaps">>)
           /\ p = "xenserver" => FineList(p, <<"read", "snap", "read">>)
           /\ p = "xenserver" => FineList(p, <<"read", "clone", "read">>)
<1>1. \A c, d \in CallNames : (c = "read" /\ d # "preview") \/ (c = "preview" /\ d = "commit")
        => FineList(p, <<c, d>>)
  <2>. SUFFICES ASSUME NEW c \in CallNames, NEW d \in CallNames,
                       (c = "read" /\ d # "preview") \/ (c = "preview" /\ d = "commit")
                PROVE  FineList(p, <<c, d>>)
    OBVIOUS
  <2>1. WellFormed(p, <<c, d>>)
    BY DEF WellFormed
  <2>2. <<c, d>> \in Seq(CallNames) /\ <<c, d>> # <<>> /\ ToSet(<<c, d>>) = {c, d}
    BY DEF ToSet
  <2>. QED
    BY <2>1, <2>2 DEF FineList
<1>2. \A c, d, e \in CallNames :
        /\ c = "read" /\ (d \in {"read", "find"} \/ (e = "read" /\ p = "xenserver"))
        /\ d # "preview" /\ e # "preview"
        => FineList(p, <<c, d, e>>)
  <2>. SUFFICES ASSUME NEW c \in CallNames, NEW d \in CallNames, NEW e \in CallNames,
                       c = "read",
                       d \in {"read", "find"} \/ (e = "read" /\ p = "xenserver"),
                       d # "preview" /\ e # "preview"
                PROVE  FineList(p, <<c, d, e>>)
    OBVIOUS
  <2>1. WellFormed(p, <<c, d, e>>)
    BY DEF WellFormed
  <2>2. /\ <<c, d, e>> \in Seq(CallNames) /\ <<c, d, e>> # <<>>
        /\ ToSet(<<c, d, e>>) = {c, d, e}
    BY DEF ToSet
  <2>. QED
    BY <2>1, <2>2 DEF FineList
<1>3. {"read", "preview", "commit", "drop", "snap", "roll", "switch", "find",
       "unswitch", "snaps", "clone"} \subseteq CallNames
  BY DEF CallNames
<1>. QED
  BY <1>1, <1>2, <1>3

LEMMA SinglesFine ==
    ASSUME NEW p
    PROVE  \A c \in {"read", "snaps", "vms", "job", "snap", "clone", "kill", "drop",
                     "roll", "start", "stop"} : FineList(p, <<c>>)
BY OneCall DEF CallNames

(* Every operation of every client has such a list.                        *)
LEMMA CallsFine ==
    ASSUME NEW p \in ProviderNames, NEW o \in DOMAIN Calls[p]
    PROVE  FineList(p, Calls[p][o])
<1>1. CASE p = "aws"
  <2>1. Calls[p] = AwsCalls
    BY <1>1 DEF Calls
  <2>. QED
    BY <1>1, <2>1, SinglesFine, ListsFine DEF AwsCalls
<1>2. CASE p = "azure"
  <2>1. Calls[p] = AzureCalls
    BY <1>2 DEF Calls
  <2>. QED
    BY <1>2, <2>1, SinglesFine, ListsFine DEF AzureCalls
<1>3. CASE p = "gcp"
  <2>1. Calls[p] = GcpCalls
    BY <1>3 DEF Calls
  <2>. QED
    BY <1>3, <2>1, SinglesFine, ListsFine DEF GcpCalls
<1>4. CASE p = "hyperv"
  <2>1. Calls[p] = HypervCalls
    BY <1>4 DEF Calls
  <2>. QED
    BY <1>4, <2>1, SinglesFine, ListsFine, SMTT(30) DEF HypervCalls
<1>5. CASE p = "nutanix"
  <2>1. Calls[p] = NutanixCalls
    BY <1>5 DEF Calls
  <2>. QED
    BY <1>5, <2>1, SinglesFine, ListsFine DEF NutanixCalls
<1>6. CASE p = "proxmox"
  <2>1. Calls[p] = ProxmoxCalls
    BY <1>6 DEF Calls
  <2>. QED
    BY <1>6, <2>1, SinglesFine, ListsFine DEF ProxmoxCalls
<1>7. CASE p = "rhv"
  <2>1. Calls[p] = RhvCalls
    BY <1>7 DEF Calls
  <2>. QED
    BY <1>7, <2>1, SinglesFine, ListsFine DEF RhvCalls
<1>8. CASE p = "sangfor"
  <2>1. Calls[p] = SangforCalls
    BY <1>8 DEF Calls
  <2>. QED
    BY <1>8, <2>1, SinglesFine, ListsFine DEF SangforCalls
<1>9. CASE p = "xenserver"
  <2>1. Calls[p] = XenCalls
    BY <1>9 DEF Calls
  <2>. QED
    BY <1>9, <2>1, SinglesFine, ListsFine, SMTT(30) DEF XenCalls
<1>. QED
  BY <1>1, <1>2, <1>3, <1>4, <1>5, <1>6, <1>7, <1>8, <1>9 DEF ProviderNames

(* What AWS, Azure, GCE and Proxmox can create.                            *)
LEMMA CreatesOnly ==
    ASSUME NEW p \in ProviderNames, NEW o \in DOMAIN Calls[p],
           NEW c \in Creations, c \in ToSet(Calls[p][o])
    PROVE  /\ p \in {"aws", "azure"} => c = "clone"
           /\ p = "gcp" => c \in {"snap", "clone"}
           /\ p = "proxmox" => c = "snap"
<1>1. \A d : ToSet(<<d>>) = {d}
  BY DEF ToSet
<1>2. CASE p = "aws"
  <2>1. Calls[p] = AwsCalls
    BY <1>2 DEF Calls
  <2>. QED
    BY <1>1, <1>2, <2>1 DEF AwsCalls, Creations
<1>3. CASE p = "azure"
  <2>1. Calls[p] = AzureCalls
    BY <1>3 DEF Calls
  <2>. QED
    BY <1>1, <1>3, <2>1 DEF AzureCalls, Creations
<1>4. CASE p = "gcp"
  <2>1. Calls[p] = GcpCalls
    BY <1>4 DEF Calls
  <2>. QED
    BY <1>1, <1>4, <2>1 DEF GcpCalls, Creations
<1>5. CASE p = "proxmox"
  <2>1. Calls[p] = ProxmoxCalls
    BY <1>5 DEF Calls
  <2>. QED
    BY <1>1, <1>5, <2>1 DEF ProxmoxCalls, Creations
<1>. QED
  BY <1>2, <1>3, <1>4, <1>5

(* The calls that are left after one.                                      *)
LEMMA AfterCall ==
    ASSUME NEW p, NEW s \in Seq(CallNames), s # <<>>, WellFormed(p, s)
    PROVE  /\ Head(s) \in CallNames /\ Tail(s) \in Seq(CallNames)
           /\ WellFormed(p, Tail(s))
           /\ ToSet(s) = {Head(s)} \cup ToSet(Tail(s))
           /\ Head(s) \in Finals => OnlyReads(Tail(s))
           /\ Head(s) \in Finals /\ Tail(s) # <<>> => p = "xenserver"
           /\ OnlyReads(s) => Head(s) = "read" /\ OnlyReads(Tail(s))
<1>. DEFINE t == Tail(s)
<1>1. /\ Head(s) \in CallNames /\ t \in Seq(CallNames)
      /\ Len(s) \in Nat /\ Len(t) \in Nat /\ Len(s) = Len(t) + 1 /\ Head(s) = s[1]
      /\ DOMAIN s = 1..Len(s) /\ DOMAIN t = 1..Len(t)
      /\ \A k \in 1..Len(t) : t[k] = s[k + 1]
  BY HeadTailProperties, LenProperties
<1>. HIDE DEF t
<1>2. \A k \in 1..Len(t) : k + 1 \in 1..Len(s) /\ k + 1 > 1
  BY <1>1
<1>3. WellFormed(p, t)
  <2>1. ASSUME NEW j \in 1..Len(t), NEW k \in 1..Len(t), j < k
        PROVE  /\ j + 1 \in 1..Len(s) /\ k + 1 \in 1..Len(s) /\ j + 1 < k + 1
               /\ t[j] = s[j + 1] /\ t[k] = s[k + 1]
    BY <1>1, <2>1
  <2>. QED
    BY <2>1 DEF WellFormed
<1>4. ToSet(s) = {Head(s)} \cup ToSet(t)
  <2>1. \A k \in 1..Len(s) : k = 1 \/ (k - 1 \in 1..Len(t) /\ (k - 1) + 1 = k)
    BY <1>1
  <2>2. 1 \in 1..Len(s)
    BY <1>1
  <2>3. ToSet(s) = {s[k] : k \in 1..Len(s)} /\ ToSet(t) = {t[k] : k \in 1..Len(t)}
    BY <1>1 DEF ToSet
  <2>4. ASSUME NEW k \in 1..Len(s) PROVE s[k] = s[1] \/ s[k] \in ToSet(t)
    <3>1. CASE k = 1
      BY <3>1
    <3>2. CASE k - 1 \in 1..Len(t) /\ (k - 1) + 1 = k
      <4>1. t[k - 1] = s[k]
        BY <1>1, <3>2
      <4>. QED
        BY <2>3, <3>2, <4>1
    <3>. QED
      BY <2>1, <3>1, <3>2
  <2>5. ASSUME NEW k \in 1..Len(t) PROVE t[k] \in ToSet(s)
    BY <1>1, <1>2, <2>3
  <2>. QED
    BY <1>1, <2>2, <2>3, <2>4, <2>5
<1>5. ASSUME Head(s) \in Finals PROVE OnlyReads(t)
  <2>1. 1 \in 1..Len(s)
    BY <1>1
  <2>2. s[1] \notin {"read", "find", "preview"}
    BY <1>1, <1>5 DEF Finals
  <2>3. ASSUME NEW k \in 1..Len(t) PROVE s[k + 1] = "read"
    BY <1>2, <2>1, <2>2 DEF WellFormed
  <2>. QED
    BY <1>1, <2>3 DEF OnlyReads
<1>7. ASSUME Head(s) \in Finals, t # <<>> PROVE p = "xenserver"
  <2>1. Len(t) # 0
    BY <1>1, <1>7, EmptySeq
  <2>2. 1 \in 1..Len(s) /\ 2 \in 1..Len(s) /\ 1 < 2
    BY <1>1, <2>1
  <2>3. s[1] \notin {"read", "find", "preview"}
    BY <1>1, <1>7 DEF Finals
  <2>. QED
    BY <2>2, <2>3 DEF WellFormed
<1>6. OnlyReads(s) => Head(s) = "read" /\ OnlyReads(t)
  BY <1>1, <1>2 DEF OnlyReads
<1>. QED
  BY <1>1, <1>3, <1>4, <1>5, <1>6, <1>7 DEF t

LEMMA IdsFinite == IsFiniteSet(Ids) /\ 0 \notin Ids
BY ConnectorsAssumption, FS_Interval DEF Ids

(* A set that gains at most one element grows by at most one.              *)
LEMMA CountUp ==
    ASSUME NEW A, IsFiniteSet(A), NEW B
    PROVE  /\ Cardinality(A) \in Nat
           /\ B \subseteq A => Cardinality(B) \in Nat /\ Cardinality(B) <= Cardinality(A)
           /\ \A x : B \subseteq A \cup {x} =>
                Cardinality(B) \in Nat /\ Cardinality(B) <= Cardinality(A) + 1
<1>1. Cardinality(A) \in Nat
  BY FS_CardinalityType
<1>2. ASSUME B \subseteq A
      PROVE  Cardinality(B) \in Nat /\ Cardinality(B) <= Cardinality(A)
  BY <1>2, FS_Subset, FS_CardinalityType
<1>3. ASSUME NEW x, B \subseteq A \cup {x}
      PROVE  Cardinality(B) \in Nat /\ Cardinality(B) <= Cardinality(A) + 1
  <2>1. /\ IsFiniteSet(A \cup {x}) /\ Cardinality(A \cup {x}) \in Nat
        /\ Cardinality(A \cup {x}) <= Cardinality(A) + 1
    BY <1>1, FS_AddElement, FS_CardinalityType
  <2>2. Cardinality(B) \in Nat /\ Cardinality(B) <= Cardinality(A \cup {x})
    BY <1>3, <2>1, FS_Subset, FS_CardinalityType
  <2>. QED
    BY <1>1, <2>1, <2>2
<1>. QED
  BY <1>1, <1>2, <1>3


-----------------------------------------------------------------------------
(* The provider                                                             *)

LEMMA Updated ==
    ASSUME NEW i \in Ids, NEW k \in Kinds, res \in [Ids -> Kinds],
           res' = [res EXCEPT ![i] = k]
    PROVE  /\ res' \in [Ids -> Kinds] /\ res'[i] = k
           /\ \A j \in Ids : j # i => res'[j] = res[j]
OBVIOUS

Created(k) ==
    \E i \in Fresh : /\ got' = i /\ i \in Ids /\ res[i] = "free" /\ res'[i] = k
                     /\ res' \in [Ids -> Kinds]
                     /\ \A j \in Ids : j # i => res'[j] = res[j]

Deleted(i) ==
    /\ i \in Ids /\ i \notin Making /\ Live(i) /\ res'[i] = "gone"
    /\ res' \in [Ids -> Kinds]
    /\ \A j \in Ids : j # i => res'[j] = res[j]

LEMMA CreateMeans ==
    ASSUME ProviderTypeOK, NEW k \in {"snap", "switch", "vm"}, NEW i \in Fresh,
           Create(k, i)
    PROVE  Created(k) /\ got' = i
<1>1. i \in Ids /\ res[i] = "free" /\ got' = i /\ res' = [res EXCEPT ![i] = k]
  BY DEF Create, Fresh
<1>2. k \in Kinds /\ res \in [Ids -> Kinds]
  BY DEF Kinds, ProviderTypeOK
<1>. QED
  BY <1>1, <1>2, Updated DEF Created

LEMMA DeleteMeans ==
    ASSUME ProviderTypeOK, NEW i, Delete(i) PROVE Deleted(i)
<1>1. i \in Ids /\ i \notin Making /\ Live(i) /\ res' = [res EXCEPT ![i] = "gone"]
  BY DEF Delete
<1>2. "gone" \in Kinds /\ res \in [Ids -> Kinds]
  BY DEF Kinds, ProviderTypeOK
<1>. QED
  BY <1>1, <1>2, Updated DEF Deleted

(* The task of a call, if the provider works with one.                     *)
TaskOf(c, i) == [call |-> c, on |-> i, by |-> ops]
Sent(c, i) == tasks' = tasks \/ tasks' = tasks \cup {TaskOf(c, i)}

(* The call at the head of the list, by its name.                          *)
Performed(c) ==
    \/ c \in Reads /\ UNCHANGED <<res, got, disk, power, job, tasks>>
    \/ /\ c \in {"snap", "switch"} /\ Created(c) /\ Sent(c, got')
       /\ UNCHANGED <<disk, power, job>>
    \/ /\ c = "clone" /\ prov = "aws" /\ got' = job /\ job # 0
       /\ UNCHANGED <<res, disk, power, job, tasks>>
    \/ /\ c = "clone" /\ ~(prov = "aws" /\ job # 0) /\ Created("vm") /\ Sent(c, got')
       /\ \/ prov = "aws" /\ job' = got'
          \/ prov # "aws" /\ job' = job
       /\ UNCHANGED <<disk, power>>
    \/ /\ c \in {"kill", "drop"} /\ Deleted(arg)
       /\ UNCHANGED <<got, disk, power, job, tasks>>
    \/ /\ c = "unswitch" /\ got' \in left /\ Deleted(got')
       /\ UNCHANGED <<disk, power, job, tasks>>
    \/ /\ c \in {"roll", "commit"} /\ disk' = "restored"
       /\ UNCHANGED <<res, got, power, job, tasks>>
    \/ /\ c = "preview" /\ disk' = "preview"
       /\ UNCHANGED <<res, got, power, job, tasks>>
    \/ c = "start" /\ power' = TRUE /\ UNCHANGED <<res, got, disk, job, tasks>>
    \/ c = "stop" /\ power' = FALSE /\ UNCHANGED <<res, got, disk, job, tasks>>
    \/ /\ c \in {"kill", "drop", "roll"} /\ tasks' = tasks \cup {TaskOf(c, arg)}
       /\ UNCHANGED <<res, got, disk, power, job>>

LEMMA EffectMeans ==
    ASSUME ProviderTypeOK, NEW c, c = Head(rest), Effect
    PROVE  Performed(c)
<1>0. \A i : Provide(c, i) => Sent(c, i)
  BY DEF Provide, Start, Sent, TaskOf
<1>1. CASE c \in Reads /\ UNCHANGED <<res, got, disk, power, job, tasks>>
  BY <1>1 DEF Performed
<1>2. CASE /\ c \in {"snap", "switch"}
           /\ \E i \in Fresh : Create(c, i) /\ Provide(c, i)
           /\ UNCHANGED <<disk, power, job>>
  <2>1. PICK i \in Fresh : Create(c, i) /\ Provide(c, i)
    BY <1>2
  <2>2. Created(c) /\ got' = i
    BY <1>2, <2>1, CreateMeans
  <2>3. Sent(c, i)
    BY <1>0, <2>1
  <2>4. Sent(c, got')
    BY <2>2, <2>3
  <2>. QED
    BY <1>2, <2>2, <2>4 DEF Performed
<1>3. CASE c = "clone" /\ Clone /\ UNCHANGED <<disk, power>>
  <2>1. CASE RepeatedToken
    BY <1>3, <2>1 DEF Clone, RepeatedToken, Performed
  <2>2. CASE ~RepeatedToken
    <3>1. PICK i \in Fresh : /\ Create("vm", i) /\ Provide("clone", i)
                             /\ job' = IF prov = "aws" THEN i ELSE job
      BY <1>3, <2>2 DEF Clone
    <3>2. Created("vm") /\ got' = i
      BY <3>1, CreateMeans
    <3>3. Sent("clone", i)
      BY <1>0, <1>3, <3>1
    <3>5. Sent("clone", got')
      BY <3>2, <3>3
    <3>4. (prov = "aws" /\ job' = got') \/ (prov # "aws" /\ job' = job)
      BY <3>1, <3>2
    <3>. QED
      BY <1>3, <2>2, <3>2, <3>4, <3>5 DEF Performed, RepeatedToken
  <2>. QED
    BY <2>1, <2>2
<1>4. CASE /\ c \in {"kill", "drop"} /\ UNCHANGED tasks /\ Delete(arg)
           /\ UNCHANGED <<got, disk, power, job>>
  <2>1. Deleted(arg)
    BY <1>4, DeleteMeans
  <2>. QED
    BY <1>4, <2>1 DEF Performed
<1>5. CASE /\ c = "unswitch" /\ UNCHANGED tasks /\ \E i \in left : Delete(i) /\ got' = i
           /\ UNCHANGED <<disk, power, job>>
  <2>1. PICK i \in left : Delete(i) /\ got' = i
    BY <1>5
  <2>2. Deleted(i)
    BY <2>1, DeleteMeans
  <2>3. got' \in left /\ Deleted(got')
    BY <2>1, <2>2
  <2>. QED
    BY <1>5, <2>3 DEF Performed
<1>6. CASE /\ UNCHANGED tasks
           /\ \/ c = "roll" /\ disk' = "restored"
              \/ c = "preview" /\ disk' = "preview"
              \/ c = "commit" /\ disk' = "restored"
           /\ UNCHANGED <<res, got, power, job>>
  BY <1>6 DEF Performed
<1>7. CASE /\ c \in {"start", "stop"} /\ UNCHANGED tasks /\ power' = (c = "start")
           /\ UNCHANGED <<res, got, disk, job>>
  <2>1. CASE c = "start"
    BY <1>7, <2>1 DEF Performed
  <2>2. CASE c = "stop"
    <3>1. power' = FALSE
      BY <1>7, <2>2
    <3>. QED
      BY <1>7, <2>2, <3>1 DEF Performed
  <2>. QED
    BY <1>7, <2>1, <2>2
<1>8. CASE /\ c \in {"kill", "drop", "roll"} /\ Start(c, arg)
           /\ UNCHANGED <<res, got, disk, power, job>>
  BY <1>8 DEF Performed, Start, TaskOf
<1>. QED
  BY <1>1, <1>2, <1>3, <1>4, <1>5, <1>6, <1>7, <1>8 DEF Effect

(* A step at the provider: at most the resource x appears, what nothing is *)
(* making may go, and at most one task is started, for x or for something  *)
(* that is there.                                                          *)
Moves(i, x) ==
    \/ res'[i] = res[i]
    \/ i = x /\ res[i] = "free" /\ res'[i] \in {"snap", "switch", "vm"}
    \/ Live(i) /\ i \notin Making /\ res'[i] = "gone"

Starts(x) ==
    \/ tasks' = tasks
    \/ \E t \in TaskType :
         /\ tasks' = tasks \cup {t}
         /\ t.call \notin Creations => Used(t.on)
         /\ t.call \in Creations =>
              t.on = x /\ x \in Ids /\ res[x] = "free" /\ res'[x] = KindOf(t.call)

Works(x) ==
    /\ res' \in [Ids -> Kinds] /\ \A i \in Ids : Moves(i, x)
    /\ Starts(x)

LEMMA PerformedWorks ==
    ASSUME ConnectorTypeOK, AllUsed, NEW c, Performed(c)
    PROVE  /\ got' \in {0} \cup Ids /\ job' \in {0} \cup Ids
           /\ disk' \in {"live", "preview", "restored"} /\ power' \in BOOLEAN
           /\ Works(got')
<1>. USE DEF ConnectorTypeOK, ClientTypeOK, CallerTypeOK, ProviderTypeOK
<1>0. \A d \in Creations \cup Removals \cup {"roll"}, i \in {0} \cup Ids :
        /\ TaskOf(d, i) \in TaskType
        /\ TaskOf(d, i).call = d /\ TaskOf(d, i).on = i
  BY DEF TaskOf, TaskType
<1>1. CASE UNCHANGED <<res, tasks>>
  <2>1. got' \in {0} \cup Ids /\ job' = job
    BY <1>1 DEF Performed, Created, Deleted, Live
  <2>2. Works(got')
    BY <1>1 DEF Works, Moves, Starts
  <2>. QED
    BY <1>1, <2>1, <2>2 DEF Performed
<1>2. ASSUME NEW k \in {"snap", "switch", "vm"}, Created(k), Sent(c, got'), c \in Creations,
             k = KindOf(c)
      PROVE  got' \in Ids /\ Works(got')
  <2>1. /\ got' \in Ids /\ res[got'] = "free" /\ res'[got'] = k
        /\ res' \in [Ids -> Kinds]
        /\ \A j \in Ids : j # got' => res'[j] = res[j]
    BY <1>2 DEF Created
  <2>2. \A i \in Ids : Moves(i, got')
    BY <1>2, <2>1 DEF Moves
  <2>. DEFINE t == TaskOf(c, got')
  <2>3. t \in TaskType /\ t.call = c /\ t.on = got'
    BY <1>0, <1>2, <2>1
  <2>4. tasks' = tasks \/ tasks' = tasks \cup {t}
    BY <1>2 DEF Sent
  <2>. HIDE DEF t
  <2>5. Starts(got')
    BY <1>2, <2>1, <2>3, <2>4 DEF Starts
  <2>. QED
    BY <2>1, <2>2, <2>5 DEF Works
<1>3. CASE /\ c \in {"snap", "switch"} /\ Created(c) /\ Sent(c, got')
           /\ UNCHANGED <<disk, power, job>>
  <2>1. c \in Creations /\ c = KindOf(c)
    BY <1>3 DEF Creations, KindOf
  <2>. QED
    BY <1>2, <1>3, <2>1
<1>4. CASE /\ c = "clone" /\ Created("vm") /\ Sent(c, got')
           /\ job' = got' \/ job' = job
           /\ UNCHANGED <<disk, power>>
  <2>1. c \in Creations /\ "vm" = KindOf(c)
    BY <1>4 DEF Creations, KindOf
  <2>. QED
    BY <1>2, <1>4, <2>1
<1>5. CASE \E i : Deleted(i) /\ got' \in {got, i} /\ UNCHANGED <<disk, power, job, tasks>>
  <2>1. PICK i : Deleted(i) /\ got' \in {got, i} /\ UNCHANGED <<disk, power, job, tasks>>
    BY <1>5
  <2>2. \A j \in Ids : Moves(j, got')
    BY <2>1 DEF Deleted, Moves
  <2>. QED
    BY <2>1, <2>2 DEF Works, Starts, Deleted
<1>6. CASE /\ c \in {"kill", "drop", "roll"} /\ tasks' = tasks \cup {TaskOf(c, arg)}
           /\ UNCHANGED <<res, got, disk, power, job>>
  <2>. DEFINE t == TaskOf(c, arg)
  <2>1. t \in TaskType /\ t.call = c /\ t.on = arg
    BY <1>0, <1>6 DEF Removals
  <2>2. c \notin Creations /\ Used(arg)
    BY <1>6 DEF Creations, AllUsed
  <2>. HIDE DEF t
  <2>3. Starts(got')
    BY <1>6, <2>1, <2>2 DEF Starts, t
  <2>. QED
    BY <1>6, <2>3 DEF Works, Moves
<1>. QED
  BY <1>1, <1>3, <1>4, <1>5, <1>6 DEF Performed

(* Nothing that was in use is free again, and the tasks still fit.         *)
LEMMA WorksFit ==
    ASSUME ProviderTypeOK, AllUsed, TasksFit, NEW x, Works(x)
    PROVE  /\ \A i : Used(i) => Used(i)'
           /\ \A t \in tasks' : Used(t.on)'
           /\ tasks' \subseteq TaskType
           /\ TasksFit'
<1>1. \A i \in Ids : Moves(i, x)
  BY DEF Works
<1>2. \A i : Used(i) => Used(i)'
  BY <1>1 DEF Used, Moves
<1>3. ASSUME NEW t \in tasks, t.call \in Creations
      PROVE  t.on \in Ids /\ t.on \in Making /\ res[t.on] = KindOf(t.call) /\ res'[t.on] = res[t.on]
  <2>1. t.on \in Ids /\ res[t.on] = KindOf(t.call)
    BY <1>3 DEF TasksFit
  <2>2. t.on \in Making
    BY <1>3 DEF Making
  <2>3. res[t.on] # "free"
    BY <2>1 DEF AllUsed, Used
  <2>. QED
    BY <1>1, <2>1, <2>2, <2>3 DEF Moves
<1>4. CASE tasks' = tasks
  <2>1. TasksFit'
    BY <1>3, <1>4 DEF TasksFit
  <2>. QED
    BY <1>2, <1>4, <2>1 DEF AllUsed, ProviderTypeOK
<1>5. CASE tasks' # tasks
  <2>1. PICK t \in TaskType :
         /\ tasks' = tasks \cup {t}
         /\ t.call \notin Creations => Used(t.on)
         /\ t.call \in Creations =>
              t.on = x /\ x \in Ids /\ res[x] = "free" /\ res'[x] = KindOf(t.call)
    BY <1>5 DEF Works, Starts
  <2>2. \A u \in tasks' : u \in tasks \/ u = t
    BY <2>1
  <2>3. Used(t.on)'
    <3>1. CASE t.call \in Creations
      <4>1. KindOf(t.call) # "free"
        BY <3>1 DEF KindOf, Creations
      <4>. QED
        BY <2>1, <3>1, <4>1 DEF Used
    <3>. QED
      BY <1>2, <2>1, <3>1
  <2>4. \A u \in tasks' : Used(u.on)'
    BY <1>2, <2>2, <2>3 DEF AllUsed
  <2>5. \A u \in tasks' : u.call \in Creations => u.on \in Ids /\ res'[u.on] = KindOf(u.call)
    BY <1>3, <2>1, <2>2
  <2>6. ASSUME NEW u \in tasks', NEW v \in tasks', u.call \in Creations, v.call \in Creations,
               u.on = v.on
        PROVE  u = v
    <3>1. \A w \in tasks : w.call \in Creations /\ t.call \in Creations => w.on # t.on
      <4>1. \A w \in tasks : w.on \in Ids => res[w.on] # "free"
        BY DEF AllUsed, Used
      <4>. QED
        BY <2>1, <4>1
    <3>. QED
      BY <2>2, <2>6, <3>1 DEF TasksFit
  <2>7. TasksFit'
    BY <2>5, <2>6 DEF TasksFit
  <2>8. tasks' \subseteq TaskType
    BY <2>1 DEF ProviderTypeOK
  <2>. QED
    BY <1>2, <2>4, <2>7, <2>8
<1>. QED
  BY <1>4, <1>5

-----------------------------------------------------------------------------
(* What the steps have in common                                            *)

LEMMA LostSize ==
    /\ Cardinality(Lost) \in Nat
    /\ Lost' \subseteq Lost =>
         Cardinality(Lost') \in Nat /\ Cardinality(Lost') <= Cardinality(Lost)
    /\ \A x : Lost' \subseteq Lost \cup {x} =>
         Cardinality(Lost') \in Nat /\ Cardinality(Lost') <= Cardinality(Lost) + 1
<1>1. Lost \in SUBSET Ids
  BY DEF Lost
<1>2. IsFiniteSet(Lost)
  BY <1>1, IdsFinite, FS_Subset
<1>. QED
  BY <1>2, CountUp

(* A resource that is lost after a step was lost before, is the new one x, *)
(* or was the one the operation was about to answer with.                  *)
LEMMA NewlyLost ==
    ASSUME UNCHANGED prov, told \subseteq told', traced \subseteq traced', NEW x,
           \A i \in Ids : i = x \/ res'[i] = res[i] \/ res'[i] = "gone"
    PROVE  \A i \in Lost' : \/ i \in Lost \/ i = x
                            \/ ~Idle /\ i = got /\ (Idle' \/ i # got')
<1>. SUFFICES ASSUME NEW i \in Lost', i # x, i \notin Lost
              PROVE  ~Idle /\ i = got /\ (Idle' \/ i # got')
  OBVIOUS
<1>1. i \in Ids /\ Live(i)' /\ i \notin Known' /\ i \notin traced' /\ (Idle' \/ i # got')
  BY DEF Lost
<1>2. res'[i] = res[i]
  BY <1>1 DEF Live
<1>3. Live(i)
  BY <1>1, <1>2 DEF Live
<1>4. i \notin Known \cup traced
  BY <1>1, <1>2 DEF Known, Named
<1>. QED
  BY <1>1, <1>3, <1>4 DEF Lost

LEMMA TokenKept ==
    ASSUME ProviderTypeOK, TokenHolds, NEW c, Performed(c), UNCHANGED prov
    PROVE  TokenHolds'
<1>. SUFFICES ASSUME prov = "aws", NEW i \in Ids, res'[i] = "vm" PROVE i = job'
  BY DEF TokenHolds
<1>1. \A j \in Ids : res[j] = "vm" => j = job
  BY DEF TokenHolds
<1>2. CASE UNCHANGED <<res, job>>
  BY <1>1, <1>2
<1>3. CASE c \in {"snap", "switch"} /\ Created(c) /\ UNCHANGED job
  BY <1>1, <1>3 DEF Created
<1>4. CASE job = 0 /\ Created("vm") /\ job' = got'
  <2>1. \A j \in Ids : res[j] # "vm"
    BY <1>1, <1>4, IdsFinite
  <2>. QED
    BY <1>4, <2>1 DEF Created
<1>5. CASE UNCHANGED job /\ \E j : Deleted(j)
  BY <1>1, <1>5 DEF Deleted
<1>. QED
  BY <1>2, <1>3, <1>4, <1>5 DEF Performed

(* The call that was just made has left what it should.                    *)
LEMMA JustTook ==
    ASSUME ConnectorTypeOK, AllUsed, NEW c \in Finals, Performed(c),
           UNCHANGED <<prov, arg, ops>>
    PROVE  Took(c)'
<1>0. \A d, i : /\ TaskOf(d, i).call = d /\ TaskOf(d, i).on = i
                /\ TaskOf(d, i).by = ops
  BY DEF TaskOf
<1>1. ASSUME NEW k \in {"snap", "switch", "vm"}, Created(k), Sent(c, got'), c \in Creations,
             k = KindOf(c), ~(c = "clone" /\ prov = "aws")
      PROVE  Took(c)'
  <2>1. got' \in Ids /\ res[got'] = "free" /\ res'[got'] = k
    BY <1>1 DEF Created
  <2>2. \A t \in tasks : t.on # got'
    BY <2>1 DEF AllUsed, Used
  <2>. DEFINE u == TaskOf(c, got')
  <2>3. u.call = c /\ u.on = got' /\ u.by = ops /\ c \notin Removals
    BY <1>0, <1>1 DEF Creations, Removals
  <2>4. tasks' = tasks \/ tasks' = tasks \cup {u}
    BY <1>1 DEF Sent
  <2>. HIDE DEF u
  <2>5. Safe(got)'
    BY <2>2, <2>3, <2>4 DEF Safe
  <2>6. CASE tasks' = tasks
    <3>1. got' \in OfKind(KindOf(c))'
      BY <1>1, <2>1, <2>2, <2>6 DEF OfKind, Making
    <3>2. Has(c)'
      BY <1>1, <3>1 DEF Has, Creations
    <3>. QED
      BY <1>1, <2>1, <2>5, <3>2 DEF Took
  <2>7. CASE tasks' = tasks \cup {u}
    <3>1. Asked(c)'
      <4>1. u \in tasks' /\ c # "unswitch"
        BY <1>1, <2>7 DEF Creations
      <4>. QED
        BY <1>1, <2>3, <4>1 DEF Asked
    <3>. QED
      BY <1>1, <2>1, <2>5, <3>1 DEF Took
  <2>. QED
    BY <2>4, <2>6, <2>7
<1>2. CASE c \in {"snap", "switch"}
  <2>1. Created(c) /\ Sent(c, got') /\ c \in Creations /\ c = KindOf(c)
    BY <1>2 DEF Performed, Creations, KindOf, Reads
  <2>. QED
    BY <1>1, <1>2, <2>1
<1>3. CASE c = "clone"
  <2>1. CASE prov = "aws"
    <3>1. got' = job' /\ got' \in Ids
      BY <1>3, <2>1 DEF Performed, Reads, Created, ConnectorTypeOK, ProviderTypeOK
    <3>. QED
      BY <1>3, <2>1, <3>1 DEF Took
  <2>2. CASE prov # "aws"
    <3>1. Created("vm") /\ Sent(c, got') /\ c \in Creations /\ "vm" = KindOf(c)
      BY <1>3, <2>2 DEF Performed, Creations, KindOf, Reads
    <3>. QED
      BY <1>1, <2>2, <3>1
  <2>. QED
    BY <2>1, <2>2
<1>4. ASSUME c \notin Creations, Asked(c)' \/ Has(c)' PROVE Took(c)'
  BY <1>4 DEF Took, Creations
<1>5. CASE c \in {"kill", "drop", "roll"} /\ tasks' = tasks \cup {TaskOf(c, arg)}
  <2>. DEFINE u == TaskOf(c, arg)
  <2>1. u \in tasks' /\ u.call = c /\ u.on = arg' /\ u.by = ops' /\ c # "unswitch"
    BY <1>0, <1>5
  <2>. HIDE DEF u
  <2>2. c \notin Creations
    BY <1>5 DEF Creations
  <2>3. Asked(c)'
    BY <2>1, <2>2 DEF Asked
  <2>. QED
    BY <1>4, <2>2, <2>3
<1>6. CASE c \in {"kill", "drop"} /\ Deleted(arg)
  BY <1>4, <1>6 DEF Deleted, Has, Creations
<1>7. CASE c = "unswitch"
  BY <1>4, <1>7 DEF Performed, Deleted, Has, Creations, Reads
<1>8. CASE c \in {"roll", "commit"} /\ disk' = "restored"
  BY <1>4, <1>8 DEF Has, Creations
<1>9. CASE c \in {"start", "stop"}
  BY <1>4, <1>9 DEF Performed, Has, Creations, Reads
<1>10. c \in {"kill", "drop", "roll", "commit"} =>
         \/ c \in {"kill", "drop", "roll"} /\ tasks' = tasks \cup {TaskOf(c, arg)}
         \/ c \in {"kill", "drop"} /\ Deleted(arg)
         \/ c \in {"roll", "commit"} /\ disk' = "restored"
  BY DEF Performed, Reads
<1>. QED
  BY <1>2, <1>3, <1>5, <1>6, <1>7, <1>8, <1>9, <1>10 DEF Finals

LEMMA TookKept ==
    ASSUME NEW c \in Finals, Took(c),
           UNCHANGED <<prov, arg, ops, res, got, disk, power, job, tasks, aborted>>
    PROVE  Took(c)'
BY DEF Took, Asked, Has, Safe, OfKind, Making

LEMMA NoCallsLeft ==
    <<>> \in Seq(CallNames) /\ OnlyReads(<<>>) /\ \A p : WellFormed(p, <<>>)
BY DEF WellFormed, OnlyReads

-----------------------------------------------------------------------------
(* The steps                                                                *)

LEMMA ConnectorInitInv == ConnectorInit => ConnectorInv
<1>. SUFFICES ASSUME ConnectorInit PROVE ConnectorInv
  OBVIOUS
<1>1. ConnectorTypeOK
  <2>1. lib \in BOOLEAN
    BY DEF ConnectorInit
  <2>2. ClientTypeOK
    BY <2>1, NoCallsLeft DEF ConnectorInit, ClientTypeOK
  <2>3. ProviderTypeOK
    BY DEF ConnectorInit, ProviderTypeOK, Kinds
  <2>. QED
    BY <2>2, <2>3 DEF ConnectorInit, ConnectorTypeOK, CallerTypeOK
<1>2. TokenHolds /\ Progress /\ DoneSoFar
  BY NoCallsLeft DEF ConnectorInit, TokenHolds, Progress, Idle, DoneSoFar
<1>3. AllUsed /\ TasksFit
  BY IdsFinite DEF ConnectorInit, AllUsed, Used, TasksFit
<1>4. Lost = {}
  BY DEF ConnectorInit, Lost, Live
<1>5. LostCounted
  BY <1>4, FS_EmptySet DEF LostCounted, Blind, ConnectorInit
<1>. QED
  BY <1>1, <1>2, <1>3, <1>5 DEF ConnectorInv

(* Nothing happened at the provider.                                       *)
LEMMA RemoteKept ==
    ASSUME UNCHANGED remote, ConnectorInv, UNCHANGED prov
    PROVE  /\ TokenHolds' /\ TasksFit' /\ ProviderTypeOK'
           /\ \A i : Used(i)' <=> Used(i)
           /\ \A t \in tasks' : Used(t.on)'
           /\ Used(job)'
<1>1. TokenHolds' /\ TasksFit' /\ ProviderTypeOK'
  BY DEF remote, ConnectorInv, TokenHolds, TasksFit, ConnectorTypeOK, ProviderTypeOK
<1>2. \A i : Used(i)' <=> Used(i)
  BY DEF remote, Used
<1>3. tasks' = tasks /\ job' = job
  BY DEF remote
<1>. QED
  BY <1>1, <1>2, <1>3 DEF ConnectorInv, AllUsed

(* An operation that answers at once: connect, or one that is refused.     *)
LEMMA AtOnceInv ==
    ASSUME ConnectorInv, Idle, op' \in {"connect"} \cup DOMAIN Calls[prov],
           rest' = <<>>, arg' = 0, got' = 0, left' = {},
           answer' = "failed" \/ (answer' = "ok" /\ op' = "connect"),
           handle' \in BOOLEAN, ops' = ops + 1, failed' \in {failed, failed + 1},
           UNCHANGED <<prov, lib, restores, told, traced, remote>>
    PROVE  ConnectorInv'
<1>0. UNCHANGED prov /\ UNCHANGED remote
  OBVIOUS
<1>1. ConnectorTypeOK'
  <2>1. ProviderTypeOK'
    BY <1>0, RemoteKept
  <2>. QED
    BY <2>1, NoCallsLeft DEF ConnectorInv, ConnectorTypeOK, ClientTypeOK, CallerTypeOK
<1>2. TokenHolds' /\ TasksFit'
  BY <1>0, RemoteKept
<1>3. Progress' /\ DoneSoFar'
  BY NoCallsLeft DEF Progress, DoneSoFar, Idle, Made, Does
<1>4. AllUsed'
  <2>1. \A i \in traced : Used(i)'
    BY <1>0, RemoteKept DEF ConnectorInv, AllUsed
  <2>2. Used(arg)' /\ Used(got)'
    BY IdsFinite DEF Used
  <2>. QED
    BY <1>0, <2>1, <2>2, RemoteKept DEF AllUsed
<1>5. Lost' = Lost
  BY DEF Lost, Live, Known, Named, Idle, remote
<1>6. LostCounted'
  <2>1. Cardinality(Lost) \in Nat
    BY LostSize
  <2>2. /\ failed \in Nat /\ Blind \in Nat /\ Blind' = Blind
        /\ Cardinality(Lost) <= failed + Blind
    BY DEF ConnectorInv, ConnectorTypeOK, CallerTypeOK, LostCounted, Blind
  <2>3. Cardinality(Lost) <= failed' + Blind
    BY <2>1, <2>2
  <2>. QED
    BY <1>5, <2>2, <2>3 DEF LostCounted
<1>. QED
  BY <1>1, <1>2, <1>3, <1>4, <1>6 DEF ConnectorInv

LEMMA ConnectInv ==
    ASSUME ConnectorInv,
           ConnectUnavailable \/ ConnectSucceeds \/ ConnectRaises \/ ConnectWithoutToken
    PROVE  ConnectorInv'
<1>1. /\ Idle /\ op' = "connect" /\ rest' = <<>> /\ arg' = 0 /\ got' = 0 /\ left' = {}
      /\ ops' = ops + 1 /\ UNCHANGED <<prov, lib, restores, told, traced, remote>>
  BY DEF ConnectUnavailable, ConnectSucceeds, ConnectRaises, ConnectWithoutToken,
         StartConnect
<1>2. answer' \in {"ok", "failed"} /\ failed' \in {failed, failed + 1}
  <2>1. failed \in Nat
    BY DEF ConnectorInv, ConnectorTypeOK, CallerTypeOK
  <2>. QED
    BY <2>1 DEF ConnectUnavailable, ConnectSucceeds, ConnectRaises,
       ConnectWithoutToken, Reply
<1>3. handle' \in BOOLEAN
  <2>1. handle \in BOOLEAN
    BY DEF ConnectorInv, ConnectorTypeOK, ClientTypeOK
  <2>2. CASE ConnectRaises
    <3>1. handle' \in HandleKept \/ handle' \in HandleCleared \/ handle' \in HandleUntouched
      <4>1. HandleAfterException \in {HandleKept, HandleCleared, HandleUntouched}
        BY DEF HandleAfterException
      <4>. QED
        BY <2>2, <4>1 DEF ConnectRaises
    <3>. QED
      BY <2>1, <3>1 DEF HandleKept, HandleCleared, HandleUntouched
  <2>. QED
    BY <2>1, <2>2 DEF ConnectUnavailable, ConnectSucceeds, ConnectWithoutToken
<1>. QED
  BY <1>1, <1>2, <1>3, AtOnceInv

LEMMA RefuseInv ==
    ASSUME ConnectorInv, NEW o \in DOMAIN Calls[prov], RefuseOp(o)
    PROVE  ConnectorInv'
<1>1. /\ Idle /\ op' = o /\ rest' = <<>> /\ arg' = 0 /\ got' = 0 /\ left' = {}
      /\ ops' = ops + 1 /\ answer' = "failed" /\ failed' = failed + 1
      /\ UNCHANGED <<prov, lib, handle, restores, told, traced, remote>>
  BY DEF RefuseOp, Reply
<1>2. handle' \in BOOLEAN
  BY <1>1 DEF ConnectorInv, ConnectorTypeOK, ClientTypeOK
<1>. QED
  BY <1>1, <1>2, AtOnceInv

LEMMA ArgumentsKnown ==
    ASSUME ConnectorTypeOK, AllUsed, NEW calls, NEW a \in Arguments(calls)
    PROVE  a \in {0} \cup Ids /\ Used(a)
<1>1. Known \subseteq Ids
  BY DEF ConnectorTypeOK, CallerTypeOK, Known
<1>. DEFINE knows(k) == {i \in Known : res[i] \in {k, "gone"}}
<1>2. knows("vm") \cup knows("snap") \subseteq {i \in Ids : Used(i)}
  BY <1>1 DEF Used
<1>3. traced \subseteq {i \in Ids : Used(i)}
  BY DEF AllUsed, ConnectorTypeOK, CallerTypeOK
<1>4. Used(0)
  BY IdsFinite DEF Used
<1>5. Arguments(calls) \in {traced, knows("vm"), knows("snap"), {0} \cup knows("snap"), {0}}
  <2>. HIDE DEF knows
  <2>. QED
    BY DEF Arguments, knows
<1>. HIDE DEF knows
<1>. QED
  BY <1>2, <1>3, <1>4, <1>5

LEMMA OperationNames ==
    ASSUME NEW p \in ProviderNames PROVE "connect" \notin DOMAIN Calls[p]
<1>1. CASE p = "aws"
  <2>1. Calls[p] = AwsCalls
    BY <1>1 DEF Calls
  <2>. QED
    BY <2>1 DEF AwsCalls
<1>2. CASE p = "azure"
  <2>1. Calls[p] = AzureCalls
    BY <1>2 DEF Calls
  <2>. QED
    BY <2>1 DEF AzureCalls
<1>3. CASE p = "gcp"
  <2>1. Calls[p] = GcpCalls
    BY <1>3 DEF Calls
  <2>. QED
    BY <2>1 DEF GcpCalls
<1>4. CASE p = "hyperv"
  <2>1. Calls[p] = HypervCalls
    BY <1>4 DEF Calls
  <2>. QED
    BY <2>1 DEF HypervCalls
<1>5. CASE p = "nutanix"
  <2>1. Calls[p] = NutanixCalls
    BY <1>5 DEF Calls
  <2>. QED
    BY <2>1 DEF NutanixCalls
<1>6. CASE p = "proxmox"
  <2>1. Calls[p] = ProxmoxCalls
    BY <1>6 DEF Calls
  <2>. QED
    BY <2>1 DEF ProxmoxCalls
<1>7. CASE p = "rhv"
  <2>1. Calls[p] = RhvCalls
    BY <1>7 DEF Calls
  <2>. QED
    BY <2>1 DEF RhvCalls
<1>8. CASE p = "sangfor"
  <2>1. Calls[p] = SangforCalls
    BY <1>8 DEF Calls
  <2>. QED
    BY <2>1 DEF SangforCalls
<1>9. CASE p = "xenserver"
  <2>1. Calls[p] = XenCalls
    BY <1>9 DEF Calls
  <2>. QED
    BY <2>1 DEF XenCalls
<1>. QED
  BY <1>1, <1>2, <1>3, <1>4, <1>5, <1>6, <1>7, <1>8, <1>9 DEF ProviderNames

LEMMA StartOpInv ==
    ASSUME ConnectorInv, NEW o \in DOMAIN Calls[prov], StartOp(o)
    PROVE  ConnectorInv'
<1>1. /\ Idle /\ op' = o /\ rest' = Calls[prov][o] /\ got' = 0 /\ left' = {}
      /\ arg' \in Arguments(Calls[prov][o]) /\ ops' = ops + 1 /\ answer' = "none"
      /\ UNCHANGED <<prov, lib, handle, failed, restores, told, traced, remote>>
  BY DEF StartOp
<1>2. FineList(prov, Calls[prov][o])
  BY CallsFine, ConnectorsAssumption DEF ConnectorInv, ConnectorTypeOK, ClientTypeOK
<1>3. arg' \in {0} \cup Ids /\ Used(arg')
  BY <1>1, ArgumentsKnown DEF ConnectorInv
<1>0. UNCHANGED prov /\ UNCHANGED remote
  BY <1>1
<1>4. ConnectorTypeOK'
  <2>1. ProviderTypeOK'
    BY <1>0, RemoteKept
  <2>. QED
    BY <1>1, <1>2, <1>3, <2>1 DEF ConnectorInv, ConnectorTypeOK, ClientTypeOK,
       CallerTypeOK, FineList
<1>5. TokenHolds' /\ TasksFit'
  BY <1>0, RemoteKept
<1>6. Progress'
  <2>1. o # "connect"
    BY OperationNames, ConnectorsAssumption DEF ConnectorInv, ConnectorTypeOK,
       ClientTypeOK
  <2>. QED
    BY <1>1, <1>2, <2>1 DEF Progress, Idle, FineList
<1>7. DoneSoFar'
  BY <1>1 DEF DoneSoFar, Made, Does
<1>8. AllUsed'
  <2>1. \A i \in traced : Used(i)'
    BY <1>0, RemoteKept DEF ConnectorInv, AllUsed
  <2>2. Used(arg)' /\ Used(got)'
    BY <1>1, <1>3, IdsFinite DEF Used, remote
  <2>. QED
    BY <1>0, <1>1, <2>1, <2>2, RemoteKept DEF AllUsed
<1>9. Lost' = Lost
  <2>1. \A i \in Ids : i # 0
    BY IdsFinite
  <2>. QED
    BY <1>1, <2>1 DEF Lost, Live, Known, Named, Idle, remote
<1>10. LostCounted'
  BY <1>1, <1>9 DEF ConnectorInv, LostCounted, Blind
<1>. QED
  BY <1>4, <1>5, <1>6, <1>7, <1>8, <1>10 DEF ConnectorInv

(* The first call of an operation that is under way.                       *)
LEMMA FirstCall ==
    ASSUME ConnectorInv, ~Idle
    PROVE  /\ rest # <<>> /\ Head(rest) \in CallNames
           /\ Tail(rest) \in Seq(CallNames) /\ WellFormed(prov, Tail(rest))
           /\ ToSet(rest) = {Head(rest)} \cup ToSet(Tail(rest))
           /\ Head(rest) \in Finals => OnlyReads(Tail(rest))
           /\ Head(rest) \in Finals /\ Tail(rest) # <<>> => prov = "xenserver"
           /\ OnlyReads(rest) => Head(rest) = "read" /\ OnlyReads(Tail(rest))
           /\ got # 0 => Head(rest) = "read" /\ OnlyReads(Tail(rest)) /\ prov = "xenserver"
           /\ prov \in ProviderNames /\ op \in DOMAIN Calls[prov]
           /\ op # "connect" /\ ToSet(rest) \subseteq ToSet(Calls[prov][op])
<1>1. rest # <<>> /\ WellFormed(prov, rest) /\ rest \in Seq(CallNames)
  BY DEF ConnectorInv, Progress, ConnectorTypeOK, ClientTypeOK
<1>2. got # 0 => OnlyReads(rest) /\ prov = "xenserver"
  BY DEF ConnectorInv, Progress
<1>3. /\ prov \in ProviderNames /\ op \in DOMAIN Calls[prov]
      /\ op # "connect" /\ ToSet(rest) \subseteq ToSet(Calls[prov][op])
  BY ConnectorsAssumption DEF ConnectorInv, Progress, ConnectorTypeOK, ClientTypeOK
<1>. QED
  BY <1>1, <1>2, <1>3, AfterCall

LEMMA ReadsOnly ==
    ASSUME NEW c, Performed(c), c \in Reads
    PROVE  UNCHANGED <<res, got, disk, power, job, tasks>>
BY DEF Performed, Reads

(* After the last call of a restore by AWS the caller knows of an instance.*)
LEMMA RestoreOfAws ==
    ASSUME ConnectorInv, ~Idle, NEW c, c = Head(rest), Performed(c),
           Tail(rest) = <<>>, "clone" \in ToSet(Calls[prov][op]), prov = "aws"
    PROVE  c = "clone" /\ got' \in Ids /\ Used(got)'
<1>1. c = "clone"
  <2>. SUFFICES ASSUME c # "clone" PROVE FALSE
    OBVIOUS
  <2>1. Made("clone") /\ "clone" \in Finals
    <3>1. ToSet(rest) = {c}
      <4>1. ToSet(Tail(rest)) = {}
        BY DEF ToSet
      <4>. QED
        BY <4>1, FirstCall
    <3>. QED
      BY <3>1, FirstCall DEF Made, Does, Finals
  <2>2. got \in Ids
    BY <2>1 DEF ConnectorInv, DoneSoFar, Idle, Took
  <2>. QED
    BY <2>2, FirstCall, IdsFinite
<1>2. got' \in Ids /\ res'[got'] # "free"
  <2>1. CASE got' = job /\ job # 0 /\ UNCHANGED res
    BY <2>1 DEF ConnectorInv, ConnectorTypeOK, ProviderTypeOK, AllUsed, Used
  <2>2. CASE Created("vm")
    BY <2>2 DEF Created
  <2>. QED
    BY <1>1, <2>1, <2>2 DEF Performed, Reads
<1>. QED
  BY <1>1, <1>2 DEF Used

(* What a successful answer leaves unnamed.                                *)
LEMMA AnsweredNames ==
    ASSUME ConnectorInv, ~Idle, NEW c, c = Head(rest), Performed(c),
           Tail(rest) = <<>>, UNCHANGED prov, got' \in Ids, Live(got)',
           told' = told \cup Returned,
           "clone" \in ToSet(Calls[prov][op]) /\ prov = "aws" => got' \in traced'
    PROVE  \/ got' \in Known' \cup traced'
           \/ prov \in {"azure", "nutanix"} /\ "clone" \in ToSet(Calls[prov][op])
<1>. SUFFICES ASSUME got' \notin Known', got' \notin traced'
              PROVE  prov \in {"azure", "nutanix"} /\ "clone" \in ToSet(Calls[prov][op])
  OBVIOUS
<1>1. got' \notin Returned /\ got' # 0
  BY IdsFinite DEF Known
<1>2. c \in ToSet(Calls[prov][op]) /\ prov \in ProviderNames /\ op \in DOMAIN Calls[prov]
  BY FirstCall
<1>3. CASE got # 0
  <2>1. c = "read" /\ prov = "xenserver"
    BY <1>3, FirstCall
  <2>2. Returned = {got'} \ {0}
    BY <2>1 DEF Returned
  <2>. QED
    BY <1>1, <2>2
<1>4. CASE got = 0
  <2>1. \/ c \in {"snap", "switch"} /\ res'[got'] = c
        \/ c = "clone" /\ (prov = "aws" \/ res'[got'] = "vm")
    <3>1. ~(\E i : Deleted(i) /\ got' = i)
      BY DEF Deleted, Live
    <3>2. got' # got
      BY <1>1, <1>4
    <3>. QED
      BY <3>1, <3>2 DEF Performed, Created
  <2>2. c \in Creations
    BY <2>1 DEF Creations
  <2>3. /\ prov \in {"aws", "azure"} => c = "clone"
        /\ prov = "gcp" => c \in {"snap", "clone"}
        /\ prov = "proxmox" => c = "snap"
    BY <1>2, <2>2, CreatesOnly
  <2>4. prov # "aws"
    BY <1>2, <2>3
  <2>5. prov \notin {"gcp", "proxmox"}
    <3>1. ASSUME prov \in {"gcp", "proxmox"} PROVE Named(res[got])'
      BY <2>1, <2>3, <3>1 DEF Named
    <3>2. ~Named(res[got])'
      BY DEF Known
    <3>. QED
      BY <3>1, <3>2
  <2>6. c \notin {"snaps", "vms", "job"}
    BY <2>1
  <2>7. CASE prov = "azure"
    BY <1>2, <2>3, <2>7
  <2>8. CASE prov = "nutanix"
    <3>1. c # "clone" => Returned = {got'} \ {0}
      BY <2>6, <2>8 DEF Returned
    <3>. QED
      BY <1>1, <1>2, <2>8, <3>1
  <2>9. CASE prov \notin {"aws", "azure", "gcp", "proxmox", "nutanix"}
    <3>1. Returned = {got'} \ {0}
      BY <2>6, <2>9 DEF Returned
    <3>. QED
      BY <1>1, <3>1
  <2>. QED
    BY <2>4, <2>5, <2>7, <2>8, <2>9
<1>. QED
  BY <1>3, <1>4

LEMMA CallReturnsInv == ASSUME ConnectorInv, CallReturns PROVE ConnectorInv'
<1>1. /\ ~Idle /\ Effect /\ rest' = Tail(rest)
      /\ left' = (IF Head(rest) = "find" THEN OfKind("switch") ELSE left)
      /\ UNCHANGED <<prov, lib, handle, op, arg, ops, aborted>>
  BY DEF CallReturns
<1>3. /\ ConnectorTypeOK /\ ClientTypeOK /\ CallerTypeOK /\ ProviderTypeOK
      /\ AllUsed /\ TasksFit /\ TokenHolds
  BY DEF ConnectorInv, ConnectorTypeOK
<1>. DEFINE restored == "clone" \in ToSet(Calls[prov][op])
<1>2. \/ /\ Tail(rest) = <<>> /\ answer' = "ok" /\ failed' = failed
         /\ told' = told \cup Returned
         /\ restores' = (IF restored THEN restores + 1 ELSE restores)
         /\ traced' = (IF restored /\ prov = "aws" THEN traced \cup {got'} ELSE traced)
      \/ /\ Tail(rest) # <<>> /\ UNCHANGED <<answer, failed, restores, told, traced>>
  <2>1. failed \in Nat
    BY <1>3 DEF CallerTypeOK
  <2>. QED
    BY <2>1 DEF CallReturns, Reply
<1>. HIDE DEF restored
<1>4. PICK c : c = Head(rest)
  OBVIOUS
<1>5. Performed(c)
  BY <1>1, <1>3, <1>4, EffectMeans
<1>6. /\ got' \in {0} \cup Ids /\ job' \in {0} \cup Ids
      /\ disk' \in {"live", "preview", "restored"} /\ power' \in BOOLEAN
      /\ Works(got')
  BY <1>3, <1>5, PerformedWorks
<1>61. PICK x : x = got' /\ Works(x)
  BY <1>6
<1>62. /\ \A i : Used(i) => Used(i)'
       /\ \A t \in tasks' : Used(t.on)'
       /\ tasks' \subseteq TaskType /\ TasksFit'
  BY <1>3, <1>61, WorksFit
<1>7. /\ Tail(rest) \in Seq(CallNames) /\ WellFormed(prov, Tail(rest)) /\ c \in CallNames
      /\ ToSet(rest) = {c} \cup ToSet(Tail(rest))
      /\ c \in Finals => OnlyReads(Tail(rest))
      /\ c \in Finals /\ Tail(rest) # <<>> => prov = "xenserver"
      /\ OnlyReads(rest) => c = "read" /\ OnlyReads(Tail(rest))
      /\ got # 0 => c = "read" /\ OnlyReads(Tail(rest)) /\ prov = "xenserver"
      /\ op # "connect" /\ ToSet(rest) \subseteq ToSet(Calls[prov][op])
  BY <1>1, <1>4, FirstCall
<1>71. ASSUME Tail(rest) = <<>>, restored, prov = "aws"
       PROVE  c = "clone" /\ got' \in Ids /\ Used(got)'
  BY <1>1, <1>4, <1>5, <1>71, RestoreOfAws DEF restored
<1>72. traced \subseteq traced' /\ \A i \in traced' : i \in traced \/ (i = got' /\ i \in Ids /\ Used(got)')
  BY <1>2, <1>71
<1>8. ConnectorTypeOK'
  <2>1. left' \subseteq Ids
    BY <1>1, <1>3 DEF ClientTypeOK, OfKind
  <2>2. answer' \in {"none", "ok"}
    BY <1>1, <1>2 DEF Idle
  <2>3. ClientTypeOK'
    BY <1>1, <1>3, <1>6, <1>7, <2>1, <2>2 DEF ClientTypeOK
  <2>4. Returned \subseteq Ids
    <3>1. /\ OfKind("snap") \subseteq Ids /\ OfKind("vm") \subseteq Ids
          /\ {got'} \ {0} \subseteq Ids /\ {arg} \cap OfKind("vm") \subseteq Ids
      BY <1>6 DEF OfKind
    <3>2. Returned \in {OfKind("snap"), OfKind("vm"), {arg} \cap OfKind("vm"), {},
                        {got'} \ {0}}
      BY DEF Returned
    <3>. QED
      BY <3>1, <3>2
  <2>5. CallerTypeOK'
    <3>1. told' \subseteq Ids /\ traced' \subseteq Ids
      BY <1>2, <1>3, <1>72, <2>4 DEF CallerTypeOK
    <3>2. ops' \in Nat /\ failed' \in Nat /\ restores' \in Nat
      BY <1>1, <1>2, <1>3 DEF CallerTypeOK
    <3>. QED
      BY <3>1, <3>2 DEF CallerTypeOK
  <2>6. ProviderTypeOK'
    BY <1>1, <1>3, <1>6, <1>62 DEF ProviderTypeOK, Works
  <2>. QED
    BY <2>3, <2>5, <2>6 DEF ConnectorTypeOK
<1>9. TokenHolds'
  BY <1>1, <1>3, <1>5, TokenKept
<1>10. Progress'
  <2>1. Idle' <=> rest' = <<>>
    BY <1>1, <1>2 DEF Idle
  <2>2. ASSUME ~Idle', got' # 0 PROVE OnlyReads(Tail(rest)) /\ prov = "xenserver"
    <3>1. CASE got' = got
      BY <1>7, <2>2, <3>1
    <3>2. CASE got' # got
      <4>1. c \in Finals
        BY <1>5, <3>2 DEF Performed, Finals
      <4>. QED
        BY <1>1, <1>7, <2>1, <2>2, <4>1
    <3>. QED
      BY <3>1, <3>2
  <2>3. ToSet(Tail(rest)) \subseteq ToSet(Calls[prov][op])
    BY <1>7
  <2>. QED
    BY <1>1, <1>7, <2>1, <2>2, <2>3 DEF Progress
<1>11. DoneSoFar'
  <2>. SUFFICES ASSUME NEW d \in Finals, Made(d)' PROVE OnlyReads(rest') /\ Took(d)'
    BY DEF DoneSoFar
  <2>1. Does(d) /\ d \notin ToSet(Tail(rest))
    BY <1>1 DEF Made, Does
  <2>2. CASE d = c
    <3>1. Took(d)'
      BY <1>1, <1>3, <1>5, <2>2, JustTook
    <3>. QED
      BY <1>1, <1>7, <2>2, <3>1
  <2>3. CASE d # c
    <3>1. Made(d)
      BY <1>7, <2>1, <2>3 DEF Made
    <3>2. OnlyReads(rest) /\ Took(d)
      BY <1>1, <3>1 DEF ConnectorInv, DoneSoFar, Idle
    <3>3. c = "read" /\ OnlyReads(Tail(rest))
      BY <1>7, <3>2
    <3>4. UNCHANGED <<res, got, disk, power, job, tasks>>
      BY <1>5, <3>3, ReadsOnly DEF Reads
    <3>. QED
      BY <1>1, <3>2, <3>3, <3>4, TookKept
  <2>. QED
    BY <2>2, <2>3
<1>12. AllUsed'
  <2>1. Used(arg)'
    BY <1>1, <1>3, <1>62 DEF AllUsed
  <2>2. Used(got)' /\ Used(job)'
    <3>1. CASE Created("vm") \/ Created("snap") \/ Created("switch")
      <4>1. got' \in Ids /\ res'[got'] # "free"
        BY <3>1 DEF Created
      <4>2. job' = got' \/ job' = job
        BY <1>5, <3>1 DEF Performed
      <4>3. Used(job)'
        <5>1. CASE job' = got'
          BY <4>1, <5>1 DEF Used
        <5>2. CASE job' = job
          BY <1>3, <1>62, <5>2 DEF AllUsed, Used
        <5>. QED
          BY <4>2, <5>1, <5>2
      <4>. QED
        BY <4>1, <4>3 DEF Used
    <3>2. CASE job' = job /\ got' \in {got, job}
      BY <1>3, <1>62, <3>2 DEF AllUsed, Used
    <3>3. CASE job' = job /\ Deleted(got')
      <4>1. res'[got'] = "gone"
        BY <3>3 DEF Deleted
      <4>. QED
        BY <1>3, <1>62, <3>3, <4>1 DEF AllUsed, Used
    <3>. QED
      BY <1>5, <3>1, <3>2, <3>3 DEF Performed
  <2>3. \A i \in left' : Used(i)'
    <3>1. CASE c = "find"
      <4>1. \A i \in OfKind("switch") : Used(i)
        BY DEF OfKind, Used
      <4>. QED
        BY <1>1, <1>4, <1>62, <3>1, <4>1
    <3>2. CASE c # "find"
      BY <1>1, <1>3, <1>4, <1>62, <3>2 DEF AllUsed
    <3>. QED
      BY <3>1, <3>2
  <2>4. \A i \in traced' : Used(i)'
    <3>1. \A i \in traced : Used(i)'
      BY <1>3, <1>62 DEF AllUsed
    <3>2. ASSUME NEW i \in traced', i = got', Used(got)' PROVE Used(i)'
      BY <3>2 DEF Used
    <3>. QED
      BY <1>72, <3>1, <3>2
  <2>. QED
    BY <1>62, <2>1, <2>2, <2>3, <2>4 DEF AllUsed
<1>13. told \subseteq told' /\ \A j \in Ids : j = x \/ res'[j] = res[j] \/ res'[j] = "gone"
  BY <1>2, <1>61 DEF Works, Moves
<1>14. \A i \in Lost' : i \in Lost \/ (i = got' /\ Idle')
  <2>1. \A i \in Lost' : i \in Lost \/ i = x \/ (~Idle /\ i = got /\ (Idle' \/ i # got'))
    BY <1>1, <1>13, <1>72, NewlyLost
  <2>2. \A i \in Lost' : i # 0 /\ (Idle' \/ i # got')
    BY IdsFinite DEF Lost
  <2>3. got # 0 => got' = got
    BY <1>5, <1>7, ReadsOnly DEF Reads
  <2>. QED
    BY <1>61, <2>1, <2>2, <2>3
<1>15. LostCounted'
  <2>1. /\ failed \in Nat /\ restores \in Nat /\ Blind \in Nat
        /\ Cardinality(Lost) <= failed + Blind /\ Cardinality(Lost) \in Nat
    BY <1>3, LostSize DEF ConnectorInv, LostCounted, CallerTypeOK, Blind
  <2>2. failed' = failed /\ Blind' \in Nat /\ Blind <= Blind'
    BY <1>1, <1>2, <2>1 DEF Blind
  <2>3. CASE Lost' \subseteq Lost
    <3>1. Cardinality(Lost') \in Nat /\ Cardinality(Lost') <= Cardinality(Lost)
      BY <2>3, LostSize
    <3>2. Cardinality(Lost') <= failed + Blind'
      BY <2>1, <2>2, <3>1
    <3>. QED
      BY <2>2, <3>2 DEF LostCounted
  <2>4. CASE ~(Lost' \subseteq Lost)
    <3>1. got' \in Lost' /\ Idle'
      BY <1>14, <2>4
    <3>2. /\ got' \in Ids /\ Live(got)' /\ got' \notin Known' /\ got' \notin traced'
      BY <3>1 DEF Lost
    <3>3. /\ Tail(rest) = <<>> /\ told' = told \cup Returned
          /\ restores' = (IF restored THEN restores + 1 ELSE restores)
          /\ restored /\ prov = "aws" => got' \in traced'
      BY <1>1, <1>2, <3>1 DEF Idle
    <3>4. prov \in {"azure", "nutanix"} /\ restored
      BY <1>1, <1>4, <1>5, <3>2, <3>3, AnsweredNames DEF restored
    <3>5. Blind' = Blind + 1
      BY <1>1, <3>3, <3>4 DEF Blind
    <3>6. Cardinality(Lost') \in Nat /\ Cardinality(Lost') <= Cardinality(Lost) + 1
      <4>1. Lost' \subseteq Lost \cup {x}
        BY <1>14, <1>61
      <4>. QED
        BY <4>1, LostSize
    <3>7. Cardinality(Lost') <= failed + Blind'
      BY <2>1, <3>5, <3>6
    <3>. QED
      BY <2>2, <3>7 DEF LostCounted
  <2>. QED
    BY <2>3, <2>4
<1>. QED
  BY <1>8, <1>9, <1>10, <1>11, <1>12, <1>15, <1>62 DEF ConnectorInv

(* A failure answered, whatever the call has done: the one resource it may *)
(* leave unnamed is counted.                                               *)
LEMMA FailedInv ==
    ASSUME ConnectorInv, ~Idle, Fail, NEW x, Works(x),
           got' \in {0} \cup Ids, got' = x \/ (got' = got /\ (got = 0 \/ x \notin Ids)),
           got' = got \/ Used(got)',
           job' \in {0} \cup Ids, Used(job)', TokenHolds',
           disk' \in {"live", "preview", "restored"}, power' \in BOOLEAN,
           got = 0 \/ got' = got
    PROVE  ConnectorInv'
<1>1. /\ answer' = "failed" /\ failed' = failed + 1 /\ rest' = <<>> /\ left' = {}
      /\ UNCHANGED <<prov, lib, handle, op, arg, ops, restores, told, traced, aborted>>
  BY DEF Fail, Reply
<1>2. /\ ClientTypeOK /\ CallerTypeOK /\ ProviderTypeOK /\ AllUsed /\ TasksFit
  BY DEF ConnectorInv, ConnectorTypeOK
<1>3. /\ \A i : Used(i) => Used(i)'
      /\ \A t \in tasks' : Used(t.on)'
      /\ tasks' \subseteq TaskType /\ TasksFit'
  BY <1>2, WorksFit
<1>4. ConnectorTypeOK'
  <2>1. ProviderTypeOK'
    BY <1>1, <1>2, <1>3 DEF ProviderTypeOK, Works
  <2>. QED
    BY <1>1, <1>2, <2>1, NoCallsLeft DEF ConnectorTypeOK, ClientTypeOK, CallerTypeOK
<1>5. Progress' /\ DoneSoFar'
  BY <1>1, NoCallsLeft DEF Progress, DoneSoFar, Idle
<1>6. AllUsed'
  <2>1. Used(arg)' /\ \A i \in traced' : Used(i)'
    BY <1>1, <1>2, <1>3 DEF AllUsed
  <2>2. Used(got)'
    BY <1>2, <1>3 DEF AllUsed, Used
  <2>. QED
    BY <1>1, <1>3, <2>1, <2>2 DEF AllUsed
<1>7. PICK y : y \in {x, got} /\ (y = got \/ got = 0) /\ (y = x \/ x \notin Ids)
  <2>1. CASE got = 0
    BY <2>1
  <2>2. CASE got # 0
    <3>1. got = x \/ x \notin Ids
      BY <2>2
    <3>. QED
      BY <3>1
  <2>. QED
    BY <2>1, <2>2
<1>8. Lost' \subseteq Lost \cup {y}
  <2>1. \A j \in Ids : j = x \/ res'[j] = res[j] \/ res'[j] = "gone"
    BY DEF Works, Moves
  <2>2. \A i \in Lost' : i \in Ids /\ i # 0
    BY IdsFinite DEF Lost
  <2>3. told \subseteq told' /\ traced \subseteq traced' /\ UNCHANGED prov
    BY <1>1
  <2>4. \A i \in Lost' : i \in Lost \/ i = x \/ i = got
    BY <2>1, <2>3, NewlyLost
  <2>. QED
    BY <1>7, <2>2, <2>4
<1>9. LostCounted'
  <2>1. Cardinality(Lost) \in Nat /\ Cardinality(Lost') \in Nat
        /\ Cardinality(Lost') <= Cardinality(Lost) + 1
    BY <1>8, LostSize
  <2>2. /\ failed \in Nat /\ Blind \in Nat /\ Blind' = Blind
        /\ Cardinality(Lost) <= failed + Blind
    BY <1>1, <1>2 DEF ConnectorInv, CallerTypeOK, LostCounted, Blind
  <2>3. Cardinality(Lost') <= failed' + Blind
    BY <1>1, <2>1, <2>2
  <2>. QED
    BY <2>2, <2>3 DEF LostCounted
<1>. QED
  BY <1>3, <1>4, <1>5, <1>6, <1>9 DEF ConnectorInv

LEMMA CallRaisesLateInv == ASSUME ConnectorInv, CallRaisesLate PROVE ConnectorInv'
<1>1. ~Idle /\ Head(rest) \notin Reads /\ Effect /\ Fail
  BY DEF CallRaisesLate
<1>2. /\ ConnectorTypeOK /\ ProviderTypeOK /\ ClientTypeOK /\ AllUsed /\ TokenHolds
      /\ TasksFit
  BY DEF ConnectorInv, ConnectorTypeOK
<1>3. PICK c : c = Head(rest)
  OBVIOUS
<1>4. Performed(c)
  BY <1>1, <1>2, <1>3, EffectMeans
<1>5. /\ got' \in {0} \cup Ids /\ job' \in {0} \cup Ids
      /\ disk' \in {"live", "preview", "restored"} /\ power' \in BOOLEAN
      /\ Works(got')
  BY <1>2, <1>4, PerformedWorks
<1>6. PICK x : x = got' /\ Works(x)
  BY <1>5
<1>7. \A i : Used(i) => Used(i)'
  BY <1>2, <1>6, WorksFit
<1>8. UNCHANGED prov
  BY <1>1 DEF Fail
<1>9. TokenHolds'
  BY <1>2, <1>4, <1>8, TokenKept
<1>10. got = 0
  BY <1>1, FirstCall DEF Reads
<1>11. Used(got)' /\ Used(job)'
  <2>1. CASE Created("vm") \/ Created("snap") \/ Created("switch")
    <3>1. got' \in Ids /\ res'[got'] # "free"
      BY <2>1 DEF Created
    <3>2. job' = got' \/ job' = job
      BY <1>4, <2>1 DEF Performed
    <3>3. Used(job)'
      <4>1. CASE job' = got'
        BY <3>1, <4>1 DEF Used
      <4>2. CASE job' = job
        BY <1>2, <1>7, <4>2 DEF AllUsed, Used
      <4>. QED
        BY <3>2, <4>1, <4>2
    <3>. QED
      BY <3>1, <3>3 DEF Used
  <2>2. CASE job' = job /\ got' \in {got, job}
    BY <1>2, <1>7, <2>2 DEF AllUsed, Used
  <2>3. CASE job' = job /\ Deleted(got')
    <3>1. res'[got'] = "gone"
      BY <2>3 DEF Deleted
    <3>. QED
      BY <1>2, <1>7, <2>3, <3>1 DEF AllUsed, Used
  <2>. QED
    BY <1>4, <2>1, <2>2, <2>3 DEF Performed
<1>. QED
  BY <1>1, <1>5, <1>6, <1>9, <1>10, <1>11, FailedInv

(* A failure that leaves the resources as they are: it has started a task  *)
(* for something that is there, or nothing.                                *)
LEMMA RaisesInv ==
    ASSUME ConnectorInv, ~Idle, Fail, UNCHANGED <<got, res, disk, power, job>>,
           \/ tasks' = tasks
           \/ \E k \in Removals \cup {"roll"}, i \in {0} \cup Ids :
                Used(i) /\ tasks' = tasks \cup {TaskOf(k, i)}
    PROVE  ConnectorInv'
<1>1. /\ ProviderTypeOK /\ ClientTypeOK /\ CallerTypeOK /\ AllUsed /\ TokenHolds
  BY DEF ConnectorInv, ConnectorTypeOK
<1>2. PICK x : x \notin Ids
  BY IdsFinite
<1>3. Starts(x)
  <2>1. CASE tasks' = tasks
    BY <2>1 DEF Starts
  <2>2. CASE tasks' # tasks
    <3>1. PICK k \in Removals \cup {"roll"}, i \in {0} \cup Ids :
             Used(i) /\ tasks' = tasks \cup {TaskOf(k, i)}
      BY <2>2
    <3>. DEFINE t == TaskOf(k, i)
    <3>2. t \in TaskType /\ t.call \notin Creations /\ t.on = i
      BY <1>1 DEF TaskOf, TaskType, Removals, Creations, CallerTypeOK
    <3>3. tasks' = tasks \cup {t}
      BY <3>1
    <3>. HIDE DEF t
    <3>. QED
      BY <3>1, <3>2, <3>3 DEF Starts
  <2>. QED
    BY <2>1, <2>2
<1>4. Works(x)
  BY <1>1, <1>3 DEF Works, Moves, ProviderTypeOK
<1>5. TokenHolds' /\ Used(job)'
  BY <1>1 DEF TokenHolds, AllUsed, Used, Fail
<1>6. got' \in {0} \cup Ids /\ job' \in {0} \cup Ids
      /\ disk' \in {"live", "preview", "restored"} /\ power' \in BOOLEAN
  BY <1>1 DEF ClientTypeOK, ProviderTypeOK
<1>. QED
  BY <1>2, <1>4, <1>5, <1>6, FailedInv

LEMMA CallRaisesInv == ASSUME ConnectorInv, CallRaises PROVE ConnectorInv'
<1>1. ~Idle /\ Fail /\ UNCHANGED <<got, res, disk, power, job>> /\ tasks' = tasks
  BY DEF CallRaises
<1>. QED
  BY <1>1, RaisesInv

LEMMA NonZeroInv == ASSUME ConnectorInv, NonZero PROVE ConnectorInv'
<1>1. ~Idle /\ prov = "hyperv" /\ Fail /\ UNCHANGED <<disk, power, job>>
  BY DEF NonZero
<1>2. /\ ConnectorTypeOK /\ ProviderTypeOK /\ ClientTypeOK /\ CallerTypeOK
      /\ AllUsed /\ TokenHolds /\ TasksFit
  BY DEF ConnectorInv, ConnectorTypeOK
<1>3. CASE Head(rest) = "roll" /\ Start("roll", arg) /\ UNCHANGED <<got, res>>
  <2>1. Used(arg) /\ arg \in {0} \cup Ids /\ tasks' = tasks \cup {TaskOf("roll", arg)}
    BY <1>2, <1>3 DEF AllUsed, ClientTypeOK, Start, TaskOf
  <2>2. "roll" \in Removals \cup {"roll"}
    OBVIOUS
  <2>3. \E k \in Removals \cup {"roll"}, i \in {0} \cup Ids :
          Used(i) /\ tasks' = tasks \cup {TaskOf(k, i)}
    BY <2>1, <2>2
  <2>. QED
    BY <1>1, <1>3, <2>3, RaisesInv
<1>4. CASE /\ Head(rest) \in {"snap", "switch"}
           /\ \E i \in Fresh : Create(Head(rest), i) /\ Start(Head(rest), i)
  <2>1. PICK i \in Fresh : Create(Head(rest), i) /\ Start(Head(rest), i)
    BY <1>4
  <2>2. PICK c : c = Head(rest) /\ c \in {"snap", "switch"}
    BY <1>4
  <2>3. Created(c) /\ got' = i
    BY <1>2, <2>1, <2>2, CreateMeans
  <2>4. Sent(c, got')
    BY <2>1, <2>2, <2>3 DEF Start, Sent, TaskOf
  <2>5. Performed(c)
    BY <1>1, <2>2, <2>3, <2>4 DEF Performed
  <2>6. got' \in {0} \cup Ids /\ Works(got')
    BY <1>2, <2>5, PerformedWorks
  <2>7. PICK x : x = got' /\ Works(x)
    BY <2>6
  <2>8. \A j : Used(j) => Used(j)'
    BY <1>2, <2>7, WorksFit
  <2>9. Used(job)' /\ Used(got)'
    BY <1>1, <1>2, <2>2, <2>3, <2>8 DEF AllUsed, Used, Created
  <2>10. TokenHolds'
    BY <1>1, <1>2, <2>5, TokenKept DEF Fail
  <2>11. got = 0
    BY <1>1, <2>2, FirstCall
  <2>12. job' \in {0} \cup Ids /\ disk' \in {"live", "preview", "restored"} /\ power' \in BOOLEAN
    BY <1>1, <1>2 DEF ProviderTypeOK
  <2>. QED
    BY <1>1, <2>6, <2>7, <2>9, <2>10, <2>11, <2>12, FailedInv
<1>. QED
  BY <1>3, <1>4 DEF NonZero

LEMMA LastSwitchInv ==
    ASSUME ConnectorInv, NEW j \in left, LastSwitch(j) PROVE ConnectorInv'
<1>1. /\ ~Idle /\ Fail /\ UNCHANGED <<got, res, disk, power, job>>
      /\ tasks' = tasks \cup {TaskOf("unswitch", j)}
  BY DEF LastSwitch, Start, TaskOf
<1>2. Used(j) /\ j \in {0} \cup Ids /\ "unswitch" \in Removals \cup {"roll"}
  BY DEF ConnectorInv, AllUsed, ConnectorTypeOK, ClientTypeOK, Removals
<1>3. \E k \in Removals \cup {"roll"}, i \in {0} \cup Ids :
        Used(i) /\ tasks' = tasks \cup {TaskOf(k, i)}
  BY <1>1, <1>2
<1>. QED
  BY <1>1, <1>3, RaisesInv

LEMMA NextSwitchInv ==
    ASSUME ConnectorInv, NEW j \in left, NextSwitch(j) PROVE ConnectorInv'
<1>. DEFINE e == TaskOf("unswitch", j)
<1>1. /\ ~Idle /\ Head(rest) = "unswitch" /\ left' = left \ {j}
      /\ tasks' = tasks \cup {e} \/ tasks' = tasks
      /\ UNCHANGED <<prov, lib, handle, op, rest, arg, got, answer, ops, failed,
                     restores, told, traced, res, disk, power, job, aborted>>
  BY DEF NextSwitch, Start, caller, TaskOf
<1>2. /\ ProviderTypeOK /\ ClientTypeOK /\ CallerTypeOK /\ AllUsed /\ TasksFit
  BY DEF ConnectorInv, ConnectorTypeOK
<1>3. e \in TaskType /\ e.call \notin Creations /\ e.on = j /\ Used(j)
  BY <1>2 DEF TaskOf, TaskType, Removals, Creations, CallerTypeOK, ClientTypeOK, AllUsed
<1>. HIDE DEF e
<1>4. Works(0)
  BY <1>1, <1>2, <1>3 DEF Works, Moves, Starts, ProviderTypeOK
<1>5. /\ \A i : Used(i) => Used(i)'
      /\ \A t \in tasks' : Used(t.on)'
      /\ tasks' \subseteq TaskType /\ TasksFit'
  BY <1>2, <1>4, WorksFit
<1>6. ConnectorTypeOK'
  BY <1>1, <1>2, <1>5 DEF ConnectorTypeOK, ClientTypeOK, CallerTypeOK, ProviderTypeOK
<1>7. TokenHolds' /\ Progress'
  BY <1>1 DEF ConnectorInv, TokenHolds, Progress, Idle
<1>8. \A c \in Finals : ~Made(c)
  <2>1. ~OnlyReads(rest)
    BY <1>1, FirstCall
  <2>. QED
    BY <1>1, <2>1 DEF ConnectorInv, DoneSoFar, Idle
<1>9. DoneSoFar'
  BY <1>1, <1>8 DEF DoneSoFar, Made, Does
<1>10. AllUsed'
  <2>1. /\ Used(arg) /\ Used(got) /\ Used(job)
        /\ \A i \in left' \cup traced : Used(i)
    BY <1>1, <1>2 DEF AllUsed
  <2>. QED
    BY <1>1, <1>5, <2>1 DEF AllUsed
<1>11. LostCounted'
  <2>1. Lost' = Lost
    BY <1>1 DEF Lost, Live, Known, Named, Idle
  <2>. QED
    BY <1>1, <2>1 DEF ConnectorInv, LostCounted, Blind
<1>. QED
  BY <1>5, <1>6, <1>7, <1>9, <1>10, <1>11 DEF ConnectorInv

(* A task that ends: it is gone, it may have deleted what it was for, and  *)
(* if it was making something and failed, that is given up.                *)
Ends(t) ==
    /\ tasks' = tasks \ {t}
    /\ res' \in [Ids -> Kinds]
    /\ \A i \in Ids : \/ res'[i] = res[i]
                      \/ /\ res'[i] = "gone" /\ i = t.on
                         /\ t.call \in Removals \cup Creations
    /\ disk' \in {disk, "restored"}
    /\ aborted \subseteq aborted' /\ aborted' \subseteq Nat
    /\ t.by \in aborted' \/ TaskSucceeds(t)

LEMMA EndMeans ==
    ASSUME ConnectorInv, NEW t \in tasks, TaskSucceeds(t) \/ TaskFails(t)
    PROVE  /\ Ends(t)
           /\ UNCHANGED <<prov, lib, handle, op, rest, arg, got, left, answer, ops,
                          failed, restores, told, traced, power, job>>
<1>1. ProviderTypeOK /\ t \in TaskType /\ TasksFit
  BY DEF ConnectorInv, ConnectorTypeOK, ProviderTypeOK
<1>2. t.by \in Nat /\ aborted \subseteq Nat
  BY <1>1 DEF TaskType, ProviderTypeOK
<1>3. CASE TaskSucceeds(t)
  <2>1. tasks' = tasks \ {t} /\ aborted' = aborted
    BY <1>3 DEF TaskSucceeds
  <2>2. CASE Delete(t.on) /\ t.call \in Removals /\ UNCHANGED disk
    <3>1. Deleted(t.on)
      BY <1>1, <2>2, DeleteMeans
    <3>. QED
      BY <1>2, <1>3, <2>1, <2>2, <3>1 DEF Ends, Deleted, TaskSucceeds, clientVars, caller
  <2>3. CASE UNCHANGED res /\ disk' \in {disk, "restored"}
    BY <1>1, <1>2, <1>3, <2>1, <2>3 DEF Ends, ProviderTypeOK, TaskSucceeds, clientVars, caller
  <2>4. \/ Delete(t.on) /\ t.call \in Removals /\ UNCHANGED disk
        \/ UNCHANGED res /\ disk' \in {disk, "restored"}
    BY <1>3 DEF TaskSucceeds, Removals
  <2>. QED
    BY <2>2, <2>3, <2>4
<1>4. CASE TaskFails(t)
  <2>1. /\ tasks' = tasks \ {t} /\ aborted' = aborted \cup {t.by} /\ disk' = disk
        /\ res' = (IF t.call \in Creations THEN [res EXCEPT ![t.on] = "gone"] ELSE res)
    BY <1>4 DEF TaskFails
  <2>2. UNCHANGED <<prov, lib, handle, op, rest, arg, got, left, answer, ops,
                    failed, restores, told, traced, power, job>>
    BY <1>4 DEF TaskFails, clientVars, caller
  <2>3. CASE t.call \in Creations
    <3>1. t.on \in Ids /\ "gone" \in Kinds /\ res \in [Ids -> Kinds]
      BY <1>1, <2>3 DEF TasksFit, Kinds, ProviderTypeOK
    <3>2. /\ res' \in [Ids -> Kinds] /\ res'[t.on] = "gone"
          /\ \A j \in Ids : j # t.on => res'[j] = res[j]
      BY <2>1, <2>3, <3>1, Updated
    <3>. QED
      BY <1>2, <2>1, <2>2, <2>3, <3>2 DEF Ends
  <2>4. CASE t.call \notin Creations
    BY <1>1, <1>2, <2>1, <2>2, <2>4 DEF Ends, ProviderTypeOK
  <2>. QED
    BY <2>3, <2>4
<1>. QED
  BY <1>3, <1>4

(* What the operation has left, or asked for, is so still.                 *)
LEMMA TookAfterEnd ==
    ASSUME ConnectorTypeOK, TasksFit, NEW t \in tasks, Ends(t), NEW c \in Finals, Took(c),
           UNCHANGED <<prov, arg, got, ops, power, job>>
    PROVE  Took(c)'
<1>1. /\ tasks' = tasks \ {t} /\ disk' \in {disk, "restored"} /\ aborted \subseteq aborted'
      /\ t.by \in aborted' \/ TaskSucceeds(t)
      /\ \A i \in Ids : \/ res'[i] = res[i]
                        \/ /\ res'[i] = "gone" /\ i = t.on
                           /\ t.call \in Removals \cup Creations
  BY DEF Ends
<1>2. CASE c = "clone" /\ prov = "aws"
  BY <1>2 DEF Took
<1>3. CASE ~(c = "clone" /\ prov = "aws")
  <2>1. /\ c \in Creations => got \in Ids /\ Safe(got)
        /\ ops \in aborted \/ Asked(c) \/ Has(c)
    BY <1>3 DEF Took
  <2>2. c \in Creations => got' \in Ids /\ Safe(got)'
    BY <1>1, <2>1 DEF Safe
  <2>. SUFFICES ASSUME ops \notin aborted' PROVE Asked(c)' \/ Has(c)'
    BY <1>3, <2>2 DEF Took
  <2>3. Making' \subseteq Making
    BY <1>1 DEF Making
  <2>4. CASE Has(c)
    <3>1. CASE c \in Creations
      <4>1. got \in Ids /\ got \notin Making /\ res[got] = KindOf(c)
        BY <2>4, <3>1 DEF Has, OfKind
      <4>2. res'[got] = res[got]
        <5>1. t.call \in Removals => got # t.on
          BY <2>1, <3>1 DEF Safe
        <5>2. t.call \in Creations => got # t.on
          BY <4>1 DEF Making
        <5>. QED
          BY <1>1, <4>1, <5>1, <5>2
      <4>3. got' \in OfKind(KindOf(c))'
        BY <2>3, <4>1, <4>2 DEF OfKind
      <4>. QED
        BY <3>1, <4>3 DEF Has, Creations
    <3>2. CASE c \in {"kill", "drop"}
      BY <1>1, <2>4, <3>2 DEF Has, Creations
    <3>3. CASE c = "unswitch"
      BY <1>1, <2>4, <3>3 DEF Has, Creations
    <3>4. CASE c \in {"roll", "commit", "start", "stop"}
      BY <1>1, <2>4, <3>4 DEF Has, Creations
    <3>. QED
      BY <3>1, <3>2, <3>3, <3>4 DEF Finals, Creations
  <2>5. CASE Asked(c)
    <3>1. c # "unswitch"
      BY <2>5 DEF Asked
    <3>2. PICK u \in tasks : /\ u.by = ops /\ u.call = c
                             /\ u.on = (IF c \in Creations THEN got ELSE arg)
      BY <2>5 DEF Asked
    <3>3. CASE u # t
      BY <1>1, <3>1, <3>2, <3>3 DEF Asked
    <3>4. CASE u = t
      <4>1. TaskSucceeds(t) /\ t.call = c
        BY <1>1, <3>2, <3>4
      <4>2. CASE c \in Creations
        <5>1. t.on = got /\ got \in Ids /\ res[got] = KindOf(c) /\ UNCHANGED res
          BY <3>2, <3>4, <4>1, <4>2 DEF TasksFit, TaskSucceeds, Creations
        <5>2. got \notin Making'
          <6>1. \A v \in tasks : v.call \in Creations /\ v.on = got => v = t
            BY <4>1, <4>2, <5>1 DEF TasksFit
          <6>. QED
            BY <1>1, <6>1 DEF Making
        <5>3. got' \in OfKind(KindOf(c))'
          BY <5>1, <5>2 DEF OfKind
        <5>. QED
          BY <4>2, <5>3 DEF Has, Creations
      <4>3. CASE c \in {"kill", "drop"}
        <5>1. Delete(arg)
          BY <3>2, <3>4, <4>1, <4>3 DEF TaskSucceeds, Creations
        <5>2. Deleted(arg)
          BY <5>1, DeleteMeans DEF ConnectorTypeOK
        <5>. QED
          BY <4>3, <5>2 DEF Has, Deleted, Creations
      <4>4. CASE c = "roll"
        <5>1. disk' = "restored"
          BY <4>1, <4>4 DEF TaskSucceeds, Creations
        <5>. QED
          BY <4>4, <5>1 DEF Has, Creations
      <4>5. c \in Creations \cup Removals \cup {"roll"}
        <5>1. t \in TaskType
          BY DEF ConnectorTypeOK, ProviderTypeOK
        <5>. QED
          BY <4>1, <5>1 DEF TaskType
      <4>. QED
        BY <3>1, <4>2, <4>3, <4>4, <4>5 DEF Removals
    <3>. QED
      BY <3>3, <3>4
  <2>. QED
    BY <1>1, <2>1, <2>4, <2>5
<1>. QED
  BY <1>2, <1>3

LEMMA TaskEndsInv ==
    ASSUME ConnectorInv, NEW t \in tasks, TaskSucceeds(t) \/ TaskFails(t)
    PROVE  ConnectorInv'
<1>1. /\ Ends(t)
      /\ UNCHANGED <<prov, lib, handle, op, rest, arg, got, left, answer, ops,
                     failed, restores, told, traced, power, job>>
  BY EndMeans
<1>2. /\ ConnectorTypeOK /\ ClientTypeOK /\ CallerTypeOK /\ ProviderTypeOK
      /\ AllUsed /\ TasksFit /\ TokenHolds
  BY DEF ConnectorInv, ConnectorTypeOK
<1>3. /\ tasks' = tasks \ {t} /\ res' \in [Ids -> Kinds]
      /\ \A i \in Ids : res'[i] = res[i] \/ (res'[i] = "gone" /\ i = t.on)
  BY <1>1 DEF Ends
<1>4. ConnectorTypeOK'
  <2>1. ProviderTypeOK'
    BY <1>1, <1>2, <1>3 DEF ProviderTypeOK, Ends
  <2>. QED
    BY <1>1, <1>2, <2>1 DEF ConnectorTypeOK, ClientTypeOK, CallerTypeOK
<1>5. TokenHolds' /\ Progress'
  <2>1. TokenHolds'
    BY <1>1, <1>2, <1>3 DEF TokenHolds
  <2>. QED
    BY <1>1, <2>1 DEF ConnectorInv, Progress, Idle
<1>6. AllUsed'
  <2>1. \A i : Used(i) => Used(i)'
    BY <1>3 DEF Used
  <2>2. /\ Used(arg)' /\ Used(got)' /\ Used(job)'
    BY <1>1, <1>2, <2>1 DEF AllUsed, Used
  <2>. QED
    BY <1>1, <1>2, <1>3, <2>1, <2>2 DEF AllUsed
<1>7. TasksFit'
  <2>1. ASSUME NEW u \in tasks', u.call \in Creations PROVE u.on \in Ids /\ res'[u.on] = KindOf(u.call)
    <3>1. u \in tasks /\ u # t /\ u.on \in Ids /\ res[u.on] = KindOf(u.call) /\ u.on \in Making
      BY <1>2, <1>3, <2>1 DEF TasksFit, Making
    <3>2. res'[u.on] = res[u.on]
      <4>1. CASE t.call \in Creations
        <5>1. u.on # t.on
          BY <1>2, <2>1, <3>1, <4>1 DEF TasksFit
        <5>. QED
          BY <1>3, <3>1, <5>1
      <4>2. CASE t.call \notin Creations
        <5>1. TaskFails(t) => res' = res
          BY <4>2 DEF TaskFails
        <5>2. TaskSucceeds(t) => res' = res \/ Delete(t.on)
          BY <4>2 DEF TaskSucceeds
        <5>3. Delete(t.on) => t.on # u.on
          BY <3>1 DEF Delete
        <5>. QED
          BY <1>3, <3>1, <5>1, <5>2, <5>3
      <4>. QED
        BY <4>1, <4>2
    <3>. QED
      BY <3>1, <3>2
  <2>2. \A u, v \in tasks' : u.call \in Creations /\ v.call \in Creations /\ u.on = v.on => u = v
    BY <1>2, <1>3 DEF TasksFit
  <2>. QED
    BY <2>1, <2>2 DEF TasksFit
<1>8. DoneSoFar'
  <2>. SUFFICES ASSUME answer \in {"none", "ok"}, NEW c \in Finals, Made(c)
                PROVE  OnlyReads(rest) /\ Took(c)'
    BY <1>1 DEF DoneSoFar, Made, Does
  <2>1. OnlyReads(rest) /\ Took(c)
    BY DEF ConnectorInv, DoneSoFar
  <2>. QED
    BY <1>1, <1>2, <2>1, TookAfterEnd
<1>9. LostCounted'
  <2>1. Lost' \subseteq Lost
    <3>1. \A i \in Ids : i = 0 \/ res'[i] = res[i] \/ res'[i] = "gone"
      BY <1>3
    <3>2. \A i \in Lost' : i \in Lost \/ i = 0 \/ (~Idle /\ i = got /\ (Idle' \/ i # got'))
      BY <1>1, <3>1, NewlyLost
    <3>3. \A i \in Lost' : i # 0
      BY IdsFinite DEF Lost
    <3>. QED
      BY <1>1, <3>2, <3>3 DEF Idle
  <2>2. /\ Cardinality(Lost) \in Nat /\ Cardinality(Lost') \in Nat
        /\ Cardinality(Lost') <= Cardinality(Lost)
    BY <2>1, LostSize
  <2>3. /\ failed \in Nat /\ Blind \in Nat /\ Blind' = Blind /\ failed' = failed
        /\ Cardinality(Lost) <= failed + Blind
    BY <1>1, <1>2 DEF ConnectorInv, CallerTypeOK, LostCounted, Blind
  <2>4. Cardinality(Lost') <= failed + Blind
    BY <2>2, <2>3
  <2>. QED
    BY <2>3, <2>4 DEF LostCounted
<1>. QED
  BY <1>4, <1>5, <1>6, <1>7, <1>8, <1>9 DEF ConnectorInv

LEMMA ConnectorStutterInv ==
    ASSUME ConnectorInv, UNCHANGED connectorVars PROVE ConnectorInv'
<1>1. UNCHANGED <<prov, lib, handle, op, rest, arg, got, left, answer, ops, failed,
                  restores, told, traced, res, disk, power, job, tasks, aborted>>
  BY DEF connectorVars, clientVars, caller, remote
<1>2. ConnectorTypeOK' /\ TokenHolds' /\ Progress' /\ AllUsed' /\ TasksFit'
  BY <1>1 DEF ConnectorInv, ConnectorTypeOK, ClientTypeOK, CallerTypeOK, ProviderTypeOK,
     TokenHolds, Progress, Idle, AllUsed, Used, TasksFit
<1>3. DoneSoFar'
  <2>1. \A c \in Finals : Took(c) => Took(c)'
    BY <1>1, TookKept
  <2>. QED
    BY <1>1, <2>1 DEF ConnectorInv, DoneSoFar, Made, Does
<1>4. LostCounted'
  BY <1>1 DEF ConnectorInv, LostCounted, Lost, Blind, Live, Known, Named, Idle
<1>. QED
  BY <1>2, <1>3, <1>4 DEF ConnectorInv

LEMMA ConnectorStep == ConnectorInv /\ [ConnectorNext]_connectorVars => ConnectorInv'
<1>. SUFFICES ASSUME ConnectorInv, [ConnectorNext]_connectorVars PROVE ConnectorInv'
  OBVIOUS
<1>1. CASE ConnectUnavailable \/ ConnectSucceeds \/ ConnectRaises \/ ConnectWithoutToken
  BY <1>1, ConnectInv
<1>2. CASE \E o \in DOMAIN Calls[prov] : RefuseOp(o)
  BY <1>2, RefuseInv
<1>3. CASE \E o \in DOMAIN Calls[prov] : StartOp(o)
  BY <1>3, StartOpInv
<1>4. CASE CallReturns
  BY <1>4, CallReturnsInv
<1>5. CASE CallRaisesLate
  BY <1>5, CallRaisesLateInv
<1>6. CASE CallRaises
  BY <1>6, CallRaisesInv
<1>7. CASE NonZero
  BY <1>7, NonZeroInv
<1>8. CASE \E i \in left : NextSwitch(i)
  BY <1>8, NextSwitchInv
<1>9. CASE \E i \in left : LastSwitch(i)
  BY <1>9, LastSwitchInv
<1>10. CASE \E t \in tasks : TaskSucceeds(t) \/ TaskFails(t)
  BY <1>10, TaskEndsInv
<1>11. CASE UNCHANGED connectorVars
  BY <1>11, ConnectorStutterInv
<1>. QED
  BY <1>1, <1>2, <1>3, <1>4, <1>5, <1>6, <1>7, <1>8, <1>9, <1>10, <1>11
     DEF ConnectorNext

LEMMA ConnectorSpecInv == ConnectorSpec => []ConnectorInv
BY ConnectorInitInv, ConnectorStep, PTL DEF ConnectorSpec

LEMMA BackedIsShown == ConnectorInv => OkIsBacked
<1>. SUFFICES ASSUME ConnectorInv, answer = "ok", ~Underway, ops \notin aborted
              PROVE  Done
  BY DEF OkIsBacked
<1>1. rest = <<>>
  BY DEF ConnectorInv, Progress, Idle
<1>2. ToSet(rest) = {}
  BY <1>1 DEF ToSet
<1>3. \A c \in Finals : Does(c) => Took(c)
  BY <1>2 DEF ConnectorInv, DoneSoFar, Made
<1>4. Does("preview") => Does("commit")
  <2>1. ASSUME op # "connect" PROVE FineList(prov, Calls[prov][op])
    BY <2>1, CallsFine, ConnectorsAssumption DEF ConnectorInv, ConnectorTypeOK,
       ClientTypeOK
  <2>. QED
    BY <2>1 DEF FineList, Does
<1>5. \A c \in Finals : Does(c) => ~Asked(c)
  BY DEF Underway, Asked
<1>6. \A c \in Finals : Does(c) => (c = "clone" /\ prov = "aws" /\ got = job) \/ Has(c)
  BY <1>3, <1>5 DEF Took
<1>. HIDE DEF Does
<1>7. \A c \in Finals : Does(c) /\ c # "clone" => Has(c)
  BY <1>6
<1>8. /\ Does("snap") => got \in OfKind("snap")
      /\ Does("switch") => got \in OfKind("switch")
  BY <1>7 DEF Has, Finals, Creations, KindOf
<1>9. /\ Does("kill") \/ Does("drop") => res[arg] = "gone"
      /\ Does("unswitch") => res[got] = "gone"
      /\ Does("roll") \/ Does("preview") => disk = "restored"
      /\ Does("start") => power
      /\ Does("stop") => ~power
  BY <1>4, <1>7 DEF Has, Finals
<1>10. Does("clone") => (IF prov = "aws" THEN got = job ELSE got \in OfKind("vm"))
  BY <1>3, <1>6 DEF Took, Has, Finals, Creations, KindOf
<1>. QED
  BY <1>8, <1>9, <1>10 DEF Done

LEMMA CountIsShown == ConnectorInv => LostIsCounted
<1>. SUFFICES ASSUME ConnectorInv, Idle
              PROVE  Cardinality({i \in Ids : Live(i) /\ i \notin Known \cup traced})
                       <= failed + Blind
  BY DEF LostIsCounted, Blind
<1>1. Lost = {i \in Ids : Live(i) /\ i \notin Known \cup traced}
  BY DEF Lost
<1>. QED
  BY <1>1 DEF ConnectorInv, LostCounted

LEMMA NoTwinIsShown == ConnectorInv => NoTwinInstance
<1>. DEFINE V == {i \in Ids : res[i] = "vm"}
<1>. SUFFICES ASSUME ConnectorInv, prov = "aws" PROVE Cardinality(V) <= 1
  BY DEF NoTwinInstance
<1>1. V \in SUBSET {job}
  BY DEF ConnectorInv, TokenHolds
<1>2. IsFiniteSet({job}) /\ Cardinality({job}) = 1
  BY FS_Singleton
<1>. HIDE DEF V
<1>3. Cardinality(V) <= Cardinality({job})
  BY <1>1, <1>2, FS_Subset
<1>. QED
  BY <1>2, <1>3

(* The clients of the nine providers, for any number of operations and     *)
(* resources: one that answers success has done what it was asked to, or   *)
(* has a task for just that which runs still or failed.  An effect is made *)
(* once, at the end of what is looked up, and neither the reads that       *)
(* follow nor the end of any other task disturb it.                        *)
THEOREM OkTheorem == ConnectorSpec => []OkIsBacked
BY ConnectorSpecInv, BackedIsShown, PTL

(* Their except clauses, which undo nothing, and their answers: a resource *)
(* the caller can neither name nor ask after, left by an answer that was   *)
(* lost or by a task of Hyper-V, has a failure of its own that was         *)
(* answered, or is one VM of one restore by Azure or Nutanix.              *)
THEOREM LostTheorem == ConnectorSpec => []LostIsCounted
BY ConnectorSpecInv, CountIsShown, PTL

(* start_restore_job with its idempotency token: AWS never runs two        *)
(* instances, however often a restore is repeated.                         *)
THEOREM NoTwinTheorem == ConnectorSpec => []NoTwinInstance
BY ConnectorSpecInv, NoTwinIsShown, PTL
=============================================================================
