------------------------- MODULE ModelRoutingProofs -------------------------
(***************************************************************************)
(* What holds of the routing of requests for any catalogs, any number of   *)
(* requests and any launches: who answers, and why nobody does.            *)
(***************************************************************************)
EXTENDS ModelRouting, TLAPS, WellFoundedInduction

-----------------------------------------------------------------------------
(* The registry.                                                           *)

(* Natural numbers in the order of <.                                      *)
Less == OpToRel(<, Nat)

LEMMA HasLeast ==
  ASSUME NEW T \in SUBSET Nat, T # {}
  PROVE  \E x \in T : \A y \in T : x <= y
<1>1. IsWellFoundedOn(Less, Nat)
  BY NatLessThanWellFounded DEF Less
<1>2. PICK x \in T : \A y \in T : <<y, x>> \notin Less
  BY <1>1, WFMin
<1>3. \A y \in Nat : <<y, x>> \in Less <=> y < x
  BY Zenon DEF Less, OpToRel
<1>4. \A y \in T : ~(y < x)
  BY <1>2, <1>3, Zenon
<1> QED BY <1>4

(* Some entry is the latest of those there are.                            *)
LEMMA LatestExists ==
  ASSUME NEW k \in Nat, NEW S \in SUBSET (1..k), S # {}
  PROVE  Latest(S) \in S /\ \A j \in S : j <= Latest(S)
<1> DEFINE T == {k - i : i \in S}
<1>1. T \in SUBSET Nat /\ T # {}
  <2>1. \A i \in S : k - i \in Nat
    OBVIOUS
  <2> QED BY <2>1
<1>2. PICK x \in T : \A y \in T : x <= y
  BY <1>1, HasLeast
<1>3. PICK i \in S : x = k - i
  OBVIOUS
<1>4. \A j \in S : j <= i
  <2> TAKE j \in S
  <2>1. k - i <= k - j
    BY <1>2, <1>3
  <2> QED BY <2>1
<1>5. \E l \in S : \A j \in S : j <= l
  BY <1>4
<1> QED BY <1>5 DEF Latest

(* A name some entry has leads to an entry of that name.                   *)
LEMMA NamedHasName ==
  ASSUME NEW c \in Catalogs, NEW n, NamedAt(c, n) # {}
  PROVE  /\ Named(c, n) \in Entries
         /\ Named(c, n).name = n
         /\ Named(c, n) \in Listed(c)
<1>1. c \in Seq(Entries)
  BY ServeRuntimeAssumption
<1>2. Len(c) \in Nat /\ NamedAt(c, n) \in SUBSET (1..Len(c))
  BY <1>1 DEF NamedAt
<1>3. Latest(NamedAt(c, n)) \in NamedAt(c, n)
  BY <1>2, LatestExists
<1> DEFINE i == Latest(NamedAt(c, n))
<1>4. i \in 1..Len(c) /\ c[i].name = n
  BY <1>3 DEF NamedAt
<1>5. c[i] \in Entries
  BY <1>1, <1>4
<1>6. Named(c, n) = Named(c, c[i].name)
  BY <1>4
<1>7. Named(c, n) \in Listed(c)
  BY <1>4, <1>6 DEF Listed
<1> QED BY <1>4, <1>5, <1>7 DEF Named

(* What a key leads to is the name of some entry.                          *)
LEMMA AliasedIsNamed ==
  ASSUME NEW c \in Catalogs, NEW a, AliasedAt(c, a) # {}
  PROVE  Known(c, a)
<1>1. c \in Seq(Entries)
  BY ServeRuntimeAssumption
<1>2. Len(c) \in Nat /\ AliasedAt(c, a) \in SUBSET (1..Len(c))
  BY <1>1 DEF AliasedAt
<1>3. Latest(AliasedAt(c, a)) \in AliasedAt(c, a)
  BY <1>2, LatestExists
<1>4. Latest(AliasedAt(c, a)) \in NamedAt(c, Canonical(c, a))
  BY <1>2, <1>3 DEF NamedAt, Canonical
<1> QED BY <1>4 DEF Known

(* A known name leads to a listed entry, which the registry finds again by *)
(* its own name unless that is an alias too.                               *)
LEMMA GetIsListed ==
  ASSUME NEW c \in Catalogs, NEW a, Known(c, a)
  PROVE  /\ Get(c, a) \in Entries
         /\ Get(c, a) \in Listed(c)
         /\ Get(c, a) = Named(c, Get(c, a).name)
         /\ NamedAt(c, Get(c, a).name) # {}
  BY NamedHasName DEF Known, Get

(* The registry knows every listed model by its own name and by the one it *)
(* is shown with.                                                          *)
LEMMA ListedIsKnown ==
  ASSUME NEW c \in Catalogs, NEW e \in Listed(c)
  PROVE  Known(c, e.name) /\ Known(c, PublicId(e))
<1>1. c \in Seq(Entries) /\ Len(c) \in Nat
  BY ServeRuntimeAssumption
<1>2. PICK i \in 1..Len(c) : e = Named(c, c[i].name)
  BY DEF Listed
<1>3. i \in NamedAt(c, c[i].name)
  BY DEF NamedAt
<1>4. NamedAt(c, e.name) # {} /\ e \in Entries
  BY <1>2, <1>3, NamedHasName
<1>5. NamedAt(c, e.name) \in SUBSET (1..Len(c))
  BY <1>1 DEF NamedAt
<1> DEFINE k == Latest(NamedAt(c, e.name))
<1>6. k \in NamedAt(c, e.name)
  BY <1>1, <1>4, <1>5, LatestExists
<1>7. e.name = c[i].name
  BY <1>2, <1>3, NamedHasName
<1>8. k \in 1..Len(c) /\ e = c[k]
  BY <1>2, <1>5, <1>6, <1>7 DEF Named
<1>9. Known(c, e.name)
  BY <1>4, AliasedIsNamed DEF Known, Canonical
<1>10. CASE PublicId(e) = e.name
  BY <1>9, <1>10
<1>11. CASE PublicId(e) # e.name
  <2>1. PublicId(e) \in {e.alias, e.served}
    BY <1>11 DEF PublicId
  <2>2. k \in AliasedAt(c, PublicId(e))
    BY <1>8, <2>1 DEF AliasedAt
  <2> QED BY <1>9, <2>2, AliasedIsNamed
<1> QED BY <1>9, <1>10, <1>11

(* What a request by a known name is dispatched with.                      *)
LEMMA TargetIsListed ==
  ASSUME NEW c \in Catalogs, NEW a, Known(c, a)
  PROVE  /\ Context(c, Get(c, a).name) \in Entries
         /\ Get(c, a).name \in Names
         /\ Context(c, Get(c, a).name).name \in Names
         /\ Context(c, Get(c, a).name).name = Get(c, a).name =>
              Context(c, Get(c, a).name) = Get(c, a)
         /\ Get(c, a).backend = "vllm" => Get(c, a).name \in Plan(c)
<1>1. Get(c, a) \in Entries /\ Get(c, a) \in Listed(c)
  BY GetIsListed
<1>2. Known(c, Get(c, a).name)
  BY <1>1, ListedIsKnown
<1>3. Context(c, Get(c, a).name) \in Entries
  BY <1>2, GetIsListed DEF Context
<1>4. Get(c, a).name \in Names /\ Context(c, Get(c, a).name).name \in Names
  BY <1>1, <1>3 DEF Entries
<1>5. Context(c, Get(c, a).name).name = Get(c, a).name =>
        Context(c, Get(c, a).name) = Get(c, a)
  BY <1>2, GetIsListed DEF Context
<1>6. Get(c, a).backend = "vllm" => Get(c, a).name \in Plan(c)
  BY <1>1 DEF Plan
<1> QED BY <1>3, <1>4, <1>5, <1>6

(* What is planned can be built.                                           *)
LEMMA PlannedIsKnown ==
  ASSUME NEW c \in Catalogs, NEW n \in Plan(c)
  PROVE  n \in Names /\ Context(c, n) \in Entries
<1>1. PICK e \in Listed(c) : n = e.name
  BY DEF Plan
<1>2. Known(c, n)
  BY <1>1, ListedIsKnown
<1>3. PICK i \in 1..Len(c) : e = Named(c, c[i].name) /\ i \in NamedAt(c, c[i].name)
  BY <1>1 DEF Listed, NamedAt
<1>4. e \in Entries
  BY <1>3, NamedHasName
<1> QED BY <1>1, <1>2, <1>4, GetIsListed DEF Context, Entries

-----------------------------------------------------------------------------
(* The invariant.                                                          *)

(* Every application runs what the catalog it was deployed from says of its*)
(* name, and a launcher that is done has left none out.                    *)
Deployed ==
  /\ \A n \in DOMAIN apps :
       n \in Plan(apps[n].catalog) /\ apps[n].entry = Context(apps[n].catalog, n)
  /\ launch.at = "done" => Plan(launch.catalog) \subseteq DOMAIN apps

(* The gateway has validated its catalog.                                  *)
Validated == gateway.up => Accepted(gateway.catalog)

(* A request that waits does so for the model it has named.                *)
Awaits(r) ==
  /\ gateway.up
  /\ req[r].asked \in Names
  /\ Known(gateway.catalog, req[r].asked)
  /\ req[r].app = None =>
       \/ req[r].by = {Model(req[r].asked)}
       \/ gateway.stub /\ req[r].by = {Target(req[r].asked)}
  /\ req[r].app # None =>
       /\ req[r].app = Model(req[r].asked).name
       /\ req[r].app = Target(req[r].asked).name

Waiting == \A r \in Requests : req[r].at = "waiting" => Awaits(r)

IInv == TypeOK /\ Deployed /\ Validated /\ Waiting

LEMMA InitIInv == Init => IInv
<1> SUFFICES ASSUME Init PROVE IInv
  OBVIOUS
<1>1. DOMAIN apps = {}
  BY DEF Init, ServeInit, NoApps
<1>2. ServeTypeOK
  BY <1>1 DEF Init, ServeInit, ServeTypeOK, Launches
<1>3. Fresh \in Records
  BY DEF Fresh, Records
<1>4. gateway \in [up : BOOLEAN, catalog : Catalogs, stub : BOOLEAN]
  BY DEF Init
<1>5. TypeOK
  BY <1>2, <1>3, <1>4 DEF Init, TypeOK
<1>6. Deployed
  BY <1>1 DEF Init, ServeInit, Deployed
<1>7. Validated /\ Waiting
  BY DEF Init, Validated, Waiting, Fresh
<1> QED BY <1>5, <1>6, <1>7 DEF IInv

(* A step of the launcher or of Serve.                                     *)
LEMMA ServeKeeps ==
  ASSUME ServeTypeOK, Deployed, ServeNext
  PROVE  ServeTypeOK' /\ Deployed'
<1> USE DEF ServeTypeOK, Deployed
<1>1. CASE Launch
  <2>1. PICK c \in Catalogs :
          launch' = [at |-> "deploying", catalog |-> c, todo |-> Plan(c)]
    BY <1>1 DEF Launch
  <2>2. Plan(c) \subseteq Names
    BY PlannedIsKnown
  <2> QED BY <1>1, <2>1, <2>2 DEF Launch, Launches
<1>2. CASE StartPolling
  BY <1>2 DEF StartPolling, Launches
<1>3. CASE PollReady
  BY <1>3 DEF PollReady, Launches
<1>4. CASE PollFailed \/ PollTimesOut \/ LauncherDies
  BY <1>4 DEF PollFailed, PollTimesOut, LauncherDies, LauncherExits, Launches
<1>5. CASE ServeGoesDown
  BY <1>5 DEF ServeGoesDown, NoApps, Running, Launches
<1>6. ASSUME NEW n \in Names, Deploy(n)
      PROVE  ServeTypeOK' /\ Deployed'
  <2>1. n \in Plan(launch.catalog) /\ launch.catalog \in Catalogs
    BY <1>6 DEF Deploy, IsNext, Launches
  <2>2. Context(launch.catalog, n) \in Entries
    BY <2>1, PlannedIsKnown
  <2> DEFINE app(ready) == [catalog |-> launch.catalog, entry |-> Context(launch.catalog, n),
                            ready |-> ready]
  <2>3. PICK ready \in BOOLEAN :
          apps' = [m \in DOMAIN apps \cup {n} |-> IF m = n THEN app(ready) ELSE apps[m]]
    BY <1>6 DEF Deploy
  <2>4. app(ready) \in Applications
    BY <2>1, <2>2 DEF Applications
  <2>5. launch' \in Launches /\ launch'.at = "deploying"
        /\ launch'.catalog = launch.catalog /\ launch'.todo \subseteq launch.todo
    BY <1>6 DEF Deploy, Launches
  <2>6. DOMAIN apps' = DOMAIN apps \cup {n}
    BY <2>3
  <2>7. \A m \in DOMAIN apps' : apps'[m] = IF m = n THEN app(ready) ELSE apps[m]
    BY <2>3
  <2>8. ServeTypeOK'
    BY <2>4, <2>5, <2>6, <2>7
  <2>9. Deployed'
    BY <2>1, <2>5, <2>6, <2>7
  <2> QED BY <2>8, <2>9
<1>7. ASSUME NEW n \in Names, StatusChanges(n)
      PROVE  ServeTypeOK' /\ Deployed'
  BY <1>7 DEF StatusChanges, Applications
<1> QED BY <1>1, <1>2, <1>3, <1>4, <1>5, <1>6, <1>7, ServeNext DEF ServeNext, Poll

(* A request that a route answers on the spot or sends on.                 *)
LEMMA RouteKeeps ==
  ASSUME IInv, NEW r \in Requests, Route(r)
  PROVE  IInv'
<1> USE DEF IInv
<1>1. UNCHANGED <<serveVars, files, gateway>> /\ gateway.up
  BY DEF Route, NotFound, WrongTask, Missing, RouteToUpstream, RouteToReplica, NotConnected,
         RouteToApplication, Routed, RoutedHere, Asks
<1>2. Deployed' /\ Validated'
  BY <1>1 DEF Deployed, Validated, serveVars
<1>3. ServeTypeOK' /\ files' \subseteq Paths
      /\ gateway' \in [up : BOOLEAN, catalog : Catalogs, stub : BOOLEAN]
  BY <1>1 DEF TypeOK, ServeTypeOK, serveVars
<1>4. PICK n \in Names :
        \/ \E a \in {"not_found", "wrong_task", "missing", "not_connected"} : AnswerAtOnce(r, n, a)
        \/ \E t \in Routes :
             RouteToUpstream(r, n, t) \/ RouteToReplica(r, n, t) \/ RouteToApplication(r, n, t)
  BY DEF Route, NotFound, WrongTask, Missing, NotConnected
<1>5. CASE \E a \in {"not_found", "wrong_task", "missing", "not_connected"} :
             AnswerAtOnce(r, n, a)
  <2>1. req' \in [Requests -> Records]
    BY <1>5 DEF AnswerAtOnce, TypeOK, Records
  <2>2. \A q \in Requests : req'[q].at = "waiting" => q # r /\ req'[q] = req[q]
    BY <1>5 DEF AnswerAtOnce, TypeOK
  <2>3. Waiting'
    BY <1>1, <2>2 DEF Waiting, Awaits, Model, Target
  <2> QED BY <1>2, <1>3, <2>1, <2>3 DEF TypeOK
<1>6. ASSUME NEW t \in Routes,
             RouteToUpstream(r, n, t) \/ RouteToReplica(r, n, t) \/ RouteToApplication(r, n, t)
      PROVE  IInv'
  <2>1. Known(gateway.catalog, n) /\ gateway.catalog \in Catalogs
    BY <1>6 DEF RouteToUpstream, RouteToReplica, RouteToApplication, RoutedHere, Routed, TypeOK
  <2>2. Model(n) \in Entries /\ Target(n) \in Entries /\ Target(n).name \in Names
    BY <2>1, GetIsListed, TargetIsListed DEF Model, Target
  <2>3. PICK app \in Names \cup {None}, by \in SUBSET Entries :
          /\ Await(r, n, app, by)
          /\ app = None => by = {Model(n)} \/ (gateway.stub /\ by = {Target(n)})
          /\ app # None => app = Model(n).name /\ app = Target(n).name
    <3>1. CASE RouteToUpstream(r, n, t)
      <4>1. Await(r, n, None, {Model(n)}) /\ {Model(n)} \in SUBSET Entries
        BY <2>2, <3>1 DEF RouteToUpstream
      <4> QED BY <4>1
    <3>2. CASE RouteToReplica(r, n, t)
      <4>1. Await(r, n, None, {Target(n)}) /\ {Target(n)} \in SUBSET Entries /\ gateway.stub
        BY <2>2, <3>2 DEF RouteToReplica
      <4> QED BY <4>1
    <3>3. CASE RouteToApplication(r, n, t)
      <4>1. Await(r, n, Target(n).name, {}) /\ Target(n).name = Model(n).name
        BY <3>3 DEF RouteToApplication, HandleFound, Deployment
      <4>2. Target(n).name # None
        BY <2>2, ModelCatalogAssumption
      <4> QED BY <2>2, <4>1, <4>2
    <3> QED BY <1>6, <3>1, <3>2, <3>3
  <2>4. req' \in [Requests -> Records]
    BY <2>3 DEF Await, TypeOK, Records
  <2>5. /\ req'[r] = [at |-> "waiting", asked |-> n, app |-> app, answer |-> "none", by |-> by]
        /\ \A q \in Requests : q # r => req'[q] = req[q]
    BY <2>3 DEF Await, TypeOK
  <2>6. Awaits(r)'
    BY <1>1, <2>1, <2>3, <2>5 DEF Awaits, Model, Target
  <2>7. ASSUME NEW q \in Requests, q # r, req'[q].at = "waiting"
        PROVE  Awaits(q)'
    BY <1>1, <2>5, <2>7 DEF Waiting, Awaits, Model, Target
  <2> QED BY <1>2, <1>3, <2>4, <2>6, <2>7 DEF TypeOK, Waiting
<1> QED BY <1>4, <1>5, <1>6

(* A request that ends.                                                    *)
LEMMA FinishKeeps ==
  ASSUME IInv, NEW r \in Requests, NEW a \in {"ok", "failed"}, NEW by \in SUBSET Entries,
         Finish(r, a, by)
  PROVE  IInv'
<1> USE DEF IInv
<1>1. UNCHANGED <<launch, apps, files, gateway>>
  BY DEF Finish, serveVars
<1>2. req' \in [Requests -> Records]
  <2>1. req[r] \in Records
    BY DEF TypeOK
  <2>2. [req[r] EXCEPT !.at = "done", !.answer = a, !.by = by] \in Records
    BY <2>1 DEF Records
  <2>3. req' = [req EXCEPT ![r] = [req[r] EXCEPT !.at = "done", !.answer = a, !.by = by]]
    BY DEF Finish, TypeOK
  <2> QED BY <2>2, <2>3 DEF TypeOK
<1>3. \A q \in Requests : req'[q].at = "waiting" => q # r /\ req'[q] = req[q]
  BY DEF Finish, TypeOK, Records
<1>4. Waiting'
  BY <1>1, <1>3 DEF Waiting, Awaits, Model, Target
<1> QED BY <1>1, <1>2, <1>4 DEF TypeOK, ServeTypeOK, Deployed, Validated

(* Who answers is the entry of an application or has been settled before.  *)
LEMMA ReplyFinishes ==
  ASSUME IInv, NEW r \in Requests, Reply(r)
  PROVE  \E by \in SUBSET Entries :
           /\ Finish(r, "ok", by)
           /\ \/ req[r].app = None /\ by = req[r].by
              \/ req[r].app \in DOMAIN apps /\ by = {apps[req[r].app].entry}
<1>1. req[r].by \in SUBSET Entries
  BY DEF IInv, TypeOK, Records
<1>2. \A n \in DOMAIN apps : apps[n].entry \in Entries
  BY DEF IInv, TypeOK, ServeTypeOK, Applications
<1> QED BY <1>1, <1>2 DEF Reply

(* Every step keeps the invariant.                                         *)
LEMMA NextIInv == IInv /\ [Next]_vars => IInv'
<1> SUFFICES ASSUME IInv, [Next]_vars PROVE IInv'
  OBVIOUS
<1>1. CASE ServeNext /\ UNCHANGED <<files, gateway, req>>
  <2>1. ServeTypeOK' /\ Deployed'
    BY <1>1, ServeKeeps DEF IInv, TypeOK
  <2>2. Waiting'
    BY <1>1 DEF IInv, Waiting, Awaits, Model, Target
  <2> QED BY <1>1, <2>1, <2>2 DEF IInv, TypeOK, Validated
<1>2. CASE FilesChange
  BY <1>2 DEF FilesChange, serveVars, IInv, TypeOK, ServeTypeOK, Deployed, Validated, Waiting,
              Awaits, Model, Target
<1>3. CASE StartGateway
  <2>1. gateway' \in [up : BOOLEAN, catalog : Catalogs, stub : BOOLEAN] /\ Validated'
    BY <1>3 DEF StartGateway, Validated
  <2>2. Waiting'
    BY <1>3 DEF StartGateway, IInv, Waiting, Awaits
  <2> QED BY <1>3, <2>1, <2>2 DEF StartGateway, serveVars, IInv, TypeOK, ServeTypeOK, Deployed
<1>4. CASE StopGateway
  <2>1. req' \in [Requests -> Records] /\ \A r \in Requests : req'[r].at # "waiting"
    BY <1>4 DEF StopGateway, IInv, TypeOK, Records
  <2>2. gateway' \in [up : BOOLEAN, catalog : Catalogs, stub : BOOLEAN] /\ Validated'
    BY <1>4 DEF StopGateway, IInv, TypeOK, Validated
  <2> QED
    BY <1>4, <2>1, <2>2
    DEF StopGateway, serveVars, IInv, TypeOK, ServeTypeOK, Deployed, Waiting
<1>5. ASSUME NEW r \in Requests, Route(r) PROVE IInv'
  BY <1>5, RouteKeeps
<1>6. ASSUME NEW r \in Requests, Reply(r) PROVE IInv'
  BY <1>6, ReplyFinishes, FinishKeeps
<1>7. ASSUME NEW r \in Requests, Fail(r) PROVE IInv'
  BY <1>7, FinishKeeps DEF Fail
<1>8. CASE UNCHANGED vars
  BY <1>8 DEF vars, IInv, TypeOK, ServeTypeOK, Deployed, Validated, Waiting, Awaits, Model, Target
<1> QED BY <1>1, <1>2, <1>3, <1>4, <1>5, <1>6, <1>7, <1>8 DEF Next

(* So it holds at every moment.                                            *)
LEMMA Inductive == Spec => []IInv
  BY InitIInv, NextIInv, PTL DEF Spec

-----------------------------------------------------------------------------

(* What the launcher, the applications, the gateway and its requests hold  *)
(* stays within its type, whatever is edited, redeployed or restarted.     *)
THEOREM TypeCorrect == Spec => []TypeOK
<1>1. IInv => TypeOK
  BY DEF IInv
<1> QED BY <1>1, Inductive, PTL

(* A step answers a request by a route, or by a reply or a failure of what *)
(* it has been sent to.                                                    *)
LEMMA WhoAnswers ==
  ASSUME IInv, [Next]_vars, NEW r \in Requests, req'[r].answer # req[r].answer
  PROVE  \/ Route(r)
         \/ Reply(r)
         \/ req'[r].answer \in {"failed", "lost"}
<1>1. CASE ServeNext /\ UNCHANGED <<files, gateway, req>>
  BY <1>1
<1>2. CASE FilesChange \/ StartGateway
  BY <1>2 DEF FilesChange, StartGateway
<1>3. CASE StopGateway
  <2>1. req[r] \in Records
    BY DEF IInv, TypeOK
  <2> QED BY <1>3, <2>1 DEF StopGateway, Records
<1>4. ASSUME NEW q \in Requests, Route(q) \/ Reply(q) \/ Fail(q), q # r
      PROVE  FALSE
  <2>1. req'[r] = req[r]
    BY <1>4 DEF IInv, TypeOK, Route, NotFound, WrongTask, Missing, RouteToUpstream, RouteToReplica,
                NotConnected, RouteToApplication, AnswerAtOnce, Await, Reply, Fail, Finish
  <2> QED BY <2>1
<1>5. CASE Fail(r)
  BY <1>5 DEF Fail, Finish, IInv, TypeOK, Records
<1>6. CASE UNCHANGED vars
  BY <1>6 DEF vars
<1> QED BY <1>1, <1>2, <1>3, <1>4, <1>5, <1>6 DEF Next

(* What a route has answered on the spot tells which branch it has taken.  *)
LEMMA WhichRoute ==
  ASSUME IInv, NEW r \in Requests, Route(r) \/ Reply(r)
  PROVE  /\ Becomes(r, "ok") => Reply(r)
         /\ Becomes(r, "not_found") => NotFound(r, req'[r].asked)
         /\ Becomes(r, "missing") => \E t \in Routes : Missing(r, req'[r].asked, t)
         /\ Becomes(r, "not_connected") => \E t \in Routes : NotConnected(r, req'[r].asked, t)
<1> USE DEF IInv, TypeOK, Becomes
<1>1. CASE Reply(r)
  <2>1. req'[r].answer = "ok"
    BY <1>1 DEF Reply, Finish, Records
  <2> QED BY <1>1, <2>1
<1>2. CASE Route(r)
  <2>1. PICK n \in Names :
          \/ NotFound(r, n)
          \/ \E t \in Routes :
               \/ WrongTask(r, n, t) \/ Missing(r, n, t) \/ RouteToUpstream(r, n, t)
               \/ RouteToReplica(r, n, t) \/ NotConnected(r, n, t) \/ RouteToApplication(r, n, t)
    BY <1>2 DEF Route
  <2>2. CASE NotFound(r, n)
    <3>1. req'[r].answer = "not_found" /\ req'[r].asked = n
      BY <2>2 DEF NotFound, AnswerAtOnce
    <3> QED BY <2>2, <3>1
  <2>3. ASSUME NEW t \in Routes, WrongTask(r, n, t)
        PROVE  req'[r].answer = "wrong_task"
    BY <2>3 DEF WrongTask, AnswerAtOnce
  <2>4. ASSUME NEW t \in Routes, Missing(r, n, t)
        PROVE  req'[r].answer = "missing" /\ req'[r].asked = n
    BY <2>4 DEF Missing, AnswerAtOnce
  <2>5. ASSUME NEW t \in Routes, NotConnected(r, n, t)
        PROVE  req'[r].answer = "not_connected" /\ req'[r].asked = n
    BY <2>5 DEF NotConnected, AnswerAtOnce
  <2>6. ASSUME NEW t \in Routes,
               RouteToUpstream(r, n, t) \/ RouteToReplica(r, n, t) \/ RouteToApplication(r, n, t)
        PROVE  req'[r].answer = "none"
    BY <2>6 DEF RouteToUpstream, RouteToReplica, RouteToApplication, Await
  <2> QED BY <2>1, <2>2, <2>3, <2>4, <2>5, <2>6
<1> QED BY <1>1, <1>2

(* Who is answered is answered by the model it has named, as the gateway   *)
(* and the launch have read it.                                            *)
THEOREM RightModelAnswers == Spec => RightModel
<1> DEFINE Right(r) ==
      LET m == Model(req[r].asked) IN
      \/ req'[r].by = {m}
      \/ req[r].app # None /\ apps[req[r].app].catalog # gateway.catalog
      \/ gateway.stub /\ Shadowed(gateway.catalog, req[r].asked)
<1>1. ASSUME IInv, [Next]_vars, NEW r \in Requests, Becomes(r, "ok")
      PROVE  Right(r)
  <2>1. Reply(r)
    BY <1>1, WhoAnswers, WhichRoute DEF Becomes
  <2>2. PICK by \in SUBSET Entries :
          /\ Finish(r, "ok", by)
          /\ \/ req[r].app = None /\ by = req[r].by
             \/ req[r].app \in DOMAIN apps /\ by = {apps[req[r].app].entry}
    BY <1>1, <2>1, ReplyFinishes
  <2>3. req'[r].by = by
    BY <1>1, <2>2 DEF Finish, IInv, TypeOK, Records
  <2>4. Awaits(r)
    BY <1>1, <2>1 DEF Reply, IInv, Waiting
  <2>5. gateway.catalog \in Catalogs
    BY <1>1 DEF IInv, TypeOK
  <2>6. CASE req[r].app = None /\ by = req[r].by
    BY <2>3, <2>4, <2>6 DEF Awaits, Shadowed, Target, Context, Model
  <2>7. CASE /\ req[r].app \in DOMAIN apps
             /\ by = {apps[req[r].app].entry}
             /\ apps[req[r].app].catalog = gateway.catalog
    <3>1. req[r].app # None
      BY <1>1, <2>7, ModelCatalogAssumption DEF IInv, TypeOK, ServeTypeOK
    <3>2. apps[req[r].app].entry = Target(req[r].asked)
      BY <1>1, <2>4, <2>7, <3>1 DEF IInv, Deployed, Awaits, Target
    <3>3. Target(req[r].asked) = Model(req[r].asked)
      BY <2>4, <2>5, <3>1, TargetIsListed DEF Awaits, Target, Model
    <3> QED BY <2>3, <2>7, <3>2, <3>3
  <2> QED
    BY <1>1, <2>2, <2>6, <2>7, ModelCatalogAssumption DEF IInv, TypeOK, ServeTypeOK
<1>2. IInv /\ [Next]_vars => [\A r \in Requests : Becomes(r, "ok") => Right(r)]_vars
  BY <1>1
<1> QED BY <1>2, Inductive, PTL DEF Spec, RightModel

(* A listed model is found by the id it is listed with.                    *)
THEOREM ListedModelsAreFound == Spec => ListedIsFound
<1>1. ASSUME IInv, [Next]_vars, NEW r \in Requests, Becomes(r, "not_found"),
             NEW e \in Listed(gateway.catalog), req'[r].asked = PublicId(e)
      PROVE  FALSE
  <2>1. NotFound(r, req'[r].asked)
    BY <1>1, WhoAnswers, WhichRoute DEF Becomes
  <2>2. ~Known(gateway.catalog, PublicId(e))
    BY <1>1, <2>1 DEF NotFound
  <2> QED BY <1>1, <2>2, ListedIsKnown DEF IInv, TypeOK
<1>2. IInv /\ [Next]_vars => [\A r \in Requests : Becomes(r, "not_found") =>
        \A e \in Listed(gateway.catalog) : req'[r].asked # PublicId(e)]_vars
  BY <1>1
<1> QED BY <1>2, Inductive, PTL DEF Spec, ListedIsFound

(* Who is told that files are missing has named the model whose files are. *)
THEOREM MissingFilesAreMissing == Spec => MissingIsMissing
<1>1. ASSUME IInv, [Next]_vars, NEW r \in Requests, Becomes(r, "missing")
      PROVE  ArtifactMissing(Model(req'[r].asked), files)
  <2> DEFINE n == req'[r].asked
  <2>1. PICK t \in Routes : Missing(r, n, t)
    BY <1>1, WhoAnswers, WhichRoute DEF Becomes
  <2>2. /\ gateway.up /\ Known(gateway.catalog, n) /\ Model(n).backend = "vllm"
        /\ ArtifactMissing(Model(n), files) \/ ~Loadable(Target(n))
    BY <2>1 DEF Missing, Routed, Asks
  <2>3. gateway.catalog \in Catalogs /\ Accepted(gateway.catalog)
    BY <1>1, <2>2 DEF IInv, TypeOK, Validated
  <2>4. Loadable(Target(n))
    BY <2>2, <2>3, TargetIsListed DEF Accepted, Target, Model
  <2> QED BY <2>2, <2>4
<1>2. IInv /\ [Next]_vars => [\A r \in Requests : Becomes(r, "missing") =>
        ArtifactMissing(Model(req'[r].asked), files)]_vars
  BY <1>1
<1> QED BY <1>2, Inductive, PTL DEF Spec, MissingIsMissing

(* A launch that has been reported as ready leaves no model of its catalog *)
(* without an application that a gateway of the same catalog finds.        *)
THEOREM LaunchedModelsAreConnected == Spec => LaunchedIsConnected
<1> DEFINE Excused(r) == \/ launch.at # "done"
                         \/ launch.catalog # gateway.catalog
                         \/ Shadowed(gateway.catalog, req'[r].asked)
<1>1. ASSUME IInv, [Next]_vars, NEW r \in Requests, Becomes(r, "not_connected")
      PROVE  Excused(r)
  <2> DEFINE n == req'[r].asked
  <2>1. PICK t \in Routes : NotConnected(r, n, t)
    BY <1>1, WhoAnswers, WhichRoute DEF Becomes
  <2>2. /\ Known(gateway.catalog, n) /\ Model(n).backend = "vllm"
        /\ ~HandleFound(n)
    BY <2>1 DEF NotConnected, RoutedHere, Routed
  <2>3. gateway.catalog \in Catalogs
    BY <1>1 DEF IInv, TypeOK
  <2>4. Model(n).name \in Plan(gateway.catalog)
    BY <2>2, <2>3, TargetIsListed DEF Model
  <2>5. Shadowed(gateway.catalog, n) \/ Target(n) = Model(n)
    BY DEF Shadowed, Target, Model, Context
  <2>6. CASE launch.at = "done" /\ launch.catalog = gateway.catalog
    BY <1>1, <2>2, <2>4, <2>5, <2>6 DEF IInv, Deployed, HandleFound, Deployment
  <2> QED BY <2>6
<1>2. IInv /\ [Next]_vars => [\A r \in Requests : Becomes(r, "not_connected") => Excused(r)]_vars
  BY <1>1
<1> QED BY <1>2, Inductive, PTL DEF Spec, LaunchedIsConnected

=============================================================================
