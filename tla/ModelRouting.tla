---------------------------- MODULE ModelRouting ----------------------------
(***************************************************************************)
(* From the model a client names to the model that answers it: the gateway,*)
(* which has read the catalog at a time of its own (main.lifespan), looks  *)
(* the name up, checks the model and dispatches the request to a Serve     *)
(* application, to a replica of its own (stub mode) or to an upstream. The *)
(* three routes share one shape; up to its await a route is one step.      *)
(***************************************************************************)
EXTENDS ServeRuntime

CONSTANT Requests   \* requests, each sent once

VARIABLES
  files,     \* the model paths that exist
  gateway,   \* whether the gateway is up, the catalog and the mode it has read
  req        \* the requests

vars == <<launch, apps, files, gateway, req>>

(* answer is that of the gateway; by has the entry of the model that gives *)
(* it, once that is settled; app is the application a request has gone to. *)
Fresh == [at |-> "idle", asked |-> None, app |-> None, answer |-> "none", by |-> {}]

Records ==
  [at : {"idle", "waiting", "done"}, asked : Names \cup {None}, app : Names \cup {None},
   answer : {"none", "not_found", "wrong_task", "missing", "not_connected", "failed",
             "lost", "ok"},
   by : SUBSET Entries]

TypeOK ==
  /\ ServeTypeOK
  /\ files \subseteq Paths
  /\ gateway \in [up : BOOLEAN, catalog : Catalogs, stub : BOOLEAN]
  /\ req \in [Requests -> Records]

Init ==
  /\ ServeInit
  /\ files \in SUBSET Paths
  /\ gateway \in [up : {FALSE}, catalog : Catalogs, stub : {FALSE}]
  /\ req = [r \in Requests |-> Fresh]

-----------------------------------------------------------------------------
(* The gateway process.                                                    *)

(* execution_mode and the catalog are read at the start, and validated.    *)
StartGateway ==
  /\ ~gateway.up
  /\ \E c \in {d \in Catalogs : Accepted(d)}, stub \in BOOLEAN :
       gateway' = [up |-> TRUE, catalog |-> c, stub |-> stub]
  /\ UNCHANGED <<serveVars, files, req>>

(* The requests it was serving are lost with it.                           *)
StopGateway ==
  /\ gateway.up
  /\ gateway' = [gateway EXCEPT !.up = FALSE]
  /\ req' = [r \in Requests |->
               IF req[r].at = "waiting"
               THEN [req[r] EXCEPT !.at = "done", !.answer = "lost"]
               ELSE req[r]]
  /\ UNCHANGED <<serveVars, files>>

-----------------------------------------------------------------------------
(* create_chat_completion, create_embedding, create_rerank.                *)

Asks(r, n) ==
  /\ gateway.up
  /\ req[r].at = "idle"
  /\ UNCHANGED <<serveVars, files, gateway>>

AnswerAtOnce(r, n, a) ==
  req' = [req EXCEPT ![r] = [at |-> "done", asked |-> n, app |-> None, answer |-> a, by |-> {}]]

Await(r, n, app, by) ==
  req' = [req EXCEPT ![r] =
            [at |-> "waiting", asked |-> n, app |-> app, answer |-> "none", by |-> by]]

Model(n) == Get(gateway.catalog, n)

Target(n) == Context(gateway.catalog, Model(n).name)

NotFound(r, n) ==
  /\ Asks(r, n)
  /\ ~Known(gateway.catalog, n)
  /\ AnswerAtOnce(r, n, "not_found")

(* The route asked for is not that of the model's task.                    *)
WrongTask(r, n, t) ==
  /\ Asks(r, n)
  /\ Known(gateway.catalog, n)
  /\ Model(n).task # t
  /\ AnswerAtOnce(r, n, "wrong_task")

Routed(r, n, t) ==
  /\ Asks(r, n)
  /\ Known(gateway.catalog, n)
  /\ Model(n).task = t

(* ModelArtifactMissingError, of require_model_path or of the dispatcher.  *)
Missing(r, n, t) ==
  /\ Routed(r, n, t)
  /\ Model(n).backend = "vllm"
  /\ ArtifactMissing(Model(n), files) \/ ~Loadable(Target(n))
  /\ AnswerAtOnce(r, n, "missing")

(* resolve_target of a proxied model is made of the model itself.          *)
RouteToUpstream(r, n, t) ==
  /\ Routed(r, n, t)
  /\ Model(n).backend = "proxy"
  /\ Await(r, n, None, {Model(n)})

RoutedHere(r, n, t) ==
  /\ Routed(r, n, t)
  /\ Model(n).backend = "vllm"
  /\ ~ArtifactMissing(Model(n), files)
  /\ Loadable(Target(n))

(* _invoke_local_replica: a replica of the context resolve_target has built*)
RouteToReplica(r, n, t) ==
  /\ gateway.stub
  /\ RoutedHere(r, n, t)
  /\ Await(r, n, None, {Target(n)})

(* Variants with a fault: application and deployment both go by the second *)
(* lookup; by what /v1/models shows.                                       *)
DeploymentOfTarget(n) == Target(n).name

DeploymentByPublicId(n) == PublicId(Model(n))

(* build_deployment_name of the model, build_application_name of the target*)
(* (its context); an application has the one deployment of its model.      *)
Deployment(n) == Model(n).name

HandleFound(n) == Target(n).name \in DOMAIN apps /\ Deployment(n) = Target(n).name

NotConnected(r, n, t) ==
  /\ ~gateway.stub
  /\ RoutedHere(r, n, t)
  /\ ~HandleFound(n)
  /\ AnswerAtOnce(r, n, "not_connected")

(* _invoke_handle, up to the await of the remote call.                     *)
RouteToApplication(r, n, t) ==
  /\ ~gateway.stub
  /\ RoutedHere(r, n, t)
  /\ HandleFound(n)
  /\ Await(r, n, Target(n).name, {})

Finish(r, a, by) ==
  /\ req' = [req EXCEPT ![r].at = "done", ![r].answer = a, ![r].by = by]
  /\ UNCHANGED <<serveVars, files, gateway>>

(* The answer comes from the application as it is by then.                 *)
Reply(r) ==
  /\ req[r].at = "waiting"
  /\ \/ req[r].app = None /\ Finish(r, "ok", req[r].by)
     \/ req[r].app \in DOMAIN apps /\ Finish(r, "ok", {apps[req[r].app].entry})

(* RuntimeExecutionError, also when the application is gone.               *)
Fail(r) ==
  /\ req[r].at = "waiting"
  /\ Finish(r, "failed", {})

FilesChange ==
  /\ files' \in SUBSET Paths
  /\ UNCHANGED <<serveVars, gateway, req>>

Route(r) ==
  \E n \in Names :
    \/ NotFound(r, n)
    \/ \E t \in Routes :
         \/ WrongTask(r, n, t) \/ Missing(r, n, t) \/ RouteToUpstream(r, n, t)
         \/ RouteToReplica(r, n, t) \/ NotConnected(r, n, t) \/ RouteToApplication(r, n, t)

Next ==
  \/ ServeNext /\ UNCHANGED <<files, gateway, req>>
  \/ FilesChange \/ StartGateway \/ StopGateway
  \/ \E r \in Requests : Route(r) \/ Reply(r) \/ Fail(r)

Spec == Init /\ [][Next]_vars

(* The poll loop runs against a deadline. A request owes nothing: the call *)
(* of an application is awaited without a timeout, and Serve keeps the call*)
(* of one that has no replica.                                             *)
FairSpec == Spec /\ WF_vars(Poll /\ UNCHANGED <<files, gateway, req>>)

-----------------------------------------------------------------------------

Becomes(r, a) == req[r].answer # a /\ req'[r].answer = a

(* The model that answers is the model that was asked for, by whatever of  *)
(* its names, if the application answering was deployed from the catalog   *)
(* the gateway has read. A shadowed name is the exception only in stub mode*)
(* (the replica is built for the other model): in front of Serve the names *)
(* of deployment and application then disagree, and nobody answers.        *)
RightModel ==
  [][\A r \in Requests : Becomes(r, "ok") =>
       LET m == Model(req[r].asked) IN
       \/ req'[r].by = {m}
       \/ req[r].app # None /\ apps[req[r].app].catalog # gateway.catalog
       \/ gateway.stub /\ Shadowed(gateway.catalog, req[r].asked)]_vars

(* A model that /v1/models lists is never "model not found" to who asks for*)
(* it by the id that was listed.                                           *)
ListedIsFound ==
  [][\A r \in Requests : Becomes(r, "not_found") =>
       \A e \in Listed(gateway.catalog) : req'[r].asked # PublicId(e)]_vars

(* A client is told that model files are missing only when those of the    *)
(* model it named are: resolving the target a second time does not fail.   *)
MissingIsMissing ==
  [][\A r \in Requests : Becomes(r, "missing") =>
       ArtifactMissing(Model(req'[r].asked), files)]_vars

(* Behind a launch that has reported success, no request finds its model   *)
(* without application, unless the gateway has read another catalog or the *)
(* name is shadowed - whatever was missing, failing or edited on the way.  *)
LaunchedIsConnected ==
  [][\A r \in Requests : Becomes(r, "not_connected") =>
       \/ launch.at # "done"
       \/ launch.catalog # gateway.catalog
       \/ Shadowed(gateway.catalog, req'[r].asked)]_vars

(* A launcher that polls comes to an end, whatever the statuses do.        *)
PollingEnds == (launch.at = "polling") ~> (launch.at # "polling")

=============================================================================
