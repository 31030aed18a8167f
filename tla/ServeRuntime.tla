---------------------------- MODULE ServeRuntime ----------------------------
(***************************************************************************)
(* scripts/run_serve_runtime.py and the Serve applications it deploys, one *)
(* after the other and one per model, before it polls their statuses. The  *)
(* catalog file may be edited at any time: a process that starts reads one *)
(* of the catalogs it may contain, and goes by that one from then on.      *)
(***************************************************************************)
EXTENDS ModelCatalog

CONSTANT Catalogs   \* what the catalog file may contain

ASSUME ServeRuntimeAssumption == Catalogs \subseteq Seq(Entries) /\ Catalogs # {}

VARIABLES
  launch,   \* the latest launcher: where it is, what it has read, what it has yet to deploy
  apps      \* the Serve applications there are, by model

serveVars == <<launch, apps>>

Launches ==
  [at : {"off", "deploying", "polling", "done"}, catalog : Catalogs, todo : SUBSET Names]

(* ready: the application and its deployments are RUNNING or HEALTHY.      *)
Applications == [catalog : Catalogs, entry : Entries, ready : BOOLEAN]

ServeTypeOK ==
  /\ launch \in Launches
  /\ launch.todo \subseteq Plan(launch.catalog)
  /\ DOMAIN apps \subseteq Names
  /\ \A n \in DOMAIN apps : apps[n] \in Applications

NoApps == [n \in {} |-> n]

ServeInit ==
  /\ launch \in [at : {"off"}, catalog : Catalogs, todo : {{}}]
  /\ apps = NoApps

-----------------------------------------------------------------------------

Running == launch.at \in {"deploying", "polling"}

(* A variant with a fault: the specs are made from the file, read again.   *)
LaunchReadingTwice ==
  /\ ~Running
  /\ \E c, d \in {e \in Catalogs : Accepted(e)} :
       launch' = [at |-> "deploying", catalog |-> c, todo |-> Plan(d)]
  /\ UNCHANGED apps

(* main, up to the bindings: catalog and runtime configurations are valid, *)
(* Ray and Serve are up.                                                   *)
Launch ==
  /\ ~Running
  /\ \E c \in {d \in Catalogs : Accepted(d)} :
       launch' = [at |-> "deploying", catalog |-> c, todo |-> Plan(c)]
  /\ UNCHANGED apps

(* The first of the listed models that is still to be deployed.            *)
IsNext(n) ==
  /\ n \in launch.todo
  /\ \E i \in 1..Len(launch.catalog) :
       /\ launch.catalog[i].name = n
       /\ \A j \in 1..(i - 1) : launch.catalog[j].name \notin launch.todo

(* serve.run of the application of one model, in the place of an older one.*)
Deploy(n) ==
  /\ launch.at = "deploying"
  /\ IsNext(n)
  /\ launch' = [launch EXCEPT !.todo = @ \ {n}]
  /\ \E ready \in BOOLEAN :
       apps' = [m \in DOMAIN apps \cup {n} |->
                  IF m = n
                  THEN [catalog |-> launch.catalog, entry |-> Context(launch.catalog, n),
                        ready |-> ready]
                  ELSE apps[m]]

StartPolling ==
  /\ launch.at = "deploying"
  /\ launch.todo = {}
  /\ launch' = [launch EXCEPT !.at = "polling"]
  /\ UNCHANGED apps

(* A variant with a fault: an application that is missing is let pass.     *)
PollReadyOrMissing ==
  /\ launch.at = "polling"
  /\ \A n \in Plan(launch.catalog) \cap DOMAIN apps : apps[n].ready
  /\ launch' = [launch EXCEPT !.at = "done"]
  /\ UNCHANGED apps

(* wait_for_serve_applications_ready: every application is ready in one and*)
(* the same snapshot. A missing one keeps it waiting.                      *)
PollReady ==
  /\ launch.at = "polling"
  /\ \A n \in Plan(launch.catalog) : n \in DOMAIN apps /\ apps[n].ready
  /\ launch' = [launch EXCEPT !.at = "done"]
  /\ UNCHANGED apps

LauncherExits ==
  /\ launch' = [launch EXCEPT !.at = "off", !.todo = {}]
  /\ UNCHANGED apps

(* An application that is not ready has failed, or is being deleted.       *)
PollFailed ==
  /\ launch.at = "polling"
  /\ \E n \in Plan(launch.catalog) \cap DOMAIN apps : ~apps[n].ready
  /\ LauncherExits

(* A variant with a fault: the deadline moves while something is missing.  *)
PollTimesOutIfSeen ==
  /\ launch.at = "polling"
  /\ Plan(launch.catalog) \subseteq DOMAIN apps
  /\ LauncherExits

(* The deadline has passed.                                                *)
PollTimesOut == launch.at = "polling" /\ LauncherExits

(* serve.run or a status call raises, or the launcher is killed: what it   *)
(* has deployed stays.                                                     *)
LauncherDies == Running /\ LauncherExits

(* Replicas come up and go down; nobody looks once a launcher is done.     *)
StatusChanges(n) ==
  /\ n \in DOMAIN apps
  /\ apps' = [apps EXCEPT ![n].ready = ~@]
  /\ UNCHANGED launch

(* serve.shutdown, or Ray goes down; a launcher in the middle may not      *)
(* notice.                                                                 *)
ServeGoesDown ==
  /\ apps' = NoApps
  /\ launch' = IF Running THEN launch ELSE [launch EXCEPT !.at = "off"]

Poll == PollReady \/ PollFailed \/ PollTimesOut

ServeNext ==
  \/ Launch \/ StartPolling \/ Poll \/ LauncherDies \/ ServeGoesDown
  \/ \E n \in Names : Deploy(n) \/ StatusChanges(n)

=============================================================================
