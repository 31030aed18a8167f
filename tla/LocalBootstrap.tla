--------------------------- MODULE LocalBootstrap ---------------------------
(***************************************************************************)
(* scripts/start_minimal.sh and stop_minimal.sh: the processes they start  *)
(* and stop, and the files in .infer-nexus by which a later run of either  *)
(* knows what the earlier ones left behind. One script runs at a time; it  *)
(* may be interrupted between any two of its steps. A background process   *)
(* and its pid file come about in one step (two commands in a row).        *)
(***************************************************************************)
EXTENDS Naturals

CONSTANTS
  Pids,          \* the process ids the machine has
  MaxScripts,    \* bound on the scripts run one after the other
  ForeignRay     \* whether a Ray head of somebody else may come up

NoPid == "none"

ASSUME LocalBootstrapAssumption ==
  MaxScripts \in Nat /\ ForeignRay \in BOOLEAN /\ NoPid \notin Pids

VARIABLES
  pc,        \* the next step of the script that runs
  scripts,   \* scripts begun so far
  proc,      \* what runs under each pid
  pidFile,   \* serve_runtime.pid and gateway.pid
  launched,  \* STARTED_SERVE_RUNTIME
  exited,    \* the exit status of the launcher the script has started
  ray,       \* the Ray head on this machine, and who has started it
  rayState,  \* RAY_STARTED_BY_SCRIPT in ray_state.env
  apps,      \* whether there are Serve applications of the models
  status     \* the STATUS file

files == <<pidFile, rayState, status>>
vars == <<pc, scripts, proc, launched, exited, ray, apps, files>>

TypeOK ==
  /\ pc \in {"idle", "ray", "ray_wait", "serve", "serve_wait", "gateway", "started",
             "kill_gateway", "kill_serve", "serve_app", "ray_stop", "kill_stray", "stopped"}
  /\ scripts \in 0..MaxScripts
  /\ proc \in [Pids -> {"free", "launcher", "gateway", "other"}]
  /\ pidFile \in [{"serve", "gateway"} -> Pids \cup {NoPid}]
  /\ launched \in BOOLEAN
  /\ exited \in {"no", "ok", "failed"}
  /\ ray \in {"down", "own", "foreign"}
  /\ rayState \in {"absent", "0", "1"}
  /\ apps \in {"none", "some"}
  /\ status \in {"none", "started", "stopped"}

Init ==
  /\ pc = "idle"
  /\ scripts = 0
  /\ proc = [p \in Pids |-> "free"]
  /\ pidFile = [f \in {"serve", "gateway"} |-> NoPid]
  /\ launched = FALSE
  /\ exited = "no"
  /\ ray = "down"
  /\ rayState = "absent"
  /\ apps = "none"
  /\ status = "none"

-----------------------------------------------------------------------------

At(here, there) == pc = here /\ pc' = there /\ UNCHANGED scripts

Begin(step) ==
  /\ pc = "idle"
  /\ scripts < MaxScripts
  /\ scripts' = scripts + 1
  /\ pc' = step

(* A pid that is alive, whoever has it by now.                             *)
pid_is_running(f) == pidFile[f] # NoPid /\ proc[pidFile[f]] # "free"

(* `(exec ...) & echo $! > pid file`.                                      *)
Spawn(f, what) ==
  \E p \in Pids :
    /\ proc[p] = "free"
    /\ proc' = [proc EXCEPT ![p] = what]
    /\ pidFile' = [pidFile EXCEPT ![f] = p]

-----------------------------------------------------------------------------
(* start_minimal.sh.                                                       *)

(* The ownership marker of earlier runs goes first. A missing uv, python or*)
(* ray then ends the script.                                               *)
BeginStart ==
  /\ \E next \in {"ray", "idle"} : Begin(next)
  /\ rayState' = "absent"
  /\ launched' = FALSE
  /\ exited' = "no"
  /\ UNCHANGED <<proc, ray, apps, pidFile, status>>

(* `ray status` answers: somebody's head is up, and it is attached to.     *)
AttachRay ==
  /\ At("ray", "serve")
  /\ ray # "down"
  /\ rayState' = "0"
  /\ UNCHANGED <<proc, launched, exited, ray, apps, pidFile, status>>

StartRay ==
  /\ ray = "down"
  /\ \/ At("ray", "ray_wait") /\ ray' = "own"
     \/ At("ray", "idle") /\ UNCHANGED ray
  /\ UNCHANGED <<proc, launched, exited, apps, files>>

(* The new head is reachable in time, or the script gives up and leaves it.*)
AwaitRay ==
  /\ \/ At("ray_wait", "serve") /\ ray # "down" /\ rayState' = "1"
     \/ At("ray_wait", "idle") /\ UNCHANGED rayState
  /\ UNCHANGED <<proc, launched, exited, ray, apps, pidFile, status>>

(* A launcher that runs already is neither started again nor waited for.   *)
StartServe ==
  \/ /\ pid_is_running("serve")
     /\ At("serve", "gateway")
     /\ UNCHANGED <<proc, launched, exited, ray, apps, files>>
  \/ /\ ~pid_is_running("serve")
     /\ At("serve", "serve_wait")
     /\ Spawn("serve", "launcher")
     /\ launched' = TRUE
     /\ UNCHANGED <<exited, ray, apps, rayState, status>>

(* Variants with a fault: the status `wait` returns is lost; the wait has  *)
(* no timeout.                                                             *)
AwaitServeAnyStatus ==
  /\ IF ~pid_is_running("serve") THEN At("serve_wait", "gateway") ELSE At("serve_wait", "idle")
  /\ UNCHANGED <<proc, launched, exited, ray, apps, files>>

AwaitServeForever ==
  /\ ~pid_is_running("serve")
  /\ IF exited = "ok" THEN At("serve_wait", "gateway") ELSE At("serve_wait", "idle")
  /\ UNCHANGED <<proc, launched, exited, ray, apps, files>>

(* wait_for_pid_exit: the pid is gone and its exit status decides, or 900  *)
(* seconds are over and the launcher is left running. Nobody looks at the  *)
(* applications themselves, here or later.                                 *)
AwaitServe ==
  /\ IF ~pid_is_running("serve") /\ exited = "ok"
     THEN At("serve_wait", "gateway")
     ELSE At("serve_wait", "idle")
  /\ UNCHANGED <<proc, launched, exited, ray, apps, files>>

(* Variants with a fault: the pid file is not looked at; it gets the name. *)
StartGatewayAnyway ==
  /\ At("gateway", "started")
  /\ Spawn("gateway", "gateway")
  /\ UNCHANGED <<launched, exited, ray, apps, rayState, status>>

StartGatewayByName ==
  /\ At("gateway", "started")
  /\ pidFile' = [pidFile EXCEPT !["gateway"] = "gateway"]
  /\ UNCHANGED <<proc, launched, exited, ray, apps, rayState, status>>

StartGateway ==
  /\ At("gateway", "started")
  /\ IF pid_is_running("gateway") THEN UNCHANGED <<proc, pidFile>> ELSE Spawn("gateway", "gateway")
  /\ UNCHANGED <<launched, exited, ray, apps, rayState, status>>

write_status(step, msg) ==
  /\ At(step, "idle")
  /\ status' = msg
  /\ UNCHANGED <<proc, launched, exited, ray, apps, pidFile>>

FinishStart == write_status("started", "started") /\ UNCHANGED rayState

-----------------------------------------------------------------------------
(* stop_minimal.sh.                                                        *)

BeginStop ==
  /\ Begin("kill_gateway")
  /\ UNCHANGED <<proc, launched, exited, ray, apps, files>>

(* TERM, ten seconds, KILL, and the pid file is removed.                   *)
kill_from_pid_file(f) ==
  /\ pidFile' = [pidFile EXCEPT ![f] = NoPid]
  /\ proc' = [p \in Pids |-> IF p = pidFile[f] THEN "free" ELSE proc[p]]
  /\ UNCHANGED <<launched, exited, ray, apps, rayState, status>>

KillGateway == At("kill_gateway", "kill_serve") /\ kill_from_pid_file("gateway")

KillServe == At("kill_serve", "serve_app") /\ kill_from_pid_file("serve")

(* serve.shutdown, if there is a python and if it works.                   *)
stop_serve_app ==
  /\ At("serve_app", "ray_stop")
  /\ apps' \in {apps, "none"}
  /\ UNCHANGED <<proc, launched, exited, ray, files>>

RayGoesDown == ray' = "down" /\ apps' = "none"

(* `ray stop -f`, unless the marker says the head is another's; a missing  *)
(* marker counts as ours. A missing or failing ray CLI is ignored.         *)
StopRay ==
  /\ At("ray_stop", "kill_stray")
  /\ \/ rayState # "0" /\ RayGoesDown
     \/ UNCHANGED <<ray, apps>>
  /\ UNCHANGED <<proc, launched, exited, files>>

(* A variant with a fault: the sweep, too, goes by the marker.             *)
KillStrayIfOurs ==
  /\ At("kill_stray", "stopped")
  /\ IF rayState # "0" THEN RayGoesDown ELSE UNCHANGED <<ray, apps>>
  /\ UNCHANGED <<proc, launched, exited, files>>

(* kill_stray_vllm_local and kill_stray_ray_local: by command line, TERM,  *)
(* then KILL.                                                              *)
KillStray ==
  /\ At("kill_stray", "stopped")
  /\ RayGoesDown
  /\ UNCHANGED <<proc, launched, exited, files>>

FinishStop == write_status("stopped", "stopped") /\ rayState' = "absent"

-----------------------------------------------------------------------------
(* What goes on around the scripts.                                        *)

(* Ctrl-C. What the script has put into the background ignores it.         *)
Interrupt ==
  /\ pc # "idle"
  /\ pc' = "idle"
  /\ UNCHANGED <<scripts, proc, launched, exited, ray, apps, files>>

(* run_serve_runtime.py, while it runs, brings up application by           *)
(* application, ...                                                        *)
LauncherDeploys(p) ==
  /\ proc[p] = "launcher"
  /\ ray # "down"
  /\ apps' = "some"
  /\ UNCHANGED <<pc, scripts, proc, launched, exited, ray, files>>

(* ... and exits: it has seen all of them ready, or there was an error of  *)
(* any kind, which leaves what it has deployed.                            *)
LauncherExits(p, ok) ==
  /\ proc[p] = "launcher"
  /\ ok => ray # "down"
  /\ proc' = [proc EXCEPT ![p] = "free"]
  /\ exited' = IF launched THEN (IF ok THEN "ok" ELSE "failed") ELSE exited
  /\ UNCHANGED <<pc, scripts, launched, ray, apps, files>>

(* Ray, or only Serve in it, goes down by itself, at any moment.           *)
ClusterFails ==
  /\ \/ ray # "down" /\ RayGoesDown
     \/ apps # "none" /\ apps' = "none" /\ UNCHANGED ray
  /\ UNCHANGED <<pc, scripts, proc, launched, exited, files>>

GatewayExits(p) ==
  /\ proc[p] = "gateway"
  /\ proc' = [proc EXCEPT ![p] = "free"]
  /\ UNCHANGED <<pc, scripts, launched, exited, ray, apps, files>>

(* Another process takes a free pid, one a pid file may still name, or     *)
(* ends. One at a time: there is always a pid left for ours.               *)
OtherProcess(p) ==
  /\ \/ /\ proc[p] = "free"
        /\ \A q \in Pids : proc[q] # "other"
        /\ proc' = [proc EXCEPT ![p] = "other"]
     \/ proc[p] = "other" /\ proc' = [proc EXCEPT ![p] = "free"]
  /\ UNCHANGED <<pc, scripts, launched, exited, ray, apps, files>>

ForeignRayStarts ==
  /\ ForeignRay
  /\ ray = "down"
  /\ ray' = "foreign"
  /\ UNCHANGED <<pc, scripts, proc, launched, exited, apps, files>>

-----------------------------------------------------------------------------

Script ==
  \/ AttachRay \/ StartRay \/ AwaitRay \/ StartServe \/ AwaitServe
  \/ StartGateway \/ FinishStart
  \/ KillGateway \/ KillServe \/ stop_serve_app \/ StopRay \/ KillStray \/ FinishStop

Next ==
  \/ BeginStart \/ BeginStop \/ Script \/ Interrupt \/ ForeignRayStarts \/ ClusterFails
  \/ \E p \in Pids :
       \/ GatewayExits(p) \/ OtherProcess(p) \/ LauncherDeploys(p)
       \/ \E ok \in BOOLEAN : LauncherExits(p, ok)

Spec == Init /\ [][Next]_vars

(* Every command of a script returns; nothing makes a launcher exit.       *)
FairSpec == Spec /\ WF_vars(Script)

-----------------------------------------------------------------------------

(* No process of ours is lost: at any moment a live launcher or gateway is *)
(* the one its pid file names, so the next script finds it - through starts*)
(* that time out, scripts interrupted, gateways that die and pids that are *)
(* reused. So there is never a second launcher or gateway, either.         *)
Tracked ==
  \A p \in Pids :
    /\ proc[p] = "launcher" => pidFile["serve"] = p
    /\ proc[p] = "gateway" => pidFile["gateway"] = p

(* A stop that gets to its end leaves nothing of ours: no gateway, no      *)
(* launcher that could deploy anew, no application, no Ray head - not even *)
(* one whose ownership a second start has written off because it found it  *)
(* running.                                                                *)
StopLeavesNothing ==
  pc = "stopped" =>
    /\ \A p \in Pids : proc[p] \notin {"launcher", "gateway"}
    /\ ray # "own" /\ apps = "none"

GatewaySpawned == \E p \in Pids : proc[p] # "gateway" /\ proc'[p] = "gateway"

(* A start that has launched a deployment of its own opens the gateway only*)
(* when that very launcher has reported success - not one of an earlier    *)
(* start, not the process that took its pid - and when no other is still   *)
(* changing what it has deployed. It says nothing of the applications at   *)
(* that time: they may have gone since, and the script does not look again.*)
OwnDeploymentReported ==
  [][GatewaySpawned /\ launched =>
       exited = "ok" /\ \A p \in Pids : proc[p] # "launcher"]_vars

(* A script comes to its end, even if the launcher it waits for hangs.     *)
ScriptEnds == (pc # "idle") ~> (pc = "idle")

(* stop_minimal.sh reads the marker to decide whether it has the right to  *)
(* stop the local Ray cluster: a step of a script (the others leave pc as  *)
(* it is) does not stop one that is marked as another's.                   *)
ForeignRayLeftAlone ==
  [][pc' # pc /\ ray = "foreign" /\ rayState = "0" => ray' = "foreign"]_vars

=============================================================================
