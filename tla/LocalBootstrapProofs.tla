------------------------ MODULE LocalBootstrapProofs ------------------------
(***************************************************************************)
(* What holds of the bootstrap scripts for any set of pids and any number  *)
(* of runs: no process of theirs gets lost, a completed stop leaves none of*)
(* them behind, and a start goes by the word of its own launcher.          *)
(***************************************************************************)
EXTENDS LocalBootstrap, TLAPS

NoneRuns(what) == \A p \in Pids : proc[p] # what

(* A stop works its way from the gateway over the launcher to the Ray head *)
(* and the applications in it; what it has stopped is not there any more at*)
(* any later step of it.                                                   *)
StopProgress ==
  /\ pc \in {"kill_serve", "serve_app", "ray_stop", "kill_stray", "stopped"} =>
       NoneRuns("gateway")
  /\ pc \in {"serve_app", "ray_stop", "kill_stray", "stopped"} => NoneRuns("launcher")
  /\ pc = "stopped" => ray # "own" /\ apps = "none"

IInv == TypeOK /\ Tracked /\ StopProgress

-----------------------------------------------------------------------------

(* The scripts begin in a state of the invariant.                          *)
LEMMA InitIInv == Init => IInv
<1> SUFFICES ASSUME Init PROVE IInv
  OBVIOUS
<1>1. pidFile \in [{"serve", "gateway"} -> Pids \cup {NoPid}]
  BY DEF Init
<1>2. proc \in [Pids -> {"free", "launcher", "gateway", "other"}]
  BY DEF Init
<1>3. scripts \in 0..MaxScripts
  BY LocalBootstrapAssumption DEF Init
<1>4. TypeOK
  BY <1>1, <1>2, <1>3 DEF Init, TypeOK
<1>5. Tracked /\ StopProgress
  BY DEF Init, Tracked, StopProgress, NoneRuns
<1> QED BY <1>4, <1>5 DEF IInv

(* A process that is spawned where the pid file names no live one is the   *)
(* only one of its kind.                                                   *)
LEMMA SpawnTracks ==
  ASSUME NEW f \in {"serve", "gateway"}, NEW what \in {"launcher", "gateway"},
         (f = "serve") <=> (what = "launcher"),
         TypeOK, Tracked, ~pid_is_running(f), Spawn(f, what)
  PROVE  /\ proc' \in [Pids -> {"free", "launcher", "gateway", "other"}]
         /\ pidFile' \in [{"serve", "gateway"} -> Pids \cup {NoPid}]
         /\ Tracked'
<1>1. PICK q \in Pids : /\ proc[q] = "free"
                        /\ proc' = [proc EXCEPT ![q] = what]
                        /\ pidFile' = [pidFile EXCEPT ![f] = q]
  BY DEF Spawn
<1>2. /\ proc' \in [Pids -> {"free", "launcher", "gateway", "other"}]
      /\ pidFile' \in [{"serve", "gateway"} -> Pids \cup {NoPid}]
  BY <1>1 DEF TypeOK
<1>3. ASSUME NEW p \in Pids, p # q
      PROVE  proc[p] # what
  BY LocalBootstrapAssumption DEF TypeOK, Tracked, pid_is_running, NoPid
<1>4. Tracked'
  BY <1>1, <1>3 DEF TypeOK, Tracked
<1> QED BY <1>2, <1>4

(* kill_from_pid_file stops what its file names, and every process of that *)
(* kind is what its file names.                                            *)
LEMMA KillTracks ==
  ASSUME NEW f \in {"serve", "gateway"}, TypeOK, Tracked, kill_from_pid_file(f)
  PROVE  /\ proc' \in [Pids -> {"free", "launcher", "gateway", "other"}]
         /\ pidFile' \in [{"serve", "gateway"} -> Pids \cup {NoPid}]
         /\ Tracked'
         /\ f = "serve" => NoneRuns("launcher")'
         /\ f = "gateway" => NoneRuns("gateway")'
         /\ NoneRuns("gateway") => NoneRuns("gateway")'
  BY LocalBootstrapAssumption DEF TypeOK, Tracked, kill_from_pid_file, NoneRuns, NoPid

(* Steps of a script that touch neither processes nor pid files.           *)
LEMMA ScriptElsewhere ==
  ASSUME IInv, UNCHANGED <<proc, pidFile, launched>>,
         \/ AttachRay \/ StartRay \/ AwaitRay \/ AwaitServe \/ FinishStart
         \/ BeginStop \/ stop_serve_app \/ StopRay \/ KillStray \/ FinishStop
  PROVE  IInv'
<1> USE LocalBootstrapAssumption
         DEF IInv, TypeOK, Tracked, StopProgress, NoneRuns, At, files
<1>1. CASE AttachRay BY <1>1 DEF AttachRay
<1>2. CASE StartRay BY <1>2 DEF StartRay
<1>3. CASE AwaitRay BY <1>3 DEF AwaitRay
<1>4. CASE AwaitServe BY <1>4 DEF AwaitServe
<1>5. CASE FinishStart BY <1>5 DEF FinishStart, write_status
<1>6. CASE BeginStop
  <2>1. scripts' \in 0..MaxScripts
    BY <1>6 DEF BeginStop, Begin
  <2> QED BY <1>6, <2>1 DEF BeginStop, Begin
<1>7. CASE stop_serve_app BY <1>7 DEF stop_serve_app
<1>8. CASE StopRay BY <1>8 DEF StopRay, RayGoesDown
<1>9. CASE KillStray BY <1>9 DEF KillStray, RayGoesDown
<1>10. CASE FinishStop BY <1>10 DEF FinishStop, write_status
<1> QED BY <1>1, <1>2, <1>3, <1>4, <1>5, <1>6, <1>7, <1>8, <1>9, <1>10

(* Every step of the scripts and of what goes on around them keeps it.     *)
LEMMA NextIInv == IInv /\ [Next]_vars => IInv'
<1> SUFFICES ASSUME IInv, [Next]_vars PROVE IInv'
  OBVIOUS
<1>1. CASE BeginStart
  <2>1. scripts' \in 0..MaxScripts
    BY <1>1, LocalBootstrapAssumption DEF BeginStart, Begin, IInv, TypeOK
  <2> QED
    BY <1>1, <2>1 DEF BeginStart, Begin, IInv, TypeOK, Tracked, StopProgress, NoneRuns
<1>2. CASE StartServe
  <2>1. CASE pid_is_running("serve") /\ UNCHANGED <<proc, files>>
    BY <1>2, <2>1 DEF StartServe, At, files, IInv, TypeOK, Tracked, StopProgress, NoneRuns
  <2>2. CASE ~pid_is_running("serve") /\ Spawn("serve", "launcher")
    <3>1. /\ proc' \in [Pids -> {"free", "launcher", "gateway", "other"}]
          /\ pidFile' \in [{"serve", "gateway"} -> Pids \cup {NoPid}]
          /\ Tracked'
      BY <2>2, SpawnTracks DEF IInv
    <3> QED
      BY <1>2, <2>2, <3>1 DEF StartServe, At, IInv, TypeOK, StopProgress
  <2> QED BY <1>2, <2>1, <2>2 DEF StartServe
<1>3. CASE StartGateway
  <2>1. CASE UNCHANGED <<proc, pidFile>>
    BY <1>3, <2>1 DEF StartGateway, At, IInv, TypeOK, Tracked, StopProgress, NoneRuns
  <2>2. CASE ~pid_is_running("gateway") /\ Spawn("gateway", "gateway")
    <3>1. /\ proc' \in [Pids -> {"free", "launcher", "gateway", "other"}]
          /\ pidFile' \in [{"serve", "gateway"} -> Pids \cup {NoPid}]
          /\ Tracked'
      BY <2>2, SpawnTracks DEF IInv
    <3> QED
      BY <1>3, <2>2, <3>1 DEF StartGateway, At, IInv, TypeOK, StopProgress
  <2> QED BY <1>3, <2>1, <2>2 DEF StartGateway
<1>4. CASE KillGateway
  <2>1. kill_from_pid_file("gateway") /\ At("kill_gateway", "kill_serve")
    BY <1>4 DEF KillGateway
  <2> QED
    BY <2>1, KillTracks DEF At, kill_from_pid_file, IInv, TypeOK, StopProgress
<1>5. CASE KillServe
  <2>1. kill_from_pid_file("serve") /\ At("kill_serve", "serve_app")
    BY <1>5 DEF KillServe
  <2> QED
    BY <2>1, KillTracks DEF At, kill_from_pid_file, IInv, TypeOK, StopProgress
<1>6. CASE \/ AttachRay \/ StartRay \/ AwaitRay \/ AwaitServe \/ FinishStart
           \/ BeginStop \/ stop_serve_app \/ StopRay \/ KillStray \/ FinishStop
  <2>1. UNCHANGED <<proc, pidFile, launched>>
    BY <1>6
    DEF AttachRay, StartRay, AwaitRay, AwaitServe, FinishStart, BeginStop,
        stop_serve_app, StopRay, KillStray, FinishStop, write_status, files
  <2> QED BY <1>6, <2>1, ScriptElsewhere
<1>7. CASE Interrupt
  BY <1>7 DEF Interrupt, files, IInv, TypeOK, Tracked, StopProgress, NoneRuns
<1>8. CASE ForeignRayStarts
  BY <1>8 DEF ForeignRayStarts, files, IInv, TypeOK, Tracked, StopProgress, NoneRuns
<1>9. ASSUME NEW p \in Pids, NEW ok \in BOOLEAN, LauncherExits(p, ok)
      PROVE  IInv'
  BY <1>9 DEF LauncherExits, files, IInv, TypeOK, Tracked, StopProgress, NoneRuns
<1>10. ASSUME NEW p \in Pids, GatewayExits(p)
       PROVE  IInv'
  BY <1>10 DEF GatewayExits, files, IInv, TypeOK, Tracked, StopProgress, NoneRuns
<1>11. ASSUME NEW p \in Pids, OtherProcess(p)
       PROVE  IInv'
  BY <1>11 DEF OtherProcess, files, IInv, TypeOK, Tracked, StopProgress, NoneRuns
<1>12. ASSUME NEW p \in Pids, LauncherDeploys(p)
       PROVE  IInv'
  BY <1>12 DEF LauncherDeploys, files, IInv, TypeOK, Tracked, StopProgress, NoneRuns
<1>13. CASE ClusterFails
  BY <1>13 DEF ClusterFails, RayGoesDown, files, IInv, TypeOK, Tracked, StopProgress, NoneRuns
<1>14. CASE UNCHANGED vars
  BY <1>14 DEF vars, files, IInv, TypeOK, Tracked, StopProgress, NoneRuns
<1> QED
  BY <1>1, <1>2, <1>3, <1>4, <1>5, <1>6, <1>7, <1>8, <1>9, <1>10, <1>11, <1>12,
     <1>13, <1>14
  DEF Next, Script

(* So it holds at every moment.                                            *)
LEMMA Inductive == Spec => []IInv
  BY InitIInv, NextIInv, PTL DEF Spec

-----------------------------------------------------------------------------

(* The files the scripts keep and the processes they start stay within     *)
(* their types, whatever is started, stopped, interrupted or reused.       *)
THEOREM TypeCorrect == Spec => []TypeOK
<1>1. IInv => TypeOK
  BY DEF IInv
<1> QED BY <1>1, Inductive, PTL

(* Every live launcher and gateway is the one named by its pid file.       *)
THEOREM NothingIsLost == Spec => []Tracked
<1>1. IInv => Tracked
  BY DEF IInv
<1> QED BY <1>1, Inductive, PTL

(* stop_minimal.sh, once through, has stopped all that the starts before it*)
(* have left running.                                                      *)
THEOREM StopIsThorough == Spec => []StopLeavesNothing
<1>1. IInv => StopLeavesNothing
  BY DEF IInv, TypeOK, StopProgress, StopLeavesNothing, NoneRuns
<1> QED BY <1>1, Inductive, PTL

-----------------------------------------------------------------------------

(* A start has no exit status before it has a launcher of its own; the one *)
(* it then gets is that launcher's, and none is left running that could be *)
(* changing what it has deployed.                                          *)
WaitInv ==
  /\ pc \in {"ray", "ray_wait", "serve"} => ~launched /\ exited = "no"
  /\ exited = "ok" => NoneRuns("launcher")
  /\ pc = "gateway" /\ launched => exited = "ok"

(* It is kept by scripts, interruptions, and processes that come and go.   *)
LEMMA NextWaitInv == IInv /\ WaitInv /\ [Next]_vars => WaitInv'
<1> SUFFICES ASSUME IInv, WaitInv, [Next]_vars PROVE WaitInv'
  OBVIOUS
<1> USE DEF WaitInv, NoneRuns, At, files
<1>1. CASE BeginStart BY <1>1 DEF BeginStart, Begin
<1>2. CASE StartServe
  <2>1. CASE /\ pid_is_running("serve") /\ At("serve", "gateway")
             /\ UNCHANGED <<proc, launched, exited>>
    BY <2>1
  <2>2. CASE At("serve", "serve_wait") /\ UNCHANGED exited
    BY <2>2
  <2> QED BY <1>2, <2>1, <2>2 DEF StartServe
<1>3. CASE StartGateway
  <2>1. UNCHANGED exited /\ pc' = "started"
    BY <1>3 DEF StartGateway
  <2>2. NoneRuns("launcher") => NoneRuns("launcher")'
    BY <1>3 DEF StartGateway, Spawn, IInv, TypeOK
  <2> QED BY <2>1, <2>2
<1>4. CASE KillGateway \/ KillServe
  <2>1. /\ pc' \in {"kill_serve", "serve_app"} /\ UNCHANGED exited
        /\ \E f \in {"serve", "gateway"} :
             proc' = [p \in Pids |-> IF p = pidFile[f] THEN "free" ELSE proc[p]]
    BY <1>4 DEF KillGateway, KillServe, kill_from_pid_file
  <2> QED BY <2>1
<1>5. CASE AttachRay \/ StartRay \/ AwaitRay
  BY <1>5 DEF AttachRay, StartRay, AwaitRay
<1>6. CASE AwaitServe BY <1>6 DEF AwaitServe
<1>7. CASE FinishStart \/ FinishStop \/ BeginStop
  BY <1>7 DEF FinishStart, FinishStop, write_status, BeginStop, Begin
<1>8. CASE stop_serve_app \/ StopRay \/ KillStray
  BY <1>8 DEF stop_serve_app, StopRay, KillStray
<1>9. CASE Interrupt \/ ForeignRayStarts \/ ClusterFails
  BY <1>9 DEF Interrupt, ForeignRayStarts, ClusterFails
<1>10. ASSUME NEW p \in Pids, NEW ok \in BOOLEAN, LauncherExits(p, ok)
       PROVE  WaitInv'
  <2>1. NoneRuns("launcher")'
    BY <1>10 DEF LauncherExits, IInv, TypeOK, Tracked
  <2>2. exited # "ok"
    BY <1>10 DEF LauncherExits
  <2> QED BY <1>10, <2>1, <2>2 DEF LauncherExits
<1>11. ASSUME NEW p \in Pids, GatewayExits(p) \/ OtherProcess(p)
       PROVE  WaitInv'
  <2>1. NoneRuns("launcher") => NoneRuns("launcher")'
    BY <1>11 DEF GatewayExits, OtherProcess, IInv, TypeOK
  <2> QED BY <1>11, <2>1 DEF GatewayExits, OtherProcess
<1>12. ASSUME NEW p \in Pids, LauncherDeploys(p)
       PROVE  WaitInv'
  BY <1>12 DEF LauncherDeploys
<1>13. CASE UNCHANGED vars BY <1>13 DEF vars
<1> QED
  BY <1>1, <1>2, <1>3, <1>4, <1>5, <1>6, <1>7, <1>8, <1>9, <1>10, <1>11, <1>12, <1>13
  DEF Next, Script

(* start_minimal.sh waits for its own launcher and for nobody else's: the  *)
(* gateway it spawns after a launch of its own is spawned on the word of   *)
(* that launcher, with no other at work, whatever was interrupted, timed   *)
(* out or stopped before, and whatever Ray does meanwhile.                 *)
THEOREM GatewayAfterOwnLaunch == Spec => OwnDeploymentReported
<1>1. Init => WaitInv
  BY DEF Init, WaitInv, NoneRuns
<1>2. IInv /\ WaitInv /\ [Next]_vars =>
        [GatewaySpawned /\ launched =>
           exited = "ok" /\ \A p \in Pids : proc[p] # "launcher"]_vars
  <2> SUFFICES ASSUME IInv, WaitInv, Next, GatewaySpawned, launched
               PROVE  exited = "ok" /\ NoneRuns("launcher")
    BY DEF vars, files, GatewaySpawned, NoneRuns
  <2>1. PICK p \in Pids : proc[p] # "gateway" /\ proc'[p] = "gateway"
    BY DEF GatewaySpawned
  <2>2. proc \in [Pids -> {"free", "launcher", "gateway", "other"}]
    BY DEF IInv, TypeOK
  <2>3. ~(UNCHANGED proc)
    BY <2>1
  <2>4. ~StartServe
    BY <2>1, <2>2, <2>3 DEF StartServe, Spawn
  <2>5. ~KillGateway /\ ~KillServe
    BY <2>1, <2>2 DEF KillGateway, KillServe, kill_from_pid_file
  <2>6. \A q \in Pids : /\ ~GatewayExits(q) /\ ~OtherProcess(q) /\ ~LauncherDeploys(q)
                        /\ \A ok \in BOOLEAN : ~LauncherExits(q, ok)
    BY <2>1, <2>2 DEF GatewayExits, OtherProcess, LauncherDeploys, LauncherExits
  <2>7. StartGateway
    BY <2>3, <2>4, <2>5, <2>6
    DEF Next, Script, BeginStart, BeginStop, AttachRay, StartRay, AwaitRay, AwaitServe,
        FinishStart, stop_serve_app, StopRay, KillStray, FinishStop, write_status,
        Interrupt, ForeignRayStarts, ClusterFails
  <2>8. pc = "gateway"
    BY <2>7 DEF StartGateway, At
  <2> QED BY <2>8 DEF WaitInv
<1>3. Spec => []WaitInv
  BY <1>1, NextWaitInv, Inductive, PTL DEF Spec
<1> QED BY <1>2, <1>3, Inductive, PTL DEF Spec, OwnDeploymentReported

=============================================================================
