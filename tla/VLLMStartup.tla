---------------------------- MODULE VLLMStartup ----------------------------
(***************************************************************************)
(* The life of a replica object (ModelRuntimeReplica and its VLLMBackend): *)
(* validate_runtime_spec, then startup with its fallback from the asynch-  *)
(* ronous to the synchronous engine and its serving adapters, any step of  *)
(* which may raise in the middle, then shutdown when the object is dropped.*)
(* Serve builds a new replica for one that failed.                         *)
(***************************************************************************)
EXTENDS Naturals, ReplicaModes

CONSTANTS
  Specs,         \* runtime specs a replica may be built with
  MaxReplicas    \* bound on the replicas built one after the other

AnySpec ==
  [task : {"generate", "embed", "score"}, native : BOOLEAN, serving : BOOLEAN,
   real : BOOLEAN]

ASSUME VLLMStartupAssumption == Specs \subseteq AnySpec /\ MaxReplicas \in Nat \ {0}

VARIABLES
  spec,        \* the runtime spec of the replica
  pc,          \* where its constructor is, and what became of the replica
  engine,      \* the engine the backend holds
  kind,        \* engine_kind
  state,       \* engine_state
  adapters,    \* the serving adapters that are not None
  errors,      \* the init errors that are not None
  built        \* replicas built so far

fields == <<engine, kind, state, adapters, errors>>
vars == <<spec, pc, fields, built>>

TypeOK ==
  /\ spec \in Specs
  /\ pc \in {"new", "valid", "async", "loading", "loaded", "chat", "embedding",
             "up", "failed", "dropped"}
  /\ engine \in {"none", "async", "sync"}
  /\ kind \in {"created", "stub", "async", "sync", "stopped"}
  /\ state \in {"created", "stub", "ready", "stopped"}
  /\ adapters \subseteq {"chat", "embed"}
  /\ errors \subseteq {"async", "chat", "embed"}
  /\ built \in 1..MaxReplicas

(* The attributes __init__ sets.                                           *)
Init ==
  /\ spec \in Specs
  /\ pc = "new"
  /\ engine = "none"
  /\ kind = "created"
  /\ state = "created"
  /\ adapters = {}
  /\ errors = {}
  /\ built = 1

-----------------------------------------------------------------------------

At(here, there) == pc = here /\ pc' = there /\ UNCHANGED <<spec, built>>

(* openai_serving is enabled and the model has the task of the adapter.    *)
WantsChat == spec.serving /\ spec.task = "generate"
WantsEmbedding == spec.serving /\ spec.task = "embed"

(* vllm_native: without the adapter of its task the replica must not start.*)
RequiresChat == spec.native /\ spec.task = "generate"
RequiresEmbedding == spec.native /\ spec.task = "embed"

Valid == spec.native => spec.serving /\ spec.task # "score"

(* validate_runtime_spec, which the catalog's own validation repeats.      *)
Validate == At("new", IF Valid THEN "valid" ELSE "failed") /\ UNCHANGED fields

(* A variant with a fault: engine_kind is taken for engine_state.          *)
StartStubMixedUp ==
  /\ ~spec.real
  /\ At("valid", "up")
  /\ engine' = "none"
  /\ state' = "none"
  /\ UNCHANGED <<kind, adapters, errors>>

StartStub ==
  /\ ~spec.real
  /\ At("valid", "up")
  /\ engine' = "none"
  /\ kind' = "stub"
  /\ state' = "stub"
  /\ adapters' = {}
  /\ errors' = {}

(* The asynchronous engine is created: engine_state is "ready" from here.  *)
CreateAsync ==
  /\ spec.real /\ spec.task = "generate"
  /\ At("valid", "async")
  /\ engine' = "async"
  /\ kind' = "async"
  /\ state' = "ready"
  /\ errors' = errors \ {"async"}
  /\ UNCHANGED adapters

(* Its creation raises, or is not tried: the synchronous engine is next.   *)
SkipAsync ==
  /\ spec.real
  /\ At("valid", "loading")
  /\ errors' = IF spec.task = "generate" THEN errors \cup {"async"} ELSE errors
  /\ UNCHANGED <<engine, kind, state, adapters>>

(* An adapter that is wanted may fail to be built: the error is kept and   *)
(* None returned. One that is not wanted is None, and no error.            *)
BuildAdapter(name, wanted, ok) ==
  /\ ok => wanted
  /\ adapters' = IF ok THEN adapters \cup {name} ELSE adapters \ {name}
  /\ errors' = IF wanted /\ ~ok THEN errors \cup {name} ELSE errors \ {name}

(* A variant with a fault: a native model starts without its adapter.      *)
AsyncAdapterOptional(ok) ==
  /\ At("async", "up")
  /\ BuildAdapter("chat", WantsChat, ok)
  /\ UNCHANGED <<engine, kind, state>>

AsyncAdapter(ok) ==
  /\ At("async", IF ~ok /\ RequiresChat THEN "failed" ELSE "up")
  /\ BuildAdapter("chat", WantsChat, ok)
  /\ UNCHANGED <<engine, kind, state>>

(* vLLM is missing, or LLM(...) raises (for a rejected "task" it is tried a*)
(* second time): the engine of the failed attempt is not held.             *)
LoadFails == At("loading", "failed") /\ UNCHANGED fields

(* A variant with a fault: an error of the attempt before is forgotten.      *)
LoadForgetful ==
  /\ At("loading", "loaded")
  /\ engine' = "sync"
  /\ kind' = "sync"
  /\ errors' = {}
  /\ UNCHANGED <<state, adapters>>

Load ==
  /\ At("loading", "loaded")
  /\ engine' = "sync"
  /\ kind' = "sync"
  /\ UNCHANGED <<state, adapters, errors>>

(* The tasks the loaded model supports include the requested one, or not.  *)
CheckTask(supported) ==
  /\ At("loaded", IF supported THEN "chat" ELSE "failed")
  /\ UNCHANGED fields

SyncChatAdapter(ok) ==
  /\ At("chat", IF ~ok /\ RequiresChat THEN "failed" ELSE "embedding")
  /\ BuildAdapter("chat", WantsChat, ok)
  /\ UNCHANGED <<engine, kind, state>>

(* A variant with a fault: engine_state is left as it is.                  *)
SyncEmbeddingAdapterSilent(ok) ==
  /\ At("embedding", IF ~ok /\ RequiresEmbedding THEN "failed" ELSE "up")
  /\ BuildAdapter("embed", WantsEmbedding, ok)
  /\ UNCHANGED <<engine, kind, state>>

(* A variant with a fault: a native model starts without its adapter.      *)
SyncEmbeddingAdapterOptional(ok) ==
  /\ At("embedding", "up")
  /\ state' = "ready"
  /\ BuildAdapter("embed", WantsEmbedding, ok)
  /\ UNCHANGED <<engine, kind>>

SyncEmbeddingAdapter(ok) ==
  /\ LET fails == ~ok /\ RequiresEmbedding IN
       /\ At("embedding", IF fails THEN "failed" ELSE "up")
       /\ state' = IF fails THEN state ELSE "ready"
  /\ BuildAdapter("embed", WantsEmbedding, ok)
  /\ UNCHANGED <<engine, kind>>

(* A variant with a fault: the adapters survive the engine.                *)
ShutdownKeepingAdapters ==
  /\ \/ At("failed", "dropped")
     \/ At("up", "dropped")
  /\ engine' = "none"
  /\ kind' = "stopped"
  /\ state' = "stopped"
  /\ UNCHANGED <<adapters, errors>>

(* __del__ of the object Serve lets go of: shutdown of its backend.        *)
Shutdown ==
  /\ \/ At("failed", "dropped")
     \/ At("up", "dropped")
  /\ engine' = "none"
  /\ kind' = "stopped"
  /\ state' = "stopped"
  /\ adapters' = {}
  /\ errors' = {}

(* Serve builds the next replica of the deployment, with nothing in it.    *)
Rebuild ==
  /\ pc = "dropped"
  /\ built < MaxReplicas
  /\ built' = built + 1
  /\ pc' = "new"
  /\ engine' = "none"
  /\ kind' = "created"
  /\ state' = "created"
  /\ adapters' = {}
  /\ errors' = {}
  /\ UNCHANGED spec

-----------------------------------------------------------------------------

Startup ==
  \/ Validate \/ StartStub \/ CreateAsync \/ SkipAsync \/ LoadFails \/ Load
  \/ \E ok \in BOOLEAN :
       AsyncAdapter(ok) \/ CheckTask(ok) \/ SyncChatAdapter(ok) \/ SyncEmbeddingAdapter(ok)

Next == Startup \/ Shutdown \/ Rebuild

Spec == Init /\ [][Next]_vars

-----------------------------------------------------------------------------

(* Whichever way startup took, a replica that is up can serve its task: the*)
(* engine it reports is the one it holds and is ready, a native model has  *)
(* the adapter of its task, and a stub holds nothing.                      *)
UpIsWhole ==
  pc = "up" =>
    /\ Valid
    /\ IF spec.real THEN engine # "none" /\ kind = engine /\ state = "ready"
                   ELSE engine = "none" /\ kind = "stub" /\ state = "stub" /\ adapters = {}
    /\ spec.real /\ RequiresChat => "chat" \in adapters
    /\ spec.real /\ RequiresEmbedding => "embed" \in adapters

(* A chat replica that is up is in one of the states ChatStream starts and *)
(* restarts its replica in.                                                *)
UpIsStarted ==
  pc = "up" /\ spec.task = "generate" => Started(spec, engine, "chat" \in adapters)

(* Adapters wrap the engine of the same object: there is none before there *)
(* is an engine, and none is left when the engine is let go.               *)
AdapterHasEngine == adapters # {} => engine # "none"

(* What a replica that is up cannot do, it can explain: an adapter that is *)
(* wanted and missing, and a synchronous engine in the place of an asyn-   *)
(* chronous one, have left their error behind.                             *)
ShortcomingsExplained ==
  pc = "up" /\ spec.real =>
    /\ WantsChat /\ "chat" \notin adapters => "chat" \in errors
    /\ WantsEmbedding /\ "embed" \notin adapters => "embed" \in errors
    /\ spec.task = "generate" => (engine = "sync" <=> "async" \in errors)

=============================================================================
