# InferNexus in TLA+

InferNexus is an OpenAI-compatible gateway in front of model replicas that run
under Ray Serve (vLLM in the replica) or behind another OpenAI server (the
proxy backend). These modules model the parts of it whose behaviour depends on
order, failure and sharing; TLC checks them on small instances and TLAPS proves
the main safety properties for every instance. Paths below are relative to the
repository; Python paths are relative to `src/infer_nexus/`.

## 1. Inventory

| Part | State it keeps | Operations | Talks to | What is hard |
|---|---|---|---|---|
| HTTP routes (`api/`) | none | chat, embeddings, rerank, models | dispatcher, catalog | an error must become an answer while there is still a status to choose |
| Dispatcher, handles (`runtime/dispatcher.py`, `handles.py`) | none | map a model to its target | executor, Serve | the name is resolved a second time on the way; applications come and go |
| Executor (`runtime/executor.py`) | per request: priming chunk, `sent_role`, `sent_finish`, `saw_done`; per proxy call: `attempt`, `last_exc` | call or stream from a replica, proxy call, proxy stream, write SSE | replica handle, upstream | streams cut in the middle, retries, connections |
| Replica (`runtime/deployments.py`) | its backend | chat, stream, embedding, rerank | backend | crashes, cancelled generators |
| vLLM backend (`backends/vllm.py`) | `engine`, `engine_kind`, `engine_state`, two adapters, init errors | validate, startup, shutdown, requests | vLLM | partial startup, fallback between engines |
| Strict executor (`backends/vllm_strict.py`, `vllm_native/`) | shares the adapters of the backend | chat, stream, embedding through vLLM's own serving objects | adapter, best-effort executor | failure of one request changes what all share |
| Best-effort executor (`backends/vllm_local_best_effort.py`) | none between requests | build arguments, call the engine, make deltas | engine | repeated calls, precedence of defaults |
| Catalog, model store (`catalog/`, `model_store.py`) | two tables, read once by each process | load, validate, look up, check files | – | combinations of modes; aliases that hide names; a file that is edited between two readers |
| Serve factory and launcher (`runtime/serve_app.py`, `scripts/run_serve_runtime.py`) | one Serve application per model | validate, deploy one by one, poll | Ray Serve | failing in the middle, statuses that come and go, a deadline |
| Scripts (`scripts/start_minimal.sh`, `stop_minimal.sh`) | pid files, `ray_state.env`, marker and status files | start, stop | processes, Ray | interruption, reused pids, other people's Ray |
| Admission, scaling, auth, metrics, download, settings | none or placeholders | – | – | – |

`PROJECT.json` lists every component with its status, and under `hazards`
everything in the code that is hard to test, at the line where it bites.

What makes each part correct:

* proxy call: the client gets the last result; nothing is sent again without a
  reason, nor endlessly; two copies run at once only after a read timeout;
* proxy stream: only a success is streamed; a begun body always closes its
  connection; the exchange ends;
* chat: a stream is role, text, finish, `[DONE]`, each once; `[DONE]` means the
  answer is complete; an early error is an error and not a stream; a native
  model is never answered by best effort; the shared adapter is given up only
  by a request it has failed; every call ends;
* backend: a replica that is up has what its model requires and can say why it
  lacks the rest;
* embeddings and rerank: a rerank answer is a ranking of the request's documents,
  cut only by `top_n`; an answer without vectors comes only of a native error;
* routing: the model that answers is the one asked for; what is listed is found;
  after a successful launch nothing of its catalog is without application; a
  launcher's polling comes to an end;
* engine call: the policy holds in every call; the client loses only what the
  runtime refuses; repetitions end;
* scripts: no process is lost, a stop is thorough, a start goes by the word of
  the launcher it has started, and no script hangs.

## 2. Modules

| Module | Models | Extends |
|---|---|---|
| `ProxyCall` | `_request_proxy` and its callers | |
| `ProxyStream` | `_execute_proxy_stream`, the generator it hands over, the client | |
| `SseFrames` | the frames of a stream and what a legal sequence of them is | |
| `SseStream` | abstract: what a stream promises its client | `SseFrames` |
| `ReplicaModes` | the modes a catalog entry can have, and what a started replica of each has | |
| `ChatStream` | chat requests through gateway, replica, adapter and engine | `SseFrames`, `ReplicaModes` |
| `VLLMStartup` | the life of a replica object | `ReplicaModes` |
| `Retrieval` | embedding and rerank calls of a replica | `VLLMStartup` |
| `ModelCatalog` | catalog entries, their validation, the registry's lookups, what the model store and the Serve factory make of an entry | |
| `ServeRuntime` | the launcher and the Serve applications | `ModelCatalog` |
| `ModelRouting` | the gateway's routes up to the model that answers | `ServeRuntime` |
| `EngineCall` | from a request and its defaults to the arguments of `engine.chat` | |
| `LocalBootstrap` | the start and stop scripts against the machine's processes | |
| `*Proofs` | theorems about the module of that name | that module, `TLAPS` |
| `MC*` | instances for TLC | that module |

`ChatStream` composes the strict executor, the best-effort executor, the replica
method and the gateway's writer, because the properties are about how they
interact; `VLLMStartup` hands over to it through `ReplicaModes!Started`, which is
an invariant of the former (`UpIsStarted`) and the assumption on a fresh replica
of the latter. `Retrieval` goes on where `VLLMStartup` ends: its calls meet the
replica in every state the startup can leave it in, and may see it go down.
`ModelRouting` composes the gateway with the launcher and Serve, because each
has its own reading of the catalog. `EngineCall` opens up one step of `ChatStream` (a best-effort
generator that begins, rejects or raises).

### How state and actions correspond to the code

* **ProxyCall.** One process per request: `attempt`, `lastExc` are the loop's
  variables; `copy` is the upstream's view of every attempt, which outlives
  the gateway's interest in it. `Respond`, `ConnectFails`, `ReadTimesOut` and
  `Escape` are the ways one `client.post` ends; `Retry`/`NextAttempt` the
  `continue`. `result` is a history variable.
* **ProxyStream.** `conn` is the client object with its response, `pc` says
  which coroutine holds it: the handler until `handed_over`, then the generator,
  if the server ever starts it. A client may leave at any moment (`Disconnect`);
  the server notices later (`NoticeDisconnect`).
* **ChatStream.** `gen[r]` is the generator of the replica that works for a
  request: `adapter`, `local` (arguments not yet built), `deltas`, `whole`.
  `chan[r]` holds produced chunks the gateway has not consumed. `gw[r]` and
  `sent[r]` are the gateway's handler: `Prime` looks at the first chunk as
  `_prime_stream_chunks` does, `Passthrough` forwards raw frames, `Forward`
  and `Trailer` are the mapped iterator. `ReplicaDies` takes the process away at
  any moment, `ReplicaStarts` brings a fresh one; `CancelGen` is the
  cancellation of a generator whose client has left. `past` is history.
* **VLLMStartup.** One action per stage of `startup` and one per way it may
  raise; the backend's fields are the variables. `Shutdown` is `__del__`;
  `Rebuild` is Serve replacing a failed replica.
  A text frame is the stretch of the answer it holds, `Text(lo, hi)`:
  `DeltaYields` extends what was said, `DeltaRevised` is an engine whose
  cumulative text was cut back, changed or is missing, which
  `_iter_chat_deltas` sends whole.
* **Retrieval.** A text is its place in the request. An answer keeps the scores
  the engine gave (`scored`) and the places the client gets (`out`).
  The synchronous engine computes in one step, as it blocks the replica's
  event loop; the native adapter is awaited, so the replica may go down
  between `CallAdapter` and its answer.
* **ModelCatalog.** Pure operators, one per method: a catalog is a sequence of
  entries, and of several entries that claim a key the last one has it.
* **ServeRuntime.** `launch` is the launcher with the catalog it has read and the
  models it has yet to deploy; `apps` the applications of Serve. That an
  application is ready is one Boolean for its status and those of its deployments.
  A redeployed application takes the old one's place at once.
* **ModelRouting.** A route runs without an await up to the remote call or the
  local replica, so lookup, checks, dispatch and either an immediate answer or
  the beginning of the wait are one step. `Model` is the route's lookup, `Target`
  that of `build_runtime_context`, which asks the registry again for the name
  found. `FilesChange` lets model files come and go.
* **EngineCall.** A value is named after the layer it comes from (`typed`,
  `extra`, `default`, `builtin`), which is all a property about precedence
  needs. `params` and `wanted` are built once; `kept` is what the current form
  of the call still passes, `refused` what the runtime turned out not to take,
  by its signature or by a TypeError; `sent` are the arguments of the last
  call. `RefuseSampling`, `RefuseKeyword` are the two pruning loops,
  `SpreadParams` the second form of the call, `StreamUnsupported` and
  `NoStream` the way from a stream to a whole completion.
* **LocalBootstrap.** `pc` walks through the commands of whichever script runs.
  `proc` says what runs under each pid, `pidFile` what the scripts believe.
  `Interrupt` is Ctrl-C between any two steps; `OtherProcess` takes a free pid,
  which makes a pid file stale; `LauncherDeploys` and `LauncherExits` are the
  launcher, which may end well, in an error, or never. `ClusterFails` takes Ray or
  the applications away at any moment, as `StatusChanges` and `ServeGoesDown` do
  in `ServeRuntime`, which has their readiness. Spawning a process and writing its
  pid file are one step. `start_minimal_ascend.sh` runs the same sequence.

Definitions whose comment calls them a variant with a fault (`...Unchecked`,
`...Forgetting`, and so on) belong to no specification. Each is a plausible bug
of the definition behind it, and the property it is paired with in
`PROJECT.json` fails when it takes that definition's place: the evidence that
the property depends on the code.

## 3. Runs

| Run | Bounds | Shows |
|---|---|---|
| `proxy_call` | 2 requests, 3 attempts, statuses 200, 400, 503 (retried) | `OutcomeIsLastResult`, `RetryJustified`, `OverlapOnlyAfterReadTimeout`, `EventuallyAnswered` |
| `proxy_stream` | 2 requests, 2 chunks, statuses 200, 400, 503 | `HeldOnlyIfNeverIterated`, `StreamedOnlyOnSuccess`, `ExchangeEnds` |
| `chat_sharing` | a stream and a plain request, 5 configurations, 1 text, 1 chunk ahead, 1 crash | `NativeNeverLocal`, `AdapterLostOnlyByFailure`, `EveryCallEnds` |
| `chat_text` | a stream, 5 configurations, 3 texts, up to 5 text frames, 2 chunks ahead, 1 crash | `LegalUnlessRetold`, `DoneOnlyIfConcluded`, `EarlyErrorIsNotAStream`, `KeepsPromise`: `ChatStream` implements `SseStream` |
| `retrieval` | every runtime spec, 2 replicas in a row, a call of up to 3 texts and 3 results, scores 0 to 2, every `top_n` | `UpIsWhole`, `UpIsStarted`, `AdapterHasEngine`, `ShortcomingsExplained`; `RankedByScore`, `MisconfiguredOnlyIfForeign` |
| `routing` | 3 names, 4 catalogs that may replace each other, 1 request | `RightModel`, `MissingIsMissing`, `LaunchedIsConnected`, `PollingEnds` |
| `engine_call` | three pairs of keys that meet, seven single keys, every policy and runtime | `PolicyHolds`, `StatedValuesArrive`, `RequestEnds` |
| `local_bootstrap` | 3 pids, 4 scripts, somebody else's Ray | `Tracked`, `StopLeavesNothing`, `OwnDeploymentReported`, `ScriptEnds` |

Every passing run also checks or accompanies the type invariant of its module.

Why the bounds are enough. Three attempts have a first, a middle and a last one,
and any number of results in front of the last; requests share nothing in the
proxy, so two show what one does, and that they do not interfere. Three texts
tell a gap, a repetition and an exchange of frames apart. One chunk ahead is
enough for the gateway to lag behind the replica, two for an error to follow
an undelivered frame. A crash is followed by a fresh replica, which a second
crash would meet in the same states. A stream and a plain request are two users of
one adapter, on the two code paths that may give it up. Five text frames are
two more than the texts of an answer, enough for a revision and what follows
it; the runs about sharing have fewer, those about fallback none. Three texts
and three results have too few, as many and too many scores for the documents;
three scores make ties and both orders. The four catalogs are a plain one, one
whose alias hides the name of a local model, one whose alias hides it behind a
proxied model, which is refused, and one that defines a name twice; not every
name is known to each. Requests share nothing in the gateway, so one shows what
each meets, and gateway, launcher and Serve restart under it. Two replicas in a row
show whether one leaves anything to the next. Four scripts allow start, start,
stop, start and every prefix with an interruption; three pids hold a launcher,
a gateway and a stranger that took the number of a dead process. A pair of keys
in `EngineCall` is one whose values the code reads together; the other keys are
handled one by one.

`CHECK_DEADLOCK FALSE` is in every configuration because these systems end:
requests are answered and no more arrive, and the counters that are bounded
(`MaxCrashes`, `MaxReplicas`, `MaxScripts`, `MaxChunks`, `MaxText`, `MaxFrames`,
`MaxAhead`) run out. `MaxAhead` bounds the channel by blocking the producer, as the
backpressure of a Serve stream does.

### Runs that find the code and its documentation at odds

* `chat_order` (`StreamOrderKept`). The docstring of the mapped stream writer says
  it keeps role, delta and finish in order (`runtime/executor.py:848`). An
  adapter that fails in the middle of a stream is followed by a best-effort
  stream from the start (`backends/vllm_strict.py:641`), so the client gets
  role and text twice. `LegalUnlessRetold` shows what else may repeat anything: an
  engine that revises its text.
* `chat_surfaced` (`NativeErrorSurfaced`). `docs/ARCHITECTURE.md:372` says native
  failures are surfaced. An error object of the native adapter is filled up to a
  successful completion (`runtime/executor.py:643`).
* `engine_call_defaults` (`DefaultsNeverOverride`).
  `tests/test_runtime.py:918` says defaults do not override explicit fields. A
  default `max_tokens` goes before a stated `max_completion_tokens`
  (`backends/vllm_local_best_effort.py:59`), which is what the run shows; a default
  `logprobs` before a stated one without a number (`:80`), and a default
  `parallel_tool_calls` replaces the stated one (`:146`). `StatedValuesArrive` covers
  every other field, but for a `top_logprobs` without `logprobs`, which is dropped.
* `local_bootstrap_foreign` (`ForeignRayLeftAlone`). `scripts/stop_minimal.sh:151`
  reads the ownership of Ray to decide whether it may be stopped; line 168 kills
  stray Ray processes whoever owns them.

More weak spots are visible in the models without a run of their own:

* the proxy call's write timeout and the proxy stream's connect timeout escape as
  unhandled errors (`Escape`, `SendFails`);
* a client that leaves before the body begins leaves the upstream connection
  open, the exception in `HeldOnlyIfNeverIterated`;
* a second start does not wait for the launcher a first, timed-out start left
  running, which is why `OwnDeploymentReported` speaks only of a start that
  launched the deployment itself;
* between the launcher's report and the gateway's start, up to a second later, Ray
  or an application may go (`ClusterFails`); the script does not look again and
  starts the gateway all the same, so that property speaks of the report and not
  of the applications;
* vLLM's request model reads the payload inside the `try` that guards the adapter
  (`backends/vllm_native/chat.py:35`, `backends/vllm_strict.py:601`), so that in
  best-effort mode a field one client states, and vLLM does not take, costs all of
  them the adapter. `AdapterLostOnlyByFailure` allows for it (`AdapterRaises`);
* a call of an application is awaited without a timeout (`runtime/executor.py:220`),
  so a request waits as long as Serve keeps it for a replica;
* a text an engine revises is sent whole behind what was sent before
  (`DeltaRevised`), the exception `Retold` in `LegalUnlessRetold`;
* aliases go before names (`Canonical`; the docstring of `get_catalog_model` in
  `api/platform_routes.py` has it the other way round). A name that is also an
  alias of another model is `Shadowed`: in stub mode the other model answers, in
  front of Serve nobody does, the exceptions in `RightModel` and
  `LaunchedIsConnected`. `list_models` says it shows the alias first; it shows
  `served_model_name` first (`PublicId`), which is found all the same
  (`ListedIsFound`, proved, not run);
* an entry with a `model_id` and no path is valid, yet every request for it is
  answered 503 unless `require_local_artifacts` is off (`ArtifactMissing`); with
  both, the files of the path are checked and the `model_id` is loaded;
* an error object of the native embedding layer becomes an answer of status 200
  with an empty list (`AdapterSaysError`), the case `EmptyOnlyOnNativeError` leaves (proved, not run);
* a native embedding model as a stub answers every call with
  `backend_misconfigured`, which `MisconfiguredOnlyIfForeign` allows for;
* a launcher that has reported success never looks at the statuses again
  (`StatusChanges`), and one whose Serve has no `status` reports success at once;
* `deployment_config.autoscaling_config` may put `min_replicas` above the
  validated maximum (`build_spec` updates the validated bounds with it).

## 4. Fairness

Safety is checked of `Init /\ [][Next]_vars`. Liveness runs use `FairSpec`, with
weak fairness only, of steps the code's own scheduling takes:

* `ProxyCall`: an attempt ends, because every phase of `client.post` has a
  timeout, and the loop goes on. The upstream owes nothing.
* `ProxyStream`: the request, the error body, the start of the body, the upstream's
  end and the notice of a departed client each happen in the end (timeouts of the
  client object; the server's task group). Forwarding needs no fairness.
* `ChatStream`: Serve starts a replica again, dispatches a queued call, runs a
  generator and cancels one that is not read; the gateway's coroutine runs. No
  fairness for crashes, clients or errors. An engine that computes forever is
  excluded: the code has no timeout there.
* `VLLMStartup`, `Retrieval`: none; only safety is checked of them.
* `ModelRouting`: the polling loop runs against its deadline, so it succeeds, fails
  or times out. Nothing is assumed of statuses, launches, gateways or requests: the
  code awaits an application without a timeout, so nothing makes its call return.
* `EngineCall`: the request's own code runs on and an engine call returns or raises.
* `LocalBootstrap`: the script that runs goes on. The launcher, the gateway and Ray
  owe nothing, so `ScriptEnds` is owed to the scripts' own timeouts.

## 5. Proofs

The proof modules show, for all values of the constants under the named
assumptions, that a specification implies its invariants, its action properties
and, for `ChatStream`, the abstract specification `SseStream`:

| Module | Theorems |
|---|---|
| `ProxyCallProofs` | `TypeCorrect`, `LastResultAnswered`, `RetriesJustified`, `OverlapJustified`, `RetriesRunOut` |
| `ProxyStreamProofs` | `TypeCorrect`, `ConnectionsAreClosed`, `OnlySuccessIsStreamed` |
| `ChatStreamProofs` | `TypeCorrect`, `NativeIsNeverLocal`, `DoneIsNeverInvented`, `EarlyErrorsOpenNoStream`, `AdapterIsLostByFailure`, `StreamsAreLegal`, `PipelineKeepsPromise`, `NoCallIsForgotten` |
| `VLLMStartupProofs` | `TypeCorrect`, `UpReplicasAreWhole`, `UpReplicasAreStarted`, `AdaptersHaveEngines`, `ShortcomingsAreExplained` |
| `RetrievalProofs` | `CallsTypeCorrect`, `RerankIsRanking`, `EmptyIsNativeError`, `MisconfiguredIsForeign` |
| `ModelRoutingProofs` | `TypeCorrect`, `RightModelAnswers`, `ListedModelsAreFound`, `MissingFilesAreMissing`, `LaunchedModelsAreConnected` |
| `EngineCallProofs` | `TypeCorrect`, `PolicyIsKept`, `StatedValuesHaveArrived`, `CallsRunOut` |
| `LocalBootstrapProofs` | `TypeCorrect`, `NothingIsLost`, `StopIsThorough`, `GatewayAfterOwnLaunch` |

Each goes by an inductive invariant `IInv` (initial states, one lemma or step per
action, then the conclusion):

* `ProxyCallProofs`: how far `attempt` has come is determined by `pc`, and a
  copy runs only while the loop waits for it (`Position`, `CopyState`). Without
  them "sent again" could not be traced to the result of the attempt before.
* `ChatStreamProofs`: what a channel may hold depends on the generator behind it
  and on the model (`ChanInv`, `ModeInv`, `NativeInv`): a native channel has no
  event; a `[DONE]` on its way belongs to a concluded answer (`DoneInv`); a
  handler that is past priming has written something (`EarlyInv`). For
  `StreamsAreLegal` the invariant follows an answer from the generator to the
  client (`ToldInv`, `Tape`): every chunk under way fits the one before, the first fits the
  frames sent and the iterator's flags, the generator's last frame is the newest of
  them. An answer told again (`Retold`) needs the same of each telling: where it
  begins anew, its first event fits behind a raw frame and a text from 0 behind any
  text.
* The same `ToldInv` carries the refinement, `PipelineKeepsPromise`: `Stage` is the
  phase of a stream by its handler's state, and each action of `ChatStream` either is
  a step of `SseStream` (`Prime` opens or refuses, `Forward` grows, closes or cuts, a
  fallback or a revision tells again) or shows the client nothing. A `Grow` must be
  one of the bursts the promise names and leave the stream as promised, which is what
  `WrittenFits` takes from the tape; and an answer that has come to its end cannot be
  told again, because its generator is over.
* `ProxyStreamProofs`: who holds the connection at each `pc`, and that a body is
  handed over only behind a good status.
* `VLLMStartupProofs`: an invariant per stage of the startup, of what engine, kind,
  adapters and errors there can be at it; without it a fallback could keep
  something of the asynchronous attempt.
* `RetrievalProofs`: on top of it, that an answer is `Best` of the scores it keeps.
  `Ranked` is a CHOOSE, so that it chooses a ranking needs one to exist:
  a list of scores without a ranking would have a shortest one, and inserting its
  last score into a ranking of the others makes a ranking of it.
* `ModelRoutingProofs`: the registry's lookups land on entries of the catalog; every
  application holds what its catalog says of its name; a launch that is done
  has an application for each of its plan (`Deployed`), unless Serve went down,
  which ends the launch. The action properties follow with what a route's guard says.
* `EngineCallProofs`: what is wanted is allowed and what is kept is wanted, so no
  repetition can bring a forbidden field back; what is stated (`Stated` names the
  exceptions), and not refused, is in the parameters or keywords of the form the call
  has taken.
* `LocalBootstrapProofs`: `Tracked` is inductive beside types; a stop's progress
  (`StopProgress`) says what is already gone at each of its steps. A start has no
  exit status to go by but that of its own launcher, and no other launcher runs when
  it has one (`WaitInv`).

Only model-checked: liveness under fairness, as the prover has no `ENABLED`. Of three
liveness properties the part that is not fairness is proved:

* `RetriesRunOut` (`EventuallyAnswered`): an attempt that is waited for can always
  end, by a failed connection or a read timeout, and `StepsLeft`, a number made of
  the loop's place and the attempts left, decreases with each of its steps.
* `CallsRunOut` (`RequestEnds`): a number that weighs the mode over the form of the
  call, and a form over the keys it keeps, decreases with every step.
* `NoCallIsForgotten` (`EveryCallEnds`): while a handler waits, the replica has the
  call or the chunk that ends it is last in the channel. That somebody is there to
  wait for does not bound a generation: the code has no timeout for one.

## 6. Not modelled

Texts, images, vectors, token counts and identifiers are abstracted to what the
properties tell apart. Admission, scaling, authentication and metrics are
placeholders in the code. The platform and health endpoints read the catalog and
answer. Settings files and downloads are plain input and output. The resources,
autoscaling and router options of a deployment go to Serve unread. The
reasons are in `PROJECT.json`.

## 7. Plan

1. Done: the modules above, their runs and theorems.
2. Message rendering of the best-effort executor, if a property about it is found
   that is not one of formatting.
