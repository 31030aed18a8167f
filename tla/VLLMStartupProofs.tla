------------------------- MODULE VLLMStartupProofs -------------------------
(***************************************************************************)
(* What holds of the startup of a replica for any runtime specs and any    *)
(* number of replicas: what one that is up has, and can explain.           *)
(***************************************************************************)
EXTENDS VLLMStartup, TLAPS

(* The stages of a startup. Before there is an engine there is nothing;    *)
Beginning ==
  /\ pc \in {"new", "valid"} => engine = "none" /\ adapters = {} /\ errors = {}
  /\ pc = "valid" => Valid

(* then the asynchronous one is there, or the synchronous one is to come,  *)
(* and a chat model knows why;                                             *)
Engines ==
  /\ pc \in {"async", "loading", "loaded", "chat", "embedding"} => Valid /\ spec.real
  /\ pc = "async" => /\ engine = "async" /\ kind = "async" /\ state = "ready"
                     /\ adapters = {} /\ errors = {}
                     /\ spec.task = "generate"
  /\ pc \in {"loading", "loaded", "chat"} => adapters = {} /\ "chat" \notin errors
  /\ pc = "loading" => engine = "none"
  /\ pc \in {"loaded", "chat", "embedding"} => engine = "sync" /\ kind = "sync"
  /\ pc \in {"loading", "loaded", "chat", "embedding"} =>
       (spec.task = "generate" <=> "async" \in errors)

(* then the chat adapter has been built, or has failed to be.              *)
ChatAdapter ==
  pc = "embedding" =>
    /\ "embed" \notin adapters
    /\ "chat" \in adapters => WantsChat
    /\ RequiresChat => "chat" \in adapters
    /\ WantsChat /\ "chat" \notin adapters => "chat" \in errors

(* Adapters belong to real replicas, the chat adapter to models that want  *)
(* it.                                                                     *)
Wanted == pc = "up" => ("chat" \in adapters => WantsChat /\ spec.real)

(* What is left of a replica that is dropped.                              *)
Ended == pc = "dropped" => engine = "none" /\ adapters = {}

IInv ==
  /\ TypeOK /\ Beginning /\ Engines /\ ChatAdapter /\ Wanted /\ Ended
  /\ UpIsWhole /\ AdapterHasEngine /\ ShortcomingsExplained

-----------------------------------------------------------------------------

LEMMA InitIInv == Init => IInv
<1> SUFFICES ASSUME Init PROVE IInv
  OBVIOUS
<1>1. TypeOK
  BY VLLMStartupAssumption DEF Init, TypeOK
<1> QED
  BY <1>1 DEF Init, IInv, Beginning, Engines, ChatAdapter, Wanted, Ended, UpIsWhole,
              AdapterHasEngine, ShortcomingsExplained

(* Every step keeps the invariant.                                         *)
LEMMA NextIInv == IInv /\ [Next]_vars => IInv'
<1> SUFFICES ASSUME IInv, [Next]_vars PROVE IInv'
  OBVIOUS
<1>0. spec \in AnySpec
  BY VLLMStartupAssumption DEF IInv, TypeOK
<1> USE <1>0 DEF AnySpec, IInv, TypeOK, Beginning, Engines, ChatAdapter, Wanted, Ended, UpIsWhole,
             AdapterHasEngine, ShortcomingsExplained, At, fields, Valid, WantsChat,
             WantsEmbedding, RequiresChat, RequiresEmbedding
<1>1. CASE Validate
  BY <1>1 DEF Validate
<1>2. CASE StartStub
  BY <1>2 DEF StartStub
<1>3. CASE CreateAsync
  BY <1>3 DEF CreateAsync
<1>4. CASE SkipAsync
  BY <1>4 DEF SkipAsync
<1>5. CASE LoadFails
  BY <1>5 DEF LoadFails
<1>6. CASE Load
  BY <1>6 DEF Load
<1>7. ASSUME NEW ok \in BOOLEAN, AsyncAdapter(ok) PROVE IInv'
  BY <1>7 DEF AsyncAdapter, BuildAdapter
<1>8. ASSUME NEW ok \in BOOLEAN, CheckTask(ok) PROVE IInv'
  BY <1>8 DEF CheckTask
<1>9. ASSUME NEW ok \in BOOLEAN, SyncChatAdapter(ok) PROVE IInv'
  BY <1>9 DEF SyncChatAdapter, BuildAdapter
<1>10. ASSUME NEW ok \in BOOLEAN, SyncEmbeddingAdapter(ok) PROVE IInv'
  BY <1>10 DEF SyncEmbeddingAdapter, BuildAdapter
<1>11. CASE Shutdown
  BY <1>11 DEF Shutdown
<1>12. CASE Rebuild
  <2>1. built' \in 1..MaxReplicas
    BY <1>12, VLLMStartupAssumption DEF Rebuild
  <2> QED BY <1>12, <2>1 DEF Rebuild
<1>13. CASE UNCHANGED vars
  BY <1>13 DEF vars
<1> QED
  BY <1>1, <1>2, <1>3, <1>4, <1>5, <1>6, <1>7, <1>8, <1>9, <1>10, <1>11, <1>12, <1>13
  DEF Next, Startup

(* So it holds at every moment.                                            *)
LEMMA Inductive == Spec => []IInv
  BY InitIInv, NextIInv, PTL DEF Spec

-----------------------------------------------------------------------------

(* The fields of a backend stay within their types.                        *)
THEOREM TypeCorrect == Spec => []TypeOK
<1>1. IInv => TypeOK
  BY DEF IInv
<1> QED BY <1>1, Inductive, PTL

(* A replica that is up holds the engine it reports and the adapter its    *)
(* model cannot do without.                                                *)
THEOREM UpReplicasAreWhole == Spec => []UpIsWhole
<1>1. IInv => UpIsWhole
  BY DEF IInv
<1> QED BY <1>1, Inductive, PTL

(* What ChatStream supposes of a replica is what every startup leads to.   *)
THEOREM UpReplicasAreStarted == Spec => []UpIsStarted
<1>1. ASSUME IInv PROVE UpIsStarted
  <2>1. spec \in AnySpec
    BY <1>1, VLLMStartupAssumption DEF IInv, TypeOK
  <2> QED
    BY <1>1, <2>1 DEF IInv, TypeOK, AnySpec, UpIsStarted, Started, UpIsWhole, Wanted, WantsChat,
                      RequiresChat
<1> QED BY <1>1, Inductive, PTL

(* An adapter never outlives the engine it wraps.                          *)
THEOREM AdaptersHaveEngines == Spec => []AdapterHasEngine
<1>1. IInv => AdapterHasEngine
  BY DEF IInv
<1> QED BY <1>1, Inductive, PTL

(* What a replica that is up lacks has left its reason behind.             *)
THEOREM ShortcomingsAreExplained == Spec => []ShortcomingsExplained
<1>1. IInv => ShortcomingsExplained
  BY DEF IInv
<1> QED BY <1>1, Inductive, PTL

=============================================================================
