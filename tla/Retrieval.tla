----------------------------- MODULE Retrieval -----------------------------
(***************************************************************************)
(* Embeddings and rerank: the calls a replica answers once VLLMStartup has *)
(* brought it up - as a stub, by its synchronous engine (a call of which   *)
(* holds the replica up, so it is one step), or by the embedding adapter of*)
(* a native model, whose answer is awaited. An answer is shown as the      *)
(* client gets it; texts are known by their place in the request.          *)
(***************************************************************************)
EXTENDS VLLMStartup, Sequences, SequencesExt

CONSTANTS
  Calls,       \* the calls, each made once
  MaxTexts,    \* bound on the texts of a request and on what an engine returns
  MaxScore     \* bound on scores

ASSUME RetrievalAssumption == MaxTexts \in Nat /\ MaxScore \in Nat

VARIABLE call

rvars == <<vars, call>>

Methods == {"embed", "score"}

(* scored is what the engine said of the documents, out the places of the  *)
(* texts the answer is about, in its order.                                *)
CallRecords ==
  [at : {"idle", "adapter", "done"}, method : Methods, texts : 0..MaxTexts,
   top_n : 0..MaxTexts,
   answer : {"none", "ok", "invalid_input", "misconfigured", "failed"},
   scored : SeqOf(0..MaxScore, MaxTexts), out : SeqOf(1..MaxTexts, MaxTexts)]

CallsTypeOK == call \in [Calls -> CallRecords]

(* The types of the replica (VLLMStartup) and of its calls.                *)
RTypeOK == TypeOK /\ CallsTypeOK

RInit ==
  /\ Init
  /\ call \in [Calls -> [at : {"idle"}, method : Methods, texts : 0..MaxTexts,
                         top_n : 0..MaxTexts, answer : {"none"}, scored : {<<>>}, out : {<<>>}]]

-----------------------------------------------------------------------------

Calling(c, method) ==
  /\ pc = "up"
  /\ call[c].at = "idle"
  /\ call[c].method = method
  /\ UNCHANGED vars

Answer(c, a, scored, out) ==
  call' = [call EXCEPT ![c].at = "done", ![c].answer = a, ![c].scored = scored, ![c].out = out]

Refuse(c, a) == Answer(c, a, <<>>, <<>>)

(* A variant with a fault: indices for places.                             *)
PlacesFromZero(n) == [i \in 1..n |-> i - 1]

(* In the order of the texts; a place is one more than the "index" of it.  *)
Places(n) == [i \in 1..n |-> i]

(* The places of the scores from the highest to the lowest; of equal ones, *)
(* the first comes first.                                                  *)
Ranked(scores) ==
  CHOOSE q \in {r \in [DOMAIN scores -> DOMAIN scores] : IsInjective(r)} :
    \A i, j \in DOMAIN scores : i < j =>
      \/ scores[q[i]] > scores[q[j]]
      \/ scores[q[i]] = scores[q[j]] /\ q[i] < q[j]

Cut(q, top_n) == IF top_n > 0 /\ top_n < Len(q) THEN SubSeq(q, 1, top_n) ELSE q

(* A variant with a fault: the results are cut before they are sorted.     *)
BestBySortingLate(scores, top_n) == Ranked(Cut(scores, top_n))

Best(scores, top_n) == Cut(Ranked(scores), top_n)

-----------------------------------------------------------------------------
(* The best-effort executor.                                               *)

(* _normalize_embedding_inputs, _normalize_rerank_documents.               *)
NoTexts(c) ==
  /\ \E m \in Methods : Calling(c, m)
  /\ ~spec.native
  /\ call[c].texts = 0
  /\ Refuse(c, "invalid_input")

BestEffort(c, method) == Calling(c, method) /\ ~spec.native /\ call[c].texts > 0

StubEmbedding(c) ==
  /\ BestEffort(c, "embed")
  /\ engine = "none"
  /\ Answer(c, "ok", <<>>, Places(call[c].texts))

StubRerank(c) ==
  /\ BestEffort(c, "score")
  /\ engine = "none"
  /\ \E scores \in [1..call[c].texts -> 0..MaxScore] :
       Answer(c, "ok", scores, Best(scores, call[c].top_n))

(* The engine raises, or returns nothing or something without a vector or a*)
(* score; one of another task always does.                                 *)
EngineFails(c) ==
  /\ \E m \in Methods : BestEffort(c, m)
  /\ engine # "none"
  /\ Refuse(c, "failed")

(* _convert_embedding_result: one vector for each item there is.           *)
EngineEmbeds(c) ==
  /\ BestEffort(c, "embed")
  /\ engine = "sync" /\ spec.task = "embed"
  /\ \E n \in 1..MaxTexts : Answer(c, "ok", <<>>, Places(n))

(* A variant with a fault: scores are not matched with the documents.      *)
EngineScoresUnmatched(c) ==
  /\ BestEffort(c, "score")
  /\ engine = "sync" /\ spec.task = "score"
  /\ \E n \in 1..MaxTexts : \E scores \in [1..n -> 0..MaxScore] :
       Answer(c, "ok", scores, Best(scores, call[c].top_n))

(* _convert_rerank_result: a score for which there is no document is an    *)
(* IndexError, a document without a score is left out.                     *)
EngineScores(c) ==
  /\ BestEffort(c, "score")
  /\ engine = "sync" /\ spec.task = "score"
  /\ \E n \in 1..MaxTexts : \E scores \in [1..n -> 0..MaxScore] :
       IF n > call[c].texts
       THEN Refuse(c, "failed")
       ELSE Answer(c, "ok", scores, Best(scores, call[c].top_n))

-----------------------------------------------------------------------------
(* Native models.                                                          *)

(* VLLMBackend.rerank; _raise_openai_embedding_serving_unavailable.        *)
Misconfigured(c) ==
  /\ spec.native
  /\ \/ Calling(c, "score")
     \/ Calling(c, "embed") /\ "embed" \notin adapters
  /\ Refuse(c, "misconfigured")

CallAdapter(c) ==
  /\ spec.native
  /\ Calling(c, "embed")
  /\ "embed" \in adapters
  /\ call' = [call EXCEPT ![c].at = "adapter"]

AdapterCalled(c) == call[c].at = "adapter" /\ UNCHANGED vars

AdapterEmbeds(c) ==
  /\ AdapterCalled(c)
  /\ pc = "up"
  /\ call[c].texts > 0
  /\ Answer(c, "ok", <<>>, Places(call[c].texts))

(* The serving layer answers with an error object. It has no "data", and   *)
(* _build_embedding_response_from_payload makes an empty list of that.     *)
AdapterSaysError(c) ==
  /\ AdapterCalled(c)
  /\ pc = "up"
  /\ Answer(c, "ok", <<>>, <<>>)

(* The adapter raises, or the replica goes down under the call.            *)
AdapterFails(c) == AdapterCalled(c) /\ Refuse(c, "failed")

Serves(c) ==
  \/ NoTexts(c) \/ StubEmbedding(c) \/ StubRerank(c)
  \/ EngineFails(c) \/ EngineEmbeds(c) \/ EngineScores(c)
  \/ Misconfigured(c) \/ CallAdapter(c)
  \/ AdapterEmbeds(c) \/ AdapterSaysError(c) \/ AdapterFails(c)

RNext ==
  \/ Next /\ UNCHANGED call
  \/ \E c \in Calls : Serves(c)

RSpec == RInit /\ [][RNext]_rvars

-----------------------------------------------------------------------------

Answered(c, method) ==
  call[c].answer = "ok" /\ call[c].method = method

(* A rerank answer is about documents of the request, each at most once and*)
(* the best first: none that got a score and was cut off scores higher than*)
(* one that is there, and only top_n cuts any off.                         *)
RankedByScore ==
  \A c \in Calls : Answered(c, "score") =>
    LET out == call[c].out
        scored == call[c].scored
    IN
    /\ IsInjective(out)
    /\ Range(out) \subseteq 1..call[c].texts
    /\ \A i \in 1..Len(out) - 1 : scored[out[i]] >= scored[out[i + 1]]
    /\ \A i \in DOMAIN scored \ Range(out) : \A j \in Range(out) : scored[i] <= scored[j]
    /\ Len(out) < Len(scored) => Len(out) = call[c].top_n

(* An embedding answer that says "ok" and holds no vector comes of a native*)
(* serving layer that answered with an error: no other way leads there.    *)
EmptyOnlyOnNativeError ==
  \A c \in Calls : Answered(c, "embed") /\ call[c].out = <<>> => spec.native

(* A replica that is up has what its calls need: to be told that the model *)
(* is misconfigured, one has to ask a native model for another task - which*)
(* the gateway does only when it has read another catalog than the launcher*)
(* - or one that runs as a stub and has no adapter.                        *)
MisconfiguredOnlyIfForeign ==
  \A c \in Calls :
    call[c].answer = "misconfigured" =>
      spec.native /\ (call[c].method # spec.task \/ ~spec.real)

=============================================================================
