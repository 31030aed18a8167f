----------------------------- MODULE EngineCall -----------------------------
(***************************************************************************)
(* One chat request of the local best-effort executor, from the request    *)
(* and the model's request_defaults to the arguments the vLLM engine is    *)
(* called with (vllm_local_best_effort.py): the merge of the defaults and  *)
(* the client's extras, the sampling parameters, the chat keywords the     *)
(* policy lets through, the SamplingParams instance, and the calls, which  *)
(* are made again without a keyword the engine names as unexpected.        *)
(*                                                                         *)
(* A value is named after the layer it comes from, so that a property can  *)
(* tell whose value the engine was given; "null" is None, and a max_tokens *)
(* of 0 and a logprobs of False, which the code takes for None.  A key     *)
(* stands for all keys the code treats alike: "temperature" for top_p,     *)
(* "seed" for the penalties and stop, n, "top_k" for the sampling keys the *)
(* request schema does not have, "tools" for tool_choice, "reasoning" for  *)
(* the reasoning keys a chat template is given, "reasoning_effort" for the *)
(* others.                                                                 *)
(* model_extra and extra_body are one layer, "extra"; "nulls" are the keys *)
(* given there as None, where that makes a difference.                     *)
(***************************************************************************)

CONSTANT Topics          \* the sets of keys a request and its model speak of

Sampling == {"max_tokens", "max_completion_tokens", "temperature", "seed",
             "logprobs", "top_logprobs", "top_k"}
Tools == {"tools", "parallel_tool_calls"}
Reasoning == {"reasoning", "reasoning_effort"}
Keywords == Tools \union Reasoning \union {"response_format", "unknown"}
Keys == Sampling \union Keywords

(* The fields of ChatCompletionsRequest; any other key is an extra.        *)
TypedKeys == {"max_tokens", "max_completion_tokens", "temperature", "seed",
              "logprobs", "top_logprobs", "tools", "parallel_tool_calls",
              "response_format"}

ASSUME TopicsAssumption == Topics \subseteq SUBSET Keys

Layers == {"typed", "extra", "default", "builtin"}
Values == Layers \union {"null"}
Final == {"answered", "rejected", "failed"}

VARIABLES
  req,       \* the request: the keys every layer gives, and the model's policy
  engine,    \* the runtime: its kind, its chat() signature, its SamplingParams
  pc,        \* where the request is
  mode,      \* "stream" or "plain": the call being made
  spread,    \* sampling parameters go as keywords, not as an instance
  params,    \* sampling_params; a key whose value is "null" is not in it
  wanted,    \* chat_kwargs, likewise
  kept,      \* the keys of filtered_sampling_params and current_chat_kwargs
  refused,   \* the keys this form of the call has found the runtime not to take
  sent       \* the arguments of the last call of the engine

vars == <<req, engine, pc, mode, spread, params, wanted, kept, refused, sent>>

Request(t) ==
  [typed: SUBSET (t \intersect TypedKeys), extra: SUBSET t, nulls: SUBSET t,
   defaults: SUBSET t, stream: BOOLEAN, allow_tools: BOOLEAN,
   allow_reasoning: BOOLEAN, passthrough: BOOLEAN]

Engine(t) ==
  [async: BOOLEAN, takes: SUBSET (t \intersect Keywords), streams: BOOLEAN,
   class: BOOLEAN]

NoSampling == [k \in Sampling |-> "null"]
NoKeywords == [k \in Keywords |-> "null"]

Init ==
  /\ \E t \in Topics : req \in Request(t) /\ engine \in Engine(t)
  /\ req.nulls \subseteq (req.defaults \union {"temperature"}) \ req.extra
  /\ pc = "new"
  /\ mode = IF req.stream THEN "stream" ELSE "plain"
  /\ spread = FALSE
  /\ params = NoSampling /\ wanted = NoKeywords
  /\ kept = {} /\ refused = {}
  /\ sent = [k \in Keys |-> "null"]

-----------------------------------------------------------------------------
(* What the layers give                                                    *)

Typed(k) == IF k \in req.typed THEN "typed" ELSE "null"

(* _merge_request_extras: an extra, a None too, hides the default.         *)
Merged(k) == CASE k \in req.extra -> "extra"
               [] k \notin req.extra \union req.nulls /\ k \in req.defaults -> "default"
               [] OTHER -> "null"

Given(v) == v # "null"

(* Python's `or`, and a get with a fallback.                               *)
Or(v, w) == IF Given(v) THEN v ELSE w

MaxTokens == Or(Typed("max_tokens"), Or(Merged("max_tokens"),
             Or(Typed("max_completion_tokens"),
             Or(Merged("max_completion_tokens"), "builtin"))))

(* vLLM's logprobs is the number the client states as top_logprobs; its    *)
(* logprobs says only whether that one counts.                             *)
Logprobs ==
  Or(IF "logprobs" \in req.typed THEN Typed("top_logprobs") ELSE "null",
     Merged("logprobs"))

SamplingValue(k) ==
  CASE k = "max_tokens" -> MaxTokens
    [] k = "logprobs" -> Logprobs
    [] k = "top_logprobs" -> Merged(k)
    [] k = "max_completion_tokens" -> "null"
    [] k = "temperature" ->
         IF k \in req.nulls \ req.typed THEN "null"
         ELSE Or(Typed(k), Or(Merged(k), "builtin"))
    [] OTHER -> Or(Typed(k), Merged(k))

(* A variant with a fault: it looks for tools among the merged fields,     *)
(* where the typed ones are not.                                           *)
ToolsForbiddenIfMerged == ~req.allow_tools /\ Given(Merged("tools"))

ToolsForbidden == ~req.allow_tools /\ "tools" \in req.typed

ReasoningForbidden ==
  ~req.allow_reasoning /\ \E k \in Reasoning : Given(Merged(k))

Keyword(k) ==
  CASE k = "tools" -> Or(Typed(k), IF req.allow_tools THEN Merged(k) ELSE "null")
    [] k = "parallel_tool_calls" ->
         IF req.allow_tools THEN Or(Merged(k), Typed(k)) ELSE "null"
    [] k = "response_format" -> Typed(k)
    [] k \in Reasoning -> IF req.allow_reasoning THEN Merged(k) ELSE "null"
    [] k = "unknown" -> IF req.passthrough THEN Merged(k) ELSE "null"

Present(f) == {k \in DOMAIN f : Given(f[k])}

-----------------------------------------------------------------------------
(* From the request to its arguments                                       *)

(* _build_sampling_params comes first and cannot fail.                     *)
BuildSampling ==
  /\ pc = "new"
  /\ params' = [k \in Sampling |-> SamplingValue(k)]
  /\ pc' = "sampled"
  /\ UNCHANGED <<req, engine, mode, spread, wanted, kept, refused, sent>>

(* _build_chat_kwargs refuses what the policy does not allow.              *)
RejectRequest ==
  /\ pc = "sampled"
  /\ ToolsForbidden \/ ReasoningForbidden
  /\ pc' = "rejected"
  /\ UNCHANGED <<req, engine, mode, spread, params, wanted, kept, refused, sent>>

BuildKwargs ==
  /\ pc = "sampled"
  /\ ~ToolsForbidden /\ ~ReasoningForbidden
  /\ wanted' = [k \in Keywords |-> Keyword(k)]
  /\ pc' = "built"
  /\ UNCHANGED <<req, engine, mode, spread, params, kept, refused, sent>>

-----------------------------------------------------------------------------
(* The SamplingParams instance                                             *)

(* The unsupported_parameter error of a stream a synchronous engine cannot *)
(* make: chat_completion_stream answers with a whole completion instead.   *)
FallBackToPlain ==
  /\ mode' = "plain" /\ pc' = "built"
  /\ UNCHANGED <<req, engine, spread, params, wanted, kept, refused, sent>>

(* The messages cannot be rendered, or the asynchronous engine has no      *)
(* tokenizer, chat template or generate().                                 *)
PromptFails ==
  /\ pc = "built"
  /\ pc' = "failed"
  /\ UNCHANGED <<req, engine, mode, spread, params, wanted, kept, refused, sent>>

NoStream ==
  /\ pc = "built" /\ ~engine.async
  /\ mode = "stream" /\ ~engine.streams
  /\ FallBackToPlain

(* The keys the signatures of SamplingParams and of engine.chat do not have*)
(* are dropped before either is called; an asynchronous engine's generate  *)
(* takes no chat keywords, its chat template some of the reasoning ones.   *)
TakenKeywords ==
  Present(wanted) \intersect (IF engine.async THEN {"reasoning"} ELSE engine.takes)

MakeCall ==
  /\ pc = "built"
  /\ engine.async \/ mode = "plain" \/ engine.streams
  /\ \E known \in SUBSET Present(params) :
       /\ engine.class \/ known = Present(params)
       /\ kept' = known \union TakenKeywords
       /\ refused' = (Present(params) \ known) \union (Present(wanted) \ TakenKeywords)
  /\ spread' = ~engine.class
  /\ pc' = IF engine.class THEN "instance" ELSE "call"
  /\ UNCHANGED <<req, engine, mode, params, wanted, sent>>

(* SamplingParams(...) raises a TypeError that names a keyword it was given*)
RefuseSampling ==
  /\ pc = "instance"
  /\ \E k \in kept \intersect Sampling :
       kept' = kept \ {k} /\ refused' = refused \union {k}
  /\ UNCHANGED <<req, engine, pc, mode, spread, params, wanted, sent>>

(* Any other error of the constructor ends the request.                    *)
InstanceFails ==
  /\ pc = "instance"
  /\ pc' = "failed"
  /\ UNCHANGED <<req, engine, mode, spread, params, wanted, kept, refused, sent>>

InstanceMade ==
  /\ pc = "instance"
  /\ pc' = "call"
  /\ UNCHANGED <<req, engine, mode, spread, params, wanted, kept, refused, sent>>

-----------------------------------------------------------------------------
(* The call of engine.chat, or of the asynchronous engine's generate       *)

Arguments ==
  [k \in Keys |-> IF k \notin kept THEN "null"
                  ELSE IF k \in Sampling THEN params[k] ELSE wanted[k]]

CallEngine ==
  /\ pc = "call"
  /\ sent' = Arguments
  /\ pc' = "called"
  /\ UNCHANGED <<req, engine, mode, spread, params, wanted, kept, refused>>

EngineReturns ==
  /\ pc = "called"
  /\ pc' = "answered"
  /\ UNCHANGED <<req, engine, mode, spread, params, wanted, kept, refused, sent>>

(* A synchronous engine does not know `stream`, or ignores it and returns a*)
(* list.                                                                   *)
StreamUnsupported ==
  /\ pc = "called" /\ mode = "stream" /\ ~engine.async
  /\ FallBackToPlain

(* A variant with a fault: starts over without the chat keywords.          *)
SpreadParamsForgetting ==
  /\ pc = "called" /\ ~engine.async
  /\ mode = "plain" /\ ~spread
  /\ spread' = TRUE
  /\ kept' = Present(params)
  /\ refused' = {}
  /\ pc' = "call"
  /\ UNCHANGED <<req, engine, mode, params, wanted, sent>>

(* A variant with a fault: what was refused is passed, and still refused.  *)
SpreadParamsKeepingRefused ==
  /\ pc = "called" /\ ~engine.async
  /\ mode = "plain" /\ ~spread
  /\ spread' = TRUE
  /\ kept' = Present(params) \union TakenKeywords
  /\ pc' = "call"
  /\ UNCHANGED <<req, engine, mode, params, wanted, refused, sent>>

(* A variant with a fault: the keyword that was refused is sent again.     *)
RefuseKeywordKeepingIt ==
  /\ pc = "called" /\ ~engine.async
  /\ kept \intersect Keywords # {}
  /\ pc' = "call"
  /\ UNCHANGED <<req, engine, mode, spread, params, wanted, kept, refused, sent>>

(* A TypeError that names a chat keyword of this call: the call is made    *)
(* again without it.                                                       *)
RefuseKeyword ==
  /\ pc = "called" /\ ~engine.async
  /\ \E k \in kept \intersect Keywords :
       kept' = kept \ {k} /\ refused' = refused \union {k}
  /\ pc' = "call"
  /\ UNCHANGED <<req, engine, mode, spread, params, wanted, sent>>

(* Any other TypeError: _invoke_vllm_chat starts over with the parameters  *)
(* as keywords, whatever SamplingParams thought of them, once.             *)
SpreadParams ==
  /\ pc = "called" /\ ~engine.async
  /\ mode = "plain" /\ ~spread
  /\ spread' = TRUE
  /\ kept' = Present(params) \union TakenKeywords
  /\ refused' = Present(wanted) \ TakenKeywords
  /\ pc' = "call"
  /\ UNCHANGED <<req, engine, mode, params, wanted, sent>>

(* An error of the engine, and a TypeError nobody handles.                 *)
EngineRaises ==
  /\ pc = "called"
  /\ pc' = "failed"
  /\ UNCHANGED <<req, engine, mode, spread, params, wanted, kept, refused, sent>>

Next ==
  \/ BuildSampling \/ RejectRequest \/ BuildKwargs
  \/ PromptFails \/ NoStream \/ MakeCall
  \/ RefuseSampling \/ InstanceFails \/ InstanceMade
  \/ CallEngine \/ EngineReturns \/ StreamUnsupported
  \/ RefuseKeyword \/ SpreadParams \/ EngineRaises

Spec == Init /\ [][Next]_vars

(* Every step is code that runs to its end; a call of the engine returns or*)
(* raises.                                                                 *)
FairSpec == Spec /\ WF_vars(Next)

-----------------------------------------------------------------------------
(* Properties                                                              *)

TypeOK ==
  /\ req \in Request(Keys) /\ engine \in Engine(Keys)
  /\ pc \in {"new", "sampled", "built", "instance", "call", "called"} \union Final
  /\ mode \in {"stream", "plain"} /\ (mode = "stream" => req.stream)
  /\ spread \in BOOLEAN
  /\ params \in [Sampling -> Values] /\ wanted \in [Keywords -> Values]
  /\ kept \subseteq Present(params) \union Present(wanted)
  /\ refused \subseteq Keys \ kept
  /\ sent \in [Keys -> Values]

(* The request policy is a property of every call of the engine, whatever  *)
(* layer a key comes from and however often the call is made again: tool,  *)
(* reasoning and unknown fields reach the engine only where allowed.       *)
PolicyHolds ==
  /\ ~req.allow_tools => \A k \in Tools : ~Given(sent[k])
  /\ ~req.allow_reasoning => \A k \in Reasoning : ~Given(sent[k])
  /\ ~req.passthrough => ~Given(sent["unknown"])

(* The name under which the engine is given what a field states.           *)
Carrier(k) ==
  CASE k = "max_completion_tokens" -> "max_tokens"
    [] k = "top_logprobs" -> "logprobs"
    [] OTHER -> k

(* The fields whose statement must not get lost: all but a second way to   *)
(* limit the answer, the tool field the defaults may replace, and logprobs,*)
(* which has no value of its own to be given; top_logprobs is one only     *)
(* beside it.                                                              *)
Stated ==
  req.typed \ ({"max_completion_tokens", "parallel_tool_calls", "logprobs"}
               \union (IF "logprobs" \in req.typed THEN {} ELSE {"top_logprobs"}))

ArrivesUnlessRefused(k) ==
  Carrier(k) \in refused \/ sent[Carrier(k)] = "typed"

(* Pruning what the runtime refuses never costs the client anything else:  *)
(* when the engine has answered, the value of a field that is Stated is the*)
(* one the engine was given, unless the runtime refused the key that       *)
(* carries it in the call that was answered.  (A logprobs without a number *)
(* is lost, or replaced by that of the defaults; a top_logprobs without    *)
(* logprobs is lost.  For the other two see the next.)                     *)
StatedValuesArrive ==
  pc = "answered" => \A k \in Stated : ArrivesUnlessRefused(k)

(* "Per-model request defaults should seed chat sampling params without    *)
(* overriding explicit request fields" (tests/test_runtime.py).  The code  *)
(* lets a default max_tokens go before a stated max_completion_tokens, a   *)
(* default logprobs before a stated one without a number, and a default    *)
(* parallel_tool_calls replace the stated one.                             *)
DefaultsNeverOverride ==
  pc = "answered" => \A k \in req.typed : sent[Carrier(k)] # "default"

(* The loops that drop one refused keyword after the other come to an end: *)
(* every request is answered, rejected or failed.                          *)
RequestEnds == <>(pc \in Final)

=============================================================================
