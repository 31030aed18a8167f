-------------------------- MODULE EngineCallProofs --------------------------
(***************************************************************************)
(* Type correctness of EngineCall, and that the request policy holds in    *)
(* every call of the engine, for every set of topics.  The policy is       *)
(* decided once, in BuildKwargs; the invariant that carries it through the *)
(* loops of refused keywords is that what is wanted is allowed, and that   *)
(* what is kept is wanted.                                                 *)
(***************************************************************************)
EXTENDS EngineCall, Integers, FiniteSetTheorems, TLAPS

(* What PolicyHolds says of a call, of the chat keywords to be sent.       *)
WantedAllowed ==
  /\ ~req.allow_tools => \A k \in Tools : ~Given(wanted[k])
  /\ ~req.allow_reasoning => \A k \in Reasoning : ~Given(wanted[k])
  /\ ~req.passthrough => ~Given(wanted["unknown"])

(* Nothing is chosen before all there is to choose from is known.          *)
NothingKept == pc \in {"new", "sampled"} => kept = {}

IInv == TypeOK /\ WantedAllowed /\ NothingKept /\ PolicyHolds

(* Sampling parameters and chat keywords are different keys, so that one   *)
(* set can tell which of both are kept.                                    *)
LEMMA KeysApart ==
  /\ Sampling \intersect Keywords = {}
  /\ Keys = Sampling \union Keywords
  /\ Tools \subseteq Keywords /\ Reasoning \subseteq Keywords
  /\ "unknown" \in Keywords
BY DEF Sampling, Keywords, Keys, Tools, Reasoning

(* Every value a request yields is one of the layers, or None.             *)
LEMMA ValuesTyped ==
  /\ \A k : SamplingValue(k) \in Values
  /\ \A k : Typed(k) \in Values /\ Merged(k) \in Values
<1>1. \A k : Typed(k) \in Values /\ Merged(k) \in Values
  BY DEF Typed, Merged, Values, Layers
<1>2. "null" \in Values /\ "builtin" \in Values
  BY DEF Values, Layers
<1>3. ASSUME NEW v \in Values, NEW w \in Values PROVE Or(v, w) \in Values
  BY <1>3 DEF Or
<1>4. MaxTokens \in Values /\ Logprobs \in Values
  BY <1>1, <1>2, <1>3 DEF MaxTokens, Logprobs
<1>5. \A k : SamplingValue(k) \in Values
  BY <1>1, <1>2, <1>3, <1>4 DEF SamplingValue
<1> QED
  BY <1>1, <1>5

(* The chat keywords are values of the layers, likewise.                   *)
LEMMA KeywordTyped == \A k \in Keywords : Keyword(k) \in Values
<1> SUFFICES ASSUME NEW k \in Keywords PROVE Keyword(k) \in Values
  OBVIOUS
<1>1. Typed(k) \in Values /\ Merged(k) \in Values /\ "null" \in Values
  BY ValuesTyped DEF Values, Layers
<1>2. k \in {"tools", "parallel_tool_calls", "response_format", "unknown"}
            \union Reasoning
  BY DEF Keywords, Tools
<1> QED
  BY <1>1, <1>2 DEF Keyword, Or

(* Without a policy's leave no keyword of its kind is wanted: a request    *)
(* that states tools is refused before, and a stated parallel_tool_calls   *)
(* is left out.                                                            *)
LEMMA KeywordAllowed ==
  ASSUME ~ToolsForbidden
  PROVE  /\ ~req.allow_tools => \A k \in Tools : ~Given(Keyword(k))
         /\ ~req.allow_reasoning => \A k \in Reasoning : ~Given(Keyword(k))
         /\ ~req.passthrough => ~Given(Keyword("unknown"))
<1>1. ~Given("null")
  BY DEF Given
<1>2. ASSUME ~req.allow_tools PROVE \A k \in Tools : ~Given(Keyword(k))
  <2>1. Keyword("parallel_tool_calls") = "null"
    BY <1>2 DEF Keyword, Reasoning
  <2>2. Typed("tools") = "null"
    BY <1>2 DEF ToolsForbidden, Typed
  <2>3. Keyword("tools") = "null"
    BY <1>1, <1>2, <2>2 DEF Keyword, Or, Reasoning
  <2> QED
    BY <1>1, <2>1, <2>3 DEF Tools
<1>3. ASSUME ~req.allow_reasoning PROVE \A k \in Reasoning : ~Given(Keyword(k))
  BY <1>1, <1>3 DEF Keyword, Reasoning
<1>4. ASSUME ~req.passthrough PROVE ~Given(Keyword("unknown"))
  BY <1>1, <1>4 DEF Keyword, Reasoning
<1> QED
  BY <1>2, <1>3, <1>4

(* A request starts with no value chosen and nothing sent.                 *)
LEMMA InitIInv == Init => IInv
<1> SUFFICES ASSUME Init PROVE IInv
  OBVIOUS
<1>1. PICK t \in Topics : req \in Request(t) /\ engine \in Engine(t)
  BY DEF Init
<1>2. t \subseteq Keys
  BY TopicsAssumption
<1>3. req \in Request(Keys)
  BY <1>1, <1>2 DEF Request
<1>4. engine \in Engine(Keys)
  BY <1>1, <1>2 DEF Engine
<1>5. "null" \in Values /\ ~Given("null")
  BY DEF Values, Given
<1>6. params \in [Sampling -> Values] /\ wanted \in [Keywords -> Values]
        /\ sent \in [Keys -> Values]
  BY <1>5 DEF Init, NoSampling, NoKeywords
<1>7. mode \in {"stream", "plain"} /\ (mode = "stream" => req.stream)
  BY DEF Init
<1>8. WantedAllowed /\ PolicyHolds
  BY <1>5, KeysApart DEF Init, WantedAllowed, PolicyHolds, NoKeywords
<1> QED
  BY <1>3, <1>4, <1>6, <1>7, <1>8 DEF Init, IInv, TypeOK, NothingKept

(* Where the arguments of a call come from decides what they may hold.     *)
LEMMA ArgumentsAllowed ==
  ASSUME TypeOK, WantedAllowed
  PROVE  /\ Arguments \in [Keys -> Values]
         /\ ~req.allow_tools => \A k \in Tools : ~Given(Arguments[k])
         /\ ~req.allow_reasoning => \A k \in Reasoning : ~Given(Arguments[k])
         /\ ~req.passthrough => ~Given(Arguments["unknown"])
<1>1. "null" \in Values /\ ~Given("null")
  BY DEF Values, Given
<1>2. Arguments \in [Keys -> Values]
  BY <1>1, KeysApart DEF TypeOK, Arguments
<1>3. ASSUME NEW k \in Keywords
      PROVE  Arguments[k] \in {"null", wanted[k]}
  BY <1>3, KeysApart DEF Arguments
<1> QED
  BY <1>1, <1>2, <1>3, KeysApart DEF WantedAllowed

(* Every step preserves the invariant, action by action.                   *)
LEMMA NextIInv == IInv /\ [Next]_vars => IInv'
<1> SUFFICES ASSUME IInv, [Next]_vars PROVE IInv'
  OBVIOUS
<1> USE DEF IInv
<1>1. CASE BuildSampling
  <2>1. params' \in [Sampling -> Values]
    BY <1>1, ValuesTyped DEF BuildSampling
  <2>2. kept' = {} /\ pc' = "sampled"
    BY <1>1 DEF BuildSampling, NothingKept
  <2> QED
    BY <1>1, <2>1, <2>2 DEF BuildSampling, TypeOK, WantedAllowed,
              NothingKept, PolicyHolds
<1>2. CASE RejectRequest
  BY <1>2 DEF RejectRequest, TypeOK, WantedAllowed, NothingKept,
              PolicyHolds, Final, Present
<1>3. CASE BuildKwargs
  <2>1. wanted' = [k \in Keywords |-> Keyword(k)] /\ UNCHANGED req
    BY <1>3 DEF BuildKwargs
  <2>2. wanted' \in [Keywords -> Values]
    BY <2>1, KeywordTyped
  <2>3. WantedAllowed'
    BY <1>3, <2>1, KeywordAllowed, KeysApart DEF BuildKwargs, WantedAllowed
  <2>4. kept' = {} /\ pc' = "built"
    BY <1>3 DEF BuildKwargs, NothingKept
  <2> QED
    BY <1>3, <2>2, <2>3, <2>4 DEF BuildKwargs, TypeOK, NothingKept, PolicyHolds
<1>4. CASE PromptFails
  BY <1>4 DEF PromptFails, TypeOK, WantedAllowed, NothingKept,
              PolicyHolds, Final, Present
<1>5. CASE NoStream
  BY <1>5 DEF NoStream, FallBackToPlain, TypeOK, WantedAllowed, NothingKept,
              PolicyHolds, Final, Present
<1>6. CASE MakeCall
  <2>1. PICK known \in SUBSET Present(params) :
          /\ kept' = known \union TakenKeywords
          /\ refused' = (Present(params) \ known)
                         \union (Present(wanted) \ TakenKeywords)
    BY <1>6 DEF MakeCall
  <2>2. TakenKeywords \subseteq Present(wanted)
    BY DEF TakenKeywords
  <2>3. Present(params) \subseteq Sampling /\ Present(wanted) \subseteq Keywords
    BY DEF Present, TypeOK
  <2>4. refused' \subseteq Keys \ kept'
    BY <2>1, <2>2, <2>3, KeysApart
  <2>5. kept' \subseteq Present(params) \union Present(wanted)
    BY <2>1, <2>2
  <2>6. pc' \in {"instance", "call"} /\ spread' \in BOOLEAN
    BY <1>6 DEF MakeCall, TypeOK, Engine
  <2>7. UNCHANGED <<req, engine, mode, params, wanted, sent>>
    BY <1>6 DEF MakeCall
  <2>8. (Present(params) \union Present(wanted))'
          = Present(params) \union Present(wanted)
    BY <2>7 DEF Present
  <2>9. TypeOK'
    BY <2>4, <2>5, <2>6, <2>7, <2>8 DEF TypeOK
  <2> QED
    BY <2>6, <2>7, <2>9 DEF WantedAllowed, NothingKept, PolicyHolds
<1>7. CASE RefuseSampling
  <2>1. PICK k \in kept \intersect Sampling :
          kept' = kept \ {k} /\ refused' = refused \union {k}
    BY <1>7 DEF RefuseSampling
  <2>2. refused' \subseteq Keys \ kept'
    BY <2>1, KeysApart DEF TypeOK
  <2> QED
    BY <1>7, <2>1, <2>2 DEF RefuseSampling, TypeOK, WantedAllowed, NothingKept,
              PolicyHolds, Final, Present
<1>8. CASE InstanceFails
  BY <1>8 DEF InstanceFails, TypeOK, WantedAllowed, NothingKept,
              PolicyHolds, Final, Present
<1>9. CASE InstanceMade
  BY <1>9 DEF InstanceMade, TypeOK, WantedAllowed, NothingKept,
              PolicyHolds, Final, Present
<1>10. CASE CallEngine
  BY <1>10, ArgumentsAllowed DEF CallEngine, TypeOK, WantedAllowed, NothingKept,
              PolicyHolds, Final, Present
<1>11. CASE EngineReturns
  BY <1>11 DEF EngineReturns, TypeOK, WantedAllowed, NothingKept,
              PolicyHolds, Final, Present
<1>12. CASE StreamUnsupported
  BY <1>12 DEF StreamUnsupported, FallBackToPlain, TypeOK, WantedAllowed, NothingKept,
              PolicyHolds, Final, Present
<1>13. CASE RefuseKeyword
  <2>1. PICK k \in kept \intersect Keywords :
          kept' = kept \ {k} /\ refused' = refused \union {k}
    BY <1>13 DEF RefuseKeyword
  <2>2. refused' \subseteq Keys \ kept'
    BY <2>1, KeysApart DEF TypeOK
  <2> QED
    BY <1>13, <2>1, <2>2 DEF RefuseKeyword, TypeOK, WantedAllowed, NothingKept,
              PolicyHolds, Final, Present
<1>14. CASE SpreadParams
  <2>1. /\ kept' = Present(params) \union TakenKeywords
        /\ refused' = Present(wanted) \ TakenKeywords
    BY <1>14 DEF SpreadParams
  <2>2. TakenKeywords \subseteq Present(wanted)
    BY DEF TakenKeywords
  <2>3. Present(params) \subseteq Sampling /\ Present(wanted) \subseteq Keywords
    BY DEF Present, TypeOK
  <2>4. refused' \subseteq Keys \ kept'
    BY <2>1, <2>2, <2>3, KeysApart
  <2> QED
    BY <1>14, <2>1, <2>2, <2>4 DEF SpreadParams, TypeOK, WantedAllowed, NothingKept,
              PolicyHolds, Final, Present
<1>15. CASE EngineRaises
  BY <1>15 DEF EngineRaises, TypeOK, WantedAllowed, NothingKept,
              PolicyHolds, Final, Present
<1>16. CASE UNCHANGED vars
  BY <1>16 DEF vars, TypeOK, WantedAllowed, NothingKept,
              PolicyHolds, Final, Present
<1> QED
  BY <1>1, <1>2, <1>3, <1>4, <1>5, <1>6, <1>7, <1>8, <1>9, <1>10, <1>11,
     <1>12, <1>13, <1>14, <1>15, <1>16 DEF Next

(* The invariant of every behaviour.                                       *)
THEOREM Inductive == Spec => []IInv
<1>1. IInv /\ [Next]_vars => IInv'
  BY NextIInv
<1> QED
  BY InitIInv, <1>1, PTL DEF Spec

(* Every variable keeps its type: in particular a key is never both kept   *)
(* and refused, however the calls of the engine go.                        *)
THEOREM TypeCorrect == Spec => []TypeOK
<1>1. IInv => TypeOK
  BY DEF IInv
<1> QED
  BY Inductive, <1>1, PTL

(* No call of the engine, first or repeated, carries a tool, reasoning or  *)
(* unknown field the model's request policy does not allow.                *)
THEOREM PolicyIsKept == Spec => []PolicyHolds
<1>1. IInv => PolicyHolds
  BY DEF IInv
<1> QED
  BY Inductive, <1>1, PTL

-----------------------------------------------------------------------------
(* That nothing but a refusal costs the client a value.                    *)

(* A stated value wins where the values of a request are chosen.           *)
StatedChosen ==
  /\ pc # "new" => \A k \in Stated \intersect Sampling : params[Carrier(k)] = "typed"
  /\ pc \notin {"new", "sampled", "rejected"} =>
       \A k \in Stated \intersect Keywords : wanted[k] = "typed"

(* While a call is prepared and made, whatever was chosen is kept, unless  *)
(* it is refused.                                                          *)
KeptOrRefused ==
  pc \in {"instance", "call", "called", "answered"} =>
    Present(params) \union Present(wanted) \subseteq kept \union refused

(* What was sent last is what is kept.                                     *)
SentIsKept == pc \in {"called", "answered"} => sent = Arguments

SInv == StatedChosen /\ KeptOrRefused /\ SentIsKept

(* A sampling field is carried by one, a chat keyword by itself.           *)
LEMMA CarriersSample ==
  /\ \A k \in Sampling : Carrier(k) \in Sampling
  /\ \A k \in Keywords : Carrier(k) = k
BY DEF Carrier, Sampling, Keywords, Tools, Reasoning

(* In both choices the typed field comes first.                            *)
LEMMA StatedWins ==
  ASSUME TypeOK
  PROVE  /\ \A k \in Stated \intersect Sampling : SamplingValue(Carrier(k)) = "typed"
         /\ \A k \in Stated \intersect Keywords : Keyword(k) = "typed"
<1>1. Stated \subseteq {"max_tokens", "temperature", "seed", "top_logprobs", "tools",
                       "response_format"}
  BY DEF TypeOK, Request, TypedKeys, Stated
<1>2. \A k \in Stated : Typed(k) = "typed" /\ k \in req.typed
  BY DEF Typed, Stated
<1>3. Given("typed")
  BY DEF Given
<1>4. ASSUME NEW w PROVE Or("typed", w) = "typed"
  BY <1>3 DEF Or
<1>5. ASSUME NEW k \in Stated \intersect Sampling
      PROVE  SamplingValue(Carrier(k)) = "typed"
  <2>1. k \in {"max_tokens", "temperature", "seed", "top_logprobs"}
    BY <1>1, <1>5 DEF Sampling
  <2>2. CASE k = "max_tokens"
    BY <1>2, <1>4, <2>2 DEF SamplingValue, MaxTokens, Carrier
  <2>3. CASE k = "temperature"
    BY <1>2, <1>4, <2>3 DEF SamplingValue, Carrier
  <2>4. CASE k = "seed"
    BY <1>2, <1>4, <2>4 DEF SamplingValue, Carrier
  <2>5. CASE k = "top_logprobs"
    <3>1. "logprobs" \in req.typed
      BY <2>5 DEF Stated
    <3> QED BY <1>2, <1>4, <2>5, <3>1 DEF SamplingValue, Logprobs, Carrier
  <2> QED BY <2>1, <2>2, <2>3, <2>4, <2>5
<1>6. ASSUME NEW k \in Stated \intersect Keywords PROVE Keyword(k) = "typed"
  <2>1. k \in {"tools", "response_format"}
    BY <1>1, <1>6 DEF Keywords, Tools, Reasoning
  <2>2. CASE k = "tools"
    BY <1>2, <1>4, <2>2 DEF Keyword, Reasoning
  <2>3. CASE k = "response_format"
    BY <1>2, <2>3 DEF Keyword, Reasoning
  <2> QED BY <2>1, <2>2, <2>3
<1> QED BY <1>5, <1>6

(* Nothing is chosen, kept or sent at first.                               *)
LEMMA InitSInv == Init => SInv
  BY DEF Init, SInv, StatedChosen, KeptOrRefused, SentIsKept

(* Every step keeps it; the loops move keys from kept to refused.          *)
LEMMA NextSInv == IInv /\ SInv /\ [Next]_vars => SInv'
<1> SUFFICES ASSUME IInv, SInv, [Next]_vars PROVE SInv'
  OBVIOUS
<1>1. TypeOK
  BY DEF IInv
<1>2. CASE BuildSampling
  <2>1. \A k \in Stated \intersect Sampling : params'[Carrier(k)] = "typed"
    BY <1>1, <1>2, StatedWins, CarriersSample DEF BuildSampling
  <2> QED
    BY <1>2, <2>1 DEF BuildSampling, SInv, StatedChosen, KeptOrRefused, SentIsKept, Stated
<1>3. CASE RejectRequest
  BY <1>3 DEF RejectRequest, SInv, StatedChosen, KeptOrRefused, SentIsKept, Stated
<1>4. CASE BuildKwargs
  <2>1. \A k \in Stated \intersect Keywords : wanted'[k] = "typed"
    BY <1>1, <1>4, StatedWins DEF BuildKwargs
  <2> QED
    BY <1>4, <2>1 DEF BuildKwargs, SInv, StatedChosen, KeptOrRefused, SentIsKept, Stated
<1>5. CASE PromptFails \/ InstanceFails \/ EngineRaises
  BY <1>5 DEF PromptFails, InstanceFails, EngineRaises, SInv, StatedChosen, KeptOrRefused,
              SentIsKept, Stated
<1>6. CASE NoStream \/ StreamUnsupported
  BY <1>6 DEF NoStream, StreamUnsupported, FallBackToPlain, SInv, StatedChosen,
              KeptOrRefused, SentIsKept, Stated
<1>7. CASE MakeCall
  <2>1. UNCHANGED <<req, params, wanted>> /\ pc = "built" /\ pc' \in {"instance", "call"}
    BY <1>7 DEF MakeCall
  <2>2. Present(params) \union Present(wanted) \subseteq kept' \union refused'
    BY <1>7 DEF MakeCall
  <2> QED
    BY <2>1, <2>2 DEF SInv, StatedChosen, KeptOrRefused, SentIsKept, Stated, Present
<1>8. CASE RefuseSampling \/ RefuseKeyword
  <2>1. UNCHANGED <<req, params, wanted>> /\ pc' \in {"instance", "call"}
        /\ pc \in {"instance", "called"}
    BY <1>8 DEF RefuseSampling, RefuseKeyword
  <2>2. PICK k : kept' = kept \ {k} /\ refused' = refused \union {k}
    BY <1>8 DEF RefuseSampling, RefuseKeyword
  <2>3. Present(params) \union Present(wanted) \subseteq kept' \union refused'
    BY <2>1, <2>2 DEF SInv, KeptOrRefused
  <2> QED
    BY <2>1, <2>3 DEF SInv, StatedChosen, KeptOrRefused, SentIsKept, Stated, Present
<1>9. CASE InstanceMade
  BY <1>9 DEF InstanceMade, SInv, StatedChosen, KeptOrRefused, SentIsKept, Stated, Present
<1>10. CASE CallEngine
  <2>1. UNCHANGED <<req, params, wanted, kept, refused>> /\ pc = "call" /\ pc' = "called"
        /\ sent' = Arguments
    BY <1>10 DEF CallEngine
  <2>2. Arguments' = Arguments
    BY <2>1 DEF Arguments
  <2> QED
    BY <2>1, <2>2 DEF SInv, StatedChosen, KeptOrRefused, SentIsKept, Stated, Present
<1>11. CASE EngineReturns
  <2>1. UNCHANGED <<req, params, wanted, kept, refused, sent>>
        /\ pc = "called" /\ pc' = "answered"
    BY <1>11 DEF EngineReturns
  <2>2. Arguments' = Arguments
    BY <2>1 DEF Arguments
  <2> QED
    BY <2>1, <2>2 DEF SInv, StatedChosen, KeptOrRefused, SentIsKept, Stated, Present
<1>12. CASE SpreadParams
  <2>1. UNCHANGED <<req, params, wanted>> /\ pc' = "call" /\ pc = "called"
    BY <1>12 DEF SpreadParams
  <2>2. Present(params) \union Present(wanted) \subseteq kept' \union refused'
    BY <1>12 DEF SpreadParams
  <2> QED
    BY <2>1, <2>2 DEF SInv, StatedChosen, KeptOrRefused, SentIsKept, Stated, Present
<1>13. CASE UNCHANGED vars
  <2>1. UNCHANGED <<req, pc, params, wanted, kept, refused, sent>>
    BY <1>13 DEF vars
  <2>2. Arguments' = Arguments
    BY <2>1 DEF Arguments
  <2> QED
    BY <2>1, <2>2 DEF SInv, StatedChosen, KeptOrRefused, SentIsKept, Stated, Present
<1> QED
  BY <1>2, <1>3, <1>4, <1>5, <1>6, <1>7, <1>8, <1>9, <1>10, <1>11, <1>12, <1>13 DEF Next

(* When the engine has answered, every value the client stated is the one  *)
(* the engine was given, or the runtime refused the key that carries it. A *)
(* second limit, a parallel_tool_calls, a logprobs without a number and a  *)
(* number without logprobs are not such values (Stated).                   *)
THEOREM StatedValuesHaveArrived == Spec => []StatedValuesArrive
<1>1. ASSUME IInv, SInv PROVE StatedValuesArrive
  <2> SUFFICES ASSUME pc = "answered", NEW k \in Stated, NEW w, w = Carrier(k),
                      w \notin refused
               PROVE  sent[w] = "typed"
    BY DEF StatedValuesArrive, ArrivesUnlessRefused
  <2>1. k \in Keys
    BY <1>1 DEF IInv, TypeOK, Request, Stated, TypedKeys, Keys, Sampling, Keywords, Tools
  <2>2. sent = Arguments
    BY <1>1 DEF SInv, SentIsKept
  <2>3. CASE k \in Sampling
    <3>1. w \in Sampling /\ w \in Keys
      BY <2>3, CarriersSample, KeysApart
    <3>2. params[w] = "typed"
      BY <1>1, <2>3 DEF SInv, StatedChosen
    <3>3. w \in Present(params)
      BY <1>1, <3>1, <3>2 DEF IInv, TypeOK, Present, Given
    <3>4. w \in kept
      BY <1>1, <3>3 DEF SInv, KeptOrRefused
    <3> QED BY <2>2, <3>1, <3>2, <3>4 DEF Arguments
  <2>4. CASE k \in Keywords
    <3>1. w = k /\ w \notin Sampling /\ w \in Keys
      BY <2>1, <2>4, CarriersSample, KeysApart
    <3>2. wanted[w] = "typed"
      BY <1>1, <2>4, <3>1 DEF SInv, StatedChosen
    <3>3. w \in Present(wanted)
      BY <1>1, <2>4, <3>1, <3>2 DEF IInv, TypeOK, Present, Given
    <3>4. w \in kept
      BY <1>1, <3>3 DEF SInv, KeptOrRefused
    <3> QED BY <2>2, <3>1, <3>2, <3>4 DEF Arguments
  <2> QED BY <2>1, <2>3, <2>4, KeysApart
<1>2. Spec => []SInv
  BY Inductive, InitSInv, NextSInv, PTL DEF Spec
<1> QED BY <1>1, <1>2, Inductive, PTL

-----------------------------------------------------------------------------
(* That the calls repeated without a refused key run out.                  *)

(* A repetition drops a key, moves to the form that spreads the parameters,*)
(* or falls back from the stream to the whole answer; no step undoes what  *)
(* one of the other two has done, but that a new form starts with all its  *)
(* keys.  So the steps left weigh a form more than all its keys, and the   *)
(* stream more than both forms.                                            *)
All == Cardinality(Keys)
OfForm == 2 * All + 3
OfMode == OfForm + 2 * All + 4

FormLeft == IF spread THEN 0 ELSE OfForm
ModeLeft == IF mode = "stream" THEN OfMode ELSE 0

StepsLeft ==
  CASE pc = "new"      -> 2 * OfMode + 2
    [] pc = "sampled"  -> 2 * OfMode + 1
    [] pc = "built"    -> ModeLeft + OfMode
    [] pc = "instance" -> ModeLeft + FormLeft + 2 * Cardinality(kept) + 3
    [] pc = "call"     -> ModeLeft + FormLeft + 2 * Cardinality(kept) + 2
    [] pc = "called"   -> ModeLeft + FormLeft + 2 * Cardinality(kept) + 1
    [] OTHER           -> 0

(* Every step of a request is one of finitely many: whatever keys the      *)
(* runtime refuses, and in whatever order, no call is repeated for ever.   *)
RepetitionsRunOut == StepsLeft' < StepsLeft

(* There are finitely many keys, ...                                       *)
LEMMA KeysFinite == IsFiniteSet(Keys) /\ All \in Nat
<1>1. \A S, x : IsFiniteSet(S) => IsFiniteSet(S \union {x})
  BY FS_AddElement
<1>2. IsFiniteSet({})
  BY FS_EmptySet
<1>3. Keys = {} \union {"max_tokens"} \union {"max_completion_tokens"}
          \union {"temperature"} \union {"seed"} \union {"logprobs"}
          \union {"top_logprobs"} \union {"top_k"} \union {"tools"}
          \union {"parallel_tool_calls"} \union {"reasoning"}
          \union {"reasoning_effort"} \union {"response_format"} \union {"unknown"}
  BY DEF Keys, Sampling, Keywords, Tools, Reasoning
<1>4. IsFiniteSet(Keys)
  BY <1>1, <1>2, <1>3
<1> QED
  BY <1>4, FS_CardinalityType DEF All

(* ... so what is kept of them can be counted, ...                         *)
LEMMA KeptCounted ==
  ASSUME TypeOK
  PROVE  IsFiniteSet(kept) /\ Cardinality(kept) \in 0..All
<1>1. kept \subseteq Keys
  BY KeysApart DEF TypeOK, Present
<1>2. IsFiniteSet(kept) /\ Cardinality(kept) <= All
  BY <1>1, KeysFinite, FS_Subset DEF All
<1> QED
  BY <1>2, KeysFinite, FS_CardinalityType

(* ... and a refusal counts.                                               *)
LEMMA RefusalCounts ==
  ASSUME TypeOK, NEW k \in kept, kept' = kept \ {k}
  PROVE  Cardinality(kept') = Cardinality(kept) - 1
BY KeptCounted, FS_RemoveElement

(* The weights are natural numbers.                                        *)
LEMMA WeightsTyped ==
  /\ OfForm \in Nat /\ OfMode \in Nat
  /\ FormLeft \in {0, OfForm} /\ ModeLeft \in {0, OfMode}
BY KeysFinite DEF OfForm, OfMode, FormLeft, ModeLeft

(* Every step, action by action.                                           *)
LEMMA NextStepsLeft == TypeOK /\ TypeOK' /\ Next => RepetitionsRunOut
<1> SUFFICES ASSUME TypeOK, TypeOK', Next PROVE StepsLeft' < StepsLeft
  BY DEF RepetitionsRunOut
<1>a. PICK n \in 0..All : n = Cardinality(kept)
  BY KeptCounted
<1>b. (Cardinality(kept))' \in 0..All
  <2>1. kept' \subseteq Keys
    BY KeysApart DEF TypeOK, Present
  <2>2. IsFiniteSet(kept') /\ Cardinality(kept') <= All
    BY <2>1, KeysFinite, FS_Subset DEF All
  <2> QED
    BY <2>2, KeysFinite, FS_CardinalityType
<1>c. PICK m \in 0..All : m = (Cardinality(kept))'
  BY <1>b
<1>d. All \in Nat /\ OfForm = 2 * All + 3 /\ OfMode = OfForm + 2 * All + 4
  BY KeysFinite DEF OfForm, OfMode
<1>e. FormLeft \in {0, OfForm} /\ ModeLeft \in {0, OfMode}
  BY WeightsTyped
<1>f. FormLeft' \in {0, OfForm} /\ ModeLeft' \in {0, OfMode}
  BY DEF FormLeft, ModeLeft
<1> HIDE DEF All, OfForm, OfMode
<1>1. CASE BuildSampling
  BY <1>1, <1>d DEF BuildSampling, StepsLeft
<1>2. CASE RejectRequest
  BY <1>2, <1>d DEF RejectRequest, StepsLeft
<1>3. CASE BuildKwargs
  <2>1. pc = "sampled" /\ pc' = "built"
    BY <1>3 DEF BuildKwargs
  <2> QED
    BY <1>d, <1>f, <2>1 DEF StepsLeft
<1>4. CASE PromptFails \/ InstanceFails \/ EngineReturns \/ EngineRaises
  <2>1. pc \in {"built", "instance", "called"} /\ pc' \in Final
    BY <1>4 DEF PromptFails, InstanceFails, EngineReturns, EngineRaises, Final
  <2>2. StepsLeft' = 0
    BY <2>1 DEF StepsLeft, Final
  <2> QED
    BY <1>a, <1>d, <1>e, <2>1, <2>2 DEF StepsLeft
<1>5. CASE NoStream \/ StreamUnsupported
  <2>1. pc \in {"built", "called"} /\ pc' = "built" /\ mode = "stream" /\ mode' = "plain"
    BY <1>5 DEF NoStream, StreamUnsupported, FallBackToPlain
  <2>2. ModeLeft = OfMode /\ ModeLeft' = 0
    BY <2>1 DEF ModeLeft
  <2> QED
    BY <1>a, <1>d, <1>e, <2>1, <2>2 DEF StepsLeft
<1>6. CASE MakeCall
  <2>1. pc = "built" /\ pc' \in {"instance", "call"} /\ mode' = mode
    BY <1>6 DEF MakeCall
  <2>2. ModeLeft' = ModeLeft
    BY <2>1 DEF ModeLeft
  <2> QED
    BY <1>c, <1>d, <1>e, <1>f, <2>1, <2>2 DEF StepsLeft
<1>7. CASE RefuseSampling \/ RefuseKeyword
  <2>1. \/ pc = "instance" /\ pc' = "instance"
        \/ pc = "called" /\ pc' = "call"
    BY <1>7 DEF RefuseSampling, RefuseKeyword
  <2>2. UNCHANGED <<mode, spread>>
    BY <1>7 DEF RefuseSampling, RefuseKeyword
  <2>3. PICK k \in kept : kept' = kept \ {k}
    BY <1>7 DEF RefuseSampling, RefuseKeyword
  <2>4. m = n - 1
    BY <1>a, <1>c, <2>3, RefusalCounts
  <2>5. ModeLeft' = ModeLeft /\ FormLeft' = FormLeft
    BY <2>2 DEF ModeLeft, FormLeft
  <2> QED
    BY <1>a, <1>c, <1>d, <1>e, <2>1, <2>4, <2>5 DEF StepsLeft
<1>8. CASE InstanceMade \/ CallEngine
  <2>1. \/ pc = "instance" /\ pc' = "call"
        \/ pc = "call" /\ pc' = "called"
    BY <1>8 DEF InstanceMade, CallEngine
  <2>2. UNCHANGED <<mode, spread, kept>>
    BY <1>8 DEF InstanceMade, CallEngine
  <2>3. m = n /\ ModeLeft' = ModeLeft /\ FormLeft' = FormLeft
    BY <1>a, <1>c, <2>2 DEF ModeLeft, FormLeft
  <2> QED
    BY <1>a, <1>c, <1>d, <1>e, <2>1, <2>3 DEF StepsLeft
<1>9. CASE SpreadParams
  <2>1. pc = "called" /\ pc' = "call" /\ mode' = mode /\ ~spread /\ spread'
    BY <1>9 DEF SpreadParams
  <2>2. ModeLeft' = ModeLeft /\ FormLeft = OfForm /\ FormLeft' = 0
    BY <2>1 DEF ModeLeft, FormLeft
  <2> QED
    BY <1>a, <1>c, <1>d, <1>e, <2>1, <2>2 DEF StepsLeft
<1> QED
  BY <1>1, <1>2, <1>3, <1>4, <1>5, <1>6, <1>7, <1>8, <1>9 DEF Next

(* A request takes no more steps than its weight at the start: the loops   *)
(* that drop one refused key after the other, the second form of the call  *)
(* and the fallback from a stream cannot feed each other.                  *)
THEOREM CallsRunOut ==
  Spec => [](StepsLeft \in Nat) /\ [][RepetitionsRunOut]_vars
<1>1. TypeOK => StepsLeft \in Nat
  <2> SUFFICES ASSUME TypeOK PROVE StepsLeft \in Nat
    OBVIOUS
  <2>1. PICK n \in 0..All : n = Cardinality(kept)
    BY KeptCounted
  <2>2. OfForm \in Nat /\ OfMode \in Nat /\ All \in Nat
    BY WeightsTyped, KeysFinite
  <2>3. FormLeft \in Nat /\ ModeLeft \in Nat
    BY <2>2, WeightsTyped
  <2> QED
    BY <2>1, <2>2, <2>3 DEF StepsLeft
<1>2. TypeOK /\ TypeOK' /\ [Next]_vars => [RepetitionsRunOut]_vars
  BY NextStepsLeft
<1> QED
  BY <1>1, <1>2, TypeCorrect, PTL DEF Spec

=============================================================================
