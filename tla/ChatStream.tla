----------------------------- MODULE ChatStream -----------------------------
(***************************************************************************)
(* Chat requests to one replica of a local vLLM model: the replica's strict*)
(* executor and its OpenAI serving adapter (vllm_strict.py), the best      *)
(* effort executor behind it (vllm_local_best_effort.py), the replica      *)
(* method that translates their exceptions (deployments.py), the streaming *)
(* handle between the processes, and the gateway that primes the stream and*)
(* writes it out as Server-Sent Events (executor.py, serve mode).          *)
(***************************************************************************)
EXTENDS SseFrames, ReplicaModes

CONSTANTS
  Streams,     \* requests with stream = true
  Plains,      \* requests with stream = false
  Models,      \* configurations the replica may be deployed with
  MaxAhead,    \* bound on the chunks a replica produces ahead of the gateway
  MaxCrashes,  \* bound on the deaths of the replica process
  MaxFrames    \* bound on the frames behind which an engine goes back on a text

Requests == Streams \cup Plains

ASSUME ChatStreamAssumption ==
  /\ Streams \cap Plains = {}
  /\ Models \subseteq LegalModels
  /\ MaxAhead \in Nat \ {0}
  /\ MaxCrashes \in Nat
  /\ MaxFrames \in Nat

VARIABLES
  model,     \* the replica's configuration
  engine,    \* the replica's engine, "down" while there is no process
  adapter,   \* openai_serving_chat_adapter is not None
  crashes,   \* deaths of the replica
  gen,       \* which generator of the replica works for a request
  last,      \* the last frame that generator has produced
  chan,      \* chunks produced and not yet consumed by the gateway
  gw,        \* where the gateway's handler of the request is
  sent,      \* sent_role, sent_finish and saw_done of the response iterator
  wire,      \* frames written to the client
  answer,    \* what the client was answered
  past       \* what happened to a request on the replica (history)

replica == <<engine, adapter, crashes>>
source == <<gen, last, past>>
gateway == <<gw, sent, wire, answer>>
vars == <<model, replica, source, chan, gateway>>

-----------------------------------------------------------------------------

(* A chunk: what kind of item it is and the frame it carries or stands for.*)
Raw(frame) == [k |-> "raw", f |-> frame]       \* an SSE string of the adapter
Event(frame) == [k |-> "event", f |-> frame]   \* a chat_delta event
Dict(frame) == [k |-> "dict", f |-> frame]     \* any other dict
Payload(what) == [k |-> "payload", f |-> Mark(what)]
Exc(what) == [k |-> "exc", f |-> Mark(what)]
End == [k |-> "end", f |-> Mark("none")]

Payloads == {"completion", "backend", "error"}
Exceptions == {"rejected", "crashed"}

Chunks ==
  [k : {"raw", "event", "dict"}, f : Frames]
    \cup {Payload(p) : p \in Payloads}
    \cup {Exc(e) : e \in Exceptions}
    \cup {End}

Nothing == Mark("nothing")

Generators == {"adapter", "local", "deltas", "whole"}

Happenings == {"restarted", "revised", "error_payload", "concluded"}

Closed == {"complete", "truncated", "left", "refused"}

TypeOK ==
  /\ model \in Models
  /\ engine \in {"down", "none", "async", "sync"}
  /\ adapter \in BOOLEAN
  /\ crashes \in 0..MaxCrashes
  /\ gen \in [Requests -> Generators \cup {"idle", "queued", "over"}]
  /\ last \in [Requests -> Frames \cup {Nothing}]
  /\ chan \in [Requests -> Seq(Chunks)]
  /\ gw \in [Requests -> Closed \cup {"idle", "priming", "awaiting", "mapping"}]
  /\ sent \in [Requests -> SUBSET {"role", "finish", "done"}]
  /\ wire \in [Requests -> Seq(Frames)]
  /\ answer \in [Requests -> {"none", "sse", "completion", "made_up", "error",
                            "unhandled"}]
  /\ past \in [Requests -> SUBSET Happenings]

Init ==
  /\ model \in Models
  /\ engine \in {"none", "async", "sync"}
  /\ adapter \in BOOLEAN
  /\ Started(model, engine, adapter)
  /\ crashes = 0
  /\ gen = [r \in Requests |-> "idle"]
  /\ last = [r \in Requests |-> Nothing]
  /\ chan = [r \in Requests |-> <<>>]
  /\ gw = [r \in Requests |-> "idle"]
  /\ sent = [r \in Requests |-> {}]
  /\ wire = [r \in Requests |-> <<>>]
  /\ answer = [r \in Requests |-> "none"]
  /\ past = [r \in Requests |-> {}]

-----------------------------------------------------------------------------
(* The replica.                                                            *)

Become(r, g) == gen' = [gen EXCEPT ![r] = g]

Produce(r, chunks) == chan' = [chan EXCEPT ![r] = @ \o chunks]

Said(r, frame) == last' = [last EXCEPT ![r] = frame]

Remember(r, what) == past' = [past EXCEPT ![r] = @ \cup what]

(* The generator of r runs only as far ahead of the gateway as is allowed. *)
Working(r, g) ==
  /\ gen[r] = g
  /\ Len(chan[r]) < MaxAhead

(* The generator ends with these chunks, the last of them End or Exc.      *)
Conclude(r, chunks, what) ==
  /\ Become(r, "over")
  /\ Produce(r, chunks)
  /\ Remember(r, what)
  /\ UNCHANGED <<model, replica, last, gateway>>

(* The client's request reaches the gateway, which calls the replica: it   *)
(* waits for the first chunk of a stream or for the whole of a plain result*)
(* before it answers.                                                      *)
Call(r) ==
  /\ gw[r] = "idle"
  /\ gw' = [gw EXCEPT ![r] = IF r \in Streams THEN "priming" ELSE "awaiting"]
  /\ Become(r, "queued")
  /\ UNCHANGED <<model, replica, last, past, chan, sent, wire, answer>>

(* The replica takes the request: through the adapter if there is one; with*)
(* none, a native model refuses and any other serves it locally.           *)
Dispatch(r) ==
  /\ gen[r] = "queued"
  /\ engine # "down"
  /\ \/ /\ adapter \/ ~model.native
        /\ Become(r, IF adapter THEN "adapter" ELSE "local")
        /\ UNCHANGED <<model, replica, last, past, chan, gateway>>
     \/ /\ ~adapter /\ model.native
        /\ Conclude(r, <<Exc("rejected")>>, {})

(* vLLM's serving objects produce the frames of a legal stream, as text;   *)
(* a failure of the generation they tell as an error among the frames.     *)
AdapterYields(r, frame) ==
  /\ Working(r, "adapter")
  /\ r \in Streams
  /\ IF last[r] = Nothing THEN frame = Role ELSE Follows(last[r], frame)
  /\ Said(r, frame)
  /\ Produce(r, <<Raw(frame)>>)
  /\ Remember(r, IF frame = Done THEN {"concluded"} ELSE {})
  /\ UNCHANGED <<model, replica, gen, gateway>>

AdapterReturns(r) ==
  /\ Working(r, "adapter")
  /\ r \in Streams
  /\ Conclude(r, <<End>>, {"concluded"})

AdapterAnswers(r) ==
  /\ Working(r, "adapter")
  /\ r \in Plains
  /\ Conclude(r, <<Payload("completion")>>, {})

(* vLLM reports a request it cannot serve by returning an ErrorResponse; it*)
(* is normalised to a dict like any other result.                          *)
AdapterReturnsError(r) ==
  /\ Working(r, "adapter")
  /\ last[r] = Nothing
  /\ IF r \in Streams
     THEN Conclude(r, <<Dict(Error), End>>, {"error_payload", "concluded"})
     ELSE Conclude(r, <<Payload("error")>>, {"error_payload"})

(* A variant with a fault: the adapter is given up and nothing takes over. *)
FallBackToNothing(r) ==
  /\ adapter' = FALSE
  /\ Become(r, "none")
  /\ Said(r, Nothing)
  /\ Remember(r, IF last[r] # Nothing THEN {"restarted"} ELSE {})
  /\ UNCHANGED <<model, engine, crashes, chan, gateway>>

(* The best effort executor takes the request over from the adapter, from  *)
(* the beginning, whatever the adapter has produced of it already.         *)
FallBack(r) ==
  /\ adapter' = FALSE
  /\ Become(r, "local")
  /\ Said(r, Nothing)
  /\ Remember(r, IF last[r] # Nothing THEN {"restarted"} ELSE {})
  /\ UNCHANGED <<model, engine, crashes, chan, gateway>>

(* Variants with a fault: the mode is not looked at; the request is tried  *)
(* again with the adapter.                                                 *)
AdapterRaisesAnyMode(r) ==
  /\ Working(r, "adapter")
  /\ FallBack(r)

AdapterRaisesTryingAgain(r) ==
  /\ Working(r, "adapter")
  /\ Become(r, "queued")
  /\ Said(r, Nothing)
  /\ UNCHANGED <<model, replica, past, chan, gateway>>

(* The adapter raises - or vLLM's request model does, over a field of the  *)
(* payload, which is read inside the same try. A native model passes the   *)
(* exception on; any other gives the adapter up, for every request to come,*)
(* and falls back.                                                         *)
AdapterRaises(r) ==
  /\ Working(r, "adapter")
  /\ IF model.native THEN Conclude(r, <<Exc("crashed")>>, {}) ELSE FallBack(r)

(* Sampling parameters, chat kwargs or messages the executor refuses.      *)
LocalRejects(r) ==
  /\ Working(r, "local")
  /\ Conclude(r, <<Exc("rejected")>>, {})

(* A stub, and a plain request, produce the answer as a whole.             *)
LocalBegins(r) ==
  /\ gen[r] = "local"
  /\ Become(r, IF engine = "none" \/ r \in Plains THEN "whole" ELSE "deltas")
  /\ UNCHANGED <<model, replica, last, past, chan, gateway>>

(* The difference between the engine's cumulative text and the one before. *)
DeltaYields(r, hi) ==
  /\ Working(r, "deltas")
  /\ hi \in (last[r].hi + 1)..MaxText
  /\ Said(r, Text(last[r].hi, hi))
  /\ Produce(r, <<Event(Text(last[r].hi, hi))>>)
  /\ UNCHANGED <<model, replica, gen, past, gateway>>

(* A cumulative text that does not extend the one before - cut back to a   *)
(* stop string, changed, or missing from an item without outputs - is a    *)
(* delta as a whole; what it repeats is not known.                         *)
DeltaRevised(r, hi) ==
  /\ Working(r, "deltas")
  /\ last[r].hi > 0
  /\ Len(wire[r]) + Len(chan[r]) <= MaxFrames
  /\ Said(r, Text(0, hi))
  /\ Produce(r, IF hi > 0 THEN <<Event(Text(0, hi))>> ELSE <<>>)
  /\ Remember(r, {"revised"})
  /\ UNCHANGED <<model, replica, gen, gateway>>

(* The engine gives a finish reason, or its stream ends without one.       *)
DeltaEnds(r) ==
  /\ Working(r, "deltas")
  /\ \E chunks \in {<<Event(Finish), End>>, <<End>>} :
       Conclude(r, chunks, {"concluded"})

(* A variant with a fault: the whole answer is also produced behind deltas.*)
DeltaUnsupportedAnyTime(r) ==
  /\ Working(r, "deltas")
  /\ IF engine = "sync"
     THEN /\ Become(r, "whole")
          /\ UNCHANGED <<model, replica, last, past, chan, gateway>>
     ELSE Conclude(r, <<Exc("rejected")>>, {})

(* The engine offers no stream: a synchronous one is asked again for the   *)
(* whole answer, an asynchronous one has no such fallback.                 *)
DeltaUnsupported(r) ==
  /\ Working(r, "deltas")
  /\ last[r] = Nothing
  /\ IF engine = "sync"
     THEN /\ Become(r, "whole")
          /\ UNCHANGED <<model, replica, last, past, chan, gateway>>
     ELSE Conclude(r, <<Exc("rejected")>>, {})

WholeYields(r) ==
  /\ Working(r, "whole")
  /\ IF r \in Plains
     THEN Conclude(r, <<Payload("backend")>>, {})
     ELSE \E text \in {<<>>, <<Event(Text(0, MaxText))>>} :
            Conclude(r, text \o <<Event(Finish), End>>, {"concluded"})

EngineRaises(r) ==
  /\ Working(r, "deltas") \/ Working(r, "whole")
  /\ engine # "none"
  /\ Conclude(r, <<Exc("crashed")>>, {})

(* A variant with a fault: a cancellation is treated like a failure of the *)
(* adapter.                                                                *)
CancelGenGivingUp(r) ==
  /\ gw[r] \in Closed
  /\ gen[r] \in Generators
  /\ Become(r, "over")
  /\ adapter' = (adapter /\ (model.native \/ gen[r] # "adapter"))
  /\ chan' = [chan EXCEPT ![r] = <<>>]
  /\ UNCHANGED <<model, engine, crashes, last, past, gateway>>

(* The generator of a request whose client has left is cancelled: that is  *)
(* no Exception, so no clause of the executors sees it.                    *)
CancelGen(r) ==
  /\ gw[r] \in Closed
  /\ gen[r] \in Generators
  /\ Become(r, "over")
  /\ chan' = [chan EXCEPT ![r] = <<>>]
  /\ UNCHANGED <<model, replica, last, past, gateway>>

(* The replica process dies with everything it is working on; the handle   *)
(* raises where the next chunk would be.                                   *)
ReplicaDies ==
  /\ engine # "down"
  /\ crashes < MaxCrashes
  /\ crashes' = crashes + 1
  /\ engine' = "down"
  /\ adapter' = FALSE
  /\ LET lost == {r \in Requests : gen[r] \in Generators} IN
     /\ gen' = [r \in Requests |-> IF r \in lost THEN "over" ELSE gen[r]]
     /\ chan' = [r \in Requests |->
                   IF r \in lost THEN Append(chan[r], Exc("crashed")) ELSE chan[r]]
  /\ UNCHANGED <<model, last, past, gateway>>

(* Serve starts another one, which may find another engine than the last.  *)
ReplicaStarts(e, a) ==
  /\ engine = "down"
  /\ Started(model, e, a)
  /\ engine' = e
  /\ adapter' = a
  /\ UNCHANGED <<model, crashes, source, chan, gateway>>

-----------------------------------------------------------------------------
(* The gateway.                                                            *)

Arrived(r, state) == gw[r] = state /\ chan[r] # <<>>

Reply(r, state, what) ==
  /\ gw' = [gw EXCEPT ![r] = state]
  /\ answer' = [answer EXCEPT ![r] = what]
  /\ UNCHANGED <<model, replica, source, sent, wire>>

(* A variant with a fault: the response is begun before the stream is      *)
(* asked for its first chunk.                                              *)
PrimeBlindly(r) ==
  /\ gw[r] = "priming"
  /\ Reply(r, "mapping", "sse")
  /\ UNCHANGED chan

(* The first chunk decides the answer: an exception in its place becomes a *)
(* JSON error, if it is one the replica translated; anything else opens the*)
(* event stream, and is replayed into it.                                  *)
Prime(r) ==
  /\ Arrived(r, "priming")
  /\ IF Head(chan[r]).k = "exc"
     THEN Reply(r, "refused", IF Head(chan[r]) = Exc("rejected") THEN "error" ELSE "unhandled")
     ELSE Reply(r, "mapping", "sse")
  /\ UNCHANGED chan

(* The result of a plain request: a chat.completion goes out as it is; the *)
(* fields a payload does not have are made up, content included.           *)
Await(r) ==
  /\ Arrived(r, "awaiting")
  /\ LET got == Head(chan[r]) IN
       IF got.k = "exc" THEN Reply(r, "refused", "error")
       ELSE Reply(r, "complete", IF got = Payload("error") THEN "made_up" ELSE "completion")
  /\ UNCHANGED chan

Passthrough == model.native

(* What the iterator writes for a chunk that is not the end of the stream, *)
(* and what it then holds to be sent. In passthrough mode an event would go*)
(* out as it is.                                                           *)
Mapped(r, c) == c.k = "event" /\ ~Passthrough

Written(r, c) ==
  IF c.k = "event" /\ Passthrough THEN <<Internal>>
  ELSE (IF Mapped(r, c) /\ "role" \notin sent[r] THEN <<Role>> ELSE <<>>)
         \o <<c.f>> \o (IF Mapped(r, c) /\ c.f = Finish THEN <<Done>> ELSE <<>>)

NowSent(r, c) ==
  sent[r] \cup (IF Mapped(r, c) THEN {"role"} ELSE {})
          \cup (IF Mapped(r, c) /\ c.f = Finish THEN {"finish", "done"} ELSE {})
          \cup (IF c = Raw(Done) THEN {"done"} ELSE {})

(* A variant with a fault: a [DONE] among the chunks is not noticed.       *)
TrailerAlways(r) ==
  IF "role" \in sent[r] /\ "finish" \notin sent[r] THEN <<Finish, Done>> ELSE <<Done>>

(* What it adds behind a stream that ended and did not say [DONE]: a finish*)
(* if events were mapped and none had a reason.                            *)
Trailer(r) ==
  IF "done" \in sent[r] THEN <<>>
  ELSE IF "role" \in sent[r] /\ "finish" \notin sent[r] THEN <<Finish, Done>>
  ELSE <<Done>>

Write(r, state, frames) ==
  /\ gw' = [gw EXCEPT ![r] = state]
  /\ wire' = [wire EXCEPT ![r] = @ \o frames]
  /\ chan' = [chan EXCEPT ![r] = Tail(@)]
  /\ UNCHANGED <<model, replica, source, answer>>

(* A variant with a fault: the stream is closed in a finally clause.       *)
ForwardClosingAlways(r) ==
  /\ Arrived(r, "mapping")
  /\ LET c == Head(chan[r]) IN
       \/ /\ c.k \notin {"exc", "end"}
          /\ Write(r, "mapping", Written(r, c))
          /\ sent' = [sent EXCEPT ![r] = NowSent(r, c)]
       \/ /\ c.k \in {"exc", "end"}
          /\ Write(r, IF c.k = "exc" THEN "truncated" ELSE "complete", Trailer(r))
          /\ UNCHANGED sent

(* One chunk of an open stream. An exception, caught and logged, ends the  *)
(* stream as it is: the client is not sent a [DONE].                       *)
Forward(r) ==
  /\ Arrived(r, "mapping")
  /\ LET c == Head(chan[r]) IN
       \/ /\ c.k \notin {"exc", "end"}
          /\ Write(r, "mapping", Written(r, c))
          /\ sent' = [sent EXCEPT ![r] = NowSent(r, c)]
       \/ /\ c.k = "end"
          /\ Write(r, "complete", Trailer(r))
          /\ UNCHANGED sent
       \/ /\ c.k = "exc"
          /\ Write(r, "truncated", <<>>)
          /\ UNCHANGED sent

(* The server sees that the client has left and drops the iterator.        *)
Disconnect(r) ==
  /\ gw[r] = "mapping"
  /\ gw' = [gw EXCEPT ![r] = "left"]
  /\ UNCHANGED <<model, replica, source, chan, sent, wire, answer>>

-----------------------------------------------------------------------------

Adapt(r) ==
  \/ \E frame \in Frames : AdapterYields(r, frame)
  \/ AdapterReturns(r) \/ AdapterAnswers(r) \/ AdapterReturnsError(r) \/ AdapterRaises(r)

Generate(r) ==
  \/ LocalRejects(r) \/ LocalBegins(r)
  \/ \E hi \in 1..MaxText : DeltaYields(r, hi)
  \/ \E hi \in 0..MaxText : DeltaRevised(r, hi)
  \/ DeltaEnds(r) \/ DeltaUnsupported(r) \/ WholeYields(r) \/ EngineRaises(r)

Gateway(r) == Prime(r) \/ Await(r) \/ Forward(r)

Next ==
  \/ \E r \in Requests :
       Call(r) \/ Dispatch(r) \/ Adapt(r) \/ Generate(r) \/ CancelGen(r)
         \/ Gateway(r) \/ Disconnect(r)
  \/ ReplicaDies
  \/ \E e \in {"none", "async", "sync"}, a \in BOOLEAN : ReplicaStarts(e, a)

Spec == Init /\ [][Next]_vars

(* Serve replaces a dead replica and hands it the requests that wait, vLLM *)
(* produces, ends or fails, and the gateway's event loop runs its tasks.   *)
(* Nothing makes a client leave, a request come or a replica die.          *)
Fairness ==
  /\ WF_vars(\E e \in {"none", "async", "sync"}, a \in BOOLEAN : ReplicaStarts(e, a))
  /\ \A r \in Requests :
       /\ WF_vars(Dispatch(r))
       /\ WF_vars(Adapt(r) \/ Generate(r))
       /\ WF_vars(CancelGen(r))
       /\ WF_vars(Gateway(r))

FairSpec == Spec /\ Fairness

-----------------------------------------------------------------------------

(* The answer of r was told again, in whole or in part: the best effort    *)
(* executor took it over in the middle, or its engine went back on a text. *)
Retold(r) == past[r] \cap {"restarted", "revised"} # {}

(* A client is sent a legal stream, whatever mixture of raw frames, events,*)
(* errors, crashes and departures it comes from, as long as its answer was *)
(* not told again: role, text without a gap or a repetition, finish,       *)
(* [DONE], each in its place and at most once.                             *)
LegalUnlessRetold == \A r \in Streams : Legal(wire[r]) \/ Retold(r)

(* A native model is never served by the best effort executor: no request  *)
(* of it runs there, none of its chunks is an internal event, and while the*)
(* replica of a real one is up, so is its adapter.                         *)
NativeNeverLocal ==
  model.native =>
    /\ \A r \in Requests : gen[r] \notin {"local", "deltas", "whole"}
    /\ \A r \in Requests : \A i \in 1..Len(chan[r]) : chan[r][i].k # "event"
    /\ model.real /\ engine # "down" => adapter

(* [DONE] is only ever told of an answer some generator brought to its end:*)
(* a stream cut off by an exception is not passed off as a complete one.   *)
DoneOnlyIfConcluded ==
  \A r \in Streams : Has(wire[r], Done) => "concluded" \in past[r]

(* An exception before the first chunk is answered with a status and a     *)
(* body, never with an event stream that breaks off before it says a word. *)
EarlyErrorIsNotAStream ==
  \A r \in Streams : gw[r] = "truncated" => wire[r] # <<>>

(* Requests share the adapter, and lose it only because one of them was    *)
(* failed by it in best effort mode or because the process died - never    *)
(* because a client left, nor because an answer of the best effort executor*)
(* was rejected or failed. To be failed by the adapter a request need not  *)
(* meet a defect: a field its request model does not take is enough.       *)
AdapterLostOnlyByFailure ==
  [][adapter /\ ~adapter' =>
       \/ engine' = "down"
       \/ ~model.native /\ \E r \in Requests : gen[r] = "adapter" /\ gen'[r] = "local"]_vars

(* Every call is answered and every answer comes to an end, through the    *)
(* fallbacks, the death of the replica and the client's departure.         *)
EveryCallEnds == \A r \in Requests : (gw[r] # "idle") ~> (gw[r] \in Closed)

(* What the stream promises its client (SseStream), by the state of the    *)
(* gateway's handler.                                                      *)
Promise == INSTANCE SseStream WITH
  Requests <- Streams,
  wire <- [r \in Streams |-> wire[r]],
  again <- [r \in Streams |-> Retold(r)],
  phase <- [r \in Streams |->
    CASE gw[r] \in {"idle", "priming"} -> "waiting"
      [] gw[r] = "refused" -> "refused"
      [] gw[r] = "mapping" -> "open"
      [] gw[r] = "complete" -> "closed"
      [] OTHER -> "cut"]

KeepsPromise == Promise!Spec

(* The docstring of the mapped iterator: it keeps role, delta and finish in*)
(* order. No exception is made for an adapter that fails in the middle.    *)
StreamOrderKept == \A r \in Streams : Legal(wire[r])

(* ARCHITECTURE.md: with vllm_native, failures of the adapter are surfaced.*)
(* Then no plain request the adapter answered with an error is told an     *)
(* answer the gateway made up.                                             *)
NativeErrorSurfaced ==
  \A r \in Plains :
    model.native /\ "error_payload" \in past[r] => answer[r] # "made_up"

=============================================================================
