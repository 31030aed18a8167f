-------------------------- MODULE ChatStreamProofs --------------------------
(***************************************************************************)
(* What ChatStream promises for any number of requests, any length of text,*)
(* any chunks ahead and any number of crashes.                             *)
(***************************************************************************)
EXTENDS ChatStream, SequenceTheorems, TLAPS

USE ChatStreamAssumption, MaxTextAssumption DEF Happenings

(***************************************************************************)
(* The inductive invariant. The properties speak of what was sent and of   *)
(* what became of a request; between a cause on the replica and its effect *)
(* on the client lies the channel, so the invariant speaks of what is in   *)
(* the channel.                                                            *)
(***************************************************************************)

(* Chunks that make the gateway say [DONE].                                *)
Ends(c) == c.k = "end" \/ c.f = Done \/ (c.k = "event" /\ c.f = Finish)

(* What may be under way for r: results to plain requests only, events only*)
(* from a model that is not native, an end only if a generator came to it. *)
Allowed(r) ==
  {c \in Chunks :
     /\ r \in Streams => c.k # "payload"
     /\ model.native => c.k # "event"
     /\ Ends(c) => "concluded" \in past[r]}

ChanInv == \A r \in Requests : chan[r] \in Seq(Allowed(r))

ModeInv == \A r \in Requests : gw[r] \in {"priming", "mapping"} => r \in Streams

NativeInv ==
  model.native =>
    /\ \A r \in Requests : gen[r] \notin {"local", "deltas", "whole"}
    /\ model.real /\ engine # "down" => adapter

DoneInv == \A r \in Requests : Has(wire[r], Done) => "concluded" \in past[r]

(* A stream that is open and has sent nothing has a first chunk to send.   *)
EarlyInv ==
  \A r \in Requests :
    /\ gw[r] = "mapping" /\ wire[r] = <<>> => chan[r] # <<>> /\ Head(chan[r]).k # "exc"
    /\ gw[r] = "truncated" => wire[r] # <<>>

IInv == TypeOK /\ ChanInv /\ ModeInv /\ NativeInv /\ DoneInv /\ EarlyInv

(* The frames and chunks the actions name are frames and chunks.           *)
LEMMA FrameTypes ==
  /\ {Role, Finish, Done, Error, Internal} \subseteq Frames
  /\ \A lo, hi \in 0..MaxText : Text(lo, hi) \in Frames
BY DEF Frames

(* Every way to build a chunk gives a chunk.                               *)
LEMMA ChunkTypes ==
  /\ \A f \in Frames : {Raw(f), Event(f), Dict(f)} \subseteq Chunks
  /\ \A p \in Payloads : Payload(p) \in Chunks
  /\ \A e \in Exceptions : Exc(e) \in Chunks
  /\ End \in Chunks
BY DEF Chunks, Raw, Event, Dict

(* Chunks of the kinds a stream is made of carry a frame.                  *)
LEMMA ChunkFrames ==
  ASSUME NEW c \in Chunks, c.k \notin {"exc", "end", "payload"}
  PROVE  c.f \in Frames
BY DEF Chunks, Payload, Exc, End

(* What the iterator writes for a chunk is something, made of frames, and  *)
(* says [DONE] only for a chunk that ends the answer.                      *)
WrittenIsWell(r, c) ==
  /\ Written(r, c) \in Seq(Frames)
  /\ Written(r, c) # <<>>
  /\ Has(Written(r, c), Done) => Ends(c)

(* A frame is in a concatenation if it is in one of its parts.             *)
LEMMA HasConcat ==
  ASSUME NEW s \in Seq(Frames), NEW t \in Seq(Frames), NEW f
  PROVE  Has(s \o t, f) => Has(s, f) \/ Has(t, f)
<1> SUFFICES ASSUME NEW i \in 1..Len(s \o t), (s \o t)[i] = f
             PROVE  Has(s, f) \/ Has(t, f)
  BY DEF Has
<1>1. Len(s) \in Nat /\ Len(t) \in Nat /\ Len(s \o t) = Len(s) + Len(t)
  BY LenProperties, ConcatProperties
<1>2. CASE i <= Len(s)
  <2>1. i \in 1..Len(s) /\ s[i] = f BY <1>1, <1>2, ConcatProperties
  <2> QED BY <2>1 DEF Has
<1>3. CASE ~(i <= Len(s))
  <2>1. i - Len(s) \in 1..Len(t) /\ t[i - Len(s)] = f BY <1>1, <1>3, ConcatProperties
  <2> QED BY <2>1 DEF Has
<1> QED BY <1>2, <1>3

(* Sequences of one and of two elements of a set are sequences over it.    *)
LEMMA SeqUpToTwo ==
  ASSUME NEW S
  PROVE  /\ <<>> \in Seq(S)
         /\ \A a \in S : <<a>> \in Seq(S)
         /\ \A a, b \in S : <<a, b>> \in Seq(S)
BY SMT

(* What the iterator adds at the end is frames.                            *)
LEMMA TrailerFrames == ASSUME NEW r \in Requests PROVE Trailer(r) \in Seq(Frames)
BY FrameTypes, SeqUpToTwo DEF Trailer

(* What it writes for a chunk is frames.                                   *)
LEMMA WrittenFrames ==
  ASSUME NEW r \in Requests, NEW c, c.f \in Frames
  PROVE  WrittenIsWell(r, c)
<1> DEFINE before == IF Mapped(r, c) /\ "role" \notin sent[r] THEN <<Role>> ELSE <<>>
           after == IF Mapped(r, c) /\ c.f = Finish THEN <<Done>> ELSE <<>>
<1>1. /\ before \in Seq(Frames) /\ after \in Seq(Frames)
      /\ <<c.f>> \in Seq(Frames) /\ <<Internal>> \in Seq(Frames)
  BY FrameTypes, SeqUpToTwo
<1>2. Role # Done /\ Internal # Done
  BY SMT DEF Role, Internal, Done, Mark
<1>3. \A f : Has(<<>>, f) = FALSE /\ \A g : Has(<<g>>, f) => f = g
  BY SMT DEF Has
<1>4. ~Has(before, Done) /\ (Has(after, Done) => Ends(c))
  <2>1. ~Has(before, Done) BY <1>2, <1>3
  <2>2. after # <<>> => Ends(c) BY DEF Mapped, Ends
  <2> QED BY <1>3, <2>1, <2>2
<1>5. Has(<<c.f>>, Done) => Ends(c)
  BY <1>3 DEF Ends
<1> HIDE DEF before, after
<1>6. CASE c.k = "event" /\ Passthrough
  BY <1>1, <1>2, <1>3, <1>6 DEF Written, WrittenIsWell
<1>7. CASE ~(c.k = "event" /\ Passthrough)
  <2>1. Written(r, c) = before \o <<c.f>> \o after BY <1>7 DEF Written, before, after
  <2>2. before \o <<c.f>> \in Seq(Frames) BY <1>1, ConcatProperties
  <2>3. Written(r, c) \in Seq(Frames) BY <1>1, <2>1, <2>2, ConcatProperties
  <2>4. Has(Written(r, c), Done) => Ends(c) BY <1>1, <1>4, <1>5, <2>1, <2>2, HasConcat
  <2>5. Written(r, c) # <<>>
    BY <1>1, <2>1, <2>2, ConcatEqualIffEmpty, SMT
  <2> QED BY <2>3, <2>4, <2>5 DEF WrittenIsWell
<1> QED BY <1>6, <1>7

(* The way a generator ends keeps the types.                               *)
LEMMA ConcludeType ==
  ASSUME TypeOK, NEW r \in Requests, NEW chunks \in Seq(Chunks),
         NEW what \in SUBSET Happenings,
         Conclude(r, chunks, what)
  PROVE  TypeOK'
<1>1. gen' \in [Requests -> Generators \cup {"idle", "queued", "over"}]
  BY DEF Conclude, Become, TypeOK
<1>2. chan' \in [Requests -> Seq(Chunks)]
  <2>1. chan[r] \o chunks \in Seq(Chunks)
    BY ConcatProperties DEF TypeOK
  <2> QED BY <2>1 DEF Conclude, Produce, TypeOK
<1>3. past' \in [Requests -> SUBSET Happenings]
  BY DEF Conclude, Remember, TypeOK
<1> QED
  BY <1>1, <1>2, <1>3 DEF Conclude, TypeOK, replica, gateway

(* The same for a generator that ends with a single chunk.                 *)
LEMMA ConcludeOne ==
  ASSUME TypeOK, NEW r \in Requests, NEW c \in Chunks,
         NEW what \in SUBSET Happenings,
         Conclude(r, <<c>>, what)
  PROVE  TypeOK'
<1>1. <<c>> \in Seq(Chunks) BY SMT
<1> QED BY <1>1, ConcludeType

(* The initial states are of the types.                                    *)
LEMMA InitType == Init => TypeOK
BY SMT DEF Init, TypeOK

(* Every step keeps the types; it needs to know what is in the channels.   *)
LEMMA NextType == TypeOK /\ ChanInv /\ ModeInv /\ [Next]_vars => TypeOK'
<1> SUFFICES ASSUME TypeOK, ChanInv, ModeInv, [Next]_vars PROVE TypeOK'
  OBVIOUS
<1> USE FrameTypes, ChunkTypes DEF Payloads, Exceptions
<1>1. ASSUME NEW r \in Requests, Call(r) PROVE TypeOK'
  BY <1>1 DEF Call, Become, TypeOK, replica
<1>2. ASSUME NEW r \in Requests, Dispatch(r) PROVE TypeOK'
  <2>1. CASE Conclude(r, <<Exc("rejected")>>, {}) BY <2>1, ConcludeOne
  <2>2. CASE ~Conclude(r, <<Exc("rejected")>>, {})
    BY <1>2, <2>2 DEF Dispatch, Become, TypeOK, replica, gateway, Generators
  <2> QED BY <2>1, <2>2
<1>3. ASSUME NEW r \in Requests, Adapt(r) PROVE TypeOK'
  <2>1. ASSUME NEW frame \in Frames, AdapterYields(r, frame) PROVE TypeOK'
    <3>1. <<Raw(frame)>> \in Seq(Chunks) BY SMT
    <3>2. chan[r] \o <<Raw(frame)>> \in Seq(Chunks) BY <3>1, ConcatProperties DEF TypeOK
    <3> QED
      BY <2>1, <3>2 DEF AdapterYields, Said, Produce, Remember, TypeOK, replica, gateway
  <2>2. CASE AdapterReturns(r)
    BY <2>2, ConcludeOne DEF AdapterReturns
  <2>3. CASE AdapterAnswers(r)
    BY <2>3, ConcludeOne DEF AdapterAnswers
  <2>4. CASE AdapterReturnsError(r)
    <3>1. <<Dict(Error), End>> \in Seq(Chunks) BY SMT
    <3>2. CASE r \in Streams
      BY <2>4, <3>1, <3>2, ConcludeType DEF AdapterReturnsError
    <3>3. CASE r \notin Streams
      BY <2>4, <3>3, ConcludeOne DEF AdapterReturnsError
    <3> QED BY <3>2, <3>3
  <2>5. CASE AdapterRaises(r)
    <3>1. CASE model.native
      BY <2>5, <3>1, ConcludeOne DEF AdapterRaises
    <3>2. CASE ~model.native
      <4>1. FallBack(r) BY <2>5, <3>2 DEF AdapterRaises
      <4>2. past' \in [Requests -> SUBSET Happenings]
        <5>1. CASE last[r] # Nothing
          BY <4>1, <5>1 DEF FallBack, Remember, TypeOK
        <5>2. CASE last[r] = Nothing
          BY <4>1, <5>2 DEF FallBack, Remember, TypeOK
        <5> QED BY <5>1, <5>2
      <4>3. /\ gen' \in [Requests -> Generators \cup {"idle", "queued", "over"}]
            /\ last' \in [Requests -> Frames \cup {Nothing}]
        BY <4>1 DEF FallBack, Become, Said, TypeOK, Generators
      <4> QED BY <4>1, <4>2, <4>3 DEF FallBack, TypeOK, gateway
    <3> QED BY <3>1, <3>2
  <2> QED BY <1>3, <2>1, <2>2, <2>3, <2>4, <2>5 DEF Adapt
<1>4. ASSUME NEW r \in Requests, Generate(r) PROVE TypeOK'
  <2>1. CASE LocalRejects(r)
    BY <2>1, ConcludeOne DEF LocalRejects
  <2>2. CASE LocalBegins(r)
    BY <2>2 DEF LocalBegins, Become, TypeOK, replica, gateway, Generators
  <2>3. ASSUME NEW hi \in 1..MaxText, DeltaYields(r, hi) PROVE TypeOK'
    <3> DEFINE t == Text(last[r].hi, hi)
    <3>1. last[r].hi \in 0..MaxText
      <4>1. last[r] \in Frames \cup {Nothing} BY DEF TypeOK
      <4>2. CASE last[r] \in Frames
        BY <4>2, SMT DEF Frames, Role, Finish, Done, Error, Internal, Text, Mark
      <4>3. CASE last[r] = Nothing BY <4>3, SMT DEF Nothing, Mark
      <4> QED BY <4>1, <4>2, <4>3
    <3>2. hi \in 0..MaxText BY SMT
    <3>3. t \in Frames /\ Event(t) \in Chunks BY <3>1, <3>2
    <3>4. \A d \in Chunks : <<d>> \in Seq(Chunks) BY SMT
    <3>5. <<Event(t)>> \in Seq(Chunks) BY <3>3, <3>4
    <3>6. chan[r] \o <<Event(t)>> \in Seq(Chunks) BY <3>5, ConcatProperties DEF TypeOK
    <3> HIDE DEF t
    <3>7. Said(r, t) /\ Produce(r, <<Event(t)>>) BY <2>3 DEF DeltaYields, t
    <3> QED
      BY <2>3, <3>3, <3>6, <3>7 DEF DeltaYields, Said, Produce, TypeOK, replica, gateway
  <2>4. CASE DeltaEnds(r)
    <3>1. <<Event(Finish), End>> \in Seq(Chunks) /\ <<End>> \in Seq(Chunks) BY SMT
    <3> QED BY <2>4, <3>1, ConcludeType DEF DeltaEnds
  <2>5. CASE DeltaUnsupported(r)
    <3>1. CASE engine = "sync"
      BY <2>5, <3>1 DEF DeltaUnsupported, Become, TypeOK, replica, gateway, Generators
    <3>2. CASE engine # "sync"
      BY <2>5, <3>2, ConcludeOne DEF DeltaUnsupported
    <3> QED BY <3>1, <3>2
  <2>6. CASE WholeYields(r)
    <3>1. CASE r \in Plains
      BY <2>6, <3>1, ConcludeOne DEF WholeYields
    <3>2. CASE r \notin Plains
      <4>1. PICK text \in {<<>>, <<Event(Text(0, MaxText))>>} :
              Conclude(r, text \o <<Event(Finish), End>>, {"concluded"})
        BY <2>6, <3>2 DEF WholeYields
      <4>2. Text(0, MaxText) \in Frames BY MaxTextAssumption
      <4>3. text \in Seq(Chunks) /\ <<Event(Finish), End>> \in Seq(Chunks)
        <5>1. Event(Text(0, MaxText)) \in Chunks BY <4>2
        <5>2. \A c \in Chunks : <<c>> \in Seq(Chunks) BY SMT
        <5>3. <<>> \in Seq(Chunks) BY SMT
        <5>4. \A c, d \in Chunks : <<c, d>> \in Seq(Chunks) BY SMT
        <5> QED BY <4>1, <5>1, <5>2, <5>3, <5>4
      <4>4. text \o <<Event(Finish), End>> \in Seq(Chunks) BY <4>3, ConcatProperties
      <4> QED BY <4>1, <4>4, ConcludeType
    <3> QED BY <3>1, <3>2
  <2>7. CASE EngineRaises(r)
    BY <2>7, ConcludeOne DEF EngineRaises
  <2>8. ASSUME NEW hi \in 0..MaxText, DeltaRevised(r, hi) PROVE TypeOK'
    <3> DEFINE t == Text(0, hi)
               new == IF hi > 0 THEN <<Event(t)>> ELSE <<>>
    <3>1. t \in Frames /\ Event(t) \in Chunks BY SMT
    <3>2. new \in Seq(Chunks) BY <3>1, SeqUpToTwo
    <3>3. chan[r] \o new \in Seq(Chunks) BY <3>2, ConcatProperties DEF TypeOK
    <3>4. Said(r, t) /\ Produce(r, new) /\ Remember(r, {"revised"})
      BY <2>8 DEF DeltaRevised
    <3> HIDE DEF t, new
    <3>5. past' \in [Requests -> SUBSET Happenings]
      BY <3>4 DEF Remember, TypeOK
    <3>6. UNCHANGED <<model, replica, gen, gateway>> BY <2>8 DEF DeltaRevised
    <3>7. chan' \in [Requests -> Seq(Chunks)] BY <3>3, <3>4 DEF Produce, TypeOK
    <3>8. last' \in [Requests -> Frames \cup {Nothing}] BY <3>1, <3>4 DEF Said, TypeOK
    <3> QED BY <3>5, <3>6, <3>7, <3>8 DEF TypeOK, replica, gateway
  <2> QED BY <1>4, <2>1, <2>2, <2>3, <2>4, <2>5, <2>6, <2>7, <2>8 DEF Generate
<1>5. ASSUME NEW r \in Requests, CancelGen(r) PROVE TypeOK'
  BY <1>5 DEF CancelGen, Become, TypeOK, replica, gateway
<1>6. CASE ReplicaDies
  <2>1. \A r \in Requests : Append(chan[r], Exc("crashed")) \in Seq(Chunks)
    BY AppendProperties DEF TypeOK
  <2>2. chan' \in [Requests -> Seq(Chunks)] BY <1>6, <2>1 DEF ReplicaDies, TypeOK
  <2>3. crashes' \in 0..MaxCrashes BY <1>6 DEF ReplicaDies, TypeOK
  <2> QED BY <1>6, <2>2, <2>3 DEF ReplicaDies, TypeOK, gateway
<1>7. ASSUME NEW e \in {"none", "async", "sync"}, NEW a \in BOOLEAN, ReplicaStarts(e, a)
      PROVE  TypeOK'
  BY <1>7 DEF ReplicaStarts, TypeOK, source, gateway
<1>8. ASSUME NEW r \in Requests, Prime(r) \/ Await(r) PROVE TypeOK'
  BY <1>8 DEF Prime, Await, Reply, TypeOK, replica, source, Closed
<1>9. ASSUME NEW r \in Requests, Forward(r) PROVE TypeOK'
  <2> DEFINE c == Head(chan[r])
  <2>1. c \in Chunks /\ Tail(chan[r]) \in Seq(Chunks)
    BY <1>9, HeadTailProperties DEF Forward, Arrived, TypeOK
  <2>2. ASSUME NEW state \in Closed \cup {"mapping"}, NEW frames \in Seq(Frames),
               Write(r, state, frames), sent' \in [Requests -> SUBSET {"role", "finish", "done"}]
        PROVE  TypeOK'
    <3>1. wire[r] \o frames \in Seq(Frames) BY ConcatProperties DEF TypeOK
    <3> QED BY <2>1, <2>2, <3>1 DEF Write, TypeOK, replica, source, Closed
  <2>3. Trailer(r) \in Seq(Frames) BY TrailerFrames
  <2>4. CASE /\ c.k \notin {"exc", "end"}
             /\ Write(r, "mapping", Written(r, c))
             /\ sent' = [sent EXCEPT ![r] = NowSent(r, c)]
    <3>1. c.f \in Frames
      <4>1. c.k # "payload"
        <5>1. chan[r] \in Seq(Allowed(r)) /\ chan[r] # <<>> /\ r \in Streams
          BY <1>9 DEF Forward, Arrived, ChanInv, ModeInv
        <5>2. c \in Allowed(r) BY <5>1, HeadTailProperties
        <5> QED BY <5>1, <5>2 DEF Allowed
      <4> QED BY <2>1, <2>4, <4>1, ChunkFrames
    <3>2. Written(r, c) \in Seq(Frames) BY <3>1, WrittenFrames DEF WrittenIsWell
    <3>3. NowSent(r, c) \in SUBSET {"role", "finish", "done"}
      BY DEF NowSent, TypeOK
    <3>4. sent' \in [Requests -> SUBSET {"role", "finish", "done"}]
      BY <2>4, <3>3 DEF TypeOK
    <3> QED BY <2>2, <2>4, <3>2, <3>4
  <2>5. CASE c.k = "end" /\ Write(r, "complete", Trailer(r)) /\ UNCHANGED sent
    BY <2>2, <2>3, <2>5 DEF TypeOK, Closed
  <2>6. CASE c.k = "exc" /\ Write(r, "truncated", <<>>) /\ UNCHANGED sent
    <3>1. <<>> \in Seq(Frames) BY SMT
    <3> QED BY <2>2, <2>6, <3>1 DEF TypeOK, Closed
  <2> QED BY <1>9, <2>4, <2>5, <2>6 DEF Forward
<1>10. ASSUME NEW r \in Requests, Disconnect(r) PROVE TypeOK'
  BY <1>10 DEF Disconnect, TypeOK, replica, source, Closed
<1>11. CASE UNCHANGED vars
  BY <1>11 DEF vars, TypeOK, replica, source, gateway
<1> QED
  BY <1>1, <1>2, <1>3, <1>4, <1>5, <1>6, <1>7, <1>8, <1>9, <1>10, <1>11 DEF Next, Gateway

-----------------------------------------------------------------------------

(* What is put into the channel keeps the rest of the invariant, if every  *)
(* chunk of it is allowed and nothing is forgotten.                        *)
LEMMA Produced ==
  ASSUME TypeOK, TypeOK', ChanInv, ModeInv, DoneInv, EarlyInv,
         NEW r \in Requests, NEW chunks \in Seq(Allowed(r)'),
         chan' = [chan EXCEPT ![r] = @ \o chunks],
         UNCHANGED <<model, gw, wire>>,
         \A x \in Requests : past[x] \subseteq past'[x]
  PROVE  (ChanInv /\ ModeInv /\ DoneInv /\ EarlyInv)'
<1>1. \A x \in Requests : Allowed(x) \subseteq Allowed(x)'
  BY DEF Allowed
<1>2. \A x \in Requests : chan[x] \in Seq(Allowed(x)')
  BY <1>1, SeqMonotonic DEF ChanInv
<1>3. chan[r] \o chunks \in Seq(Allowed(r)')
  BY <1>2, ConcatProperties
<1>4. ChanInv'
  BY <1>2, <1>3 DEF ChanInv, TypeOK
<1>5. EarlyInv'
  <2> SUFFICES ASSUME NEW x \in Requests, gw[x] = "mapping", wire[x] = <<>>
               PROVE  chan'[x] # <<>> /\ Head(chan'[x]).k # "exc"
    BY DEF EarlyInv
  <2>1. chan[x] # <<>> /\ Head(chan[x]).k # "exc" BY DEF EarlyInv
  <2>2. CASE x # r BY <2>1, <2>2 DEF TypeOK
  <2>3. CASE x = r
    <3>1. chan'[r] = chan[r] \o chunks BY DEF TypeOK
    <3>2. chan[r] \in Seq(Allowed(r)') BY <1>2
    <3>3. Len(chan[r]) > 0 BY <2>1, <2>3, <3>2, EmptySeq, LenProperties
    <3>4. Len(chan[r] \o chunks) > 0 /\ (chan[r] \o chunks)[1] = chan[r][1]
      BY <3>2, <3>3, ConcatProperties, LenProperties
    <3>5. chan[r] \o chunks # <<>> BY <1>3, <3>4, EmptySeq
    <3>6. Head(chan[r] \o chunks) = Head(chan[r])
      BY <3>2, <3>4, <3>5, <1>3, <2>1, <2>3, HeadTailProperties
    <3> QED BY <2>1, <2>3, <3>1, <3>5, <3>6
  <2> QED BY <2>2, <2>3
<1>6. ModeInv' /\ DoneInv'
  BY DEF ModeInv, DoneInv
<1> QED BY <1>4, <1>5, <1>6

(* The same for chunks a generator ends with.                              *)
LEMMA Concluded ==
  ASSUME TypeOK, TypeOK', ChanInv, ModeInv, NativeInv, DoneInv, EarlyInv,
         NEW r \in Requests, NEW chunks,
         NEW what \in SUBSET Happenings,
         Conclude(r, chunks, what),
         chunks \in Seq(Allowed(r)')
  PROVE  IInv'
<1>1. \A x \in Requests : past[x] \subseteq past'[x]
  BY DEF Conclude, Remember, TypeOK
<1>2. (ChanInv /\ ModeInv /\ DoneInv /\ EarlyInv)'
  <2>1. UNCHANGED <<model, gw, wire>> /\ chan' = [chan EXCEPT ![r] = @ \o chunks]
    BY DEF Conclude, Produce, gateway
  <2> QED BY <1>1, <2>1, Produced
<1>3. NativeInv'
  BY DEF Conclude, Become, NativeInv, TypeOK, replica
<1> QED BY <1>2, <1>3 DEF IInv

(* Every exception is allowed, and so is an end that is remembered.        *)
LEMMA AllowedChunks ==
  ASSUME NEW r \in Requests
  PROVE  /\ \A e \in Exceptions : Exc(e) \in Allowed(r)'
         /\ \A p \in Payloads : r \notin Streams => Payload(p) \in Allowed(r)'
         /\ "concluded" \in past'[r] => End \in Allowed(r)' /\ Dict(Error) \in Allowed(r)'
         /\ \A f \in Frames :
              (f = Done => "concluded" \in past'[r]) => Raw(f) \in Allowed(r)'
         /\ \A f \in Frames :
              ~model'.native /\ (f \in {Done, Finish} => "concluded" \in past'[r])
                => Event(f) \in Allowed(r)'
<1> USE ChunkTypes, FrameTypes
<1>1. \A e \in Exceptions : Exc(e) \in Allowed(r)'
  BY SMT DEF Exceptions, Exc, Allowed, Ends, Event, Finish, Done, Mark
<1>2. \A p \in Payloads : r \notin Streams => Payload(p) \in Allowed(r)'
  BY SMT DEF Payloads, Payload, Allowed, Ends, Event, Finish, Done, Mark
<1>3. "concluded" \in past'[r] => End \in Allowed(r)' /\ Dict(Error) \in Allowed(r)'
  <2>1. End \in Chunks /\ End.k = "end"
    BY DEF End
  <2>2. Dict(Error) \in Chunks /\ Dict(Error).k = "dict"
    BY DEF Dict
  <2> QED BY <2>1, <2>2, SMT DEF Allowed
<1>4. \A f \in Frames : (f = Done => "concluded" \in past'[r]) => Raw(f) \in Allowed(r)'
  <2> SUFFICES ASSUME NEW f \in Frames, f = Done => "concluded" \in past'[r]
               PROVE  Raw(f) \in Allowed(r)'
    OBVIOUS
  <2>1. Raw(f) \in Chunks /\ Raw(f).k = "raw" /\ Raw(f).f = f
    BY DEF Raw
  <2>2. Ends(Raw(f)) => "concluded" \in past'[r]
    BY <2>1, SMT DEF Ends
  <2> QED BY <2>1, <2>2, SMT DEF Allowed
<1>5. \A f \in Frames :
        ~model'.native /\ (f \in {Done, Finish} => "concluded" \in past'[r])
          => Event(f) \in Allowed(r)'
  BY SMT DEF Allowed, Ends, Event
<1> QED BY <1>1, <1>2, <1>3, <1>4, <1>5

(* The invariant holds at first: nothing is in any channel.                *)
LEMMA InitIInv == Init => IInv
<1> SUFFICES ASSUME Init PROVE IInv
  OBVIOUS
<1>1. ChanInv
  BY EmptySeq DEF Init, ChanInv
<1>2. ModeInv /\ NativeInv /\ EarlyInv
  BY DEF Init, ModeInv, NativeInv, EarlyInv, Started
<1>3. DoneInv
  BY SMT DEF Init, DoneInv, Has
<1> QED BY <1>1, <1>2, <1>3, InitType DEF IInv

(* The invariant survives every step.                                      *)
LEMMA NextIInv == IInv /\ [Next]_vars => IInv'
<1> SUFFICES ASSUME IInv, [Next]_vars PROVE IInv'
  OBVIOUS
<1> USE DEF IInv
<1>1. TypeOK'
  BY NextType
<1>2. ASSUME NEW r \in Requests, NEW e \in Exceptions, Conclude(r, <<Exc(e)>>, {})
      PROVE  IInv'
  <2>1. <<Exc(e)>> \in Seq(Allowed(r)') BY AllowedChunks, SeqUpToTwo
  <2> QED BY <1>1, <1>2, <2>1, Concluded
<1>3. ASSUME UNCHANGED <<model, chan, gw, wire, past>>
      PROVE  (ChanInv /\ ModeInv /\ DoneInv /\ EarlyInv)'
  BY <1>3 DEF ChanInv, Allowed, ModeInv, DoneInv, EarlyInv
<1>4. ASSUME NEW r \in Requests, Call(r) PROVE IInv'
  <2>1. ModeInv' /\ EarlyInv' BY <1>4 DEF Call, ModeInv, EarlyInv, TypeOK
  <2>2. ChanInv' /\ DoneInv' BY <1>4 DEF Call, ChanInv, Allowed, DoneInv
  <2>3. NativeInv' BY <1>4 DEF Call, NativeInv, Become, TypeOK, replica
  <2> QED BY <1>1, <2>1, <2>2, <2>3
<1>5. ASSUME NEW r \in Requests, Dispatch(r) PROVE IInv'
  <2>1. CASE Conclude(r, <<Exc("rejected")>>, {})
    BY <2>1, <1>2 DEF Exceptions
  <2>2. CASE ~Conclude(r, <<Exc("rejected")>>, {})
    <3>1. /\ adapter \/ ~model.native
          /\ Become(r, IF adapter THEN "adapter" ELSE "local")
          /\ UNCHANGED <<model, replica, last, past, chan, gateway>>
      BY <1>5, <2>2 DEF Dispatch
    <3>2. NativeInv' BY <3>1 DEF NativeInv, Become, TypeOK, replica
    <3> QED BY <1>1, <1>3, <3>1, <3>2 DEF gateway
  <2> QED BY <2>1, <2>2
<1>6. ASSUME NEW r \in Requests, Adapt(r) PROVE IInv'
  <2>1. ASSUME NEW frame \in Frames, AdapterYields(r, frame) PROVE IInv'
    <3>1. /\ Produce(r, <<Raw(frame)>>) /\ UNCHANGED <<model, replica, gen, gateway>>
          /\ Remember(r, IF frame = Done THEN {"concluded"} ELSE {})
      BY <2>1 DEF AdapterYields
    <3>2. \A x \in Requests : past[x] \subseteq past'[x]
      BY <3>1 DEF Remember, TypeOK
    <3>3. frame = Done => "concluded" \in past'[r]
      BY <3>1 DEF Remember, TypeOK
    <3>4. <<Raw(frame)>> \in Seq(Allowed(r)')
      BY <3>3, SeqUpToTwo, AllowedChunks
    <3>5. (ChanInv /\ ModeInv /\ DoneInv /\ EarlyInv)'
      BY <1>1, <3>1, <3>2, <3>4, Produced DEF Produce, gateway
    <3>6. NativeInv' BY <3>1 DEF NativeInv, replica
    <3> QED BY <1>1, <3>5, <3>6
  <2>2. CASE AdapterReturns(r)
    <3>1. Conclude(r, <<End>>, {"concluded"}) BY <2>2 DEF AdapterReturns
    <3>2. "concluded" \in past'[r] BY <3>1 DEF Conclude, Remember, TypeOK
    <3>3. <<End>> \in Seq(Allowed(r)') BY <3>2, SeqUpToTwo, AllowedChunks
    <3> QED BY <1>1, <3>1, <3>3, Concluded
  <2>3. CASE AdapterAnswers(r)
    <3>1. Conclude(r, <<Payload("completion")>>, {}) /\ r \notin Streams
      BY <2>3 DEF AdapterAnswers
    <3>2. <<Payload("completion")>> \in Seq(Allowed(r)')
      BY <3>1, SeqUpToTwo, AllowedChunks DEF Payloads
    <3> QED BY <1>1, <3>1, <3>2, Concluded
  <2>4. CASE AdapterReturnsError(r)
    <3>1. CASE r \in Streams
      <4>1. Conclude(r, <<Dict(Error), End>>, {"error_payload", "concluded"})
        BY <2>4, <3>1 DEF AdapterReturnsError
      <4>2. "concluded" \in past'[r] BY <4>1 DEF Conclude, Remember, TypeOK
      <4>3. <<Dict(Error), End>> \in Seq(Allowed(r)') BY <4>2, SeqUpToTwo, AllowedChunks
      <4> QED BY <1>1, <4>1, <4>3, Concluded
    <3>2. CASE r \notin Streams
      <4>1. Conclude(r, <<Payload("error")>>, {"error_payload"})
        BY <2>4, <3>2 DEF AdapterReturnsError
      <4>2. <<Payload("error")>> \in Seq(Allowed(r)')
        BY <3>2, SeqUpToTwo, AllowedChunks DEF Payloads
      <4> QED BY <1>1, <4>1, <4>2, Concluded
    <3> QED BY <3>1, <3>2
  <2>5. CASE AdapterRaises(r)
    <3>1. CASE model.native
      BY <2>5, <3>1, <1>2 DEF AdapterRaises, Exceptions
    <3>2. CASE ~model.native
      <4>1. FallBack(r) BY <2>5, <3>2 DEF AdapterRaises
      <4>2. /\ UNCHANGED <<model, gw, wire>>
            /\ chan' = [chan EXCEPT ![r] = @ \o <<>>]
        <5>1. chan[r] \o <<>> = chan[r] BY ConcatEmptySeq DEF TypeOK
        <5> QED BY <4>1, <5>1 DEF FallBack, gateway, TypeOK
      <4>3. \A x \in Requests : past[x] \subseteq past'[x]
        BY <4>1 DEF FallBack, Remember, TypeOK
      <4>4. (ChanInv /\ ModeInv /\ DoneInv /\ EarlyInv)'
        BY <1>1, SeqUpToTwo, <4>2, <4>3, Produced
      <4>5. NativeInv' BY <3>2, <4>2 DEF NativeInv
      <4> QED BY <1>1, <4>4, <4>5
    <3> QED BY <3>1, <3>2
  <2> QED BY <1>6, <2>1, <2>2, <2>3, <2>4, <2>5 DEF Adapt
<1>7. ASSUME NEW r \in Requests, Generate(r) PROVE IInv'
  <2>1. ~model.native \/ gen[r] \notin {"local", "deltas", "whole"}
    BY DEF NativeInv
  <2>2. ~model.native
    BY <1>7, <2>1 DEF Generate, LocalRejects, LocalBegins, DeltaYields, DeltaRevised, DeltaEnds,
                      DeltaUnsupported, WholeYields, EngineRaises, Working
  <2>3. ASSUME NEW chunks, Conclude(r, chunks, {"concluded"})
        PROVE  /\ "concluded" \in past'[r]
               /\ End \in Allowed(r)'
               /\ \A f \in Frames : Event(f) \in Allowed(r)'
    <3>1. "concluded" \in past'[r] /\ model' = model
      BY <2>3 DEF Conclude, Remember, TypeOK
    <3> QED BY <2>2, <3>1, AllowedChunks
  <2>4. CASE LocalRejects(r)
    BY <2>4, <1>2 DEF LocalRejects, Exceptions
  <2>5. CASE LocalBegins(r)
    <3>1. NativeInv' BY <2>2, <2>5 DEF LocalBegins, NativeInv
    <3> QED BY <1>1, <1>3, <2>5, <3>1 DEF LocalBegins, gateway
  <2>6. ASSUME NEW hi \in 1..MaxText, DeltaYields(r, hi) PROVE IInv'
    <3> DEFINE t == Text(last[r].hi, hi)
    <3>1. /\ Produce(r, <<Event(t)>>)
          /\ UNCHANGED <<model, replica, gen, past, gateway>>
      BY <2>6 DEF DeltaYields
    <3>2. t \in Frames /\ t \notin {Done, Finish}
      <4>1. last'[r] = t /\ t.f = "text" BY <2>6 DEF DeltaYields, Said, TypeOK, Text
      <4>2. t \in Frames \cup {Nothing} BY <1>1, <4>1 DEF TypeOK
      <4>3. t \notin {Done, Finish, Nothing} BY <4>1, SMT DEF Done, Finish, Nothing, Mark
      <4> QED BY <4>2, <4>3
    <3> HIDE DEF t
    <3>3. Event(t) \in Allowed(r)' BY <2>2, <3>1, <3>2, AllowedChunks
    <3>4. <<Event(t)>> \in Seq(Allowed(r)') BY <3>3, SeqUpToTwo
    <3>5. (ChanInv /\ ModeInv /\ DoneInv /\ EarlyInv)'
      BY <1>1, <3>1, <3>4, Produced DEF Produce, gateway
    <3>6. NativeInv' BY <2>2, <3>1 DEF NativeInv
    <3> QED BY <1>1, <3>5, <3>6
  <2>7. CASE DeltaEnds(r)
    <3>1. PICK chunks \in {<<Event(Finish), End>>, <<End>>} :
            Conclude(r, chunks, {"concluded"})
      BY <2>7 DEF DeltaEnds
    <3>2. End \in Allowed(r)' /\ Event(Finish) \in Allowed(r)'
      BY <2>3, <3>1, FrameTypes
    <3>3. <<End>> \in Seq(Allowed(r)') /\ <<Event(Finish), End>> \in Seq(Allowed(r)')
      BY <3>2, SeqUpToTwo
    <3>4. chunks \in Seq(Allowed(r)') BY <3>1, <3>3
    <3> QED BY <1>1, <3>1, <3>4, Concluded
  <2>8. CASE DeltaUnsupported(r)
    <3>1. CASE engine = "sync"
      <4>1. NativeInv' BY <2>2, <2>8, <3>1 DEF DeltaUnsupported, NativeInv
      <4> QED BY <1>1, <1>3, <2>8, <3>1, <4>1 DEF DeltaUnsupported, gateway
    <3>2. CASE engine # "sync"
      BY <2>8, <3>2, <1>2 DEF DeltaUnsupported, Exceptions
    <3> QED BY <3>1, <3>2
  <2>9. CASE WholeYields(r)
    <3>1. CASE r \in Plains
      <4>1. Conclude(r, <<Payload("backend")>>, {}) /\ r \notin Streams
        BY <2>9, <3>1 DEF WholeYields
      <4>2. <<Payload("backend")>> \in Seq(Allowed(r)')
        BY <4>1, SeqUpToTwo, AllowedChunks DEF Payloads
      <4> QED BY <1>1, <4>1, <4>2, Concluded
    <3>2. CASE r \notin Plains
      <4>1. PICK text \in {<<>>, <<Event(Text(0, MaxText))>>} :
              Conclude(r, text \o <<Event(Finish), End>>, {"concluded"})
        BY <2>9, <3>2 DEF WholeYields
      <4>2. Text(0, MaxText) \in Frames BY FrameTypes
      <4>3. text \in Seq(Allowed(r)') /\ <<Event(Finish), End>> \in Seq(Allowed(r)')
        BY <2>3, <4>1, <4>2, SeqUpToTwo, FrameTypes
      <4>4. text \o <<Event(Finish), End>> \in Seq(Allowed(r)')
        BY <4>3, ConcatProperties
      <4> QED BY <1>1, <4>1, <4>4, Concluded
    <3> QED BY <3>1, <3>2
  <2>10. CASE EngineRaises(r)
    BY <2>10, <1>2 DEF EngineRaises, Exceptions
  <2>11. ASSUME NEW hi \in 0..MaxText, DeltaRevised(r, hi) PROVE IInv'
    <3> DEFINE t == Text(0, hi)
               new == IF hi > 0 THEN <<Event(t)>> ELSE <<>>
    <3>1. /\ Produce(r, new) /\ Remember(r, {"revised"})
          /\ UNCHANGED <<model, replica, gen, gateway>>
      BY <2>11 DEF DeltaRevised
    <3>2. t \in Frames /\ t \notin {Done, Finish} BY SMT DEF Text, Frames, Done, Finish, Mark
    <3>3. Event(t) \in Allowed(r)' BY <2>2, <3>1, <3>2, AllowedChunks
    <3>4. new \in Seq(Allowed(r)') BY <3>3, SeqUpToTwo
    <3> HIDE DEF t, new
    <3>5. \A x \in Requests : past[x] \subseteq past'[x]
      BY <3>1 DEF Remember, TypeOK
    <3>6. (ChanInv /\ ModeInv /\ DoneInv /\ EarlyInv)'
      BY <1>1, <3>1, <3>4, <3>5, Produced DEF Produce, gateway
    <3>7. NativeInv' BY <2>2, <3>1 DEF NativeInv
    <3> QED BY <1>1, <3>6, <3>7
  <2> QED BY <1>7, <2>4, <2>5, <2>6, <2>7, <2>8, <2>9, <2>10, <2>11 DEF Generate
<1>8. ASSUME NEW r \in Requests, CancelGen(r) PROVE IInv'
  <2>1. ChanInv' BY <1>8, SeqUpToTwo DEF CancelGen, ChanInv, Allowed, TypeOK
  <2>2. ModeInv' /\ DoneInv' BY <1>8 DEF CancelGen, ModeInv, DoneInv, gateway
  <2>3. EarlyInv' BY <1>8 DEF CancelGen, EarlyInv, gateway, Closed, TypeOK
  <2>4. NativeInv' BY <1>8 DEF CancelGen, NativeInv, Become, TypeOK, replica
  <2> QED BY <1>1, <2>1, <2>2, <2>3, <2>4
<1>9. CASE ReplicaDies
  <2>1. ASSUME NEW x \in Requests
        PROVE  /\ chan'[x] \in Seq(Allowed(x)')
               /\ chan[x] # <<>> => chan'[x] # <<>> /\ Head(chan'[x]) = Head(chan[x])
    <3>1. Allowed(x)' = Allowed(x) BY <1>9 DEF ReplicaDies, Allowed
    <3>2. chan'[x] \in {chan[x], Append(chan[x], Exc("crashed"))}
      BY <1>9 DEF ReplicaDies, TypeOK
    <3>3. chan[x] \in Seq(Allowed(x)') /\ Exc("crashed") \in Allowed(x)'
      BY <3>1, AllowedChunks DEF ChanInv, Exceptions
    <3>4. Append(chan[x], Exc("crashed")) \in Seq(Allowed(x)')
      BY <3>3, AppendProperties
    <3>5. CASE chan[x] # <<>> /\ chan'[x] = Append(chan[x], Exc("crashed"))
      <4>1. Len(chan[x]) \in Nat \ {0} BY <3>3, <3>5, EmptySeq
      <4>2. chan'[x] # <<>> /\ chan'[x][1] = chan[x][1]
        BY <3>3, <3>5, <4>1, AppendProperties
      <4>3. Head(chan'[x]) = Head(chan[x])
        BY <3>3, <3>4, <3>5, <4>2, HeadTailProperties
      <4> QED BY <3>4, <3>5, <4>2, <4>3
    <3> QED BY <3>2, <3>3, <3>4, <3>5
  <2>2. ChanInv' BY <2>1 DEF ChanInv
  <2>3. EarlyInv' BY <1>9, <2>1 DEF ReplicaDies, EarlyInv, gateway
  <2>4. ModeInv' /\ DoneInv' BY <1>9 DEF ReplicaDies, ModeInv, DoneInv, gateway
  <2>5. NativeInv'
    BY <1>9 DEF ReplicaDies, NativeInv, TypeOK
  <2> QED BY <1>1, <2>2, <2>3, <2>4, <2>5
<1>10. ASSUME NEW e \in {"none", "async", "sync"}, NEW a \in BOOLEAN, ReplicaStarts(e, a)
      PROVE  IInv'
  <2>1. NativeInv' BY <1>10 DEF ReplicaStarts, Started, NativeInv, source
  <2> QED BY <1>10, <1>1, <1>3, <2>1 DEF ReplicaStarts, source, gateway
<1>11. ASSUME NEW r \in Requests, Prime(r) PROVE IInv'
  <2>1. chan[r] # <<>> /\ UNCHANGED <<model, chan, wire, past, gen, replica>>
    BY <1>11 DEF Prime, Arrived, Reply, source
  <2>2. /\ gw[r] = "priming"
        /\ \A x \in Requests : x # r => gw'[x] = gw[x]
        /\ \/ Head(chan[r]).k = "exc" /\ gw'[r] = "refused"
           \/ Head(chan[r]).k # "exc" /\ gw'[r] = "mapping"
    BY <1>11 DEF Prime, Arrived, Reply, TypeOK
  <2>3. ModeInv' BY <2>2 DEF ModeInv
  <2>4. EarlyInv' BY <2>1, <2>2 DEF EarlyInv
  <2>5. ChanInv' /\ DoneInv' /\ NativeInv'
    BY <2>1 DEF ChanInv, Allowed, DoneInv, NativeInv, replica
  <2> QED BY <1>1, <2>3, <2>4, <2>5
<1>12. ASSUME NEW r \in Requests, Await(r) PROVE IInv'
  <2>1. UNCHANGED <<model, chan, wire, past, gen, replica>>
    BY <1>12 DEF Await, Reply, source
  <2>2. /\ \A x \in Requests : x # r => gw'[x] = gw[x]
        /\ gw'[r] \in {"refused", "complete"}
    BY <1>12 DEF Await, Arrived, Reply, TypeOK
  <2>3. ModeInv' BY <2>2 DEF ModeInv
  <2>4. EarlyInv' BY <2>1, <2>2 DEF EarlyInv
  <2>5. ChanInv' /\ DoneInv' /\ NativeInv'
    BY <2>1 DEF ChanInv, Allowed, DoneInv, NativeInv, replica
  <2> QED BY <1>1, <2>3, <2>4, <2>5
<1>13. ASSUME NEW r \in Requests, Disconnect(r) PROVE IInv'
  <2>1. /\ UNCHANGED <<model, chan, wire, past, gen, replica>>
        /\ \A x \in Requests : x # r => gw'[x] = gw[x]
        /\ gw'[r] = "left"
    BY <1>13 DEF Disconnect, source, TypeOK
  <2>2. ModeInv' /\ EarlyInv' BY <2>1 DEF ModeInv, EarlyInv
  <2>3. ChanInv' /\ DoneInv' /\ NativeInv'
    BY <2>1 DEF ChanInv, Allowed, DoneInv, NativeInv, replica
  <2> QED BY <1>1, <2>2, <2>3
<1>14. ASSUME NEW r \in Requests, Forward(r) PROVE IInv'
  <2> DEFINE c == Head(chan[r])
  <2>1. /\ gw[r] = "mapping" /\ chan[r] # <<>> /\ chan[r] \in Seq(Allowed(r))
        /\ wire[r] \in Seq(Frames) /\ wire'[r] \in Seq(Frames)
    BY <1>14, <1>1 DEF Forward, Arrived, ChanInv, TypeOK
  <2>2. c \in Allowed(r) /\ Tail(chan[r]) \in Seq(Allowed(r))
    BY <2>1, HeadTailProperties
  <2>3. ASSUME NEW state \in Closed \cup {"mapping"}, NEW frames \in Seq(Frames),
               Write(r, state, frames),
               Has(frames, Done) => Ends(c),
               state = "mapping" => frames # <<>>,
               state = "truncated" => wire[r] # <<>>
        PROVE  IInv'
    <3>1. /\ UNCHANGED <<model, past, gen, replica>>
          /\ \A x \in Requests : x # r => UNCHANGED <<gw[x], wire[x], chan[x]>>
          /\ gw'[r] = state /\ wire'[r] = wire[r] \o frames /\ chan'[r] = Tail(chan[r])
      BY <2>3 DEF Write, source, TypeOK
    <3>2. ChanInv'
      <4>1. \A x \in Requests : Allowed(x)' = Allowed(x) BY <3>1 DEF Allowed
      <4> QED BY <2>2, <3>1, <4>1 DEF ChanInv
    <3>3. ModeInv' BY <2>1, <3>1 DEF ModeInv
    <3>4. DoneInv'
      <4>1. Has(wire'[r], Done) => Has(wire[r], Done) \/ Has(frames, Done)
        BY <2>1, <2>3, <3>1, HasConcat
      <4>2. Has(wire'[r], Done) => "concluded" \in past[r]
        BY <2>2, <2>3, <4>1 DEF DoneInv, Allowed
      <4> QED BY <3>1, <4>2 DEF DoneInv
    <3>5. EarlyInv'
      <4>1. wire'[r] = <<>> => wire[r] = <<>> /\ frames = <<>>
        <5>1. wire[r] \o frames = <<>> => wire[r] = <<>> /\ frames = <<>>
          BY <2>1, <2>3, ConcatEqualIffEmpty
        <5> QED BY <3>1, <5>1
      <4>2. state = "mapping" \/ state = "truncated" => wire'[r] # <<>>
        BY <2>3, <4>1
      <4> QED BY <3>1, <4>2 DEF EarlyInv
    <3>6. NativeInv' BY <3>1 DEF NativeInv, replica
    <3> QED BY <1>1, <3>2, <3>3, <3>4, <3>5, <3>6
  <2>4. CASE c.k \notin {"exc", "end"} /\ Write(r, "mapping", Written(r, c))
    <3>1. c.f \in Frames
      BY <2>1, <2>2, <2>4, ChunkFrames DEF ModeInv, Allowed
    <3>2. WrittenIsWell(r, c)
      BY <3>1, WrittenFrames
    <3> QED BY <2>3, <2>4, <3>2 DEF WrittenIsWell
  <2>5. CASE c.k = "end" /\ Write(r, "complete", Trailer(r))
    BY <2>3, <2>5, TrailerFrames DEF Ends, Closed
  <2>6. CASE c.k = "exc" /\ Write(r, "truncated", <<>>)
    <3>1. <<>> \in Seq(Frames) /\ ~Has(<<>>, Done) BY SMT DEF Has
    <3>2. wire[r] # <<>> BY <2>1, <2>6 DEF EarlyInv
    <3> QED BY <2>3, <2>6, <3>1, <3>2 DEF Closed
  <2> QED BY <1>14, <2>4, <2>5, <2>6 DEF Forward
<1>15. CASE UNCHANGED vars
  BY <1>15, <1>1, <1>3 DEF vars, replica, source, gateway, NativeInv
<1> QED
  BY <1>4, <1>5, <1>6, <1>7, <1>8, <1>9, <1>10, <1>11, <1>12, <1>13, <1>14, <1>15
     DEF Next, Gateway

-----------------------------------------------------------------------------

(* So the invariant holds at every moment: of the channels, of what a      *)
(* model may be served by, of what has been told to clients.               *)
THEOREM Inductive == Spec => []IInv
<1>1. Init => IInv BY InitIInv
<1>2. IInv /\ [Next]_vars => IInv' BY NextIInv
<1> QED BY <1>1, <1>2, PTL DEF Spec

(* Every variable keeps its type; no chunk or frame is of an unknown kind. *)
THEOREM TypeCorrect == Spec => []TypeOK
<1>1. IInv => TypeOK BY DEF IInv
<1> QED BY <1>1, Inductive, PTL

(* chat_completion_stream of the strict executor: with vllm_native, no     *)
(* failure and no restart makes the best effort executor serve a request.  *)
THEOREM NativeIsNeverLocal == Spec => []NativeNeverLocal
<1>1. IInv => NativeNeverLocal
  <2> SUFFICES ASSUME IInv, model.native PROVE NativeNeverLocal
    BY DEF NativeNeverLocal
  <2>1. ASSUME NEW r \in Requests, NEW i \in 1..Len(chan[r])
        PROVE  chan[r][i].k # "event"
    <3>1. chan[r] \in Seq(Allowed(r)) BY DEF IInv, ChanInv
    <3>2. chan[r][i] \in Allowed(r) BY <3>1, ElementOfSeq
    <3> QED BY <3>2 DEF Allowed
  <2> QED BY <2>1 DEF IInv, NativeInv, NativeNeverLocal
<1> QED BY <1>1, Inductive, PTL

(* The iterators of the gateway: a client is told [DONE] only of an answer *)
(* a generator of the replica brought to its end.                          *)
THEOREM DoneIsNeverInvented == Spec => []DoneOnlyIfConcluded
<1>1. IInv => DoneOnlyIfConcluded
  BY DEF IInv, DoneInv, DoneOnlyIfConcluded, Requests
<1> QED BY <1>1, Inductive, PTL

(* _prime_stream_chunks: no event stream breaks off before its first frame.*)
THEOREM EarlyErrorsOpenNoStream == Spec => []EarlyErrorIsNotAStream
<1>1. IInv => EarlyErrorIsNotAStream
  BY DEF IInv, EarlyInv, EarlyErrorIsNotAStream, Requests
<1> QED BY <1>1, Inductive, PTL

(* No adapter outlives the process it belongs to.                          *)
DownInv == engine = "down" => ~adapter

(* Every step keeps it: who takes the adapter away leaves none behind.     *)
LEMMA DownInductive == Spec => []DownInv
<1>1. Init => DownInv BY DEF Init, DownInv
<1>2. DownInv /\ [Next]_vars => DownInv'
  <2> SUFFICES ASSUME DownInv, [Next]_vars PROVE DownInv'
    OBVIOUS
  <2>1. ASSUME NEW r \in Requests,
               Call(r) \/ Dispatch(r) \/ Adapt(r) \/ Generate(r) \/ CancelGen(r)
                 \/ Gateway(r) \/ Disconnect(r)
        PROVE  engine' = engine /\ (adapter' = adapter \/ adapter' = FALSE)
    BY <2>1 DEF Call, Dispatch, Adapt, Generate, CancelGen, Gateway, Disconnect, AdapterYields,
                AdapterReturns, AdapterAnswers, AdapterReturnsError, AdapterRaises, FallBack,
                LocalRejects, LocalBegins, DeltaYields, DeltaRevised, DeltaEnds,
                DeltaUnsupported, WholeYields, EngineRaises, Prime, Await, Forward, Conclude,
                Reply, Write, replica
  <2>2. ASSUME ReplicaDies PROVE DownInv'
    BY <2>2 DEF ReplicaDies, DownInv
  <2>3. ASSUME NEW e \in {"none", "async", "sync"}, NEW a \in BOOLEAN, ReplicaStarts(e, a)
        PROVE  DownInv'
    BY <2>3 DEF ReplicaStarts, DownInv
  <2>4. ASSUME UNCHANGED vars PROVE DownInv'
    BY <2>4 DEF vars, replica, DownInv
  <2> QED BY <2>1, <2>2, <2>3, <2>4 DEF Next, DownInv
<1> QED BY <1>1, <1>2, PTL DEF Spec

(* The strict executor's except clauses: the adapter the requests share is *)
(* given up by a request it has failed, or goes with the process; no       *)
(* cancellation, no failure of the best effort executor and no restart     *)
(* takes it away.                                                          *)
THEOREM AdapterIsLostByFailure == Spec => AdapterLostOnlyByFailure
<1>1. TypeOK /\ DownInv /\ [Next]_vars =>
        [adapter /\ ~adapter' =>
           \/ engine' = "down"
           \/ ~model.native /\ \E r \in Requests : gen[r] = "adapter" /\ gen'[r] = "local"]_vars
  <2> SUFFICES ASSUME TypeOK, DownInv, Next, adapter, ~adapter', engine' # "down"
               PROVE  ~model.native /\ \E r \in Requests : gen[r] = "adapter" /\ gen'[r] = "local"
    BY DEF vars, replica
  <2>1. ~ReplicaDies BY DEF ReplicaDies
  <2>2. \A e \in {"none", "async", "sync"}, a \in BOOLEAN : ~ReplicaStarts(e, a)
    BY DEF ReplicaStarts, DownInv
  <2>3. PICK r \in Requests : ~(adapter' = adapter) /\
               (Call(r) \/ Dispatch(r) \/ Adapt(r) \/ Generate(r) \/ CancelGen(r)
                  \/ Gateway(r) \/ Disconnect(r))
    BY <2>1, <2>2 DEF Next
  <2>4. ~model.native /\ Working(r, "adapter") /\ FallBack(r)
    BY <2>3 DEF Call, Dispatch, Adapt, Generate, CancelGen, Gateway, Disconnect, AdapterYields,
                AdapterReturns, AdapterAnswers, AdapterReturnsError, AdapterRaises, LocalRejects,
                LocalBegins, DeltaYields, DeltaRevised, DeltaEnds, DeltaUnsupported, WholeYields,
                EngineRaises, Prime, Await, Forward, Conclude, Reply, Write, replica
  <2>5. gen[r] = "adapter" /\ gen'[r] = "local"
    BY <2>4 DEF Working, FallBack, Become, TypeOK
  <2> QED BY <2>4, <2>5
<1> QED BY <1>1, TypeCorrect, DownInductive, PTL DEF Spec, AdapterLostOnlyByFailure

-----------------------------------------------------------------------------
(***************************************************************************)
(* Promised streams. Between the generator and the client lie the chunks   *)
(* under way, and between chunks and frames the iterator that puts a role  *)
(* in front and a [DONE] behind. The invariant follows an answer along all *)
(* of it: each chunk fits the one before, the first fits what has been     *)
(* sent, and what the generator remembers is the last of them all. Where   *)
(* the answer is told again, a first event fits behind a raw frame, and a  *)
(* text that begins anew behind any other.                                 *)
(***************************************************************************)

(* The last element of a sequence.                                         *)
Back(s) == s[Len(s)]

(* Frame b may come right after frame a, in an answer that is told once or *)
(* again.                                                                  *)
Goes(again, a, b) == Follows(a, b) \/ (again /\ Promise!Begins(a, b))

(* The frame of the first event of a telling, and of one behind event a.   *)
Opens(f) == f = Finish \/ (f.f = "text" /\ f.lo = 0 /\ f.lo < f.hi)

GoesOn(again, a, f) ==
  /\ a.f = "text"
  /\ \/ f = Finish
     \/ f.f = "text" /\ f.lo < f.hi /\ (f.lo = a.hi \/ (again /\ f.lo = 0))

(* Chunk d may be produced right behind chunk c: an event behind the raw   *)
(* frames of the adapter is the first of a telling that takes over.        *)
Joins(again, c, d) ==
  /\ c.k \notin {"exc", "end"}
  /\ \/ d.k \in {"exc", "end"}
     \/ c.k = "raw" /\ d.k = "raw" /\ Follows(c.f, d.f)
     \/ c.k = "raw" /\ d.k = "event" /\ again /\ Opens(d.f)
     \/ c.k = "event" /\ d.k = "event" /\ GoesOn(again, c.f, d.f)

(* What the stream of r has been sent so far lets chunk d be the next.     *)
Ready(r, d) ==
  \/ d.k \in {"exc", "end"}
  \/ d.k = "dict" /\ wire[r] = <<>> /\ d.f = Error
  \/ d.k = "raw" /\ wire[r] = <<>> /\ First(d.f)
  \/ d.k = "raw" /\ wire[r] # <<>> /\ "role" \notin sent[r] /\ Follows(Back(wire[r]), d.f)
  \/ d.k = "event" /\ "role" \notin sent[r] /\ (wire[r] = <<>> \/ Retold(r)) /\ Opens(d.f)
  \/ d.k = "event" /\ "role" \in sent[r] /\ GoesOn(Retold(r), Back(wire[r]), d.f)

(* The iterator knows what it has sent.                                    *)
SentInv(r) ==
  /\ wire[r] = <<>> => sent[r] = {}
  /\ wire[r] # <<>> /\ "done" \notin sent[r] => Back(wire[r]) # Done
  /\ "role" \in sent[r] /\ "done" \notin sent[r] => Back(wire[r]).f = "text"
  /\ "finish" \in sent[r] => "done" \in sent[r]
  /\ "done" \in sent[r] => Has(wire[r], Done)

(* What is under way fits together, and fits what has been sent.           *)
QueueInv(r) ==
  /\ \A i \in 1..(Len(chan[r]) - 1) : Joins(Retold(r), chan[r][i], chan[r][i + 1])
  /\ chan[r] # <<>> => Ready(r, chan[r][1])

(* The text frame the generator's next one continues.                      *)
Before(r, a) ==
  a.f = "text" /\ (a.hi = last[r].hi \/ (Retold(r) /\ last[r].hi = 0))

(* The generator knows what it has produced last: it is under way, or it is*)
(* what has been sent last.                                                *)
SourceInv(r) ==
  /\ gw[r] = "idle" => gen[r] = "idle"
  /\ gen[r] \in {"idle", "queued"} \/ (gen[r] = "adapter" /\ last[r] = Nothing) =>
       chan[r] = <<>> /\ wire[r] = <<>>
  /\ gen[r] \in {"idle", "queued", "local", "whole"} => last[r] = Nothing
  /\ gen[r] = "adapter" /\ last[r] # Nothing =>
       /\ chan[r] # <<>> => Back(chan[r]) = Raw(last[r])
       /\ chan[r] = <<>> => wire[r] # <<>> /\ "role" \notin sent[r] /\ Back(wire[r]) = last[r]
  /\ gen[r] \in {"local", "deltas", "whole"} /\ last[r] = Nothing =>
       /\ chan[r] # <<>> => Back(chan[r]).k = "raw" /\ Retold(r)
       /\ chan[r] = <<>> => "role" \notin sent[r] /\ (wire[r] = <<>> \/ Retold(r))
  /\ gen[r] = "deltas" /\ last[r] # Nothing =>
       /\ last[r].f = "text"
       /\ chan[r] # <<>> => Back(chan[r]).k = "event" /\ Before(r, Back(chan[r]).f)
       /\ chan[r] = <<>> => "role" \in sent[r] /\ Before(r, Back(wire[r]))

(* All of that together.                                                   *)
Tape(r) == SentInv(r) /\ QueueInv(r) /\ SourceInv(r)

(* A client has been sent a stream as promised; as long as it is not over, *)
(* all that is to come continues it; and it has come to an end of its own  *)
(* only if its generator has.                                              *)
Told(r) ==
  /\ Promise!Promised(wire[r], Retold(r))
  /\ gw[r] \in {"idle", "priming", "mapping"} => Tape(r)
  /\ gw[r] \in {"refused", "complete", "truncated"} => gen[r] = "over"
  /\ gw[r] # "awaiting"

ToldInv == \A r \in Streams : Told(r)

-----------------------------------------------------------------------------

(* The frames of SseStream are those of SseFrames.                         *)
LEMMA SameFrames ==
  /\ Promise!Role = Role /\ Promise!Finish = Finish /\ Promise!Done = Done
  /\ Promise!Frames = Frames
  /\ \A w, f : Promise!Has(w, f) <=> Has(w, f)
  /\ \A w, again :
       Promise!Promised(w, again) <=>
         /\ w # <<>> => First(w[1])
         /\ \A i \in 1..(Len(w) - 1) : Goes(again, w[i], w[i + 1])
<1>1. /\ Promise!Role = Role /\ Promise!Finish = Finish /\ Promise!Done = Done
      /\ Promise!Error = Error /\ Promise!Internal = Internal
      /\ \A lo, hi : Promise!Text(lo, hi) = Text(lo, hi)
  BY DEF Promise!Role, Promise!Finish, Promise!Done, Promise!Error, Promise!Internal,
         Promise!Mark, Promise!Text, Role, Finish, Done, Error, Internal, Mark, Text
<1>2. Promise!Frames = Frames
  BY <1>1 DEF Promise!Frames, Frames
<1>3. \A w, f : Promise!Has(w, f) <=> Has(w, f)
  BY DEF Promise!Has, Has
<1>4. /\ \A b : Promise!First(b) <=> First(b)
      /\ \A a, b : Promise!Follows(a, b) <=> Follows(a, b)
  BY <1>1 DEF Promise!First, First, Promise!Follows, Follows
<1>5. ASSUME NEW w, NEW again
      PROVE  Promise!Promised(w, again) <=>
               /\ w # <<>> => First(w[1])
               /\ \A i \in 1..(Len(w) - 1) : Goes(again, w[i], w[i + 1])
  BY <1>4 DEF Promise!Promised, Goes
<1> QED BY <1>1, <1>2, <1>3, <1>5

(* Concatenations of a few single frames, as the iterator makes them.      *)
LEMMA Bursts ==
  ASSUME NEW f, NEW g, NEW h
  PROVE  /\ <<>> \o <<f>> \o <<>> = <<f>>
         /\ <<f>> \o <<g>> \o <<>> = <<f, g>>
         /\ <<>> \o <<f>> \o <<g>> = <<f, g>>
         /\ <<f>> \o <<g>> \o <<h>> = <<f, g, h>>
<1> DEFINE S == {f, g, h}
<1>1. <<f>> \in Seq(S) /\ <<g>> \in Seq(S) /\ <<h>> \in Seq(S) /\ <<f, g>> \in Seq(S)
  BY SeqUpToTwo
<1>2. <<>> \o <<f>> = <<f>> /\ <<f>> \o <<>> = <<f>> /\ <<f, g>> \o <<>> = <<f, g>>
  BY <1>1, ConcatEmptySeq
<1>3. <<f>> \o <<g>> = <<f, g>>
  <2>1. /\ <<f>> \o <<g>> \in Seq(S) /\ Len(<<f>> \o <<g>>) = 2
        /\ (<<f>> \o <<g>>)[1] = f /\ (<<f>> \o <<g>>)[2] = g
    BY <1>1, ConcatProperties
  <2>2. \A i \in 1..2 : (<<f>> \o <<g>>)[i] = <<f, g>>[i]
    BY <2>1
  <2> QED BY <1>1, <2>1, <2>2, SeqEqual
<1>4. <<f, g>> \o <<h>> = <<f, g, h>>
  <2>1. /\ <<f, g>> \o <<h>> \in Seq(S) /\ Len(<<f, g>> \o <<h>>) = 3
        /\ (<<f, g>> \o <<h>>)[1] = f /\ (<<f, g>> \o <<h>>)[2] = g
        /\ (<<f, g>> \o <<h>>)[3] = h
    BY <1>1, ConcatProperties
  <2>2. \A i \in 1..3 : (<<f, g>> \o <<h>>)[i] = <<f, g, h>>[i]
    BY <2>1
  <2>3. <<f, g, h>> \in Seq(S) /\ Len(<<f, g, h>>) = 3
    BY SMT
  <2> QED BY <2>1, <2>2, <2>3, SeqEqual
<1> QED BY <1>2, <1>3, <1>4

(* The frames differ, and follow each other as they should.                *)
LEMMA FrameOrder ==
  /\ Role # Done /\ Finish # Done /\ Error # Done /\ Role # Finish
  /\ Role.f = "role" /\ Role.hi = 0 /\ Finish.f = "finish" /\ Done.f = "done" /\ Error.f = "error"
  /\ First(Role) /\ First(Error) /\ First(Done)
  /\ Follows(Role, Finish) /\ Follows(Finish, Done)
  /\ \A a : a # Done => Follows(a, Done)
  /\ \A a : a.f \in {"role", "text"} => Follows(a, Finish)
  /\ \A b : b = Finish \/ b.f = "text" => ~Follows(Finish, b)
  /\ Nothing \notin Frames
<1> USE DEF Role, Finish, Done, Error, Mark
<1>1. /\ Role # Done /\ Finish # Done /\ Error # Done /\ Role # Finish
      /\ Role.f = "role" /\ Role.hi = 0 /\ Finish.f = "finish" /\ Done.f = "done"
      /\ Error.f = "error"
  OBVIOUS
<1>2. First(Role) /\ First(Error) /\ First(Done)
  BY DEF First
<1>3. \A a : a # Done => Follows(a, Done)
  BY DEF Follows
<1>4. \A a : a.f \in {"role", "text"} => Follows(a, Finish)
  BY DEF Follows
<1>5. \A b : b = Finish \/ b.f = "text" => ~Follows(Finish, b)
  BY DEF Follows
<1>6. Nothing \notin Frames
  <2>1. \A a \in Frames : a.f \in {"role", "finish", "done", "error", "internal", "text"}
    BY DEF Frames, Text, Internal
  <2>2. Nothing.f = "nothing"
    BY DEF Nothing
  <2> QED BY <2>1, <2>2
<1> HIDE DEF Role, Finish, Done, Error, Mark
<1> QED BY <1>1, <1>2, <1>3, <1>4, <1>5, <1>6

(* A promised stream continued by frames that fit each other and its end.  *)
LEMMA PromisedConcat ==
  ASSUME NEW again, NEW w \in Seq(Frames), Promise!Promised(w, again),
         NEW b \in Seq(Frames), b # <<>>,
         w = <<>> => First(b[1]),
         w # <<>> => Goes(again, Back(w), b[1]),
         \A i \in 1..(Len(b) - 1) : Goes(again, b[i], b[i + 1])
  PROVE  Promise!Promised(w \o b, again) /\ w \o b # <<>> /\ Back(w \o b) = Back(b)
<1>1. /\ Len(w) \in Nat /\ Len(b) \in Nat \ {0}
      /\ Len(w \o b) = Len(w) + Len(b) /\ w \o b \in Seq(Frames)
      /\ \A i \in 1..Len(w) : (w \o b)[i] = w[i]
      /\ \A i \in 1..Len(b) : (w \o b)[Len(w) + i] = b[i]
  <2>1. Len(b) # 0 BY EmptySeq
  <2> QED BY <2>1, LenProperties, ConcatProperties
<1>2. w = <<>> <=> Len(w) = 0 BY EmptySeq
<1>3. Back(w \o b) = Back(b) BY <1>1 DEF Back
<1>4. First((w \o b)[1])
  <2>1. CASE w = <<>> 
    <3>1. (w \o b)[Len(w) + 1] = b[1] BY <1>1
    <3> QED BY <3>1, <1>1, <1>2, <2>1
  <2>2. CASE w # <<>>
    <3>1. (w \o b)[1] = w[1] BY <1>1, <1>2, <2>2
    <3> QED BY <3>1, <2>2, SameFrames
  <2> QED BY <2>1, <2>2
<1>5. ASSUME NEW i \in 1..(Len(w \o b) - 1)
      PROVE  Goes(again, (w \o b)[i], (w \o b)[i + 1])
  <2>1. CASE i < Len(w)
    <3>1. i \in 1..(Len(w) - 1) BY <1>1, <2>1
    <3>2. (w \o b)[i] = w[i] /\ (w \o b)[i + 1] = w[i + 1] BY <1>1, <2>1, <3>1
    <3> QED BY <3>1, <3>2, SameFrames
  <2>2. CASE i = Len(w)
    <3>1. (w \o b)[i] = w[Len(w)] /\ (w \o b)[i + 1] = b[1] /\ w # <<>> BY <1>1, <1>2, <2>2
    <3> QED BY <3>1 DEF Back
  <2>3. CASE i > Len(w)
    <3>1. PICK j \in 1..(Len(b) - 1) : i = Len(w) + j
      <4>1. i - Len(w) \in 1..(Len(b) - 1) /\ i = Len(w) + (i - Len(w)) BY <1>1, <2>3
      <4> QED BY <4>1
    <3>2. (w \o b)[Len(w) + j] = b[j] /\ (w \o b)[Len(w) + (j + 1)] = b[j + 1] BY <1>1
    <3>3. Len(w) + (j + 1) = i + 1 BY <1>1, <3>1
    <3> QED BY <3>1, <3>2, <3>3
  <2> QED BY <1>1, <2>1, <2>2, <2>3
<1>6. w \o b # <<>> BY <1>1, EmptySeq
<1> QED BY <1>3, <1>4, <1>5, <1>6, SameFrames

(* The same for chunks under way.                                          *)
LEMMA QueueConcat ==
  ASSUME NEW again, NEW q \in Seq(Chunks), NEW b \in Seq(Chunks), b # <<>>,
         \A i \in 1..(Len(q) - 1) : Joins(again, q[i], q[i + 1]),
         q # <<>> => Joins(again, Back(q), b[1]),
         \A i \in 1..(Len(b) - 1) : Joins(again, b[i], b[i + 1])
  PROVE  /\ \A i \in 1..(Len(q \o b) - 1) : Joins(again, (q \o b)[i], (q \o b)[i + 1])
         /\ q \o b # <<>> /\ Back(q \o b) = Back(b)
         /\ (q \o b)[1] = IF q = <<>> THEN b[1] ELSE q[1]
<1>1. /\ Len(q) \in Nat /\ Len(b) \in Nat \ {0}
      /\ Len(q \o b) = Len(q) + Len(b) /\ q \o b \in Seq(Chunks)
      /\ \A i \in 1..Len(q) : (q \o b)[i] = q[i]
      /\ \A i \in 1..Len(b) : (q \o b)[Len(q) + i] = b[i]
  <2>1. Len(b) # 0 BY EmptySeq
  <2> QED BY <2>1, LenProperties, ConcatProperties
<1>2. q = <<>> <=> Len(q) = 0 BY EmptySeq
<1>3. Back(q \o b) = Back(b) BY <1>1 DEF Back
<1>4. (q \o b)[1] = IF q = <<>> THEN b[1] ELSE q[1]
  <2>1. CASE q = <<>>
    <3>1. (q \o b)[Len(q) + 1] = b[1] BY <1>1
    <3> QED BY <3>1, <1>1, <1>2, <2>1
  <2>2. CASE q # <<>> BY <1>1, <1>2, <2>2
  <2> QED BY <2>1, <2>2
<1>5. ASSUME NEW i \in 1..(Len(q \o b) - 1)
      PROVE  Joins(again, (q \o b)[i], (q \o b)[i + 1])
  <2>1. CASE i < Len(q)
    <3>1. i \in 1..(Len(q) - 1) BY <1>1, <2>1
    <3>2. (q \o b)[i] = q[i] /\ (q \o b)[i + 1] = q[i + 1] BY <1>1, <2>1, <3>1
    <3> QED BY <3>1, <3>2
  <2>2. CASE i = Len(q)
    <3>1. (q \o b)[i] = q[Len(q)] /\ (q \o b)[i + 1] = b[1] /\ q # <<>> BY <1>1, <1>2, <2>2
    <3> QED BY <3>1 DEF Back
  <2>3. CASE i > Len(q)
    <3>1. PICK j \in 1..(Len(b) - 1) : i = Len(q) + j
      <4>1. i - Len(q) \in 1..(Len(b) - 1) /\ i = Len(q) + (i - Len(q)) BY <1>1, <2>3
      <4> QED BY <4>1
    <3>2. (q \o b)[Len(q) + j] = b[j] /\ (q \o b)[Len(q) + (j + 1)] = b[j + 1] BY <1>1
    <3>3. Len(q) + (j + 1) = i + 1 BY <1>1, <3>1
    <3> QED BY <3>1, <3>2, <3>3
  <2> QED BY <1>1, <2>1, <2>2, <2>3
<1>6. q \o b # <<>> BY <1>1, EmptySeq
<1> QED BY <1>3, <1>4, <1>5, <1>6

(* An answer that is told again may go on in every way it could before.    *)
LEMMA MoreTold ==
  ASSUME NEW r \in Streams, Retold(r) => Retold(r)'
  PROVE  /\ \A w : Promise!Promised(w, Retold(r)) => Promise!Promised(w, Retold(r)')
         /\ \A c, d : Joins(Retold(r), c, d) => Joins(Retold(r)', c, d)
         /\ \A a : wire'[r] = wire[r] /\ sent'[r] = sent[r] /\ Ready(r, a) => Ready(r, a)'
<1>1. \A a, b : GoesOn(Retold(r), a, b) => GoesOn(Retold(r)', a, b)
  BY DEF GoesOn
<1>2. \A a, b : Goes(Retold(r), a, b) => Goes(Retold(r)', a, b)
  BY DEF Goes
<1>3. \A w : Promise!Promised(w, Retold(r)) => Promise!Promised(w, Retold(r)')
  BY <1>2, SameFrames
<1>4. \A c, d : Joins(Retold(r), c, d) => Joins(Retold(r)', c, d)
  BY <1>1 DEF Joins
<1>5. ASSUME NEW a, wire'[r] = wire[r], sent'[r] = sent[r], Ready(r, a) PROVE Ready(r, a)'
  <2>1. Back(wire[r])' = Back(wire[r]) BY <1>5 DEF Back
  <2>2. GoesOn(Retold(r), Back(wire[r]), a.f) => GoesOn(Retold(r), Back(wire[r]), a.f)'
    BY <1>1, <2>1 DEF GoesOn
  <2>3. /\ First(a.f)' <=> First(a.f)
        /\ Opens(a.f)' <=> Opens(a.f)
        /\ Follows(Back(wire[r]), a.f)' <=> Follows(Back(wire[r]), a.f)
    BY <2>1 DEF First, Opens, Follows
  <2> QED BY <1>5, <2>2, <2>3 DEF Ready
<1> QED BY <1>3, <1>4, <1>5

(* Nothing is written to the client: then its stream is as promised still. *)
LEMMA WireKept ==
  ASSUME NEW r \in Streams, Told(r), wire'[r] = wire[r], Retold(r) => Retold(r)'
  PROVE  Promise!Promised(wire[r], Retold(r))'
<1>1. Promise!Promised(wire'[r], Retold(r)') BY MoreTold DEF Told
<1> QED BY <1>1 DEF Promise!Promised, Promise!First, Promise!Follows, Promise!Begins

(* As long as nothing is produced or forwarded, what is under way fits.    *)
LEMMA QueueKept ==
  ASSUME NEW r \in Streams, SentInv(r), QueueInv(r), Retold(r) => Retold(r)',
         chan'[r] = chan[r], wire'[r] = wire[r], sent'[r] = sent[r]
  PROVE  (SentInv(r) /\ QueueInv(r))'
<1>1. SentInv(r)' BY DEF SentInv, Back, Has
<1>2. \A i \in 1..(Len(chan'[r]) - 1) : Joins(Retold(r)', chan'[r][i], chan'[r][i + 1])
  BY MoreTold DEF QueueInv
<1>3. ASSUME chan'[r] # <<>> PROVE Ready(r, chan[r][1])'
  <2>1. PICK a : a = chan[r][1] OBVIOUS
  <2>2. Ready(r, a) BY <1>3, <2>1 DEF QueueInv
  <2>3. Ready(r, a)' BY <2>2, MoreTold
  <2>4. chan'[r][1] = a BY <2>1
  <2> QED BY <2>3, <2>4 DEF Ready
<1> QED BY <1>1, <1>2, <1>3, Zenon DEF QueueInv

(* Chunks the generator of r produces that fit what it has produced before,*)
(* or, if the gateway has got it all, what that has sent.                  *)
LEMMA Continues ==
  ASSUME TypeOK, NEW r \in Streams, QueueInv(r), SentInv(r), Retold(r) => Retold(r)',
         NEW b \in Seq(Chunks), b # <<>>,
         chan[r] # <<>> => Joins(Retold(r)', Back(chan[r]), b[1]),
         chan[r] = <<>> => Ready(r, b[1])',
         \A i \in 1..(Len(b) - 1) : Joins(Retold(r)', b[i], b[i + 1]),
         chan'[r] = chan[r] \o b, wire'[r] = wire[r], sent'[r] = sent[r]
  PROVE  (QueueInv(r) /\ SentInv(r))' /\ chan'[r] # <<>> /\ Back(chan'[r]) = Back(b)
<1>1. chan[r] \in Seq(Chunks) BY DEF TypeOK, Requests
<1>2. /\ \A i \in 1..(Len(chan'[r]) - 1) : Joins(Retold(r)', chan'[r][i], chan'[r][i + 1])
      /\ chan'[r] # <<>> /\ Back(chan'[r]) = Back(b)
      /\ chan'[r][1] = IF chan[r] = <<>> THEN b[1] ELSE chan[r][1]
  <2> DEFINE q == chan[r]
             again == Retold(r)'
  <2>1. q \in Seq(Chunks) /\ \A i \in 1..(Len(q) - 1) : Joins(again, q[i], q[i + 1])
    BY <1>1, MoreTold DEF QueueInv
  <2>2. q # <<>> => Joins(again, Back(q), b[1])
    OBVIOUS
  <2>3. chan'[r] = q \o b /\ \A i \in 1..(Len(b) - 1) : Joins(again, b[i], b[i + 1])
    OBVIOUS
  <2> HIDE DEF q, again
  <2>4. /\ \A i \in 1..(Len(q \o b) - 1) : Joins(again, (q \o b)[i], (q \o b)[i + 1])
        /\ q \o b # <<>> /\ Back(q \o b) = Back(b)
        /\ (q \o b)[1] = IF q = <<>> THEN b[1] ELSE q[1]
    BY <2>1, <2>2, <2>3, QueueConcat
  <2>5. /\ \A i \in 1..(Len(chan'[r]) - 1) : Joins(again, chan'[r][i], chan'[r][i + 1])
        /\ chan'[r] # <<>> /\ Back(chan'[r]) = Back(b)
        /\ chan'[r][1] = IF q = <<>> THEN b[1] ELSE q[1]
    BY <2>3, <2>4, SMT
  <2> QED BY <2>5, Zenon DEF q, again
<1>3. Ready(r, chan[r][1])'
  <2>1. CASE chan[r] = <<>>
    <3>1. chan'[r][1] = b[1] BY <1>2, <2>1
    <3> QED BY <2>1, <3>1 DEF Ready
  <2>2. CASE chan[r] # <<>>
    <3>1. chan'[r][1] = chan[r][1] /\ Ready(r, chan[r][1]) BY <1>2, <2>2 DEF QueueInv
    <3>2. PICK a : a = chan[r][1] OBVIOUS
    <3>3. Ready(r, a)' BY <3>1, <3>2, MoreTold
    <3>4. chan'[r][1] = a BY <3>1, <3>2
    <3> QED BY <3>3, <3>4 DEF Ready
  <2> QED BY <2>1, <2>2
<1>4. QueueInv(r)'
  BY <1>2, <1>3, Zenon DEF QueueInv
<1>5. SentInv(r)'
  BY DEF SentInv, Back, Has
<1> QED BY <1>2, <1>4, <1>5

(* What is left of a request when nothing happens to it.                   *)
SameAt(r) ==
  /\ gen'[r] = gen[r] /\ last'[r] = last[r] /\ past'[r] = past[r] /\ chan'[r] = chan[r]
  /\ gw'[r] = gw[r] /\ sent'[r] = sent[r] /\ wire'[r] = wire[r]

(* What is told of a request depends on nothing else.                      *)
LEMMA Untouched ==
  ASSUME NEW r \in Streams, Told(r), SameAt(r)
  PROVE  Told(r)'
<1> USE DEF SameAt
<1>1. Retold(r)' <=> Retold(r) BY DEF Retold
<1>2. Promise!Promised(wire[r], Retold(r))' BY <1>1, WireKept
<1>3. SentInv(r) /\ QueueInv(r) => (SentInv(r) /\ QueueInv(r))' BY <1>1, QueueKept
<1>4. SourceInv(r) => SourceInv(r)' BY <1>1 DEF SourceInv, Before, Back, Raw
<1> QED BY <1>1, <1>2, <1>3, <1>4 DEF Told, Tape

(* No request is touched by what happens to another.                       *)
LEMMA Elsewhere ==
  ASSUME TypeOK, NEW r \in Requests, NEW x \in Requests, x # r,
         \/ Call(r) \/ Dispatch(r) \/ Adapt(r) \/ Generate(r) \/ CancelGen(r)
         \/ Gateway(r) \/ Disconnect(r)
  PROVE  SameAt(x)
<1> USE DEF SameAt, TypeOK, source, gateway, replica
<1>1. CASE Call(r) \/ Disconnect(r) \/ CancelGen(r)
  BY <1>1 DEF Call, Disconnect, CancelGen, Become
<1>2. ASSUME NEW chunks, NEW what, Conclude(r, chunks, what) PROVE SameAt(x)
  BY <1>2 DEF Conclude, Become, Produce, Remember
<1>3. ASSUME FallBack(r) PROVE SameAt(x)
  BY <1>3 DEF FallBack, Become, Said, Remember
<1>4. CASE Dispatch(r)
  BY <1>4, <1>2 DEF Dispatch, Become
<1>5. CASE Adapt(r)
  <2>1. ASSUME NEW frame \in Frames, AdapterYields(r, frame) PROVE SameAt(x)
    BY <2>1 DEF AdapterYields, Said, Produce, Remember
  <2>2. CASE AdapterReturns(r) BY <2>2, <1>2 DEF AdapterReturns
  <2>3. CASE AdapterAnswers(r) BY <2>3, <1>2 DEF AdapterAnswers
  <2>4. CASE AdapterReturnsError(r) BY <2>4, <1>2 DEF AdapterReturnsError
  <2>5. CASE AdapterRaises(r) BY <2>5, <1>2, <1>3 DEF AdapterRaises
  <2> QED BY <1>5, <2>1, <2>2, <2>3, <2>4, <2>5 DEF Adapt
<1>6. CASE Generate(r)
  <2>1. CASE LocalRejects(r) BY <2>1, <1>2 DEF LocalRejects
  <2>2. CASE LocalBegins(r) BY <2>2 DEF LocalBegins, Become
  <2>3. ASSUME NEW hi \in 1..MaxText, DeltaYields(r, hi) PROVE SameAt(x)
    BY <2>3 DEF DeltaYields, Said, Produce
  <2>4. ASSUME NEW hi \in 0..MaxText, DeltaRevised(r, hi) PROVE SameAt(x)
    BY <2>4 DEF DeltaRevised, Said, Produce, Remember
  <2>5. CASE DeltaEnds(r) BY <2>5, <1>2 DEF DeltaEnds
  <2>6. CASE DeltaUnsupported(r) BY <2>6, <1>2 DEF DeltaUnsupported, Become
  <2>7. CASE WholeYields(r) BY <2>7, <1>2 DEF WholeYields
  <2>8. CASE EngineRaises(r) BY <2>8, <1>2 DEF EngineRaises
  <2> QED BY <1>6, <2>1, <2>2, <2>3, <2>4, <2>5, <2>6, <2>7, <2>8 DEF Generate
<1>7. CASE Gateway(r)
  <2>1. CASE Prime(r) BY <2>1 DEF Prime, Reply
  <2>2. CASE Await(r) BY <2>2 DEF Await, Reply
  <2>3. CASE Forward(r) BY <2>3 DEF Forward, Write
  <2> QED BY <1>7, <2>1, <2>2, <2>3 DEF Gateway
<1> QED BY <1>1, <1>4, <1>5, <1>6, <1>7

(* What the generator of r may produce next.                               *)
Fits(r, again, d) ==
  \/ d.k \in {"exc", "end"}
  \/ /\ gen[r] = "adapter" /\ last[r] = Nothing
     /\ \/ d.k = "raw" /\ First(d.f)
        \/ d.k = "dict" /\ d.f = Error
  \/ /\ gen[r] = "adapter" /\ last[r] # Nothing
     /\ d.k = "raw" /\ Follows(last[r], d.f)
  \/ /\ gen[r] \in {"local", "whole", "deltas"} /\ last[r] = Nothing
     /\ d.k = "event" /\ Opens(d.f)
  \/ /\ gen[r] = "deltas" /\ last[r] # Nothing /\ d.k = "event"
     /\ \/ d.f = Finish
        \/ d.f.f = "text" /\ d.f.lo < d.f.hi /\ (d.f.lo = last[r].hi \/ (again /\ d.f.lo = 0))

(* What fits the generator's memory fits behind what is under way, or is   *)
(* ready to be sent.                                                       *)
LEMMA FitsBehind ==
  ASSUME TypeOK, NEW r \in Streams, Tape(r), gen[r] # "over", NEW d, Fits(r, Retold(r)', d),
         Retold(r) => Retold(r)', wire'[r] = wire[r], sent'[r] = sent[r]
  PROVE  /\ chan[r] # <<>> => Joins(Retold(r)', Back(chan[r]), d)
         /\ chan[r] = <<>> => Ready(r, d)'
<1> USE DEF Tape, SourceInv
<1>1. Back(wire[r])' = Back(wire[r]) BY DEF Back
<1>2. Raw(last[r]).k = "raw" /\ Raw(last[r]).f = last[r] BY DEF Raw
<1>3. CASE d.k \in {"exc", "end"}
  <2>1. Ready(r, d)' BY <1>3 DEF Ready
  <2>2. ASSUME chan[r] # <<>> PROVE Back(chan[r]).k \in {"raw", "event"}
    <3>1. gen[r] \in Generators \cup {"idle", "queued"} BY DEF TypeOK, Requests
    <3> QED BY <1>2, <2>2, <3>1 DEF Generators
  <2> QED BY <1>3, <2>1, <2>2 DEF Joins
<1>4. CASE d.k \notin {"exc", "end"} /\ gen[r] = "adapter" /\ last[r] = Nothing
  <2>1. chan[r] = <<>> /\ wire[r] = <<>> BY <1>4
  <2>2. \/ d.k = "raw" /\ First(d.f)
        \/ d.k = "dict" /\ d.f = Error
    BY <1>4 DEF Fits
  <2> QED BY <2>1, <2>2 DEF Ready, First
<1>5. CASE d.k \notin {"exc", "end"} /\ gen[r] = "adapter" /\ last[r] # Nothing
  <2>1. d.k = "raw" /\ Follows(last[r], d.f) BY <1>5 DEF Fits
  <2> QED BY <1>1, <1>2, <1>5, <2>1 DEF Joins, Ready, Follows
<1>6. CASE d.k \notin {"exc", "end"} /\ gen[r] # "adapter" /\ last[r] = Nothing
  <2>1. d.k = "event" /\ Opens(d.f) /\ gen[r] \in {"local", "whole", "deltas"}
    BY <1>6 DEF Fits
  <2> QED BY <1>6, <2>1 DEF Joins, Ready, Opens
<1>7. CASE d.k \notin {"exc", "end"} /\ gen[r] # "adapter" /\ last[r] # Nothing
  <2>1. /\ gen[r] = "deltas" /\ d.k = "event"
        /\ \/ d.f = Finish
           \/ d.f.f = "text" /\ d.f.lo < d.f.hi
              /\ (d.f.lo = last[r].hi \/ (Retold(r)' /\ d.f.lo = 0))
    BY <1>7 DEF Fits
  <2>2. \A a : Before(r, a) => GoesOn(Retold(r)', a, d.f)
    BY <2>1 DEF Before, GoesOn
  <2>3. ASSUME chan[r] # <<>> PROVE Joins(Retold(r)', Back(chan[r]), d)
    BY <1>7, <2>1, <2>2, <2>3 DEF Joins
  <2>4. ASSUME chan[r] = <<>> PROVE Ready(r, d)'
    <3>1. "role" \in sent'[r] /\ GoesOn(Retold(r)', Back(wire[r]), d.f)
      BY <1>7, <2>1, <2>2, <2>4
    <3> QED BY <1>1, <2>1, <3>1 DEF Ready, GoesOn
  <2> QED BY <2>3, <2>4
<1> QED BY <1>3, <1>4, <1>5, <1>6, <1>7

(* A request whose generator goes on or comes to an end is told on as long *)
(* as what is under way holds together.                                    *)
LEMMA SourceTold ==
  ASSUME NEW r \in Streams, Told(r), gen[r] \notin {"idle", "over"},
         wire'[r] = wire[r], sent'[r] = sent[r], gw'[r] = gw[r], past[r] \subseteq past'[r],
         Tape(r) /\ gw[r] \in {"priming", "mapping"} => Tape(r)'
  PROVE  Told(r)'
<1>1. Retold(r) => Retold(r)' BY DEF Retold
<1>2. Promise!Promised(wire[r], Retold(r))' BY <1>1, WireKept
<1>3. gw'[r] \notin {"refused", "complete", "truncated", "awaiting"} BY DEF Told
<1>4. gw[r] # "idle" BY DEF Told, Tape, SourceInv
<1>5. gw'[r] \in {"idle", "priming", "mapping"} => Tape(r)' BY <1>4 DEF Told
<1> QED BY <1>2, <1>3, <1>5 DEF Told

(* The generator of r ends with chunks that fit what it has produced.      *)
LEMMA ConcludesTold ==
  ASSUME TypeOK, NEW r \in Streams, Told(r), gen[r] \notin {"idle", "over"},
         NEW b \in Seq(Chunks), b # <<>>,
         Tape(r) => Fits(r, Retold(r)', b[1]),
         \A i \in 1..(Len(b) - 1) : Joins(Retold(r)', b[i], b[i + 1]),
         gen'[r] = "over", chan'[r] = chan[r] \o b,
         wire'[r] = wire[r], sent'[r] = sent[r], gw'[r] = gw[r],
         past[r] \subseteq past'[r]
  PROVE  Told(r)'
<1>1. Retold(r) => Retold(r)' BY DEF Retold
<1>2. ASSUME Tape(r), gw[r] \in {"priming", "mapping"} PROVE Tape(r)'
  <2>1. /\ chan[r] # <<>> => Joins(Retold(r)', Back(chan[r]), b[1])
        /\ chan[r] = <<>> => Ready(r, b[1])'
    BY <1>1, <1>2, FitsBehind
  <2>2. (QueueInv(r) /\ SentInv(r))'
    BY <1>1, <1>2, <2>1, Continues DEF Tape
  <2>3. SourceInv(r)'
    BY <1>2 DEF SourceInv
  <2> QED BY <2>2, <2>3 DEF Tape
<1> QED BY <1>2, SourceTold

(* The adapter goes on with a frame that fits what it has produced.        *)
LEMMA FrameTold ==
  ASSUME TypeOK, NEW r \in Streams, Told(r), gen[r] = "adapter",
         NEW f \in Frames, Tape(r) => Fits(r, Retold(r)', Raw(f)),
         gen'[r] = gen[r], last'[r] = f, chan'[r] = chan[r] \o <<Raw(f)>>,
         wire'[r] = wire[r], sent'[r] = sent[r], gw'[r] = gw[r],
         past[r] \subseteq past'[r]
  PROVE  Told(r)'
<1>1. Retold(r) => Retold(r)' BY DEF Retold
<1> DEFINE d == Raw(f)
<1>2. d \in Chunks /\ f # Nothing BY ChunkTypes, FrameOrder
<1>3. chan'[r] = chan[r] \o <<d>> /\ (Tape(r) => Fits(r, Retold(r)', d)) /\ d = Raw(f)
  OBVIOUS
<1> HIDE DEF d
<1>4. /\ <<d>> \in Seq(Chunks) /\ <<d>> # <<>> /\ <<d>>[1] = d /\ Len(<<d>>) = 1
      /\ Back(<<d>>) = d
  BY <1>2, SeqUpToTwo DEF Back
<1>5. ASSUME Tape(r) PROVE Tape(r)'
  <2>1. /\ chan[r] # <<>> => Joins(Retold(r)', Back(chan[r]), d)
        /\ chan[r] = <<>> => Ready(r, d)'
    BY <1>1, <1>3, <1>5, FitsBehind
  <2>2. \A i \in 1..(Len(<<d>>) - 1) : Joins(Retold(r)', <<d>>[i], <<d>>[i + 1])
    BY <1>4
  <2>3. (QueueInv(r) /\ SentInv(r))' /\ chan'[r] # <<>> /\ Back(chan'[r]) = d
    BY <1>1, <1>3, <1>4, <1>5, <2>1, <2>2, Continues DEF Tape
  <2>4. SourceInv(r)'
    BY <1>2, <1>3, <1>5, <2>3 DEF Tape, SourceInv, Back, Raw
  <2> QED BY <2>3, <2>4 DEF Tape
<1> QED BY <1>5, SourceTold

(* The deltas go on with a text that fits what they have produced.         *)
LEMMA DeltaTold ==
  ASSUME TypeOK, NEW r \in Streams, Told(r), gen[r] = "deltas",
         NEW f \in Frames, f.f = "text", Tape(r) => Fits(r, Retold(r)', Event(f)),
         gen'[r] = gen[r], last'[r] = f, chan'[r] = chan[r] \o <<Event(f)>>,
         wire'[r] = wire[r], sent'[r] = sent[r], gw'[r] = gw[r],
         past[r] \subseteq past'[r]
  PROVE  Told(r)'
<1>1. Retold(r) => Retold(r)' BY DEF Retold
<1> DEFINE d == Event(f)
<1>2. d \in Chunks /\ f # Nothing /\ d.k = "event" /\ d.f = f
  BY ChunkTypes, FrameOrder DEF Event
<1>3. chan'[r] = chan[r] \o <<d>> /\ (Tape(r) => Fits(r, Retold(r)', d))
  OBVIOUS
<1> HIDE DEF d
<1>4. /\ <<d>> \in Seq(Chunks) /\ <<d>> # <<>> /\ <<d>>[1] = d /\ Len(<<d>>) = 1
      /\ Back(<<d>>) = d
  BY <1>2, SeqUpToTwo DEF Back
<1>5. ASSUME Tape(r), gw[r] \in {"priming", "mapping"} PROVE Tape(r)'
  <2>1. /\ chan[r] # <<>> => Joins(Retold(r)', Back(chan[r]), d)
        /\ chan[r] = <<>> => Ready(r, d)'
    BY <1>1, <1>3, <1>5, FitsBehind
  <2>2. \A i \in 1..(Len(<<d>>) - 1) : Joins(Retold(r)', <<d>>[i], <<d>>[i + 1])
    BY <1>4
  <2>3. (QueueInv(r) /\ SentInv(r))' /\ chan'[r] # <<>> /\ Back(chan'[r]) = d
    BY <1>1, <1>3, <1>4, <1>5, <2>1, <2>2, Continues DEF Tape
  <2>4. SourceInv(r)'
    BY <1>2, <1>5, <2>3 DEF SourceInv, Back, Before
  <2> QED BY <2>3, <2>4 DEF Tape
<1> QED BY <1>5, SourceTold

(* What a sequence or another has, they have together.                     *)
LEMMA HasKept ==
  ASSUME NEW s \in Seq(Frames), NEW t \in Seq(Frames), NEW f, Has(s, f) \/ Has(t, f)
  PROVE  Has(s \o t, f)
<1>1. /\ Len(s) \in Nat /\ Len(t) \in Nat /\ Len(s \o t) = Len(s) + Len(t)
      /\ \A i \in 1..Len(s) : (s \o t)[i] = s[i]
      /\ \A i \in 1..Len(t) : (s \o t)[Len(s) + i] = t[i]
  BY LenProperties, ConcatProperties
<1>2. CASE Has(s, f)
  <2>1. PICK i \in 1..Len(s) : s[i] = f BY <1>2 DEF Has
  <2>2. i \in 1..Len(s \o t) /\ (s \o t)[i] = f BY <1>1, <2>1
  <2> QED BY <2>2 DEF Has
<1>3. CASE Has(t, f)
  <2>1. PICK i \in 1..Len(t) : t[i] = f BY <1>3 DEF Has
  <2>2. Len(s) + i \in 1..Len(s \o t) /\ (s \o t)[Len(s) + i] = f BY <1>1, <2>1
  <2> QED BY <2>2 DEF Has
<1> QED BY <1>2, <1>3

(* The end of a stream: with what the iterator adds, [DONE] has been said, *)
(* and where it should be.                                                 *)
LEMMA TrailerFits ==
  ASSUME TypeOK, NEW r \in Streams, Promise!Promised(wire[r], Retold(r)), SentInv(r)
  PROVE  /\ Promise!Promised(wire[r] \o Trailer(r), Retold(r))
         /\ Has(wire[r] \o Trailer(r), Done)
         /\ Trailer(r) \in {<<>>, <<Done>>, <<Finish, Done>>}
<1> DEFINE again == Retold(r)
<1>1. wire[r] \in Seq(Frames) /\ Trailer(r) \in Seq(Frames)
  BY TrailerFrames DEF TypeOK, Requests
<1>2. CASE "done" \in sent[r]
  <2>1. Trailer(r) = <<>> BY <1>2 DEF Trailer
  <2>2. wire[r] \o <<>> = wire[r] BY <1>1, ConcatEmptySeq
  <2> QED BY <1>2, <2>1, <2>2 DEF SentInv
<1>3. CASE "done" \notin sent[r] /\ "role" \in sent[r] /\ "finish" \notin sent[r]
  <2>1. Trailer(r) = <<Finish, Done>> BY <1>3 DEF Trailer
  <2>2. wire[r] # <<>> /\ Back(wire[r]).f = "text" BY <1>3 DEF SentInv
  <2>3. Goes(again, Back(wire[r]), Finish) BY <2>2, FrameOrder DEF Goes
  <2>4. /\ <<Finish, Done>> \in Seq(Frames) /\ <<Finish, Done>> # <<>>
        /\ Len(<<Finish, Done>>) = 2
        /\ <<Finish, Done>>[1] = Finish /\ <<Finish, Done>>[2] = Done
    BY FrameTypes, SeqUpToTwo
  <2>5. \A i \in 1..(Len(<<Finish, Done>>) - 1) :
          Goes(again, <<Finish, Done>>[i], <<Finish, Done>>[i + 1])
    BY <2>4, FrameOrder DEF Goes
  <2>6. Has(<<Finish, Done>>, Done) BY <2>4 DEF Has
  <2>7. Promise!Promised(wire[r] \o <<Finish, Done>>, again)
    BY <1>1, <2>2, <2>3, <2>4, <2>5, PromisedConcat
  <2>8. Has(wire[r] \o <<Finish, Done>>, Done)
    BY <1>1, <2>4, <2>6, HasKept
  <2> QED BY <2>1, <2>7, <2>8
<1>4. CASE "done" \notin sent[r] /\ ~("role" \in sent[r] /\ "finish" \notin sent[r])
  <2>1. Trailer(r) = <<Done>> BY <1>4 DEF Trailer
  <2>2. wire[r] # <<>> => Goes(again, Back(wire[r]), Done)
    BY <1>4, FrameOrder DEF SentInv, Goes
  <2>3. /\ <<Done>> \in Seq(Frames) /\ <<Done>> # <<>> /\ <<Done>>[1] = Done
        /\ Len(<<Done>>) = 1 /\ First(Done)
    BY FrameTypes, SeqUpToTwo, FrameOrder
  <2>4. \A i \in 1..(Len(<<Done>>) - 1) : Goes(again, <<Done>>[i], <<Done>>[i + 1])
    BY <2>3
  <2>5. Has(<<Done>>, Done) BY <2>3 DEF Has
  <2>6. Promise!Promised(wire[r] \o <<Done>>, again)
    BY <1>1, <2>2, <2>3, <2>4, PromisedConcat
  <2>7. Has(wire[r] \o <<Done>>, Done)
    BY <1>1, <2>3, <2>5, HasKept
  <2> QED BY <2>1, <2>6, <2>7
<1> QED BY <1>2, <1>3, <1>4

(* What the iterator writes for a chunk, one step of the promise may send. *)
LEMMA WrittenShape ==
  ASSUME NEW r \in Streams, NEW c \in Chunks, c.k \in {"raw", "dict", "event"},
         c.k = "event" => ~model.native
  PROVE  /\ c.f \in Frames
         /\ Written(r, c) =
              IF c.k # "event" THEN <<c.f>>
              ELSE IF "role" \notin sent[r]
              THEN IF c.f = Finish THEN <<Role, Finish, Done>> ELSE <<Role, c.f>>
              ELSE IF c.f = Finish THEN <<Finish, Done>> ELSE <<c.f>>
         /\ Written(r, c) \in Promise!Bursts
<1>1. c.f \in Frames BY ChunkFrames
<1>2. c.k # "event" => Written(r, c) = <<c.f>>
  BY Bursts DEF Written, Mapped
<1>3. c.k = "event" =>
        Written(r, c) = (IF "role" \notin sent[r] THEN <<Role>> ELSE <<>>)
                          \o <<c.f>> \o (IF c.f = Finish THEN <<Done>> ELSE <<>>)
  BY DEF Written, Mapped, Passthrough
<1>4. Written(r, c) =
        IF c.k # "event" THEN <<c.f>>
        ELSE IF "role" \notin sent[r]
        THEN IF c.f = Finish THEN <<Role, Finish, Done>> ELSE <<Role, c.f>>
        ELSE IF c.f = Finish THEN <<Finish, Done>> ELSE <<c.f>>
  <2>1. /\ <<>> \o <<c.f>> \o <<>> = <<c.f>>
        /\ <<Role>> \o <<c.f>> \o <<>> = <<Role, c.f>>
        /\ <<>> \o <<c.f>> \o <<Done>> = <<c.f, Done>>
        /\ <<Role>> \o <<c.f>> \o <<Done>> = <<Role, c.f, Done>>
    BY Bursts
  <2>2. CASE c.k = "event" /\ "role" \notin sent[r] BY <1>3, <2>1, <2>2
  <2>3. CASE c.k = "event" /\ "role" \in sent[r] BY <1>3, <2>1, <2>3
  <2> QED BY <1>2, <2>2, <2>3
<1>5. Written(r, c) \in Promise!Bursts
  BY <1>1, <1>4, SameFrames, Zenon DEF Promise!Bursts
<1> QED BY <1>1, <1>4, <1>5

(* What the iterator writes for a chunk that is ready keeps the stream as  *)
(* promised; the frame of the chunk is its last, unless that is the reason *)
(* for finishing, which [DONE] follows.                                    *)
LEMMA WrittenFits ==
  ASSUME TypeOK, NEW r \in Streams, Promise!Promised(wire[r], Retold(r)), SentInv(r),
         NEW c \in Chunks, c.k \in {"raw", "dict", "event"}, Ready(r, c),
         c.k = "event" => ~model.native
  PROVE  /\ Promise!Promised(wire[r] \o Written(r, c), Retold(r))
         /\ wire[r] \o Written(r, c) # <<>>
         /\ Back(wire[r] \o Written(r, c)) = IF c.k = "event" /\ c.f = Finish THEN Done ELSE c.f
         /\ Has(wire[r], Done) \/ c.f = Done \/ (c.k = "event" /\ c.f = Finish)
              => Has(wire[r] \o Written(r, c), Done)
<1> DEFINE again == Retold(r)
           w == wire[r]
           close == c.k = "event" /\ c.f = Finish
<1>1. w \in Seq(Frames) /\ c.f \in Frames BY WrittenShape DEF TypeOK, Requests
<1>2. ASSUME NEW b \in Seq(Frames), b # <<>>, b = Written(r, c),
             w = <<>> => First(b[1]),
             w # <<>> => Goes(again, Back(w), b[1]),
             \A i \in 1..(Len(b) - 1) : Goes(again, b[i], b[i + 1]),
             Back(b) = IF close THEN Done ELSE c.f
      PROVE  /\ Promise!Promised(w \o b, again) /\ w \o b # <<>>
             /\ Back(w \o b) = IF close THEN Done ELSE c.f
             /\ Has(w, Done) \/ c.f = Done \/ close => Has(w \o b, Done)
  <2>1. Promise!Promised(w \o b, again) /\ w \o b # <<>> /\ Back(w \o b) = Back(b)
    BY <1>1, <1>2, PromisedConcat
  <2>2. Len(b) \in 1..Len(b) BY <1>2, EmptySeq, LenProperties
  <2>3. c.f = Done \/ close => Has(b, Done) BY <1>2, <2>2 DEF Has, Back
  <2> QED BY <1>1, <1>2, <2>1, <2>3, HasKept
<1>3. CASE c.k # "event"
  <2>1. Written(r, c) = <<c.f>> BY <1>3, WrittenShape
  <2>2. /\ <<c.f>> \in Seq(Frames) /\ <<c.f>> # <<>> /\ <<c.f>>[1] = c.f
        /\ Len(<<c.f>>) = 1 /\ Back(<<c.f>>) = c.f
    BY <1>1, SeqUpToTwo DEF Back
  <2>3. /\ w = <<>> => First(c.f)
        /\ w # <<>> => Goes(again, Back(w), c.f)
    BY <1>3, FrameOrder DEF Ready, Goes
  <2>4. \A i \in 1..(Len(<<c.f>>) - 1) : Goes(again, <<c.f>>[i], <<c.f>>[i + 1])
    BY <2>2
  <2> QED BY <1>2, <1>3, <2>1, <2>2, <2>3, <2>4
<1>4. CASE c.k = "event" /\ "role" \notin sent[r]
  <2>1. (w = <<>> \/ again) /\ Opens(c.f)
    BY <1>4 DEF Ready
  <2>2. First(Role) /\ (w # <<>> => Goes(again, Back(w), Role))
    BY <2>1, FrameOrder, SameFrames DEF Goes, Promise!Begins
  <2>3. CASE c.f = Finish
    <3>1. Written(r, c) = <<Role, Finish, Done>>
      BY <1>4, <2>3, WrittenShape
    <3>2. /\ <<Role, Finish, Done>> \in Seq(Frames) /\ <<Role, Finish, Done>> # <<>>
          /\ <<Role, Finish, Done>>[1] = Role /\ <<Role, Finish, Done>>[2] = Finish
          /\ <<Role, Finish, Done>>[3] = Done /\ Len(<<Role, Finish, Done>>) = 3
      BY FrameTypes, SMT
    <3>3. \A i \in 1..(Len(<<Role, Finish, Done>>) - 1) :
            Goes(again, <<Role, Finish, Done>>[i], <<Role, Finish, Done>>[i + 1])
      <4>1. \A i \in 1..2 : i = 1 \/ i = 2 OBVIOUS
      <4> QED BY <3>2, <4>1, FrameOrder DEF Goes
    <3>4. Back(<<Role, Finish, Done>>) = Done BY <3>2 DEF Back
    <3> QED BY <1>2, <1>4, <2>2, <2>3, <3>1, <3>2, <3>3, <3>4
  <2>4. CASE c.f # Finish
    <3>1. Written(r, c) = <<Role, c.f>>
      BY <1>4, <2>4, WrittenShape
    <3>2. /\ <<Role, c.f>> \in Seq(Frames) /\ <<Role, c.f>> # <<>> /\ Len(<<Role, c.f>>) = 2
          /\ <<Role, c.f>>[1] = Role /\ <<Role, c.f>>[2] = c.f /\ Back(<<Role, c.f>>) = c.f
      BY <1>1, FrameTypes, SeqUpToTwo DEF Back
    <3>3. Follows(Role, c.f) BY <2>1, <2>4, FrameOrder DEF Opens, Follows
    <3>4. \A i \in 1..(Len(<<Role, c.f>>) - 1) :
            Goes(again, <<Role, c.f>>[i], <<Role, c.f>>[i + 1])
      BY <3>2, <3>3 DEF Goes
    <3> QED BY <1>2, <2>2, <2>4, <3>1, <3>2, <3>4
  <2> QED BY <2>3, <2>4
<1>5. CASE c.k = "event" /\ "role" \in sent[r]
  <2>1. w # <<>> /\ GoesOn(again, Back(w), c.f)
    BY <1>5 DEF Ready, SentInv
  <2>2. Goes(again, Back(w), c.f)
    BY <2>1, FrameOrder DEF GoesOn, Goes, Follows, Promise!Begins
  <2>3. CASE c.f = Finish
    <3>1. Written(r, c) = <<Finish, Done>>
      BY <1>5, <2>3, WrittenShape
    <3>2. /\ <<Finish, Done>> \in Seq(Frames) /\ <<Finish, Done>> # <<>>
          /\ Len(<<Finish, Done>>) = 2 /\ <<Finish, Done>>[1] = Finish
          /\ <<Finish, Done>>[2] = Done /\ Back(<<Finish, Done>>) = Done
      BY FrameTypes, SeqUpToTwo DEF Back
    <3>3. \A i \in 1..(Len(<<Finish, Done>>) - 1) :
            Goes(again, <<Finish, Done>>[i], <<Finish, Done>>[i + 1])
      BY <3>2, FrameOrder DEF Goes
    <3> QED BY <1>2, <1>5, <2>1, <2>2, <2>3, <3>1, <3>2, <3>3
  <2>4. CASE c.f # Finish
    <3>1. Written(r, c) = <<c.f>>
      BY <1>5, <2>4, WrittenShape
    <3>2. /\ <<c.f>> \in Seq(Frames) /\ <<c.f>> # <<>> /\ <<c.f>>[1] = c.f
          /\ Len(<<c.f>>) = 1 /\ Back(<<c.f>>) = c.f
      BY <1>1, SeqUpToTwo DEF Back
    <3>3. \A i \in 1..(Len(<<c.f>>) - 1) : Goes(again, <<c.f>>[i], <<c.f>>[i + 1])
      BY <3>2
    <3> QED BY <1>2, <2>1, <2>2, <2>4, <3>1, <3>2, <3>3
  <2> QED BY <2>3, <2>4
<1> QED BY <1>3, <1>4, <1>5

(* What the iterator remembers is still true behind what it has written.   *)
LEMMA WrittenKnown ==
  ASSUME TypeOK, NEW r \in Streams, Promise!Promised(wire[r], Retold(r)), SentInv(r),
         NEW c \in Chunks, c.k \in {"raw", "dict", "event"}, Ready(r, c),
         c.k = "event" => ~model.native,
         wire'[r] = wire[r] \o Written(r, c), sent'[r] = NowSent(r, c)
  PROVE  SentInv(r)'
<1>1. /\ wire'[r] # <<>>
      /\ Back(wire'[r]) = IF c.k = "event" /\ c.f = Finish THEN Done ELSE c.f
      /\ Has(wire[r], Done) \/ c.f = Done \/ (c.k = "event" /\ c.f = Finish) => Has(wire'[r], Done)
  BY WrittenFits
<1>2. CASE c.k = "event"
  <2>1. sent'[r] = sent[r] \cup {"role"} \cup (IF c.f = Finish THEN {"finish", "done"} ELSE {})
    BY <1>2 DEF NowSent, Mapped, Passthrough, Raw
  <2>2. c.f = Finish \/ c.f.f = "text"
    BY <1>2 DEF Ready, Opens, GoesOn
  <2>3. c.f # Finish => c.f # Done
    BY <2>2, FrameOrder
  <2>4. Has(wire[r], Done)' <=> Has(wire'[r], Done) BY DEF Has
  <2> QED BY <1>1, <1>2, <2>1, <2>2, <2>3, <2>4 DEF SentInv, Back
<1>3. CASE c.k # "event"
  <2>1. /\ sent'[r] = sent[r] \cup (IF c = Raw(Done) THEN {"done"} ELSE {})
        /\ "role" \notin sent[r]
    BY <1>3 DEF NowSent, Mapped, Ready, SentInv
  <2>2. c.f = Done <=> c = Raw(Done)
    <3>1. c.k = "dict" => c.f = Error BY <1>3 DEF Ready
    <3>2. c.k = "raw" => c = [k |-> "raw", f |-> c.f] BY DEF Chunks, Payload, Exc, End
    <3> QED BY <1>3, <3>1, <3>2, FrameOrder DEF Raw
  <2>3. Has(wire[r], Done)' <=> Has(wire'[r], Done) BY DEF Has
  <2> QED BY <1>1, <1>3, <2>1, <2>2, <2>3 DEF SentInv, Back
<1> QED BY <1>2, <1>3

(* The chunk behind one that was written is ready in its turn.             *)
LEMMA NextReady ==
  ASSUME TypeOK, NEW r \in Streams, Promise!Promised(wire[r], Retold(r)), SentInv(r),
         NEW c \in Chunks, c.k \in {"raw", "dict", "event"}, Ready(r, c),
         c.k = "event" => ~model.native,
         wire'[r] = wire[r] \o Written(r, c), sent'[r] = NowSent(r, c), past'[r] = past[r],
         NEW d \in Chunks, Joins(Retold(r), c, d)
  PROVE  Ready(r, d)'
<1>1. /\ wire'[r] # <<>>
      /\ Back(wire'[r]) = IF c.k = "event" /\ c.f = Finish THEN Done ELSE c.f
  BY WrittenFits
<1>2. (Retold(r)' <=> Retold(r)) /\ Back(wire[r])' = Back(wire'[r])
  BY DEF Retold, Back
<1>3. CASE d.k \in {"exc", "end"} BY <1>3 DEF Ready
<1>4. CASE d.k \notin {"exc", "end"} /\ c.k = "raw"
  <2>1. "role" \notin sent'[r]
    BY <1>4 DEF Ready, SentInv, NowSent, Mapped
  <2>2. \/ d.k = "raw" /\ Follows(c.f, d.f)
        \/ d.k = "event" /\ Retold(r) /\ Opens(d.f)
    BY <1>4 DEF Joins
  <2>3. Back(wire'[r]) = c.f BY <1>1, <1>4
  <2> QED BY <1>1, <1>2, <2>1, <2>2, <2>3 DEF Ready, Opens, Follows
<1>5. CASE d.k \notin {"exc", "end"} /\ c.k # "raw"
  <2>1. c.k = "event" /\ d.k = "event" /\ GoesOn(Retold(r), c.f, d.f)
    BY <1>5 DEF Joins
  <2>2. "role" \in sent'[r]
    BY <2>1 DEF NowSent, Mapped, Passthrough
  <2>3. c.f # Finish
    BY <2>1, FrameOrder DEF GoesOn
  <2>4. GoesOn(Retold(r), Back(wire'[r]), d.f)
    BY <1>1, <2>1, <2>3
  <2> QED BY <1>2, <2>1, <2>2, <2>4 DEF Ready, GoesOn
<1> QED BY <1>3, <1>4, <1>5

(* One chunk less under way.                                               *)
LEMMA QueueTail ==
  ASSUME NEW again, NEW q \in Seq(Chunks), q # <<>>,
         \A i \in 1..(Len(q) - 1) : Joins(again, q[i], q[i + 1])
  PROVE  /\ Head(q) = q[1] /\ q[1] \in Chunks /\ Tail(q) \in Seq(Chunks)
         /\ \A i \in 1..(Len(Tail(q)) - 1) : Joins(again, Tail(q)[i], Tail(q)[i + 1])
         /\ Tail(q) # <<>> => /\ Tail(q)[1] \in Chunks
                              /\ Joins(again, q[1], Tail(q)[1])
                              /\ Back(Tail(q)) = Back(q)
         /\ Tail(q) = <<>> => Back(q) = q[1]
<1>1. /\ Len(q) \in Nat \ {0} /\ Tail(q) \in Seq(Chunks) /\ Len(Tail(q)) = Len(q) - 1
      /\ \A i \in 1..(Len(q) - 1) : Tail(q)[i] = q[i + 1]
  BY EmptySeq, HeadTailProperties
<1>2. Head(q) = q[1] /\ q[1] \in Chunks
  BY <1>1, ElementOfSeq
<1>3. \A i \in 1..(Len(Tail(q)) - 1) : Joins(again, Tail(q)[i], Tail(q)[i + 1])
  <2> SUFFICES ASSUME NEW i \in 1..(Len(Tail(q)) - 1)
               PROVE  Joins(again, Tail(q)[i], Tail(q)[i + 1])
    OBVIOUS
  <2>1. i \in 1..(Len(q) - 1) /\ i + 1 \in 1..(Len(q) - 1) BY <1>1
  <2>2. Tail(q)[i] = q[i + 1] /\ Tail(q)[i + 1] = q[(i + 1) + 1] BY <1>1, <2>1
  <2> QED BY <2>1, <2>2
<1>4. ASSUME Tail(q) # <<>>
      PROVE  /\ Tail(q)[1] \in Chunks /\ Joins(again, q[1], Tail(q)[1])
             /\ Back(Tail(q)) = Back(q)
  <2>1. Len(Tail(q)) # 0 BY <1>1, <1>4, EmptySeq
  <2>2. 1 \in 1..(Len(q) - 1) /\ Len(Tail(q)) \in 1..(Len(q) - 1) BY <1>1, <2>1
  <2>3. Tail(q)[1] = q[1 + 1] /\ Tail(q)[Len(Tail(q))] = q[Len(q)] BY <1>1, <2>2
  <2>4. Tail(q)[1] \in Chunks BY <1>1, <2>2, ElementOfSeq
  <2> QED BY <2>2, <2>3, <2>4 DEF Back
<1>5. ASSUME Tail(q) = <<>> PROVE Back(q) = q[1]
  <2>1. Len(Tail(q)) = 0 BY <1>5, EmptySeq
  <2>2. Len(q) \in Nat /\ Len(q) - 1 = 0 BY <1>1, <2>1, Zenon
  <2>3. Len(q) = 1 BY <2>2
  <2> QED BY <2>3 DEF Back
<1> QED BY <1>1, <1>2, <1>3, <1>4, <1>5

(* Behind an exception or an end nothing is under way, and its generator is*)
(* over.                                                                   *)
LEMMA StopIsLast ==
  ASSUME TypeOK, NEW r \in Streams, Tape(r), chan[r] # <<>>,
         Head(chan[r]).k \in {"exc", "end"}
  PROVE  gen[r] = "over"
<1> DEFINE q == chan[r]
           again == Retold(r)
<1>1. q \in Seq(Chunks) /\ q # <<>> /\ \A i \in 1..(Len(q) - 1) : Joins(again, q[i], q[i + 1])
  BY DEF TypeOK, Requests, Tape, QueueInv
<1>2. Head(q).k \in {"exc", "end"} OBVIOUS
<1> HIDE DEF q, again
<1>3. /\ Head(q) = q[1]
      /\ Tail(q) # <<>> => Joins(again, q[1], Tail(q)[1])
      /\ Tail(q) = <<>> => Back(q) = q[1]
  BY <1>1, QueueTail
<1>4. Back(q).k \in {"exc", "end"}
  BY <1>2, <1>3 DEF Joins
<1>5. gen[r] \in Generators \cup {"idle", "queued", "over"} BY DEF TypeOK, Requests
<1>6. Raw(last[r]).k = "raw" BY DEF Raw
<1> QED BY <1>1, <1>4, <1>5, <1>6 DEF q, Tape, SourceInv, Generators

(* What a step of the gateway that forwards a chunk does to its request.   *)
LEMMA ForwardDoes ==
  ASSUME TypeOK, ChanInv, NEW r \in Streams, Told(r), Forward(r)
  PROVE  /\ gw[r] = "mapping" /\ Tape(r) /\ Retold(r)' = Retold(r)
         /\ \/ gw'[r] = "truncated" /\ gen'[r] = "over" /\ wire'[r] = wire[r]
            \/ /\ gw'[r] = "complete" /\ gen'[r] = "over"
               /\ wire'[r] = wire[r] \o Trailer(r)
            \/ /\ gw'[r] = "mapping"
               /\ \E c \in Chunks :
                    /\ c = Head(chan[r]) /\ c.k \in {"raw", "dict", "event"} /\ Ready(r, c)
                    /\ c.k = "event" => ~model.native
                    /\ wire'[r] = wire[r] \o Written(r, c)
                    /\ sent'[r] = NowSent(r, c) /\ chan'[r] = Tail(chan[r])
<1>1. /\ gw[r] = "mapping" /\ chan[r] # <<>> /\ r \in Requests
      /\ UNCHANGED <<model, replica, source, answer>>
  BY DEF Forward, Arrived, Write, Requests
<1>2. Tape(r) /\ Retold(r)' = Retold(r) /\ gen'[r] = gen[r]
  BY <1>1 DEF Told, source, Retold
<1>3. chan[r] \in Seq(Allowed(r)) /\ Len(chan[r]) \in Nat \ {0} /\ Head(chan[r]) = chan[r][1]
  <2>1. chan[r] \in Seq(Allowed(r)) BY <1>1 DEF ChanInv
  <2> QED BY <1>1, <2>1, EmptySeq, HeadTailProperties
<1>4. PICK c : c = Head(chan[r])
  OBVIOUS
<1>5. c \in Allowed(r) /\ Ready(r, c)
  BY <1>1, <1>2, <1>3, <1>4, ElementOfSeq DEF Tape, QueueInv
<1>6. c \in Chunks /\ c.k # "payload" /\ (c.k = "event" => ~model.native)
  BY <1>5 DEF Allowed
<1>7. CASE c.k = "exc"
  <2>1. wire'[r] = wire[r] \o <<>> /\ gw'[r] = "truncated"
    BY <1>1, <1>4, <1>7 DEF Forward, Write, TypeOK
  <2>2. wire[r] \o <<>> = wire[r]
    BY <1>1, ConcatEmptySeq DEF TypeOK
  <2>3. gen[r] = "over" BY <1>1, <1>2, <1>4, <1>7, StopIsLast
  <2> QED BY <1>1, <1>2, <2>1, <2>2, <2>3
<1>8. CASE c.k = "end"
  <2>1. wire'[r] = wire[r] \o Trailer(r) /\ gw'[r] = "complete"
    BY <1>1, <1>4, <1>8 DEF Forward, Write, TypeOK
  <2>2. gen[r] = "over" BY <1>1, <1>2, <1>4, <1>8, StopIsLast
  <2> QED BY <1>1, <1>2, <2>1, <2>2
<1>9. CASE c.k \notin {"exc", "end"}
  <2>1. /\ wire'[r] = wire[r] \o Written(r, c) /\ gw'[r] = "mapping"
        /\ sent'[r] = NowSent(r, c) /\ chan'[r] = Tail(chan[r])
    BY <1>1, <1>4, <1>9 DEF Forward, Write, TypeOK
  <2>2. c.k \in {"raw", "dict", "event"}
    BY <1>6, <1>9 DEF Chunks, Payload, Exc, End
  <2> QED BY <1>1, <1>2, <1>4, <1>5, <1>6, <2>1, <2>2
<1> QED BY <1>7, <1>8, <1>9

(* The gateway passes a chunk on, or comes to the end of the stream.       *)
LEMMA ForwardTold ==
  ASSUME TypeOK, ChanInv, NEW r \in Streams, Told(r), Forward(r)
  PROVE  Told(r)'
<1>1. /\ chan[r] # <<>> /\ r \in Requests /\ UNCHANGED <<model, replica, source, answer>>
  BY DEF Forward, Arrived, Write, Requests
<1>2. /\ gw[r] = "mapping" /\ SentInv(r) /\ QueueInv(r) /\ SourceInv(r)
      /\ Promise!Promised(wire[r], Retold(r)) /\ Retold(r)' = Retold(r)
  BY ForwardDoes DEF Told, Tape
<1>3. ASSUME Promise!Promised(wire'[r], Retold(r)) PROVE Promise!Promised(wire[r], Retold(r))'
  <2>1. Promise!Promised(wire'[r], Retold(r)') BY <1>2, <1>3, Zenon
  <2> QED BY <2>1 DEF Promise!Promised, Promise!First, Promise!Follows, Promise!Begins
<1>4. CASE gw'[r] = "truncated"
  <2>1. gen'[r] = "over" /\ wire'[r] = wire[r] BY <1>4, ForwardDoes
  <2> QED BY <1>2, <1>4, <2>1, WireKept DEF Told
<1>5. CASE gw'[r] = "complete"
  <2>1. gen'[r] = "over" /\ wire'[r] = wire[r] \o Trailer(r) BY <1>5, ForwardDoes
  <2>2. Promise!Promised(wire'[r], Retold(r)) BY <1>2, <2>1, TrailerFits
  <2> QED BY <1>3, <1>5, <2>1, <2>2 DEF Told
<1>6. CASE gw'[r] = "mapping"
  <2>1. PICK c \in Chunks :
          /\ c = Head(chan[r]) /\ c.k \in {"raw", "dict", "event"} /\ Ready(r, c)
          /\ c.k = "event" => ~model.native
          /\ wire'[r] = wire[r] \o Written(r, c)
          /\ sent'[r] = NowSent(r, c) /\ chan'[r] = Tail(chan[r])
    BY <1>6, ForwardDoes
  <2> DEFINE q == chan[r]
             again == Retold(r)
  <2>2. q \in Seq(Chunks) /\ q # <<>> /\ \A i \in 1..(Len(q) - 1) : Joins(again, q[i], q[i + 1])
    BY <1>1, <1>2 DEF TypeOK, QueueInv
  <2>3. c = Head(q) /\ chan[r] = q /\ chan'[r] = Tail(q) /\ again = Retold(r)
    BY <2>1
  <2> HIDE DEF q, again
  <2>4. /\ \A i \in 1..(Len(Tail(q)) - 1) : Joins(again, Tail(q)[i], Tail(q)[i + 1])
        /\ Tail(q) # <<>> => /\ Tail(q)[1] \in Chunks
                             /\ Joins(again, c, Tail(q)[1])
                             /\ Back(Tail(q)) = Back(q)
        /\ Tail(q) = <<>> => Back(q) = c
    BY <2>2, <2>3, QueueTail
  <2>5. /\ Promise!Promised(wire'[r], Retold(r)) /\ wire'[r] # <<>>
        /\ Back(wire'[r]) = IF c.k = "event" /\ c.f = Finish THEN Done ELSE c.f
    BY <1>2, <2>1, WrittenFits
  <2>6. SentInv(r)'
    BY <1>2, <2>1, WrittenKnown
  <2>7. QueueInv(r)'
    <3>1. ASSUME chan'[r] # <<>> PROVE Ready(r, chan[r][1])'
      <4>1. PICK d \in Chunks : d = Tail(q)[1] /\ Joins(Retold(r), c, d)
        BY <2>3, <2>4, <3>1
      <4>2. Ready(r, d)'
        BY <1>1, <1>2, <2>1, <4>1, NextReady DEF source
      <4>3. chan'[r][1] = d
        BY <2>3, <4>1
      <4> QED BY <4>2, <4>3 DEF Ready
    <3>2. chan'[r] # <<>> => Ready(r, chan[r][1])'
      BY <3>1
    <3>3. \A i \in 1..(Len(chan'[r]) - 1) : Joins(Retold(r)', chan'[r][i], chan'[r][i + 1])
      BY <1>2, <2>3, <2>4, Zenon
    <3> QED BY <3>2, <3>3, Zenon DEF QueueInv
  <2>8. SourceInv(r)'
    <3>1. gen'[r] = gen[r] /\ last'[r] = last[r]
      BY <1>1 DEF source
    <3>2. gen[r] \notin {"idle", "queued"} /\ ~(gen[r] = "adapter" /\ last[r] = Nothing)
      BY <1>1, <1>2 DEF SourceInv
    <3>3. c.k = "raw" => "role" \notin sent'[r]
      BY <1>2, <2>1 DEF NowSent, Mapped, Ready, SentInv
    <3>4. c.k = "event" => "role" \in sent'[r]
      BY <2>1 DEF NowSent, Mapped, Passthrough
    <3>5. ASSUME gen[r] = "adapter"
          PROVE  /\ chan'[r] # <<>> => Back(chan'[r]) = Raw(last[r])
                 /\ chan'[r] = <<>> => "role" \notin sent'[r] /\ Back(wire'[r]) = last[r]
      <4>1. Back(q) = Raw(last[r]) BY <1>1, <1>2, <2>3, <3>2, <3>5 DEF SourceInv
      <4>2. c = Raw(last[r]) => c.k = "raw" /\ c.f = last[r] BY DEF Raw
      <4> QED BY <2>3, <2>4, <2>5, <3>3, <4>1, <4>2
    <3>6. ASSUME gen[r] \in {"local", "deltas", "whole"}, last[r] = Nothing
          PROVE  /\ chan'[r] # <<>> => Back(chan'[r]).k = "raw" /\ Retold(r)
                 /\ chan'[r] = <<>> => "role" \notin sent'[r] /\ Retold(r)
      <4>1. Back(q).k = "raw" /\ Retold(r) BY <1>1, <1>2, <2>3, <3>6 DEF SourceInv
      <4> QED BY <2>3, <2>4, <3>3, <4>1
    <3>7. ASSUME gen[r] = "deltas", last[r] # Nothing
          PROVE  /\ chan'[r] # <<>> => Back(chan'[r]).k = "event" /\ Before(r, Back(chan'[r]).f)
                 /\ chan'[r] = <<>> => "role" \in sent'[r] /\ Before(r, Back(wire'[r]))
      <4>1. Back(q).k = "event" /\ Before(r, Back(q).f)
        BY <1>1, <1>2, <2>3, <3>7 DEF SourceInv
      <4>2. Before(r, c.f) => c.f # Finish BY FrameOrder DEF Before
      <4> QED BY <2>3, <2>4, <2>5, <3>4, <4>1, <4>2
    <3>8. \A a : Before(r, a)' <=> Before(r, a)
      BY <1>2, <3>1 DEF Before
    <3>9. Back(chan[r])' = Back(chan'[r]) /\ Back(wire[r])' = Back(wire'[r]) BY DEF Back
    <3>10. Before(r, Back(chan'[r]).f) => Before(r, Back(chan[r]).f)'
      BY <1>2, <3>1, <3>9 DEF Before
    <3>11. Before(r, Back(wire'[r])) => Before(r, Back(wire[r]))'
      BY <1>2, <3>1, <3>9 DEF Before
    <3> QED
      BY <1>2, <1>6, <2>5, <3>1, <3>2, <3>5, <3>6, <3>7, <3>9, <3>10, <3>11 DEF SourceInv, Raw
  <2>9. Promise!Promised(wire[r], Retold(r))' BY <1>3, <2>5
  <2> QED BY <1>6, <2>6, <2>7, <2>8, <2>9 DEF Told, Tape
<1> QED BY <1>4, <1>5, <1>6, ForwardDoes

(* The generator of r ends through Conclude.                               *)
LEMMA ConcludeTold ==
  ASSUME TypeOK, NEW r \in Streams, Told(r), gen[r] \notin {"idle", "over"},
         NEW b \in Seq(Chunks), b # <<>>, NEW what \in SUBSET Happenings,
         Conclude(r, b, what),
         Tape(r) => Fits(r, Retold(r)', b[1]),
         \A i \in 1..(Len(b) - 1) : Joins(Retold(r)', b[i], b[i + 1])
  PROVE  Told(r)'
<1>1. r \in Requests BY DEF Requests
<1>2. /\ gen'[r] = "over" /\ chan'[r] = chan[r] \o b /\ wire'[r] = wire[r]
      /\ sent'[r] = sent[r] /\ gw'[r] = gw[r] /\ past[r] \subseteq past'[r]
  BY <1>1 DEF Conclude, Become, Produce, Remember, gateway, TypeOK
<1> QED BY <1>2, ConcludesTold

(* The same for a single exception or end, which fits anything.            *)
LEMMA StopTold ==
  ASSUME TypeOK, NEW r \in Streams, Told(r), gen[r] \notin {"idle", "over"},
         NEW c \in Chunks, c.k \in {"exc", "end"}, NEW what \in SUBSET Happenings,
         Conclude(r, <<c>>, what)
  PROVE  Told(r)'
<1>1. /\ <<c>> \in Seq(Chunks) /\ <<c>> # <<>> /\ <<c>>[1] = c /\ Len(<<c>>) = 1
  BY SeqUpToTwo
<1>2. Fits(r, Retold(r)', <<c>>[1]) BY <1>1 DEF Fits
<1>3. \A i \in 1..(Len(<<c>>) - 1) : Joins(Retold(r)', <<c>>[i], <<c>>[i + 1]) BY <1>1
<1> QED BY <1>1, <1>2, <1>3, ConcludeTold

(* And for a last chunk with the end behind it.                            *)
LEMMA LastTold ==
  ASSUME TypeOK, NEW r \in Streams, Told(r), gen[r] \notin {"idle", "over"},
         NEW c \in Chunks, c.k \in {"dict", "event"}, NEW what \in SUBSET Happenings,
         Tape(r) => Fits(r, Retold(r)', c),
         Conclude(r, <<c, End>>, what)
  PROVE  Told(r)'
<1>1. /\ <<c, End>> \in Seq(Chunks) /\ <<c, End>> # <<>> /\ <<c, End>>[1] = c
      /\ Len(<<c, End>>) = 2 /\ <<c, End>>[2] = End
  BY ChunkTypes, SeqUpToTwo
<1>2. Joins(Retold(r)', c, End) BY DEF Joins, End
<1>3. \A i \in 1..(Len(<<c, End>>) - 1) : Joins(Retold(r)', <<c, End>>[i], <<c, End>>[i + 1])
  BY <1>1, <1>2
<1> QED BY <1>1, <1>3, ConcludeTold

(* Exceptions and the end are chunks that stop a stream.                   *)
LEMMA Stops ==
  /\ \A e \in Exceptions : Exc(e) \in Chunks /\ Exc(e).k = "exc"
  /\ End \in Chunks /\ End.k = "end"
  BY ChunkTypes DEF Exc, End

(* A generator that is exchanged for another one: it has not said a word,  *)
(* or it is the adapter, and the answer is told again.                     *)
LEMMA ExchangeTold ==
  ASSUME TypeOK, NEW r \in Streams, Told(r), gen[r] \notin {"idle", "over"},
         gen'[r] \in {"local", "whole", "adapter", "deltas"},
         gen'[r] = "adapter" => gen[r] = "queued",
         last'[r] = Nothing,
         gen[r] = "adapter" /\ last[r] # Nothing => Retold(r)',
         gen[r] = "deltas" => last[r] = Nothing,
         chan'[r] = chan[r], wire'[r] = wire[r], sent'[r] = sent[r], gw'[r] = gw[r],
         past[r] \subseteq past'[r]
  PROVE  Told(r)'
<1>1. Retold(r) => Retold(r)' BY DEF Retold
<1>2. ASSUME Tape(r), gw[r] \in {"priming", "mapping"} PROVE Tape(r)'
  <2>1. (SentInv(r) /\ QueueInv(r))' BY <1>1, <1>2, QueueKept DEF Tape
  <2>2. gen[r] \in Generators \cup {"queued"} BY DEF TypeOK, Requests
  <2>3. /\ chan[r] # <<>> => Back(chan[r]).k = "raw" /\ Retold(r)'
        /\ chan[r] = <<>> => "role" \notin sent[r] /\ (wire[r] = <<>> \/ Retold(r)')
        /\ gen[r] = "queued" => chan[r] = <<>> /\ wire[r] = <<>>
    BY <1>1, <1>2, <2>2 DEF Tape, SentInv, SourceInv, Raw, Generators
  <2>4. SourceInv(r)'
    BY <1>2, <2>3 DEF SourceInv, Back
  <2> QED BY <2>1, <2>4 DEF Tape
<1> QED BY <1>2, SourceTold

(* What the adapter does for a stream.                                     *)
LEMMA AdaptTold ==
  ASSUME TypeOK, NEW r \in Streams, Told(r), Adapt(r)
  PROVE  Told(r)'
<1>1. r \in Requests /\ gen[r] = "adapter" /\ r \notin Plains
  <2>1. r \in Requests /\ r \notin Plains BY DEF Requests
  <2>2. gen[r] = "adapter"
    BY DEF Adapt, AdapterYields, AdapterReturns, AdapterAnswers, AdapterReturnsError,
           AdapterRaises, Working
  <2> QED BY <2>1, <2>2
<1>2. ASSUME NEW frame \in Frames, AdapterYields(r, frame) PROVE Told(r)'
  <2>1. /\ IF last[r] = Nothing THEN frame = Role ELSE Follows(last[r], frame)
        /\ Said(r, frame) /\ Produce(r, <<Raw(frame)>>)
        /\ Remember(r, IF frame = Done THEN {"concluded"} ELSE {})
        /\ UNCHANGED <<model, replica, gen, gateway>>
    BY <1>2 DEF AdapterYields
  <2>2. Raw(frame).k = "raw" /\ Raw(frame).f = frame BY DEF Raw
  <2>3. Fits(r, Retold(r)', Raw(frame))
    BY <1>1, <2>1, <2>2, FrameOrder DEF Fits
  <2>4. /\ gen'[r] = gen[r] /\ last'[r] = frame /\ chan'[r] = chan[r] \o <<Raw(frame)>>
        /\ wire'[r] = wire[r] /\ sent'[r] = sent[r] /\ gw'[r] = gw[r]
        /\ past[r] \subseteq past'[r]
    BY <1>1, <2>1 DEF Said, Produce, Remember, gateway, TypeOK
  <2> QED BY <1>1, <2>3, <2>4, FrameTold
<1>3. CASE AdapterReturns(r)
  BY <1>1, <1>3, StopTold, Stops DEF AdapterReturns
<1>4. CASE AdapterAnswers(r)
  BY <1>1, <1>4 DEF AdapterAnswers
<1>5. CASE AdapterReturnsError(r)
  <2>1. Conclude(r, <<Dict(Error), End>>, {"error_payload", "concluded"}) /\ last[r] = Nothing
    BY <1>5 DEF AdapterReturnsError
  <2>2. Dict(Error) \in Chunks /\ Dict(Error).k = "dict" /\ Dict(Error).f = Error
    BY ChunkTypes, FrameTypes DEF Dict
  <2>3. Fits(r, Retold(r)', Dict(Error)) BY <1>1, <2>1, <2>2 DEF Fits
  <2> QED BY <1>1, <2>1, <2>2, <2>3, LastTold
<1>6. CASE AdapterRaises(r)
  <2>1. CASE Conclude(r, <<Exc("crashed")>>, {})
    <3>1. Exc("crashed") \in Chunks /\ Exc("crashed").k = "exc" BY Stops DEF Exceptions
    <3> QED BY <1>1, <2>1, <3>1, StopTold
  <2>2. CASE FallBack(r)
    <3>1. /\ gen'[r] = "local" /\ last'[r] = Nothing
          /\ chan'[r] = chan[r] /\ wire'[r] = wire[r] /\ sent'[r] = sent[r] /\ gw'[r] = gw[r]
          /\ past'[r] = past[r] \cup (IF last[r] # Nothing THEN {"restarted"} ELSE {})
      BY <1>1, <2>2 DEF FallBack, Become, Said, Remember, gateway, TypeOK
    <3>2. last[r] = Nothing \/ Retold(r)' BY <3>1 DEF Retold
    <3> QED BY <1>1, <3>1, <3>2, ExchangeTold
  <2> QED BY <1>6, <2>1, <2>2 DEF AdapterRaises
<1> QED BY <1>2, <1>3, <1>4, <1>5, <1>6 DEF Adapt

(* Texts the deltas produce, and how far the last one went.                *)
LEMMA TextTypes ==
  ASSUME TypeOK, NEW r \in Requests, NEW lo \in 0..MaxText, NEW hi \in 0..MaxText
  PROVE  /\ Text(lo, hi) \in Frames /\ Text(lo, hi).f = "text"
         /\ Text(lo, hi).lo = lo /\ Text(lo, hi).hi = hi
         /\ Event(Text(lo, hi)) \in Chunks /\ Event(Text(lo, hi)).k = "event"
         /\ Event(Text(lo, hi)).f = Text(lo, hi)
         /\ last[r].hi \in 0..MaxText /\ (last[r] = Nothing => last[r].hi = 0)
<1>1. Text(lo, hi).f = "text" /\ Text(lo, hi).lo = lo /\ Text(lo, hi).hi = hi BY DEF Text
<1>2. Text(lo, hi) \in Frames BY FrameTypes
<1>3. \A a \in Frames : a.hi \in 0..MaxText
  BY DEF Frames, Text, Mark, Role, Finish, Done, Error, Internal
<1>4. Nothing.hi = 0 BY DEF Nothing, Mark
<1>5. last[r] \in Frames \cup {Nothing} BY DEF TypeOK
<1>6. \A f : Event(f).k = "event" /\ Event(f).f = f BY DEF Event
<1> QED BY <1>1, <1>2, <1>3, <1>4, <1>5, <1>6, ChunkTypes

(* The engine goes back on its text: what it says instead is told again.   *)
LEMMA RevisedTold ==
  ASSUME TypeOK, NEW r \in Streams, Told(r), NEW hi \in 0..MaxText, DeltaRevised(r, hi)
  PROVE  Told(r)'
<1> DEFINE f == Text(0, hi)
<1>1. r \in Requests /\ gen[r] = "deltas" /\ last[r].hi > 0
  BY DEF Requests, DeltaRevised, Working
<1>2. /\ f \in Frames /\ f.f = "text" /\ f.lo = 0 /\ f.hi = hi
      /\ Event(f) \in Chunks /\ Event(f).k = "event" /\ Event(f).f = f
      /\ last[r].hi \in 0..MaxText /\ last[r] # Nothing
  <2>1. 0 \in 0..MaxText OBVIOUS
  <2> QED BY <1>1, <2>1, TextTypes
<1>3. /\ gen'[r] = gen[r] /\ last'[r] = f /\ wire'[r] = wire[r] /\ sent'[r] = sent[r]
      /\ gw'[r] = gw[r] /\ past[r] \subseteq past'[r] /\ "revised" \in past'[r]
      /\ chan'[r] = chan[r] \o (IF hi > 0 THEN <<Event(f)>> ELSE <<>>)
  BY <1>1 DEF DeltaRevised, Said, Produce, Remember, gateway, TypeOK
<1> HIDE DEF f
<1>4. Retold(r)' BY <1>3 DEF Retold
<1>5. CASE hi > 0
  <2>1. Fits(r, Retold(r)', Event(f)) BY <1>1, <1>2, <1>4, <1>5 DEF Fits
  <2> QED BY <1>1, <1>2, <1>3, <1>5, <2>1, DeltaTold
<1>6. CASE ~(hi > 0)
  <2>1. f # Nothing /\ f.hi = 0 BY <1>2, <1>6, FrameOrder
  <2>2. chan'[r] = chan[r]
    <3>1. chan[r] \in Seq(Chunks) BY <1>1 DEF TypeOK
    <3> QED BY <1>3, <1>6, <3>1, ConcatEmptySeq
  <2>3. ASSUME Tape(r), gw[r] \in {"priming", "mapping"} PROVE Tape(r)'
    <3>1. (SentInv(r) /\ QueueInv(r))' BY <1>3, <1>4, <2>2, <2>3, QueueKept DEF Tape
    <3>2. \A a : Before(r, a) => a.f = "text" BY DEF Before
    <3>3. /\ chan[r] # <<>> => Back(chan[r]).k = "event" /\ Back(chan[r]).f.f = "text"
          /\ chan[r] = <<>> => "role" \in sent[r] /\ Back(wire[r]).f = "text"
      BY <1>1, <1>2, <2>3, <3>2 DEF Tape, SourceInv
    <3>4. SourceInv(r)'
      BY <1>1, <1>2, <1>3, <1>4, <2>1, <2>2, <2>3, <3>3 DEF SourceInv, Back, Before
    <3> QED BY <3>1, <3>4 DEF Tape
  <2> QED BY <1>1, <1>3, <2>3, SourceTold
<1> QED BY <1>5, <1>6

(* What the best effort executor does for a stream.                        *)
LEMMA GenerateTold ==
  ASSUME TypeOK, NEW r \in Streams, Told(r), Generate(r)
  PROVE  Told(r)'
<1>1. r \in Requests /\ r \notin Plains /\ gen[r] \in {"local", "deltas", "whole"}
  <2>1. r \in Requests /\ r \notin Plains BY DEF Requests
  <2>2. gen[r] \in {"local", "deltas", "whole"}
    BY DEF Generate, LocalRejects, LocalBegins, DeltaYields, DeltaRevised, DeltaEnds,
           DeltaUnsupported, WholeYields, EngineRaises, Working
  <2> QED BY <2>1, <2>2
<1>2. ASSUME NEW e \in Exceptions, Conclude(r, <<Exc(e)>>, {}) PROVE Told(r)'
  BY <1>1, <1>2, StopTold, Stops
<1>3. /\ Event(Finish) \in Chunks /\ Event(Finish).k = "event" /\ Event(Finish).f = Finish
      /\ Opens(Finish)
  BY ChunkTypes, FrameTypes DEF Event, Opens
<1>4. Tape(r) /\ gen[r] \in {"local", "whole"} => last[r] = Nothing
  BY DEF Tape, SourceInv
<1>5. Fits(r, Retold(r)', Event(Finish)) \/ ~Tape(r)
  BY <1>1, <1>3, <1>4 DEF Fits
<1>6. CASE LocalRejects(r)
  BY <1>6, <1>2 DEF LocalRejects, Exceptions
<1>7. CASE LocalBegins(r)
  <2>1. /\ gen'[r] \in {"whole", "deltas"} /\ last'[r] = last[r]
        /\ chan'[r] = chan[r] /\ wire'[r] = wire[r] /\ sent'[r] = sent[r] /\ gw'[r] = gw[r]
        /\ past'[r] = past[r] /\ gen[r] = "local"
    BY <1>1, <1>7 DEF LocalBegins, Become, gateway, TypeOK
  <2>2. CASE last[r] = Nothing BY <1>1, <2>1, <2>2, ExchangeTold
  <2>3. CASE last[r] # Nothing
    <3>1. ~Tape(r) BY <1>4, <2>1, <2>3
    <3> QED BY <2>1, <3>1, SourceTold
  <2> QED BY <2>2, <2>3
<1>8. ASSUME NEW hi \in 1..MaxText, DeltaYields(r, hi) PROVE Told(r)'
  <2> DEFINE f == Text(last[r].hi, hi)
  <2>1. /\ gen[r] = "deltas" /\ hi \in (last[r].hi + 1)..MaxText
        /\ Said(r, f) /\ Produce(r, <<Event(f)>>)
        /\ UNCHANGED <<model, replica, gen, past, gateway>>
    BY <1>8 DEF DeltaYields, Working
  <2>2. /\ f \in Frames /\ f.f = "text" /\ f.lo = last[r].hi /\ f.hi = hi /\ f.lo < f.hi
        /\ Event(f) \in Chunks /\ Event(f).k = "event" /\ Event(f).f = f
        /\ last[r] = Nothing => f.lo = 0
    <3>1. last[r].hi \in 0..MaxText /\ hi \in 0..MaxText /\ last[r].hi < hi
      <4>1. 0 \in 0..MaxText OBVIOUS
      <4>2. last[r].hi \in 0..MaxText BY <1>1, <4>1, TextTypes
      <4> QED BY <2>1, <4>2
    <3> QED BY <1>1, <3>1, TextTypes
  <2>3. /\ gen'[r] = gen[r] /\ last'[r] = f /\ chan'[r] = chan[r] \o <<Event(f)>>
        /\ wire'[r] = wire[r] /\ sent'[r] = sent[r] /\ gw'[r] = gw[r]
        /\ past[r] \subseteq past'[r]
    BY <1>1, <2>1 DEF Said, Produce, gateway, TypeOK
  <2> HIDE DEF f
  <2>4. Fits(r, Retold(r)', Event(f)) BY <2>1, <2>2 DEF Fits, Opens
  <2> QED BY <2>1, <2>2, <2>3, <2>4, DeltaTold
<1>9. ASSUME NEW hi \in 0..MaxText, DeltaRevised(r, hi) PROVE Told(r)'
  BY <1>9, RevisedTold
<1>10. CASE DeltaEnds(r)
  <2>1. CASE Conclude(r, <<Event(Finish), End>>, {"concluded"})
    BY <1>1, <1>3, <1>5, <2>1, LastTold
  <2>2. CASE Conclude(r, <<End>>, {"concluded"})
    BY <1>1, <2>2, StopTold, Stops
  <2> QED BY <1>10, <2>1, <2>2 DEF DeltaEnds
<1>11. CASE DeltaUnsupported(r)
  <2>1. CASE Conclude(r, <<Exc("rejected")>>, {})
    BY <1>2, <2>1 DEF Exceptions
  <2>2. CASE ~Conclude(r, <<Exc("rejected")>>, {})
    <3>1. /\ gen'[r] = "whole" /\ last[r] = Nothing /\ last'[r] = last[r]
          /\ chan'[r] = chan[r] /\ wire'[r] = wire[r] /\ sent'[r] = sent[r] /\ gw'[r] = gw[r]
          /\ past'[r] = past[r] /\ gen[r] = "deltas"
      BY <1>1, <1>11, <2>2 DEF DeltaUnsupported, Working, Become, gateway, TypeOK
    <3> QED BY <1>1, <3>1, ExchangeTold
  <2> QED BY <2>1, <2>2
<1>12. CASE WholeYields(r)
  <2>1. PICK text \in {<<>>, <<Event(Text(0, MaxText))>>} :
          Conclude(r, text \o <<Event(Finish), End>>, {"concluded"})
    BY <1>1, <1>12 DEF WholeYields
  <2>2. gen[r] = "whole" BY <1>12 DEF WholeYields, Working
  <2>3. <<Event(Finish), End>> \in Seq(Chunks) BY <1>3, ChunkTypes, SeqUpToTwo
  <2>4. CASE text = <<>>
    <3>1. text \o <<Event(Finish), End>> = <<Event(Finish), End>>
      BY <2>3, <2>4, ConcatEmptySeq
    <3>2. Conclude(r, <<Event(Finish), End>>, {"concluded"})
      BY <2>1, <3>1
    <3> QED BY <1>1, <1>3, <1>5, <3>2, LastTold
  <2>5. CASE text = <<Event(Text(0, MaxText))>>
    <3> DEFINE f == Text(0, MaxText)
               t == Event(f)
               n == Event(Finish)
    <3>1. /\ f.f = "text" /\ f.lo = 0 /\ f.hi = MaxText /\ f.lo < f.hi /\ f \in Frames
          /\ t.k = "event" /\ t.f = f /\ t \in Chunks
          /\ n.k = "event" /\ n.f = Finish /\ n \in Chunks
      <4>1. 0 \in 0..MaxText /\ MaxText \in 0..MaxText /\ 0 < MaxText OBVIOUS
      <4> QED BY <1>1, <1>3, <4>1, TextTypes
    <3>2. text = <<t>> BY <2>5
    <3> HIDE DEF f, t
    <3>3. Opens(f) /\ GoesOn(Retold(r)', f, Finish)
      BY <3>1 DEF Opens, GoesOn
    <3>4. Joins(Retold(r)', t, n) /\ Joins(Retold(r)', n, End)
      BY <3>1, <3>3 DEF Joins, End
    <3> HIDE DEF n
    <3>5. <<t>> \o <<n, End>> = <<t, n, End>>
      <4>1. <<t>> \in Seq({t, n, End}) /\ <<n>> \in Seq({t, n, End}) /\ <<End>> \in Seq({t, n, End})
        BY SeqUpToTwo
      <4>2. (<<t>> \o <<n>>) \o <<End>> = <<t>> \o (<<n>> \o <<End>>)
        BY <4>1, ConcatAssociative
      <4>3. <<n>> \o <<End>> = <<n, End>> /\ (<<t>> \o <<n>>) \o <<End>> = <<t, n, End>>
        <5>1. <<n>> \o <<End>> \o <<>> = <<n, End>> BY Bursts
        <5>2. <<n>> \o <<End>> \in Seq({t, n, End}) BY <4>1, ConcatProperties
        <5>3. <<n>> \o <<End>> \o <<>> = <<n>> \o <<End>> BY <5>2, ConcatEmptySeq
        <5> QED BY <5>1, <5>3, Bursts
      <4> QED BY <4>2, <4>3
    <3>6. /\ <<t, n, End>> \in Seq(Chunks) /\ <<t, n, End>> # <<>> /\ <<t, n, End>>[1] = t
          /\ Len(<<t, n, End>>) = 3 /\ <<t, n, End>>[2] = n /\ <<t, n, End>>[3] = End
      BY <3>1, ChunkTypes, SMT
    <3>7. \A i \in 1..(Len(<<t, n, End>>) - 1) :
            Joins(Retold(r)', <<t, n, End>>[i], <<t, n, End>>[i + 1])
      <4>1. \A i \in 1..2 : i = 1 \/ i = 2 OBVIOUS
      <4> QED BY <3>4, <3>6, <4>1
    <3>8. Tape(r) => Fits(r, Retold(r)', t)
      BY <1>4, <2>2, <3>1, <3>3 DEF Fits
    <3>9. Conclude(r, <<t, n, End>>, {"concluded"})
      BY <2>1, <3>2, <3>5 DEF n
    <3> QED BY <1>1, <3>6, <3>7, <3>8, <3>9, ConcludeTold
  <2> QED BY <2>1, <2>4, <2>5
<1>13. CASE EngineRaises(r)
  BY <1>13, <1>2 DEF EngineRaises, Exceptions
<1> QED
  BY <1>6, <1>7, <1>8, <1>9, <1>10, <1>11, <1>12, <1>13 DEF Generate

(* A step of request r itself, whoever takes it.                           *)
LEMMA StepTold ==
  ASSUME TypeOK, ChanInv, NEW r \in Streams, Told(r),
         \/ Call(r) \/ Dispatch(r) \/ Adapt(r) \/ Generate(r) \/ CancelGen(r)
         \/ Gateway(r) \/ Disconnect(r)
  PROVE  Told(r)'
<1>1. r \in Requests /\ r \notin Plains BY DEF Requests
<1>2. CASE Call(r)
  <2>1. /\ gw[r] = "idle" /\ gen'[r] = "queued" /\ last'[r] = last[r] /\ past'[r] = past[r]
        /\ chan'[r] = chan[r] /\ wire'[r] = wire[r] /\ sent'[r] = sent[r] /\ gw'[r] = "priming"
    BY <1>1, <1>2 DEF Call, Become, TypeOK
  <2>2. Retold(r)' <=> Retold(r) BY <2>1 DEF Retold
  <2>3. Tape(r) BY <2>1 DEF Told
  <2>4. (SentInv(r) /\ QueueInv(r))' BY <2>1, <2>2, <2>3, QueueKept DEF Tape
  <2>5. SourceInv(r)' BY <2>1, <2>3 DEF Tape, SourceInv
  <2>6. Promise!Promised(wire[r], Retold(r))' BY <2>1, <2>2, WireKept
  <2> QED BY <2>1, <2>4, <2>5, <2>6 DEF Told, Tape
<1>3. CASE Dispatch(r)
  <2>1. gen[r] = "queued" BY <1>3 DEF Dispatch
  <2>2. CASE Conclude(r, <<Exc("rejected")>>, {})
    <3>1. Exc("rejected") \in Chunks /\ Exc("rejected").k = "exc" BY Stops DEF Exceptions
    <3> QED BY <2>1, <2>2, <3>1, StopTold
  <2>3. CASE ~Conclude(r, <<Exc("rejected")>>, {})
    <3>1. /\ gen'[r] \in {"adapter", "local"} /\ last'[r] = last[r] /\ past'[r] = past[r]
          /\ chan'[r] = chan[r] /\ wire'[r] = wire[r] /\ sent'[r] = sent[r] /\ gw'[r] = gw[r]
      BY <1>1, <1>3, <2>3 DEF Dispatch, Become, gateway, TypeOK
    <3>2. CASE last[r] = Nothing
      BY <2>1, <3>1, <3>2, ExchangeTold
    <3>3. CASE last[r] # Nothing
      <4>1. ~Tape(r) BY <2>1, <3>3 DEF Tape, SourceInv
      <4> QED BY <2>1, <3>1, <4>1, SourceTold
    <3> QED BY <3>2, <3>3
  <2> QED BY <2>2, <2>3
<1>4. CASE CancelGen(r) \/ Disconnect(r)
  <2>1. /\ wire'[r] = wire[r] /\ past'[r] = past[r]
        /\ gw'[r] \in Closed /\ (gw'[r] = "left" \/ gen'[r] = "over")
    BY <1>1, <1>4 DEF CancelGen, Become, Disconnect, Closed, gateway, source, TypeOK
  <2>2. Retold(r) <=> Retold(r)' BY <2>1 DEF Retold
  <2> QED BY <2>1, <2>2, WireKept DEF Told, Closed
<1>5. CASE Prime(r)
  <2>1. /\ gw[r] = "priming" /\ chan[r] # <<>>
        /\ gen'[r] = gen[r] /\ last'[r] = last[r] /\ past'[r] = past[r]
        /\ chan'[r] = chan[r] /\ wire'[r] = wire[r] /\ sent'[r] = sent[r]
        /\ gw'[r] = IF Head(chan[r]).k = "exc" THEN "refused" ELSE "mapping"
    BY <1>1, <1>5 DEF Prime, Arrived, Reply, source, TypeOK
  <2>2. Tape(r) BY <2>1 DEF Told
  <2>3. Retold(r)' <=> Retold(r) BY <2>1 DEF Retold
  <2>4. Promise!Promised(wire[r], Retold(r))' BY <2>1, <2>3, WireKept
  <2>5. (SentInv(r) /\ QueueInv(r))' BY <2>1, <2>2, <2>3, QueueKept DEF Tape
  <2>6. CASE Head(chan[r]).k = "exc"
    <3>1. gen[r] = "over" BY <2>1, <2>2, <2>6, StopIsLast
    <3> QED BY <2>1, <2>4, <2>6, <3>1 DEF Told
  <2>7. CASE Head(chan[r]).k # "exc"
    <3>1. SourceInv(r)'
      BY <2>1, <2>2, <2>3, <2>7 DEF Tape, SourceInv, Before, Back, Raw
    <3> QED BY <2>1, <2>4, <2>5, <2>7, <3>1 DEF Told, Tape
  <2> QED BY <2>6, <2>7
<1>6. CASE Await(r)
  BY <1>6 DEF Await, Arrived, Told
<1> QED
  BY <1>2, <1>3, <1>4, <1>5, <1>6, AdaptTold, GenerateTold, ForwardTold DEF Gateway

(* Every step of the pipeline keeps what is told of every stream.          *)
LEMMA NextToldInv == IInv /\ ToldInv /\ [Next]_vars => ToldInv'
<1> SUFFICES ASSUME IInv, ToldInv, [Next]_vars, NEW x \in Streams PROVE Told(x)'
  BY DEF ToldInv
<1>1. TypeOK /\ ChanInv /\ Told(x) /\ x \in Requests
  BY DEF IInv, ToldInv, Requests
<1>2. ASSUME NEW r \in Requests,
             \/ Call(r) \/ Dispatch(r) \/ Adapt(r) \/ Generate(r) \/ CancelGen(r)
             \/ Gateway(r) \/ Disconnect(r)
      PROVE  Told(x)'
  <2>1. CASE r = x BY <1>1, <1>2, <2>1, StepTold
  <2>2. CASE r # x
    <3>1. SameAt(x) BY <1>1, <1>2, <2>2, Elsewhere
    <3> QED BY <1>1, <3>1, Untouched
  <2> QED BY <2>1, <2>2
<1>3. CASE ReplicaDies
  <2>1. CASE gen[x] \in Generators
    <3>1. Exc("crashed") \in Chunks /\ Exc("crashed").k = "exc" BY Stops DEF Exceptions
    <3>2. /\ gen'[x] = "over" /\ chan'[x] = Append(chan[x], Exc("crashed"))
          /\ wire'[x] = wire[x] /\ sent'[x] = sent[x] /\ gw'[x] = gw[x] /\ past'[x] = past[x]
      BY <1>1, <1>3, <2>1 DEF ReplicaDies, gateway, TypeOK
    <3>3. Append(chan[x], Exc("crashed")) = chan[x] \o <<Exc("crashed")>>
      BY <1>1, <3>1, AppendIsConcat DEF TypeOK
    <3> DEFINE c == Exc("crashed")
    <3>4. c \in Chunks /\ c.k = "exc" /\ chan'[x] = chan[x] \o <<c>> BY <3>1, <3>2, <3>3
    <3> HIDE DEF c
    <3>5. <<c>> \in Seq(Chunks) /\ <<c>> # <<>> /\ <<c>>[1] = c /\ Len(<<c>>) = 1
      BY <3>4, SeqUpToTwo
    <3>6. Fits(x, Retold(x)', <<c>>[1]) BY <3>4, <3>5 DEF Fits
    <3>7. \A i \in 1..(Len(<<c>>) - 1) : Joins(Retold(x)', <<c>>[i], <<c>>[i + 1])
      BY <3>5
    <3>8. gen[x] \notin {"idle", "over"} BY <2>1 DEF Generators
    <3> QED BY <1>1, <3>2, <3>4, <3>5, <3>6, <3>7, <3>8, ConcludesTold
  <2>2. CASE gen[x] \notin Generators
    <3>1. SameAt(x)
      BY <1>1, <1>3, <2>2 DEF ReplicaDies, SameAt, gateway, TypeOK
    <3> QED BY <1>1, <3>1, Untouched
  <2> QED BY <2>1, <2>2
<1>4. ASSUME NEW e \in {"none", "async", "sync"}, NEW a \in BOOLEAN, ReplicaStarts(e, a)
      PROVE  Told(x)'
  <2>1. SameAt(x) BY <1>4 DEF ReplicaStarts, SameAt, source, gateway
  <2> QED BY <1>1, <2>1, Untouched
<1>5. CASE UNCHANGED vars
  <2>1. SameAt(x) BY <1>5 DEF vars, SameAt, source, gateway
  <2> QED BY <1>1, <2>1, Untouched
<1> QED BY <1>2, <1>3, <1>4, <1>5 DEF Next

(* Nothing has been told at first.                                         *)
LEMMA InitToldInv == Init => ToldInv
<1> SUFFICES ASSUME Init, NEW x \in Streams PROVE Told(x)
  BY DEF ToldInv
<1>1. /\ x \in Requests /\ gen[x] = "idle" /\ last[x] = Nothing /\ chan[x] = <<>>
      /\ gw[x] = "idle" /\ sent[x] = {} /\ wire[x] = <<>>
  BY DEF Init, Requests
<1>2. Len(<<>>) = 0 BY EmptySeq
<1>3. Promise!Promised(wire[x], Retold(x)) BY <1>1, <1>2, SameFrames
<1>4. Tape(x)
  BY <1>1, <1>2 DEF Tape, SentInv, QueueInv, SourceInv
<1> QED BY <1>1, <1>3, <1>4 DEF Told


(* The client of a stream is sent a legal sequence of frames, for any      *)
(* number of requests, any length of text, any number of chunks on the way *)
(* and any crashes and departures, as long as the best effort executor does*)
(* not begin its answer again and its engine does not go back on a text.   *)
THEOREM StreamsAreLegal == Spec => []LegalUnlessRetold
<1>1. ToldInv => LegalUnlessRetold
  <2> SUFFICES ASSUME ToldInv, NEW r \in Streams, ~Retold(r) PROVE Legal(wire[r])
    BY DEF LegalUnlessRetold
  <2>1. Promise!Promised(wire[r], Retold(r)) BY DEF ToldInv, Told
  <2> QED BY <2>1, SameFrames DEF Goes, Legal
<1>2. Spec => []ToldInv
  BY InitToldInv, NextToldInv, Inductive, PTL DEF Spec
<1> QED BY <1>1, <1>2, PTL

-----------------------------------------------------------------------------
(***************************************************************************)
(* The pipeline keeps what SseStream promises: each of its steps is one of *)
(* the promise, or none of the client's business.                          *)
(***************************************************************************)

(* The phase of a stream by the state of its handler, as in Promise.       *)
Stage(r) ==
  CASE gw[r] \in {"idle", "priming"} -> "waiting"
    [] gw[r] = "refused" -> "refused"
    [] gw[r] = "mapping" -> "open"
    [] gw[r] = "complete" -> "closed"
    [] OTHER -> "cut"

(* What the client of r may see of it is as before.                        *)
SameShown(r) == Stage(r)' = Stage(r) /\ wire'[r] = wire[r] /\ Retold(r)' = Retold(r)

(* Nothing is shown to anybody.                                            *)
LEMMA NothingShown ==
  ASSUME \A x \in Streams : SameShown(x)
  PROVE  UNCHANGED Promise!vars
<1>1. [x \in Streams |-> wire'[x]] = [x \in Streams |-> wire[x]] BY DEF SameShown
<1>2. [x \in Streams |-> Retold(x)'] = [x \in Streams |-> Retold(x)] BY DEF SameShown
<1>3. [x \in Streams |-> Stage(x)'] = [x \in Streams |-> Stage(x)] BY DEF SameShown
<1> QED BY <1>1, <1>2, <1>3 DEF Promise!vars, Stage

(* A stream whose handler is in another state, and nothing else.           *)
LEMMA StageShown ==
  ASSUME NEW r \in Streams, \A x \in Streams : x # r => SameShown(x),
         wire'[r] = wire[r], Retold(r)' = Retold(r),
         \/ Stage(r) = "waiting" /\ Stage(r)' \in {"refused", "open"}
         \/ Stage(r) = "open" /\ Stage(r)' = "cut"
  PROVE  Promise!Next
<1>1. [x \in Streams |-> wire'[x]] = [x \in Streams |-> wire[x]] BY DEF SameShown
<1>2. [x \in Streams |-> Retold(x)'] = [x \in Streams |-> Retold(x)] BY DEF SameShown
<1>3. [x \in Streams |-> Stage(x)'] = [[x \in Streams |-> Stage(x)] EXCEPT ![r] = Stage(r)']
  BY DEF SameShown
<1>4. CASE Stage(r) = "waiting" /\ Stage(r)' = "refused"
  <2>1. Promise!Refuse(r) BY <1>1, <1>2, <1>3, <1>4 DEF Promise!Refuse, Promise!Move, Stage
  <2> QED BY <2>1 DEF Promise!Next
<1>5. CASE Stage(r) = "waiting" /\ Stage(r)' = "open"
  <2>1. Promise!Open(r) BY <1>1, <1>2, <1>3, <1>5 DEF Promise!Open, Promise!Move, Stage
  <2> QED BY <2>1 DEF Promise!Next
<1>6. CASE Stage(r) = "open" /\ Stage(r)' = "cut"
  <2>1. Promise!Cut(r) BY <1>1, <1>2, <1>3, <1>6 DEF Promise!Cut, Promise!Move, Stage
  <2> QED BY <2>1 DEF Promise!Next
<1> QED BY <1>4, <1>5, <1>6

(* A stream that is told again.                                            *)
LEMMA AgainShown ==
  ASSUME NEW r \in Streams, \A x \in Streams : x # r => SameShown(x),
         wire'[r] = wire[r], Retold(r)',
         Stage(r) \in {"waiting", "open", "cut"}, Stage(r)' = Stage(r)
  PROVE  Promise!Next
<1>1. [x \in Streams |-> wire'[x]] = [x \in Streams |-> wire[x]] BY DEF SameShown
<1>2. [x \in Streams |-> Retold(x)'] = [[x \in Streams |-> Retold(x)] EXCEPT ![r] = TRUE]
  <2>1. \A x \in Streams : Retold(x)' \in BOOLEAN BY DEF Retold
  <2> QED BY <2>1 DEF SameShown
<1>3. [x \in Streams |-> Stage(x)'] = [x \in Streams |-> Stage(x)] BY DEF SameShown
<1>4. Promise!TellAgain(r)
  BY <1>1, <1>2, <1>3 DEF Promise!TellAgain, Stage
<1> QED BY <1>4 DEF Promise!Next

(* A stream that has been sent more, or its end.                           *)
LEMMA FramesShown ==
  ASSUME TypeOK, NEW r \in Streams, \A x \in Streams : x # r => SameShown(x),
         NEW burst, wire'[r] = wire[r] \o burst, Retold(r)' = Retold(r),
         Promise!Promised(wire'[r], Retold(r)),
         Stage(r) = "open",
         \/ Stage(r)' = "open" /\ burst \in Promise!Bursts
         \/ /\ Stage(r)' = "closed" /\ burst \in {<<>>, <<Done>>, <<Finish, Done>>}
            /\ Has(wire'[r], Done)
  PROVE  Promise!Next
<1>1. [x \in Streams |-> wire'[x]] = [[x \in Streams |-> wire[x]] EXCEPT ![r] = @ \o burst]
  BY DEF SameShown
<1>2. [x \in Streams |-> Retold(x)'] = [x \in Streams |-> Retold(x)] BY DEF SameShown
<1>3. [x \in Streams |-> Stage(x)'] = [[x \in Streams |-> Stage(x)] EXCEPT ![r] = Stage(r)']
  BY DEF SameShown
<1>4. Promise!Send(r, burst)
  BY <1>1 DEF Promise!Send, Promise!Promised
<1>5. CASE Stage(r)' = "open" /\ burst \in Promise!Bursts
  <2>1. Promise!Move(r, "open", "open")
    BY <1>2, <1>3, <1>5 DEF Promise!Move, Stage
  <2>2. Promise!Grow(r) BY <1>4, <1>5, <2>1 DEF Promise!Grow
  <2> QED BY <2>2 DEF Promise!Next
<1>6. CASE Stage(r)' = "closed" /\ burst \in {<<>>, <<Done>>, <<Finish, Done>>}
           /\ Has(wire'[r], Done)
  <2>1. Promise!Move(r, "open", "closed")
    BY <1>2, <1>3, <1>6 DEF Promise!Move, Stage
  <2>2. burst \in {<<>>, <<Promise!Done>>, <<Promise!Finish, Promise!Done>>}
    BY <1>6, SameFrames
  <2>3. Promise!Has(wire'[r], Promise!Done) BY <1>6, SameFrames
  <2>4. Promise!Close(r) BY <1>4, <2>1, <2>2, <2>3 DEF Promise!Close
  <2> QED BY <2>4 DEF Promise!Next
<1> QED BY <1>5, <1>6

(* What the replica does for a request, the client does not see; it is not *)
(* done for an answer that has come to an end.                             *)
LEMMA SourceDoes ==
  ASSUME TypeOK, NEW r \in Requests, Dispatch(r) \/ Adapt(r) \/ Generate(r)
  PROVE  /\ gen[r] \notin {"idle", "over"}
         /\ gw'[r] = gw[r] /\ wire'[r] = wire[r] /\ past[r] \subseteq past'[r]
<1> USE DEF TypeOK, gateway
<1>1. ASSUME NEW chunks, NEW what, Conclude(r, chunks, what)
      PROVE  gw' = gw /\ wire' = wire /\ past[r] \subseteq past'[r]
  BY <1>1 DEF Conclude, Remember
<1>2. ASSUME FallBack(r) PROVE gw' = gw /\ wire' = wire /\ past[r] \subseteq past'[r]
  BY <1>2 DEF FallBack, Remember
<1>3. gen[r] \notin {"idle", "over"}
  BY DEF Dispatch, Adapt, AdapterYields, AdapterReturns, AdapterAnswers, AdapterReturnsError,
         AdapterRaises, Generate, LocalRejects, LocalBegins, DeltaYields, DeltaRevised,
         DeltaEnds, DeltaUnsupported, WholeYields, EngineRaises, Working
<1>4. CASE Dispatch(r)
  BY <1>1, <1>3, <1>4 DEF Dispatch
<1>5. CASE Adapt(r)
  <2>1. ASSUME NEW frame \in Frames, AdapterYields(r, frame)
        PROVE  gw' = gw /\ wire' = wire /\ past[r] \subseteq past'[r]
    BY <2>1 DEF AdapterYields, Remember
  <2>2. CASE AdapterReturns(r) BY <1>1, <1>3, <2>2 DEF AdapterReturns
  <2>3. CASE AdapterAnswers(r) BY <1>1, <1>3, <2>3 DEF AdapterAnswers
  <2>4. CASE AdapterReturnsError(r) BY <1>1, <1>3, <2>4 DEF AdapterReturnsError
  <2>5. CASE AdapterRaises(r) BY <1>1, <1>2, <1>3, <2>5 DEF AdapterRaises
  <2> QED BY <1>3, <1>5, <2>1, <2>2, <2>3, <2>4, <2>5 DEF Adapt
<1>6. CASE Generate(r)
  <2>1. CASE LocalRejects(r) BY <1>1, <1>3, <2>1 DEF LocalRejects
  <2>2. CASE LocalBegins(r) BY <1>3, <2>2 DEF LocalBegins
  <2>3. ASSUME NEW hi \in 1..MaxText, DeltaYields(r, hi)
        PROVE  gw' = gw /\ wire' = wire /\ past[r] \subseteq past'[r]
    BY <2>3 DEF DeltaYields
  <2>4. ASSUME NEW hi \in 0..MaxText, DeltaRevised(r, hi)
        PROVE  gw' = gw /\ wire' = wire /\ past[r] \subseteq past'[r]
    BY <2>4 DEF DeltaRevised, Remember
  <2>5. CASE DeltaEnds(r) BY <1>1, <1>3, <2>5 DEF DeltaEnds
  <2>6. CASE DeltaUnsupported(r) BY <1>1, <1>3, <2>6 DEF DeltaUnsupported
  <2>7. CASE WholeYields(r) BY <1>1, <1>3, <2>7 DEF WholeYields
  <2>8. CASE EngineRaises(r) BY <1>1, <1>3, <2>8 DEF EngineRaises
  <2> QED BY <1>3, <1>6, <2>1, <2>2, <2>3, <2>4, <2>5, <2>6, <2>7, <2>8 DEF Generate
<1> QED BY <1>4, <1>5, <1>6

(* A step of request r itself is a step of the promise, or shows nothing.  *)
LEMMA StepShown ==
  ASSUME TypeOK, ChanInv, NEW r \in Streams, Told(r),
         \A x \in Streams : x # r => SameShown(x),
         \/ Call(r) \/ Dispatch(r) \/ Adapt(r) \/ Generate(r) \/ CancelGen(r)
         \/ Gateway(r) \/ Disconnect(r)
  PROVE  [Promise!Next]_(Promise!vars)
<1>1. r \in Requests BY DEF Requests
<1>2. CASE SameShown(r) BY <1>2, NothingShown
<1>3. CASE Call(r) \/ CancelGen(r)
  <2>1. SameShown(r)
    BY <1>1, <1>3 DEF Call, CancelGen, SameShown, Stage, Retold, gateway, TypeOK
  <2> QED BY <1>2, <2>1
<1>4. CASE Dispatch(r) \/ Adapt(r) \/ Generate(r)
  <2>1. /\ gen[r] \notin {"idle", "over"}
        /\ gw'[r] = gw[r] /\ wire'[r] = wire[r] /\ past[r] \subseteq past'[r]
    BY <1>1, <1>4, SourceDoes
  <2>2. Stage(r)' = Stage(r) BY <2>1 DEF Stage
  <2>3. Stage(r) \in {"waiting", "open", "cut"} BY <2>1 DEF Stage, Told
  <2>4. CASE Retold(r)' BY <2>1, <2>2, <2>3, <2>4, AgainShown
  <2>5. CASE ~Retold(r)'
    <3>1. Retold(r)' = Retold(r) BY <2>1, <2>5 DEF Retold
    <3> QED BY <1>2, <2>1, <2>2, <3>1 DEF SameShown
  <2> QED BY <2>4, <2>5
<1>5. CASE Prime(r) \/ Disconnect(r)
  <2>1. /\ wire'[r] = wire[r] /\ Retold(r)' = Retold(r)
        /\ \/ gw[r] = "priming" /\ gw'[r] \in {"refused", "mapping"}
           \/ gw[r] = "mapping" /\ gw'[r] = "left"
    BY <1>1, <1>5 DEF Prime, Arrived, Reply, Disconnect, Retold, source, TypeOK
  <2>2. \/ Stage(r) = "waiting" /\ Stage(r)' \in {"refused", "open"}
        \/ Stage(r) = "open" /\ Stage(r)' = "cut"
    BY <2>1 DEF Stage
  <2> QED BY <2>1, <2>2, StageShown
<1>6. CASE Await(r)
  BY <1>6 DEF Await, Arrived, Told
<1>7. CASE Forward(r)
  <2>1. /\ gw[r] = "mapping" /\ Tape(r) /\ Retold(r)' = Retold(r)
        /\ Promise!Promised(wire[r], Retold(r)) /\ SentInv(r)
    BY <1>7, ForwardDoes DEF Told, Tape
  <2>2. Stage(r) = "open" BY <2>1 DEF Stage
  <2>3. CASE gw'[r] = "truncated"
    <3>1. wire'[r] = wire[r] BY <1>7, <2>3, ForwardDoes
    <3>2. Stage(r)' = "cut" BY <2>3 DEF Stage
    <3> QED BY <2>1, <2>2, <3>1, <3>2, StageShown
  <2>4. CASE gw'[r] = "complete"
    <3>1. wire'[r] = wire[r] \o Trailer(r) BY <1>7, <2>4, ForwardDoes
    <3>2. PICK b : b = Trailer(r) OBVIOUS
    <3>3. /\ Promise!Promised(wire'[r], Retold(r)) /\ Has(wire'[r], Done)
          /\ b \in {<<>>, <<Done>>, <<Finish, Done>>} /\ wire'[r] = wire[r] \o b
      BY <2>1, <3>1, <3>2, TrailerFits
    <3>4. Stage(r)' = "closed" BY <2>4 DEF Stage
    <3> QED BY <2>1, <2>2, <3>3, <3>4, FramesShown
  <2>5. CASE gw'[r] = "mapping"
    <3>1. PICK c \in Chunks :
            /\ c.k \in {"raw", "dict", "event"} /\ Ready(r, c)
            /\ c.k = "event" => ~model.native
            /\ wire'[r] = wire[r] \o Written(r, c)
      BY <1>7, <2>5, ForwardDoes
    <3>2. PICK b : b = Written(r, c) OBVIOUS
    <3>3. /\ Promise!Promised(wire'[r], Retold(r)) /\ wire'[r] = wire[r] \o b
          /\ b \in Promise!Bursts
      BY <2>1, <3>1, <3>2, WrittenFits, WrittenShape
    <3>4. Stage(r)' = "open" BY <2>5 DEF Stage
    <3> QED BY <2>1, <2>2, <3>3, <3>4, FramesShown
  <2> QED BY <1>7, <2>3, <2>4, <2>5, ForwardDoes
<1> QED BY <1>3, <1>4, <1>5, <1>6, <1>7 DEF Gateway

(* Every step of the pipeline is a step of the promise, or shows nothing.  *)
LEMMA NextShown == IInv /\ ToldInv /\ [Next]_vars => [Promise!Next]_(Promise!vars)
<1> SUFFICES ASSUME IInv, ToldInv, [Next]_vars PROVE [Promise!Next]_(Promise!vars)
  OBVIOUS
<1>1. TypeOK /\ ChanInv BY DEF IInv
<1>2. \A x \in Streams : SameAt(x) => SameShown(x)
  BY DEF SameAt, SameShown, Stage, Retold
<1>3. ASSUME NEW r \in Requests,
             \/ Call(r) \/ Dispatch(r) \/ Adapt(r) \/ Generate(r) \/ CancelGen(r)
             \/ Gateway(r) \/ Disconnect(r)
      PROVE  [Promise!Next]_(Promise!vars)
  <2>1. \A x \in Streams : x # r => SameShown(x)
    <3> SUFFICES ASSUME NEW x \in Streams, x # r PROVE SameShown(x)
      OBVIOUS
    <3>1. SameAt(x) BY <1>1, <1>3, Elsewhere DEF Requests
    <3> QED BY <1>2, <3>1
  <2>2. CASE r \in Streams
    <3>1. Told(r) BY <2>2 DEF ToldInv
    <3> QED BY <1>1, <1>3, <2>1, <2>2, <3>1, StepShown
  <2>3. CASE r \notin Streams
    <3>1. \A x \in Streams : SameShown(x) BY <2>1, <2>3
    <3> QED BY <3>1, NothingShown
  <2> QED BY <2>2, <2>3
<1>4. ASSUME UNCHANGED <<gw, wire, past>> PROVE [Promise!Next]_(Promise!vars)
  <2>1. \A x \in Streams : SameShown(x) BY <1>4 DEF SameShown, Stage, Retold
  <2> QED BY <2>1, NothingShown
<1>5. CASE ReplicaDies BY <1>4, <1>5 DEF ReplicaDies, gateway
<1>6. ASSUME NEW e \in {"none", "async", "sync"}, NEW a \in BOOLEAN, ReplicaStarts(e, a)
      PROVE  [Promise!Next]_(Promise!vars)
  BY <1>4, <1>6 DEF ReplicaStarts, source, gateway
<1>7. CASE UNCHANGED vars BY <1>4, <1>7 DEF vars, source, gateway
<1> QED BY <1>3, <1>5, <1>6, <1>7 DEF Next

(* Nothing has been shown at first.                                        *)
LEMMA InitShown == Init => Promise!Init
<1> SUFFICES ASSUME Init PROVE Promise!Init
  OBVIOUS
<1>1. \A x \in Streams : x \in Requests BY DEF Requests
<1>2. \A x \in Streams : Stage(x) = "waiting" /\ wire[x] = <<>> /\ Retold(x) = FALSE
  BY <1>1 DEF Init, Stage, Retold
<1>3. /\ [x \in Streams |-> Stage(x)] = [x \in Streams |-> "waiting"]
      /\ [x \in Streams |-> wire[x]] = [x \in Streams |-> <<>>]
      /\ [x \in Streams |-> Retold(x)] = [x \in Streams |-> FALSE]
  BY <1>2
<1> QED BY <1>3 DEF Promise!Init, Stage

(* The pipeline implements SseStream: whatever the adapter, the best effort*)
(* executor, the handle between the processes and the gateway's iterator do*)
(* with a request, for any number of requests, texts, chunks under way,    *)
(* crashes and departures, its client sees a stream that is refused or     *)
(* opened, grows frame by frame in the order it was promised, told again or*)
(* not, is closed only behind [DONE], and gets nothing after that.         *)
THEOREM PipelineKeepsPromise == Spec => KeepsPromise
<1>1. Spec => []IInv BY Inductive
<1>2. Spec => []ToldInv
  BY InitToldInv, NextToldInv, Inductive, PTL DEF Spec
<1>3. Init => Promise!Init BY InitShown
<1>4. IInv /\ ToldInv /\ [Next]_vars => [Promise!Next]_(Promise!vars) BY NextShown
<1> QED BY <1>1, <1>2, <1>3, <1>4, PTL DEF Spec, KeepsPromise, Promise!Spec

-----------------------------------------------------------------------------
(***************************************************************************)
(* No call is left waiting for nobody: the part of EveryCallEnds that is   *)
(* not fairness.                                                           *)
(***************************************************************************)

Waiting(r) == gw[r] \in {"priming", "awaiting", "mapping"}

Busy(r) == gen[r] \in Generators \cup {"queued"}

(* The last chunk under way is one that lets the gateway end the answer.   *)
LastWord(r) ==
  chan[r] # <<>> /\ Back(chan[r]).k \in {"exc", "end", "payload"}

(* A handler that waits for its next chunk has somebody to wait for: the   *)
(* replica has the call or will have it, or the last word on it is under   *)
(* way.  So wherever a generator raises, ends, gives its request away, is  *)
(* cancelled or dies with its process, the client is not left hanging.     *)
NobodyIsForgotten ==
  \A r \in Requests : Waiting(r) => Busy(r) \/ (gen[r] = "over" /\ LastWord(r))

(* What stays of a request that is not touched.                            *)
LEMMA KeptInMind ==
  ASSUME NobodyIsForgotten, NEW r \in Requests,
         gw'[r] = gw[r], gen'[r] = gen[r], chan'[r] = chan[r]
  PROVE  (Waiting(r) => Busy(r) \/ (gen[r] = "over" /\ LastWord(r)))'
BY DEF NobodyIsForgotten, Waiting, Busy, LastWord, Back

(* The last chunk of what is under way is the last that was produced.      *)
LEMMA LastProduced ==
  ASSUME NEW s \in Seq(Chunks), NEW t \in Seq(Chunks), t # <<>>
  PROVE  s \o t # <<>> /\ Back(s \o t) = Back(t)
<1>1. Len(s) \in Nat /\ Len(t) \in Nat \ {0} /\ Len(s \o t) = Len(s) + Len(t)
  BY EmptySeq, LenProperties, ConcatProperties
<1>2. Len(s \o t) \in (Len(s) + 1)..(Len(s) + Len(t)) BY <1>1
<1>3. (s \o t)[Len(s \o t)] = t[Len(s \o t) - Len(s)] BY <1>1, <1>2, ConcatProperties
<1>4. Len(s \o t) - Len(s) = Len(t) /\ Len(s \o t) # 0 BY <1>1
<1> QED BY <1>3, <1>4, EmptySeq DEF Back

(* A generator that is over has said so.                                   *)
LEMMA ConcludeSays ==
  ASSUME TypeOK, NEW r \in Requests, NEW chunks \in Seq(Chunks), NEW what,
         chunks # <<>>, Back(chunks).k \in {"exc", "end", "payload"},
         Conclude(r, chunks, what)
  PROVE  gen'[r] = "over" /\ LastWord(r)'
<1>1. gen'[r] = "over" /\ chan'[r] = chan[r] \o chunks
  BY DEF Conclude, Become, Produce, TypeOK
<1>2. chan[r] \in Seq(Chunks) BY DEF TypeOK
<1> QED BY <1>1, <1>2, LastProduced DEF LastWord

(* The chunks a generator ends with.                                       *)
LEMMA FinalChunks ==
  /\ \A x : Back(<<x>>) = x /\ <<x>> # <<>>
  /\ \A x, y : Back(<<x, y>>) = y /\ <<x, y>> # <<>>
  /\ End.k = "end" /\ (\A p : Payload(p).k = "payload") /\ (\A e : Exc(e).k = "exc")
  /\ End \in Chunks
  /\ \A p \in Payloads : Payload(p) \in Chunks
  /\ \A e \in Exceptions : Exc(e) \in Chunks
<1>1. \A x : Back(<<x>>) = x /\ <<x>> # <<>> BY SMT DEF Back
<1>2. \A x, y : Back(<<x, y>>) = y /\ <<x, y>> # <<>> BY SMT DEF Back
<1>3. End.k = "end" /\ (\A p : Payload(p).k = "payload") /\ (\A e : Exc(e).k = "exc")
  BY DEF End, Payload, Exc
<1> QED BY <1>1, <1>2, <1>3, ChunkTypes

(* What the replica does for a request: its generator goes on or hands it  *)
(* over, or is over and has said so.                                       *)
LEMMA SourceSays ==
  ASSUME TypeOK, NEW r \in Requests, Dispatch(r) \/ Adapt(r) \/ Generate(r)
  PROVE  Busy(r)' \/ (gen[r] = "over" /\ LastWord(r))'
<1> USE DEF TypeOK
<1>1. /\ \A e \in Exceptions : \A what :
           Conclude(r, <<Exc(e)>>, what) => gen'[r] = "over" /\ LastWord(r)'
      /\ \A p \in Payloads : \A what :
           Conclude(r, <<Payload(p)>>, what) => gen'[r] = "over" /\ LastWord(r)'
      /\ \A what : Conclude(r, <<End>>, what) => gen'[r] = "over" /\ LastWord(r)'
  <2>1. ASSUME NEW c \in Chunks, NEW what, c.k \in {"exc", "end", "payload"},
               Conclude(r, <<c>>, what)
        PROVE  gen'[r] = "over" /\ LastWord(r)'
    <3>1. <<c>> \in Seq(Chunks) BY SeqUpToTwo
    <3> QED BY <2>1, <3>1, FinalChunks, ConcludeSays
  <2>2. ASSUME NEW e \in Exceptions, NEW what, Conclude(r, <<Exc(e)>>, what)
        PROVE  gen'[r] = "over" /\ LastWord(r)'
    <3>1. PICK c : c = Exc(e) OBVIOUS
    <3>2. c \in Chunks /\ c.k = "exc" BY <2>2, <3>1, FinalChunks
    <3> QED BY <2>1, <2>2, <3>1, <3>2
  <2>3. ASSUME NEW p \in Payloads, NEW what, Conclude(r, <<Payload(p)>>, what)
        PROVE  gen'[r] = "over" /\ LastWord(r)'
    <3>1. PICK c : c = Payload(p) OBVIOUS
    <3>2. c \in Chunks /\ c.k = "payload" BY <2>3, <3>1, FinalChunks
    <3> QED BY <2>1, <2>3, <3>1, <3>2
  <2>4. ASSUME NEW what, Conclude(r, <<End>>, what)
        PROVE  gen'[r] = "over" /\ LastWord(r)'
    BY <2>1, <2>4, FinalChunks
  <2> QED BY <2>2, <2>3, <2>4
<1>2. ASSUME NEW c \in Chunks, NEW what, Conclude(r, <<c, End>>, what)
      PROVE  gen'[r] = "over" /\ LastWord(r)'
  <2>1. <<c, End>> \in Seq(Chunks) BY FinalChunks, SeqUpToTwo
  <2> QED BY <1>2, <2>1, FinalChunks, ConcludeSays
<1>3. /\ Event(Finish) \in Chunks /\ Dict(Error) \in Chunks
      /\ Event(Text(0, MaxText)) \in Chunks
      /\ {"rejected", "crashed"} = Exceptions /\ {"completion", "backend", "error"} = Payloads
  <2>1. 0 \in 0..MaxText /\ MaxText \in 0..MaxText BY MaxTextAssumption
  <2> QED BY <2>1, FrameTypes, ChunkTypes DEF Exceptions, Payloads
<1>4. ASSUME NEW g \in Generators, Become(r, g) PROVE Busy(r)'
  BY <1>4 DEF Become, Busy
<1>5. ASSUME FallBack(r) PROVE Busy(r)'
  BY <1>4, <1>5 DEF FallBack, Generators
<1>6. CASE Dispatch(r)
  <2>1. CASE Become(r, IF adapter THEN "adapter" ELSE "local")
    BY <1>4, <2>1 DEF Generators
  <2>2. CASE Conclude(r, <<Exc("rejected")>>, {})
    BY <1>1, <1>3, <2>2
  <2> QED BY <1>6, <2>1, <2>2 DEF Dispatch
<1>7. CASE Adapt(r)
  <2>1. ASSUME NEW frame \in Frames, AdapterYields(r, frame) PROVE Busy(r)'
    BY <2>1 DEF AdapterYields, Working, Busy, Generators
  <2>2. CASE AdapterReturns(r) BY <1>1, <2>2 DEF AdapterReturns
  <2>3. CASE AdapterAnswers(r) BY <1>1, <1>3, <2>3 DEF AdapterAnswers
  <2>4. CASE AdapterReturnsError(r) BY <1>1, <1>2, <1>3, <2>4 DEF AdapterReturnsError
  <2>5. CASE AdapterRaises(r) BY <1>1, <1>3, <1>5, <2>5 DEF AdapterRaises
  <2> QED BY <1>7, <2>1, <2>2, <2>3, <2>4, <2>5 DEF Adapt
<1>8. CASE Generate(r)
  <2>1. CASE LocalRejects(r) BY <1>1, <1>3, <2>1 DEF LocalRejects
  <2>2. CASE LocalBegins(r)
    BY <1>4, <2>2 DEF LocalBegins, Generators
  <2>3. ASSUME NEW hi \in 1..MaxText, DeltaYields(r, hi) PROVE Busy(r)'
    BY <2>3 DEF DeltaYields, Working, Busy, Generators
  <2>4. ASSUME NEW hi \in 0..MaxText, DeltaRevised(r, hi) PROVE Busy(r)'
    BY <2>4 DEF DeltaRevised, Working, Busy, Generators
  <2>5. CASE DeltaEnds(r)
    <3>1. \/ Conclude(r, <<Event(Finish), End>>, {"concluded"})
          \/ Conclude(r, <<End>>, {"concluded"})
      BY <2>5 DEF DeltaEnds
    <3> QED BY <1>1, <1>2, <1>3, <3>1
  <2>6. CASE DeltaUnsupported(r)
    BY <1>1, <1>3, <1>4, <2>6 DEF DeltaUnsupported, Generators
  <2>7. CASE WholeYields(r)
    <3>1. CASE r \in Plains
      BY <1>1, <1>3, <2>7, <3>1 DEF WholeYields
    <3>2. CASE r \notin Plains
      <4>1. PICK text \in {<<>>, <<Event(Text(0, MaxText))>>} :
              Conclude(r, text \o <<Event(Finish), End>>, {"concluded"})
        BY <2>7, <3>2 DEF WholeYields
      <4>2. PICK e : e = <<Event(Finish), End>> OBVIOUS
      <4>3. e \in Seq(Chunks) /\ e # <<>> /\ Back(e) = End
        BY <1>3, <4>2, FinalChunks, SeqUpToTwo
      <4>4. text \in Seq(Chunks)
        <5>1. PICK c : c = Event(Text(0, MaxText)) OBVIOUS
        <5>2. c \in Chunks BY <1>3, <5>1
        <5>3. text = <<>> \/ text = <<c>> BY <4>1, <5>1
        <5>4. <<>> \in Seq(Chunks) /\ <<c>> \in Seq(Chunks) BY <5>2, SeqUpToTwo
        <5> QED BY <5>3, <5>4
      <4>5. text \o e \in Seq(Chunks) BY <4>3, <4>4, ConcatProperties
      <4>6. text \o e # <<>> /\ Back(text \o e) = End BY <4>3, <4>4, LastProduced
      <4> QED BY <4>1, <4>2, <4>5, <4>6, FinalChunks, ConcludeSays
    <3> QED BY <3>1, <3>2
  <2>8. CASE EngineRaises(r) BY <1>1, <1>3, <2>8 DEF EngineRaises
  <2> QED BY <1>8, <2>1, <2>2, <2>3, <2>4, <2>5, <2>6, <2>7, <2>8 DEF Generate
<1> QED BY <1>6, <1>7, <1>8

(* The gateway takes the last word only to end the answer.                 *)
LEMMA ForwardLeaves ==
  ASSUME IInv, NobodyIsForgotten, NEW r \in Requests, Forward(r)
  PROVE  (Waiting(r) => Busy(r) \/ (gen[r] = "over" /\ LastWord(r)))'
<1>1. /\ gw[r] = "mapping" /\ chan[r] # <<>> /\ gen'[r] = gen[r]
      /\ chan[r] \in Seq(Chunks) /\ chan'[r] = Tail(chan[r])
      /\ Head(chan[r]).k \in {"exc", "end"} => gw'[r] \in Closed
  BY DEF IInv, TypeOK, Forward, Arrived, Write, source, Closed
<1>2. CASE Busy(r) \/ Head(chan[r]).k \in {"exc", "end"}
  BY <1>1, <1>2 DEF Busy, Waiting, Closed
<1>3. CASE ~Busy(r) /\ Head(chan[r]).k \notin {"exc", "end"}
  <2>1. gen[r] = "over" /\ Back(chan[r]).k \in {"exc", "end", "payload"}
    BY <1>1, <1>3 DEF NobodyIsForgotten, Waiting, LastWord
  <2>2. chan[r] \in Seq(Allowed(r)) /\ r \in Streams
    BY <1>1 DEF IInv, ChanInv, ModeInv
  <2>3. PICK q : q = chan[r] OBVIOUS
  <2>4. Len(q) \in Nat \ {0} /\ Head(q) = q[1] /\ q[1] \in Allowed(r)
    <3>1. Len(q) \in Nat \ {0} /\ Head(q) = q[1]
      BY <1>1, <2>2, <2>3, EmptySeq, HeadTailProperties
    <3> QED BY <2>2, <2>3, <3>1, ElementOfSeq
  <2>5. q[1].k \notin {"exc", "end", "payload"}
    BY <1>3, <2>2, <2>3, <2>4 DEF Allowed
  <2>6. Len(q) # 1 BY <2>1, <2>3, <2>5 DEF Back
  <2>7. /\ Len(Tail(q)) = Len(q) - 1
        /\ \A i \in 1..(Len(q) - 1) : Tail(q)[i] = q[i + 1]
    BY <1>1, <2>3, HeadTailProperties
  <2>8. Len(Tail(q)) \in 1..(Len(q) - 1) /\ (Len(q) - 1) + 1 = Len(q) BY <2>4, <2>6, <2>7
  <2>9. Tail(q)[Len(Tail(q))] = q[Len(q)] /\ Tail(q) # <<>>
    <3>1. Len(Tail(q)) # 0 BY <2>8
    <3>2. Tail(q) # <<>> BY <3>1, EmptySeq
    <3> QED BY <2>7, <2>8, <3>2
  <2> QED BY <1>1, <2>1, <2>3, <2>9 DEF LastWord, Back
<1> QED BY <1>2, <1>3

(* Every step keeps everybody in mind.                                     *)
LEMMA NextForgotten == IInv /\ NobodyIsForgotten /\ [Next]_vars => NobodyIsForgotten'
<1> SUFFICES ASSUME IInv, NobodyIsForgotten, [Next]_vars,
                    NEW x \in Requests
             PROVE  (Waiting(x) => Busy(x) \/ (gen[x] = "over" /\ LastWord(x)))'
  BY DEF NobodyIsForgotten
<1>1. TypeOK BY DEF IInv
<1>2. ASSUME NEW r \in Requests,
             \/ Call(r) \/ Dispatch(r) \/ Adapt(r) \/ Generate(r) \/ CancelGen(r)
             \/ Gateway(r) \/ Disconnect(r)
      PROVE  (Waiting(x) => Busy(x) \/ (gen[x] = "over" /\ LastWord(x)))'
  <2>1. CASE x # r
    <3>1. SameAt(x) BY <1>1, <1>2, <2>1, Elsewhere
    <3> QED BY <3>1, KeptInMind DEF SameAt
  <2>2. CASE Call(x)
    BY <1>1, <2>2 DEF Call, Become, Busy, TypeOK
  <2>3. CASE Dispatch(x) \/ Adapt(x) \/ Generate(x)
    BY <1>1, <2>3, SourceSays
  <2>4. CASE CancelGen(x)
    BY <2>4 DEF CancelGen, gateway, Waiting, Closed
  <2>5. CASE Disconnect(x)
    BY <1>1, <2>5 DEF Disconnect, Waiting, TypeOK
  <2>6. CASE Prime(x)
    <3>1. gw[x] = "priming" /\ chan' = chan /\ gen' = gen
      BY <2>6 DEF Prime, Arrived, Reply, source
    <3> QED BY <3>1 DEF NobodyIsForgotten, Waiting, Busy, LastWord, Back
  <2>7. CASE Await(x)
    BY <1>1, <2>7 DEF Await, Reply, Waiting, TypeOK
  <2>8. CASE Forward(x) BY <2>8, ForwardLeaves
  <2> QED BY <1>2, <2>1, <2>2, <2>3, <2>4, <2>5, <2>6, <2>7, <2>8 DEF Gateway
<1>3. CASE ReplicaDies
  <2>1. gw' = gw BY <1>3 DEF ReplicaDies, gateway
  <2>2. CASE gen[x] \in Generators
    <3>1. gen'[x] = "over" /\ chan'[x] = Append(chan[x], Exc("crashed"))
      BY <1>3, <2>2 DEF ReplicaDies
    <3>2. chan[x] \in Seq(Chunks) /\ Exc("crashed") \in Chunks
      BY <1>1, ChunkTypes DEF TypeOK, Exceptions
    <3>3. chan'[x] # <<>> /\ Back(chan'[x]) = Exc("crashed")
      BY <3>1, <3>2, AppendProperties, EmptySeq DEF Back
    <3> QED BY <3>1, <3>3, FinalChunks DEF LastWord, Back
  <2>3. CASE gen[x] \notin Generators
    <3>1. gen'[x] = gen[x] /\ chan'[x] = chan[x]
      BY <1>3, <2>3 DEF ReplicaDies
    <3> QED BY <2>1, <3>1, KeptInMind
  <2> QED BY <2>2, <2>3
<1>4. ASSUME NEW e \in {"none", "async", "sync"}, NEW a \in BOOLEAN, ReplicaStarts(e, a)
      PROVE  (Waiting(x) => Busy(x) \/ (gen[x] = "over" /\ LastWord(x)))'
  BY <1>4, KeptInMind DEF ReplicaStarts, source, gateway
<1>5. CASE UNCHANGED vars BY <1>5, KeptInMind DEF vars, source, gateway
<1> QED BY <1>2, <1>3, <1>4, <1>5 DEF Next

(* No call hangs on a generator that is gone: through refusals, failures,  *)
(* fallbacks, cancellations and crashes, for any number of requests and of *)
(* chunks ahead, whoever waits has a generator at work or its last word.   *)
THEOREM NoCallIsForgotten == Spec => []NobodyIsForgotten
<1>1. Init => NobodyIsForgotten
  BY DEF Init, NobodyIsForgotten, Waiting
<1> QED BY <1>1, NextForgotten, Inductive, PTL DEF Spec

=============================================================================
