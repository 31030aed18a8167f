------------------------- MODULE ProxyStreamProofs -------------------------
(***************************************************************************)
(* What holds of streamed proxy requests for any number of them, any status*)
(* codes and any number of chunks: whose connection may stay open, and what*)
(* is streamed at all.                                                     *)
(***************************************************************************)
EXTENDS ProxyStream, TLAPS

(* Where an exchange is tells what it has: a body only under a success of  *)
(* the upstream, and none before the server has begun it.                  *)
Stages(r) ==
  /\ pc[r] \in {"idle", "sending", "error_body", "handed_over"} => body[r] = "none"
  /\ pc[r] = "handed_over" => answer[r] \in OkStatuses
  /\ pc[r] = "iterating" => body[r] # "none" /\ answer[r] \in OkStatuses
  /\ pc[r] = "idle" => conn[r] = "none"

(* An exchange that is over and has had a body has closed its connection.  *)
Ends(r) ==
  pc[r] = "over" =>
    /\ body[r] # "none" => conn[r] = "closed" /\ answer[r] \in OkStatuses
    /\ conn[r] = "open" => answer[r] = "unhandled" \/ gone[r]

IInv == TypeOK /\ \A r \in Requests : Stages(r) /\ Ends(r)

-----------------------------------------------------------------------------

LEMMA InitIInv == Init => IInv
  BY ProxyStreamAssumption DEF Init, IInv, TypeOK, Stages, Ends

(* A step of one exchange leaves the others where they are.                *)
LEMMA OthersStay ==
  ASSUME IInv, NEW r \in Requests, NEW q \in Requests, q # r, TypeOK',
         \A p \in Requests : p # r =>
           /\ pc'[p] = pc[p] /\ conn'[p] = conn[p] /\ answer'[p] = answer[p]
           /\ body'[p] = body[p] /\ gone'[p] = gone[p]
  PROVE  Stages(q)' /\ Ends(q)'
  BY DEF IInv, Stages, Ends

(* A step of an exchange.                                                  *)
Step(r) ==
  \/ Open(r)
  \/ \E e \in SendErrors : SendFails(r, e)
  \/ \E s \in OkStatuses \cup ErrStatuses : HeadersArrive(r, s)
  \/ ErrorBodyRead(r) \/ ErrorBodyFails(r)
  \/ BeginBody(r) \/ ForwardChunk(r) \/ UpstreamEnds(r) \/ UpstreamBreaks(r)
  \/ Disconnect(r) \/ NoticeDisconnect(r)

(* It keeps within the types,                                              *)
LEMMA StepTypeOK ==
  ASSUME IInv, NEW r \in Requests, Step(r)
  PROVE  TypeOK'
<1> USE DEF IInv, TypeOK, Goto, SetConn
<1>1. CASE Open(r) BY <1>1 DEF Open
<1>2. ASSUME NEW e \in SendErrors, SendFails(r, e) PROVE TypeOK'
  BY <1>2 DEF SendFails
<1>3. ASSUME NEW s \in OkStatuses \cup ErrStatuses, HeadersArrive(r, s) PROVE TypeOK'
  BY <1>3 DEF HeadersArrive
<1>4. CASE ErrorBodyRead(r) BY <1>4 DEF ErrorBodyRead
<1>5. CASE ErrorBodyFails(r) BY <1>5 DEF ErrorBodyFails
<1>6. CASE BeginBody(r) BY <1>6 DEF BeginBody
<1>7. CASE ForwardChunk(r)
  <2>1. chunks[r] + 1 \in 0..MaxChunks
    BY <1>7, ProxyStreamAssumption DEF ForwardChunk
  <2> QED BY <1>7, <2>1 DEF ForwardChunk
<1>8. ASSUME NEW how \in {"complete", "truncated", "abandoned"}, LeaveBody(r, how) PROVE TypeOK'
  BY <1>8 DEF LeaveBody
<1>9. CASE Disconnect(r) BY <1>9 DEF Disconnect
<1>10. CASE NoticeDisconnect(r) BY <1>8, <1>10 DEF NoticeDisconnect
<1> QED BY <1>1, <1>2, <1>3, <1>4, <1>5, <1>6, <1>7, <1>8, <1>9, <1>10, Step(r)
        DEF Step, UpstreamEnds, UpstreamBreaks

(* changes nothing of the others,                                          *)
LEMMA StepIsOwn ==
  ASSUME IInv, NEW r \in Requests, Step(r), NEW p \in Requests, p # r
  PROVE  /\ pc'[p] = pc[p] /\ conn'[p] = conn[p] /\ answer'[p] = answer[p]
         /\ body'[p] = body[p] /\ gone'[p] = gone[p]
  BY DEF IInv, TypeOK, Goto, SetConn, Step, Open, SendFails, HeadersArrive, ErrorBodyRead,
         ErrorBodyFails, BeginBody, ForwardChunk, UpstreamEnds, UpstreamBreaks, LeaveBody,
         Disconnect, NoticeDisconnect

(* and takes its own exchange from one stage to another.                   *)
LEMMA StepKeeps ==
  ASSUME IInv, NEW r \in Requests, Step(r)
  PROVE  Stages(r)' /\ Ends(r)'
<1> USE DEF IInv, TypeOK, Stages, Ends, Goto, SetConn
<1>1. CASE Open(r) BY <1>1 DEF Open
<1>2. ASSUME NEW e \in SendErrors, SendFails(r, e) PROVE Stages(r)' /\ Ends(r)'
  BY <1>2 DEF SendFails
<1>3. ASSUME NEW s \in OkStatuses \cup ErrStatuses, HeadersArrive(r, s)
      PROVE  Stages(r)' /\ Ends(r)'
  BY <1>3 DEF HeadersArrive
<1>4. CASE ErrorBodyRead(r) BY <1>4 DEF ErrorBodyRead
<1>5. CASE ErrorBodyFails(r) BY <1>5 DEF ErrorBodyFails
<1>6. CASE BeginBody(r) BY <1>6 DEF BeginBody
<1>7. CASE ForwardChunk(r) BY <1>7 DEF ForwardChunk
<1>8. ASSUME NEW how \in {"complete", "truncated", "abandoned"}, LeaveBody(r, how)
      PROVE  Stages(r)' /\ Ends(r)'
  BY <1>8 DEF LeaveBody
<1>9. CASE Disconnect(r) BY <1>9 DEF Disconnect
<1>10. CASE NoticeDisconnect(r) BY <1>8, <1>10 DEF NoticeDisconnect
<1> QED BY <1>1, <1>2, <1>3, <1>4, <1>5, <1>6, <1>7, <1>8, <1>9, <1>10, Step(r)
        DEF Step, UpstreamEnds, UpstreamBreaks

(* Every step keeps the invariant.                                         *)
LEMMA NextIInv == IInv /\ [Next]_vars => IInv'
<1> SUFFICES ASSUME IInv, [Next]_vars PROVE IInv'
  OBVIOUS
<1>1. ASSUME NEW r \in Requests, Step(r) PROVE IInv'
  <2>1. TypeOK'
    BY <1>1, StepTypeOK
  <2>2. Stages(r)' /\ Ends(r)'
    BY <1>1, StepKeeps
  <2>3. ASSUME NEW q \in Requests, q # r PROVE Stages(q)' /\ Ends(q)'
    BY <1>1, <2>1, <2>3, StepIsOwn, OthersStay
  <2> QED BY <2>1, <2>2, <2>3 DEF IInv
<1>2. CASE UNCHANGED vars
  BY <1>2 DEF vars, IInv, TypeOK, Stages, Ends
<1> QED BY <1>1, <1>2 DEF Next, Step

(* So it holds at every moment.                                            *)
LEMMA Inductive == Spec => []IInv
  BY InitIInv, NextIInv, PTL DEF Spec

-----------------------------------------------------------------------------

(* What an exchange holds, answers and forwards stays within its type.     *)
THEOREM TypeCorrect == Spec => []TypeOK
<1>1. IInv => TypeOK
  BY DEF IInv
<1> QED BY <1>1, Inductive, PTL

(* A connection stays open only behind an exchange without a body.         *)
THEOREM ConnectionsAreClosed == Spec => []HeldOnlyIfNeverIterated
<1>1. IInv => HeldOnlyIfNeverIterated
  BY DEF IInv, Stages, Ends, HeldOnlyIfNeverIterated
<1> QED BY <1>1, Inductive, PTL

(* What is streamed is streamed under a success of the upstream.           *)
THEOREM OnlySuccessIsStreamed == Spec => []StreamedOnlyOnSuccess
<1>1. IInv => StreamedOnlyOnSuccess
  BY DEF IInv, TypeOK, Stages, Ends, StreamedOnlyOnSuccess
<1> QED BY <1>1, Inductive, PTL

=============================================================================
