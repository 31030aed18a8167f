---------------------------- MODULE ProxyStream ----------------------------
(***************************************************************************)
(* RuntimeExecutor._execute_proxy_stream: a chat request with stream=true  *)
(* to a vllm_openai_proxy model opens an HTTP stream to the upstream and   *)
(* hands its bytes to the client. The coroutine that opens the stream and  *)
(* the generator that forwards it are different: what the first opened is  *)
(* closed by the second, if the ASGI server ever starts it.                *)
(***************************************************************************)
EXTENDS Integers

CONSTANTS
  Requests,     \* streamed proxy requests
  OkStatuses,   \* status codes below 400
  ErrStatuses,  \* status codes of 400 and more
  MaxChunks     \* bound on the chunks an upstream sends before it ends

(* What client.send may raise before the upstream's headers are there; the *)
(* code catches none of it.                                                *)
SendErrors == {"ConnectTimeout", "ConnectError", "ReadTimeout", "BrokenConnection"}

ASSUME ProxyStreamAssumption ==
  /\ MaxChunks \in Nat
  /\ OkStatuses \cap ErrStatuses = {}
  /\ (OkStatuses \cup ErrStatuses) \cap
       ({"none", "upstream_timeout", "backend_misconfigured",
         "unsupported_parameter", "unhandled"} \cup SendErrors) = {}

VARIABLES
  pc,      \* where the exchange is
  conn,    \* the AsyncClient and the upstream response it holds
  answer,  \* the status line the client gets, or the code of the error
  chunks,  \* chunks forwarded to the client
  body,    \* what became of the body of a streamed answer
  gone     \* the client has disconnected

vars == <<pc, conn, answer, chunks, body, gone>>

TypeOK ==
  /\ pc \in [Requests -> {"idle", "sending", "error_body", "handed_over", "iterating", "over"}]
  /\ conn \in [Requests -> {"none", "open", "closed"}]
  /\ answer \in [Requests -> OkStatuses \cup ErrStatuses \cup
       {"none", "backend_misconfigured", "unsupported_parameter", "unhandled"}]
  /\ chunks \in [Requests -> 0..MaxChunks]
  /\ body \in [Requests -> {"none", "begun", "complete", "truncated", "abandoned"}]
  /\ gone \in [Requests -> BOOLEAN]

Init ==
  /\ pc = [r \in Requests |-> "idle"]
  /\ conn = [r \in Requests |-> "none"]
  /\ answer = [r \in Requests |-> "none"]
  /\ chunks = [r \in Requests |-> 0]
  /\ body = [r \in Requests |-> "none"]
  /\ gone = [r \in Requests |-> FALSE]

-----------------------------------------------------------------------------

Goto(r, p) == pc' = [pc EXCEPT ![r] = p]

SetConn(r, c) == conn' = [conn EXCEPT ![r] = c]

(* _parse_proxy_config, the streaming switches and _build_proxy_headers    *)
(* refuse the request before the client object exists.                     *)
Open(r) ==
  /\ pc[r] = "idle"
  /\ \/ /\ Goto(r, "sending")
        /\ SetConn(r, "open")
        /\ UNCHANGED answer
     \/ \E code \in {"backend_misconfigured", "unsupported_parameter"} :
          /\ Goto(r, "over")
          /\ answer' = [answer EXCEPT ![r] = code]
          /\ UNCHANGED conn
  /\ UNCHANGED <<chunks, body, gone>>

(* A variant with a fault: the exception itself is taken for the answer.   *)
SendFailsUntranslated(r, e) ==
  /\ pc[r] = "sending"
  /\ Goto(r, "over")
  /\ answer' = [answer EXCEPT ![r] = e]
  /\ UNCHANGED <<conn, chunks, body, gone>>

(* client.send raises: no clause catches it and nothing closes the client. *)
SendFails(r, e) ==
  /\ pc[r] = "sending"
  /\ Goto(r, "over")
  /\ answer' = [answer EXCEPT ![r] = "unhandled"]
  /\ UNCHANGED <<conn, chunks, body, gone>>

(* Variants with a fault: an upstream error is streamed like a success; it *)
(* is asked again without a bound.                                         *)
HeadersArriveUnchecked(r, s) ==
  /\ pc[r] = "sending"
  /\ answer' = [answer EXCEPT ![r] = s]
  /\ Goto(r, "handed_over")
  /\ UNCHANGED <<conn, chunks, body, gone>>

HeadersArriveAskingAgain(r, s) ==
  /\ pc[r] = "sending"
  /\ answer' = [answer EXCEPT ![r] = s]
  /\ Goto(r, IF s \in ErrStatuses THEN "sending" ELSE "handed_over")
  /\ UNCHANGED <<conn, chunks, body, gone>>

(* The upstream's headers: an error status is read and closed here, any    *)
(* other is handed over to a StreamingResponse.                            *)
HeadersArrive(r, s) ==
  /\ pc[r] = "sending"
  /\ answer' = [answer EXCEPT ![r] = s]
  /\ Goto(r, IF s \in ErrStatuses THEN "error_body" ELSE "handed_over")
  /\ UNCHANGED <<conn, chunks, body, gone>>

(* aread, then response.aclose and client.aclose; the answer goes out.     *)
ErrorBodyRead(r) ==
  /\ pc[r] = "error_body"
  /\ Goto(r, "over")
  /\ SetConn(r, "closed")
  /\ UNCHANGED <<answer, chunks, body, gone>>

(* aread raises: the closing calls after it are skipped.                   *)
ErrorBodyFails(r) ==
  /\ pc[r] = "error_body"
  /\ Goto(r, "over")
  /\ answer' = [answer EXCEPT ![r] = "unhandled"]
  /\ UNCHANGED <<conn, chunks, body, gone>>

(* The ASGI server has sent the headers and runs the generator.            *)
BeginBody(r) ==
  /\ pc[r] = "handed_over"
  /\ Goto(r, "iterating")
  /\ body' = [body EXCEPT ![r] = "begun"]
  /\ UNCHANGED <<conn, answer, chunks, gone>>

ForwardChunk(r) ==
  /\ pc[r] = "iterating"
  /\ chunks[r] < MaxChunks
  /\ chunks' = [chunks EXCEPT ![r] = @ + 1]
  /\ UNCHANGED <<pc, conn, answer, body, gone>>

(* A variant with a fault: the closing calls are not in a finally clause.  *)
LeaveBodyNoFinally(r, how) ==
  /\ pc[r] = "iterating"
  /\ Goto(r, "over")
  /\ body' = [body EXCEPT ![r] = how]
  /\ IF how = "complete" THEN SetConn(r, "closed") ELSE UNCHANGED conn
  /\ UNCHANGED <<answer, chunks, gone>>

(* The generator ends and its finally clause closes response and client.   *)
LeaveBody(r, how) ==
  /\ pc[r] = "iterating"
  /\ Goto(r, "over")
  /\ body' = [body EXCEPT ![r] = how]
  /\ SetConn(r, "closed")
  /\ UNCHANGED <<answer, chunks, gone>>

UpstreamEnds(r) == LeaveBody(r, "complete")

UpstreamBreaks(r) == LeaveBody(r, "truncated")

Disconnect(r) ==
  /\ pc[r] \notin {"idle", "over"}
  /\ ~gone[r]
  /\ gone' = [gone EXCEPT ![r] = TRUE]
  /\ UNCHANGED <<pc, conn, answer, chunks, body>>

(* The server cancels the answer of a client it sees has left: a generator *)
(* that runs is closed, one not started has no finally clause to run.      *)
NoticeDisconnect(r) ==
  /\ gone[r]
  /\ \/ LeaveBody(r, "abandoned")
     \/ /\ pc[r] = "handed_over"
        /\ Goto(r, "over")
        /\ UNCHANGED <<conn, answer, chunks, body, gone>>

-----------------------------------------------------------------------------

Next ==
  \E r \in Requests :
    \/ Open(r)
    \/ \E e \in SendErrors : SendFails(r, e)
    \/ \E s \in OkStatuses \cup ErrStatuses : HeadersArrive(r, s)
    \/ ErrorBodyRead(r)
    \/ ErrorBodyFails(r)
    \/ BeginBody(r)
    \/ ForwardChunk(r)
    \/ UpstreamEnds(r)
    \/ UpstreamBreaks(r)
    \/ Disconnect(r)
    \/ NoticeDisconnect(r)

(* The read timeout ends every silence of the upstream, in the body and    *)
(* before it, and the server tells the generator when the client is gone.  *)
Fairness ==
  \A r \in Requests :
    /\ WF_vars(\/ \E e \in SendErrors : SendFails(r, e)
               \/ \E s \in OkStatuses \cup ErrStatuses : HeadersArrive(r, s))
    /\ WF_vars(ErrorBodyRead(r) \/ ErrorBodyFails(r))
    /\ WF_vars(BeginBody(r))
    /\ WF_vars(UpstreamEnds(r) \/ UpstreamBreaks(r))
    /\ WF_vars(NoticeDisconnect(r))

Spec == Init /\ [][Next]_vars

FairSpec == Spec /\ Fairness

-----------------------------------------------------------------------------

(* Whatever way a body that was begun ends - by the upstream, by an error  *)
(* in it, by the client - its connection is closed: an exchange that is    *)
(* over holds a connection only if an exception nobody catches cut it short*)
(* before there was a body, or the client left before the body was begun.  *)
HeldOnlyIfNeverIterated ==
  \A r \in Requests :
    pc[r] = "over" /\ conn[r] = "open" =>
      /\ body[r] = "none"
      /\ answer[r] = "unhandled" \/ gone[r]

(* Bytes are streamed only under a success status of the upstream: an error*)
(* it answers with is returned whole, status and body, and never as a      *)
(* stream.                                                                 *)
StreamedOnlyOnSuccess ==
  \A r \in Requests : body[r] # "none" => answer[r] \in OkStatuses

(* Every exchange the gateway begins comes to an end, whichever of the     *)
(* upstream and the client fails.                                          *)
ExchangeEnds == \A r \in Requests : (pc[r] = "sending") ~> (pc[r] = "over")

============================================================================
