----------------------------- MODULE ProxyCall -----------------------------
(***************************************************************************)
(* RuntimeExecutor._request_proxy: a JSON request (chat without stream,    *)
(* embedding, rerank) of a model whose backend is vllm_openai_proxy is     *)
(* POSTed to the upstream server and retried as proxy_config.retry says.   *)
(*                                                                         *)
(* The upstream is a process of its own: a copy of the request it accepted *)
(* keeps running after the gateway stopped waiting for it.                 *)
(***************************************************************************)
EXTENDS Integers

CONSTANTS
  Requests,       \* proxied requests
  MaxAttempts,    \* proxy_config.retry.max_attempts
  Statuses,       \* HTTP status codes the upstream answers with
  RetryOnStatus   \* proxy_config.retry.retry_on_status

(* httpx.ConnectError and ConnectTimeout: the upstream never saw the copy. *)
(* httpx.ReadTimeout: it did, and no answer came in time.                  *)
Caught == {"ConnectFailed", "ReadTimeout"}

(* The other httpx errors of a POST, which no except clause names: the     *)
(* write timeout, and a connection broken under the exchange. (The pool    *)
(* timeout cannot fire: every attempt has a client of its own.)            *)
Escaping == {"WriteTimeout", "BrokenConnection"}

ASSUME ProxyCallAssumption ==
  /\ MaxAttempts \in Nat
  /\ RetryOnStatus \subseteq Statuses
  /\ Statuses \cap (Caught \cup Escaping \cup
       {"none", "upstream_timeout", "backend_misconfigured", "unhandled"}) = {}

Attempts == IF MaxAttempts > 1 THEN MaxAttempts ELSE 1

Results == Statuses \cup Caught \cup Escaping

Outcomes == Statuses \cup {"upstream_timeout", "backend_misconfigured", "unhandled"}

VARIABLES
  pc,       \* where the coroutine of each request is
  attempt,  \* the loop variable of each request
  lastExc,  \* last_exc of each request
  outcome,  \* what the client is answered: a status, or the code of an error
  copy,     \* the upstream's side of every attempt
  result    \* what the gateway saw of every attempt (history)

vars == <<pc, attempt, lastExc, outcome, copy, result>>

TypeOK ==
  /\ pc \in [Requests -> {"idle", "posting", "backoff", "done"}]
  /\ attempt \in [Requests -> 0..Attempts]
  /\ lastExc \in [Requests -> Caught \cup {"none"}]
  /\ outcome \in [Requests -> Outcomes \cup {"none"}]
  /\ copy \in [Requests -> [1..Attempts -> {"unsent", "running", "abandoned", "finished"}]]
  /\ result \in [Requests -> [1..Attempts -> Results \cup {"none"}]]

Init ==
  /\ pc = [r \in Requests |-> "idle"]
  /\ attempt = [r \in Requests |-> 0]
  /\ lastExc = [r \in Requests |-> "none"]
  /\ outcome = [r \in Requests |-> "none"]
  /\ copy = [r \in Requests |-> [a \in 1..Attempts |-> "unsent"]]
  /\ result = [r \in Requests |-> [a \in 1..Attempts |-> "none"]]

-----------------------------------------------------------------------------

(* Every way out of the loop: the value is returned, or the error raised   *)
(* and answered by the route.                                              *)
Answer(r, o) ==
  /\ pc' = [pc EXCEPT ![r] = "done"]
  /\ outcome' = [outcome EXCEPT ![r] = o]

(* `continue`, or the end of the except clause, after sleeping.            *)
Retry(r) ==
  /\ pc' = [pc EXCEPT ![r] = "backoff"]
  /\ UNCHANGED outcome

Record(r, res) == result' = [result EXCEPT ![r][attempt[r]] = res]

CurrentCopy(r) == copy[r][attempt[r]]

SetCopy(r, s) == copy' = [copy EXCEPT ![r][attempt[r]] = s]

(* _parse_proxy_config and _build_proxy_headers raise backend_misconfigured*)
(* before anything is sent: an invalid proxy_config, or a bearer_env whose *)
(* variable is not named or not set.                                       *)
Start(r) ==
  /\ pc[r] = "idle"
  /\ \/ /\ pc' = [pc EXCEPT ![r] = "posting"]
        /\ attempt' = [attempt EXCEPT ![r] = 1]
        /\ UNCHANGED outcome
     \/ /\ Answer(r, "backend_misconfigured")
        /\ UNCHANGED attempt
  /\ UNCHANGED <<lastExc, copy, result>>

(* The upstream accepts the copy that is being posted.                     *)
Accept(r) ==
  /\ pc[r] = "posting"
  /\ CurrentCopy(r) = "unsent"
  /\ SetCopy(r, "running")
  /\ UNCHANGED <<pc, attempt, lastExc, outcome, result>>

(* Variants with a fault: the status of the last attempt is also retried;  *)
(* any status is retried.                                                  *)
RespondDroppingLast(r, s) ==
  /\ pc[r] = "posting"
  /\ CurrentCopy(r) = "running"
  /\ SetCopy(r, "finished")
  /\ Record(r, s)
  /\ IF s \notin RetryOnStatus THEN Answer(r, s)
     ELSE IF attempt[r] < Attempts THEN Retry(r) ELSE Answer(r, "upstream_timeout")
  /\ UNCHANGED <<attempt, lastExc>>

RespondRetryingAny(r, s) ==
  /\ pc[r] = "posting"
  /\ CurrentCopy(r) = "running"
  /\ SetCopy(r, "finished")
  /\ Record(r, s)
  /\ IF attempt[r] < Attempts THEN Retry(r) ELSE Answer(r, s)
  /\ UNCHANGED <<attempt, lastExc>>

(* An HTTP response: retried while attempts are left and its status is one *)
(* to retry on, else returned as it is.                                    *)
Respond(r, s) ==
  /\ pc[r] = "posting"
  /\ CurrentCopy(r) = "running"
  /\ SetCopy(r, "finished")
  /\ Record(r, s)
  /\ IF attempt[r] < Attempts /\ s \in RetryOnStatus THEN Retry(r) ELSE Answer(r, s)
  /\ UNCHANGED <<attempt, lastExc>>

(* A variant with a fault: one attempt too many.                           *)
FailOffByOne(r, e) ==
  /\ Record(r, e)
  /\ lastExc' = [lastExc EXCEPT ![r] = e]
  /\ IF attempt[r] > Attempts THEN Answer(r, "upstream_timeout") ELSE Retry(r)
  /\ UNCHANGED attempt

(* The except clause: the last attempt leaves the loop, and the error it   *)
(* ends in is upstream_timeout whatever the exception was.                 *)
Fail(r, e) ==
  /\ Record(r, e)
  /\ lastExc' = [lastExc EXCEPT ![r] = e]
  /\ IF attempt[r] >= Attempts THEN Answer(r, "upstream_timeout") ELSE Retry(r)
  /\ UNCHANGED attempt

ConnectFails(r) ==
  /\ pc[r] = "posting"
  /\ CurrentCopy(r) = "unsent"
  /\ Fail(r, "ConnectFailed")
  /\ UNCHANGED copy

ReadTimesOut(r) ==
  /\ pc[r] = "posting"
  /\ CurrentCopy(r) = "running"
  /\ Fail(r, "ReadTimeout")
  /\ SetCopy(r, "abandoned")

(* An exception no clause catches leaves _request_proxy and the route.     *)
Escape(r, e) ==
  /\ pc[r] = "posting"
  /\ e = "WriteTimeout" => CurrentCopy(r) = "unsent"
  /\ Record(r, e)
  /\ Answer(r, "unhandled")
  /\ SetCopy(r, IF CurrentCopy(r) = "running" THEN "abandoned" ELSE "unsent")
  /\ UNCHANGED <<attempt, lastExc>>

(* Variants with a fault: the loop does not wait for the attempt to end;   *)
(* the loop variable starts over.                                          *)
NextAttemptHedged(r) ==
  /\ pc[r] \in {"posting", "backoff"}
  /\ attempt[r] < Attempts
  /\ pc' = [pc EXCEPT ![r] = "posting"]
  /\ attempt' = [attempt EXCEPT ![r] = @ + 1]
  /\ UNCHANGED <<lastExc, outcome, copy, result>>

NextAttemptRestarting(r) ==
  /\ pc[r] = "backoff"
  /\ pc' = [pc EXCEPT ![r] = "posting"]
  /\ attempt' = [attempt EXCEPT ![r] = 1]
  /\ copy' = [copy EXCEPT ![r][1] = "unsent"]
  /\ UNCHANGED <<lastExc, outcome, result>>

(* asyncio.sleep(backoff * attempt) is over: the next attempt.             *)
NextAttempt(r) ==
  /\ pc[r] = "backoff"
  /\ pc' = [pc EXCEPT ![r] = "posting"]
  /\ attempt' = [attempt EXCEPT ![r] = @ + 1]
  /\ UNCHANGED <<lastExc, outcome, copy, result>>

(* The upstream finishes a copy nobody waits for: its answer goes nowhere. *)
FinishAbandoned(r, a) ==
  /\ copy[r][a] = "abandoned"
  /\ copy' = [copy EXCEPT ![r][a] = "finished"]
  /\ UNCHANGED <<pc, attempt, lastExc, outcome, result>>

-----------------------------------------------------------------------------

(* What ends an attempt. httpx bounds each phase of an attempt by a        *)
(* timeout, so an attempt does not stay open against a silent upstream.    *)
EndAttempt(r) ==
  \/ \E s \in Statuses : Respond(r, s)
  \/ ConnectFails(r)
  \/ ReadTimesOut(r)
  \/ \E e \in Escaping : Escape(r, e)

Next ==
  \/ \E r \in Requests : Start(r)
  \/ \E r \in Requests : Accept(r)
  \/ \E r \in Requests : EndAttempt(r)
  \/ \E r \in Requests : NextAttempt(r)
  \/ \E r \in Requests : \E a \in 1..Attempts : FinishAbandoned(r, a)

Fairness == \A r \in Requests : WF_vars(EndAttempt(r)) /\ WF_vars(NextAttempt(r))

Spec == Init /\ [][Next]_vars

FairSpec == Spec /\ Fairness

-----------------------------------------------------------------------------

(* The error code, or the status, the last attempt of a request stands for.*)
Verdict(res) ==
  IF res \in Statuses THEN res
  ELSE IF res \in Caught THEN "upstream_timeout"
  ELSE "unhandled"

(* The client is answered what the LAST attempt ended in: a retryable      *)
(* status that exhausts the attempts is passed on and never turned into a  *)
(* gateway error, and a timeout is reported only when the last attempt     *)
(* failed, whatever the attempts before it saw.                            *)
OutcomeIsLastResult ==
  \A r \in Requests :
    pc[r] = "done" /\ attempt[r] > 0 =>
      /\ result[r][attempt[r]] # "none"
      /\ outcome[r] = Verdict(result[r][attempt[r]])

(* A request is sent again only after an attempt that ended in a status to *)
(* retry on or in an exception the loop catches; a copy the upstream       *)
(* answered otherwise is never followed by another one, and nothing is sent*)
(* beyond the configured number of attempts.                               *)
RetryJustified ==
  \A r \in Requests : \A a \in 1..Attempts :
    /\ a < attempt[r] => result[r][a] \in RetryOnStatus \cup Caught
    /\ a > attempt[r] => copy[r][a] = "unsent" /\ result[r][a] = "none"

(* Two copies of one request are in the upstream's hands at the same time  *)
(* only when the older one was given up by a read timeout: the loop never  *)
(* races two attempts it still waits for.                                  *)
InFlight(r, a) == copy[r][a] \in {"running", "abandoned"}

OverlapOnlyAfterReadTimeout ==
  \A r \in Requests : \A a, b \in 1..Attempts :
    a < b /\ InFlight(r, a) /\ InFlight(r, b) => result[r][a] = "ReadTimeout"

(* Every request whose first attempt was begun is answered, whatever the   *)
(* upstream does: the retries are bounded and each attempt is.             *)
EventuallyAnswered ==
  \A r \in Requests : (pc[r] = "posting") ~> (pc[r] = "done")

============================================================================
