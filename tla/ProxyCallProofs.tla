-------------------------- MODULE ProxyCallProofs --------------------------
(***************************************************************************)
(* The safety of the retry loop of _request_proxy for every number of      *)
(* requests and attempts and every set of statuses.                        *)
(***************************************************************************)
EXTENDS ProxyCall, TLAPS

(* Where a request is in the loop determines how far attempt has come, and *)
(* an attempt the loop has left for the next one ended in a way to retry.  *)
Position ==
  \A r \in Requests :
    /\ pc[r] = "idle" => attempt[r] = 0
    /\ pc[r] = "posting" => attempt[r] \in 1..Attempts
    /\ pc[r] = "backoff" =>
         /\ attempt[r] \in 1..Attempts
         /\ attempt[r] < Attempts
         /\ result[r][attempt[r]] \in RetryOnStatus \cup Caught

(* A copy runs while it is the one the loop waits for; a copy given up was *)
(* given up by a read timeout, or by an error that ended the request.      *)
CopyState ==
  \A r \in Requests : \A a \in 1..Attempts :
    /\ copy[r][a] = "running" => pc[r] = "posting" /\ a = attempt[r]
    /\ copy[r][a] = "abandoned" =>
         result[r][a] = "ReadTimeout" \/ (a = attempt[r] /\ pc[r] = "done")

IInv ==
  /\ TypeOK
  /\ Position
  /\ CopyState
  /\ RetryJustified
  /\ OutcomeIsLastResult

USE DEF Answer, Retry, Record, CurrentCopy, SetCopy

(* max(1, max_attempts) is a positive number.                              *)
LEMMA AttemptsPositive == Attempts \in Nat /\ Attempts >= 1
  BY ProxyCallAssumption DEF Attempts

(* Nothing is posted at first.                                             *)
LEMMA InitIInv == Init => IInv
  <1> SUFFICES ASSUME Init PROVE IInv
    OBVIOUS
  <1> USE AttemptsPositive DEF Init
  <1>1. TypeOK
    BY DEF TypeOK
  <1>2. Position /\ CopyState
    BY DEF Position, CopyState
  <1>3. RetryJustified
    BY DEF RetryJustified
  <1>4. OutcomeIsLastResult
    BY DEF OutcomeIsLastResult
  <1>5. QED
    BY <1>1, <1>2, <1>3, <1>4 DEF IInv

(* Each action keeps the invariant.                                        *)
LEMMA StartStep ==
  ASSUME IInv, NEW r \in Requests, Start(r)
  PROVE  IInv'
  <1> USE AttemptsPositive DEF IInv, Start
  <1>1. TypeOK'
    <2>1. outcome' \in [Requests -> Outcomes \cup {"none"}]
      BY DEF TypeOK, Outcomes
    <2>2. attempt' \in [Requests -> 0..Attempts]
      <3>1. 1 \in 0..Attempts
        BY AttemptsPositive
      <3>2. attempt' = [attempt EXCEPT ![r] = 1] \/ attempt' = attempt
        OBVIOUS
      <3>3. QED
        BY <3>1, <3>2 DEF TypeOK
    <2>3. pc' \in [Requests -> {"idle", "posting", "backoff", "done"}]
      BY DEF TypeOK
    <2>4. QED
      BY <2>1, <2>2, <2>3 DEF TypeOK
  <1>2. Position'
    BY DEF TypeOK, Position
  <1>3. CopyState'
    BY DEF TypeOK, CopyState
  <1>4. RetryJustified'
    BY DEF TypeOK, RetryJustified, Position
  <1>5. OutcomeIsLastResult'
    <2>1. attempt[r] = 0
      BY DEF Position
    <2>2. pc'[r] = "done" => attempt'[r] = 0
      <3>1. \/ pc' = [pc EXCEPT ![r] = "posting"]
            \/ attempt' = attempt
        OBVIOUS
      <3>2. QED
        BY <2>1, <3>1 DEF TypeOK
    <2>3. ASSUME NEW q \in Requests, q # r
          PROVE  /\ pc'[q] = pc[q] /\ attempt'[q] = attempt[q]
                 /\ outcome'[q] = outcome[q] /\ result'[q] = result[q]
      BY <2>3 DEF TypeOK
    <2>4. SUFFICES ASSUME NEW q \in Requests, pc'[q] = "done", attempt'[q] > 0
                   PROVE  /\ result'[q][attempt'[q]] # "none"
                          /\ outcome'[q] = Verdict(result'[q][attempt'[q]])
      BY DEF OutcomeIsLastResult, Verdict
    <2>5. q # r
      BY <2>2, <2>4
    <2>6. QED
      BY <2>3, <2>4, <2>5 DEF OutcomeIsLastResult
  <1>6. QED
    BY <1>1, <1>2, <1>3, <1>4, <1>5

(* The upstream takes a copy it was not sent before.                       *)
LEMMA AcceptStep ==
  ASSUME IInv, NEW r \in Requests, Accept(r)
  PROVE  IInv'
  <1> USE AttemptsPositive DEF IInv, Accept
  <1>1. TypeOK'
    BY DEF TypeOK, Position
  <1>2. Position'
    BY DEF TypeOK, Position
  <1>3. CopyState'
    BY DEF TypeOK, CopyState, Position
  <1>4. RetryJustified'
    BY DEF TypeOK, RetryJustified, Position
  <1>5. OutcomeIsLastResult'
    BY DEF TypeOK, OutcomeIsLastResult, Position
  <1>6. QED
    BY <1>1, <1>2, <1>3, <1>4, <1>5

(* A status ends the attempt: it is recorded and decides.                  *)
LEMMA RespondStep ==
  ASSUME IInv, NEW r \in Requests, NEW s \in Statuses, Respond(r, s)
  PROVE  IInv'
  <1> USE AttemptsPositive DEF IInv, Respond
  <1>1. TypeOK'
    BY DEF TypeOK, Position, Results, Outcomes
  <1>2. Position'
    BY DEF TypeOK, Position
  <1>3. CopyState'
    BY DEF TypeOK, CopyState, Position
  <1>4. RetryJustified'
    BY DEF TypeOK, RetryJustified, Position
  <1>5. OutcomeIsLastResult'
    BY ProxyCallAssumption DEF TypeOK, OutcomeIsLastResult, Position, Verdict
  <1>6. QED
    BY <1>1, <1>2, <1>3, <1>4, <1>5

(* A failed connection ends the attempt and leaves no copy behind.         *)
LEMMA ConnectFailsStep ==
  ASSUME IInv, NEW r \in Requests, ConnectFails(r)
  PROVE  IInv'
  <1> USE AttemptsPositive DEF IInv, ConnectFails, Fail
  <1>1. TypeOK'
    BY DEF TypeOK, Position, Results, Caught, Outcomes
  <1>2. Position'
    BY DEF TypeOK, Position, Caught
  <1>3. CopyState'
    BY DEF TypeOK, CopyState, Position
  <1>4. RetryJustified'
    BY DEF TypeOK, RetryJustified, Position
  <1>5. OutcomeIsLastResult'
    BY ProxyCallAssumption
    DEF TypeOK, OutcomeIsLastResult, Position, Verdict, Caught
  <1>6. QED
    BY <1>1, <1>2, <1>3, <1>4, <1>5

(* A read timeout gives the copy up and records that it did.               *)
LEMMA ReadTimesOutStep ==
  ASSUME IInv, NEW r \in Requests, ReadTimesOut(r)
  PROVE  IInv'
  <1> USE AttemptsPositive DEF IInv, ReadTimesOut, Fail
  <1>1. TypeOK'
    BY DEF TypeOK, Position, Results, Caught, Outcomes
  <1>2. Position'
    BY DEF TypeOK, Position, Caught
  <1>3. CopyState'
    BY DEF TypeOK, CopyState, Position
  <1>4. RetryJustified'
    BY DEF TypeOK, RetryJustified, Position
  <1>5. OutcomeIsLastResult'
    BY ProxyCallAssumption
    DEF TypeOK, OutcomeIsLastResult, Position, Verdict, Caught
  <1>6. QED
    BY <1>1, <1>2, <1>3, <1>4, <1>5

(* An exception no clause catches is recorded with the answer it makes.    *)
LEMMA EscapeStep ==
  ASSUME IInv, NEW r \in Requests, NEW e \in Escaping, Escape(r, e)
  PROVE  IInv'
  <1> USE AttemptsPositive DEF IInv, Escape
  <1>1. TypeOK'
    BY DEF TypeOK, Position, Results, Outcomes
  <1>2. Position'
    BY DEF TypeOK, Position
  <1>3. CopyState'
    BY DEF TypeOK, CopyState, Position
  <1>4. RetryJustified'
    BY DEF TypeOK, RetryJustified, Position
  <1>5. OutcomeIsLastResult'
    BY ProxyCallAssumption
    DEF TypeOK, OutcomeIsLastResult, Position, Verdict, Caught, Escaping
  <1>6. QED
    BY <1>1, <1>2, <1>3, <1>4, <1>5

(* The next attempt begins behind one whose result justifies it.           *)
LEMMA NextAttemptStep ==
  ASSUME IInv, NEW r \in Requests, NextAttempt(r)
  PROVE  IInv'
  <1> USE AttemptsPositive DEF IInv, NextAttempt
  <1>1. TypeOK'
    BY DEF TypeOK, Position
  <1>2. Position'
    BY DEF TypeOK, Position
  <1>3. CopyState'
    BY DEF TypeOK, CopyState
  <1>4. RetryJustified'
    BY DEF TypeOK, RetryJustified, Position
  <1>5. OutcomeIsLastResult'
    BY DEF TypeOK, OutcomeIsLastResult
  <1>6. QED
    BY <1>1, <1>2, <1>3, <1>4, <1>5

(* A copy nobody waits for ends without a trace on the gateway.            *)
LEMMA FinishAbandonedStep ==
  ASSUME IInv, NEW r \in Requests, NEW a \in 1..Attempts, FinishAbandoned(r, a)
  PROVE  IInv'
  <1> USE AttemptsPositive DEF IInv, FinishAbandoned
  <1>1. TypeOK'
    BY DEF TypeOK
  <1>2. Position'
    BY DEF TypeOK, Position
  <1>3. CopyState'
    BY DEF TypeOK, CopyState
  <1>4. RetryJustified'
    <2>1. copy[r][a] # "unsent"
      OBVIOUS
    <2>2. QED
      BY <2>1 DEF TypeOK, RetryJustified
  <1>5. OutcomeIsLastResult'
    BY DEF TypeOK, OutcomeIsLastResult
  <1>6. QED
    BY <1>1, <1>2, <1>3, <1>4, <1>5

(* A step that changes nothing.                                            *)
LEMMA StutterStep ==
  ASSUME IInv, UNCHANGED vars
  PROVE  IInv'
  BY DEF IInv, vars, TypeOK, Position, CopyState, RetryJustified, OutcomeIsLastResult

(* So every step keeps the invariant ...                                   *)
LEMMA NextIInv == IInv /\ [Next]_vars => IInv'
  <1> SUFFICES ASSUME IInv, [Next]_vars PROVE IInv'
    OBVIOUS
  <1>1. CASE \E r \in Requests : Start(r)
    BY <1>1, StartStep
  <1>2. CASE \E r \in Requests : Accept(r)
    BY <1>2, AcceptStep
  <1>3. CASE \E r \in Requests : EndAttempt(r)
    BY <1>3, RespondStep, ConnectFailsStep, ReadTimesOutStep, EscapeStep DEF EndAttempt
  <1>4. CASE \E r \in Requests : NextAttempt(r)
    BY <1>4, NextAttemptStep
  <1>5. CASE \E r \in Requests : \E a \in 1..Attempts : FinishAbandoned(r, a)
    BY <1>5, FinishAbandonedStep
  <1>6. CASE UNCHANGED vars
    BY <1>6, StutterStep
  <1>7. QED
    BY <1>1, <1>2, <1>3, <1>4, <1>5, <1>6 DEF Next

(* ... and it holds at every moment.                                       *)
LEMMA Inductive == Spec => []IInv
  BY InitIInv, NextIInv, PTL DEF Spec

-----------------------------------------------------------------------------

(* The variables of the retry loop keep their types.                       *)
THEOREM TypeCorrect == Spec => []TypeOK
  BY Inductive, PTL DEF IInv

(* The client is answered what the last attempt ended in.                  *)
THEOREM LastResultAnswered == Spec => []OutcomeIsLastResult
  BY Inductive, PTL DEF IInv

(* Every retry follows a failure the configuration says to retry, and no   *)
(* copy is sent beyond the configured number of attempts.                  *)
THEOREM RetriesJustified == Spec => []RetryJustified
  BY Inductive, PTL DEF IInv

(* Two copies are in the upstream's hands together only after a read       *)
(* timeout of the older one.                                               *)
THEOREM OverlapJustified == Spec => []OverlapOnlyAfterReadTimeout
  <1>1. IInv => OverlapOnlyAfterReadTimeout
    <2> SUFFICES ASSUME IInv,
                        NEW r \in Requests, NEW a \in 1..Attempts, NEW b \in 1..Attempts,
                        a < b, InFlight(r, a), InFlight(r, b)
                 PROVE  result[r][a] = "ReadTimeout"
      BY DEF OverlapOnlyAfterReadTimeout
    <2>1. attempt[r] \in Nat
      BY DEF IInv, TypeOK
    <2>2. b <= attempt[r]
      BY <2>1 DEF IInv, RetryJustified, InFlight
    <2>3. a # attempt[r]
      BY <2>1, <2>2
    <2>4. QED
      BY <2>3 DEF IInv, CopyState, InFlight
  <1>2. QED
    BY <1>1, Inductive, PTL

-----------------------------------------------------------------------------
(* What bounds the loop.                                                   *)

(* The result of an attempt is recorded once, when the attempt ends, and   *)
(* its copy is unsent or running until then.                               *)
OpenAttempt ==
  \A r \in Requests :
    pc[r] = "posting" =>
      CurrentCopy(r) \in {"unsent", "running"} /\ result[r][attempt[r]] = "none"

(* The steps the loop may still take for a request.                        *)
StepsLeft(r) ==
  CASE pc[r] = "idle"    -> 2 * Attempts + 1
    [] pc[r] = "posting" -> 2 * (Attempts - attempt[r]) + 2
    [] pc[r] = "backoff" -> 2 * (Attempts - attempt[r]) + 1
    [] OTHER             -> 0

(* An attempt that is waited for can end - a copy not yet taken by a failed*)
(* connection, a copy taken by a read timeout, if the upstream does nothing*)
(* else - and a loop that sleeps has an attempt left to wake up for.       *)
NeverStuck ==
  \A r \in Requests :
    /\ pc[r] = "posting" => CurrentCopy(r) \in {"unsent", "running"}
    /\ pc[r] = "backoff" => attempt[r] < Attempts
    /\ StepsLeft(r) \in Nat

(* The loop goes one way: whatever happens to other requests, and to copies*)
(* that were given up, a request's place changes only towards its answer.  *)
LoopAdvances ==
  \A r \in Requests : pc'[r] # pc[r] => StepsLeft(r)' < StepsLeft(r)

(* No attempt is open before the first.                                    *)
LEMMA InitOpenAttempt == Init => OpenAttempt
  BY DEF Init, OpenAttempt

(* An attempt is opened with a copy that was never sent, and the step that *)
(* records its result leaves it.                                           *)
LEMMA NextOpenAttempt == IInv /\ OpenAttempt /\ [Next]_vars => OpenAttempt'
  <1> SUFFICES ASSUME IInv, OpenAttempt, [Next]_vars PROVE OpenAttempt'
    OBVIOUS
  <1> USE AttemptsPositive DEF IInv, TypeOK, OpenAttempt
  <1>1. ASSUME NEW r \in Requests, Start(r) PROVE OpenAttempt'
    BY <1>1 DEF Start, Position, RetryJustified
  <1>2. ASSUME NEW r \in Requests, Accept(r) PROVE OpenAttempt'
    BY <1>2 DEF Accept, Position
  <1>3. ASSUME NEW r \in Requests, EndAttempt(r) PROVE OpenAttempt'
    <2>1. pc'[r] # "posting" /\ pc[r] = "posting"
      BY <1>3 DEF EndAttempt, Respond, ConnectFails, ReadTimesOut, Fail, Escape
    <2>2. ASSUME NEW q \in Requests, q # r
          PROVE  /\ pc'[q] = pc[q] /\ attempt'[q] = attempt[q]
                 /\ copy'[q] = copy[q] /\ result'[q] = result[q]
      BY <1>3, <2>2 DEF EndAttempt, Respond, ConnectFails, ReadTimesOut, Fail, Escape
    <2>3. QED
      BY <2>1, <2>2
  <1>4. ASSUME NEW r \in Requests, NextAttempt(r) PROVE OpenAttempt'
    BY <1>4 DEF NextAttempt, Position, RetryJustified
  <1>5. ASSUME NEW r \in Requests, NEW a \in 1..Attempts, FinishAbandoned(r, a)
        PROVE  OpenAttempt'
    BY <1>5 DEF FinishAbandoned, Position
  <1>6. CASE UNCHANGED vars
    BY <1>6 DEF vars
  <1>7. QED
    BY <1>1, <1>2, <1>3, <1>4, <1>5, <1>6 DEF Next

(* A step is one request's own, and takes it on or leaves it where it is.  *)
LEMMA Advances ==
  ASSUME IInv, NEW r \in Requests,
         \/ Start(r) \/ Accept(r) \/ EndAttempt(r) \/ NextAttempt(r)
         \/ \E a \in 1..Attempts : FinishAbandoned(r, a)
  PROVE  LoopAdvances
  <1> USE AttemptsPositive DEF IInv, TypeOK
  <1>1. ASSUME NEW q \in Requests, q # r PROVE pc'[q] = pc[q]
    BY <1>1 DEF Start, Accept, EndAttempt, Respond, ConnectFails, ReadTimesOut, Fail,
                Escape, NextAttempt, FinishAbandoned
  <1>2. pc'[r] # pc[r] => StepsLeft(r)' < StepsLeft(r)
    <2>1. CASE Start(r)
      BY <2>1 DEF Start, StepsLeft
    <2>2. CASE EndAttempt(r)
      <3>1. /\ pc[r] = "posting" /\ attempt[r] \in 1..Attempts
            /\ attempt'[r] = attempt[r] /\ pc'[r] \in {"backoff", "done"}
        BY <2>2 DEF EndAttempt, Respond, ConnectFails, ReadTimesOut, Fail, Escape, Position
      <3>2. QED
        BY <3>1 DEF StepsLeft
    <2>3. CASE NextAttempt(r)
      BY <2>3 DEF NextAttempt, StepsLeft, Position
    <2>4. CASE Accept(r) \/ \E a \in 1..Attempts : FinishAbandoned(r, a)
      BY <2>4 DEF Accept, FinishAbandoned
    <2>5. QED
      BY <2>1, <2>2, <2>3, <2>4
  <1>3. QED
    BY <1>1, <1>2 DEF LoopAdvances

(* What bounds the retries, for every number of attempts and every upstream*)
(* there may be: an open request can always go on, and has only so many    *)
(* steps to take.  Under the fairness of FairSpec that is an answer.       *)
THEOREM RetriesRunOut == Spec => []NeverStuck /\ [][LoopAdvances]_vars
  <1>1. IInv /\ OpenAttempt => NeverStuck
    <2> SUFFICES ASSUME IInv, OpenAttempt, NEW r \in Requests
                 PROVE  /\ pc[r] = "posting" => CurrentCopy(r) \in {"unsent", "running"}
                        /\ pc[r] = "backoff" => attempt[r] < Attempts
                        /\ StepsLeft(r) \in Nat
      BY DEF NeverStuck
    <2>1. /\ pc[r] = "posting" => attempt[r] \in 1..Attempts
          /\ pc[r] = "backoff" => attempt[r] \in 1..Attempts /\ attempt[r] < Attempts
      BY DEF IInv, Position
    <2>2. StepsLeft(r) \in Nat
      BY <2>1, AttemptsPositive DEF StepsLeft
    <2>3. QED
      BY <2>1, <2>2 DEF OpenAttempt
  <1>2. IInv /\ [Next]_vars => [LoopAdvances]_vars
    <2> SUFFICES ASSUME IInv, Next PROVE LoopAdvances
      OBVIOUS
    <2>1. QED
      BY Advances DEF Next
  <1>3. Spec => []OpenAttempt
    BY InitOpenAttempt, NextOpenAttempt, Inductive, PTL DEF Spec
  <1>4. QED
    BY <1>1, <1>2, <1>3, Inductive, PTL DEF Spec

============================================================================
