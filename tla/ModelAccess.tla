----------------------------- MODULE ModelAccess -----------------------------
(***************************************************************************)
(* How a task reaches the model: WorkerExecutor::execute_with_retry()       *)
(* (worker_executor.cpp) with its RetryPolicy and its CircuitBreaker, around *)
(* ApiClient::complete() (api_client.cpp) with its own retries.  Several    *)
(* threads use one executor, so that they share its breaker.                *)
(*                                                                          *)
(* Sleeps are steps of no duration; the breaker's clock is the flag cooled, *)
(* raised at any time while it is open.                                     *)
(***************************************************************************)
EXTENDS Naturals

CONSTANTS Threads,
          ExecRetries,        \* max_retries of execute_with_retry()
          ApiRetries,         \* ApiConfig::max_retries
          FailureThreshold,   \* CircuitBreaker::Config
          SuccessThreshold

ASSUME ModelAccessAssumption ==
    /\ ExecRetries \in Nat /\ ApiRetries \in Nat
    /\ FailureThreshold \in Nat \ {0} /\ SuccessThreshold \in Nat \ {0}

VARIABLES
    breaker,     \* state_
    failures,    \* consecutive_failures_
    successes,   \* consecutive_successes_
    cooled,      \* config_.timeout has passed since open_time_
    xpc,          \* [Threads -> where its call is]
    attempt,     \* [Threads -> attempt of execute_with_retry()]
    post,        \* [Threads -> attempt of post_with_retry()]
    error,       \* [Threads -> how RetryPolicy reads the exception]
    steady       \* history: successes recorded since the last failure

breakerVars == <<breaker, failures, successes, cooled, steady>>
executorVars == <<xpc, attempt, post, error>>
maVars == <<breakerVars, executorVars>>

PCs == {"idle", "admit", "tool", "post", "extract", "failed"}
ErrorTypes == {"Transient", "Permanent", "Unknown"}

MaInit ==
    /\ breaker = "Closed" /\ failures = 0 /\ successes = 0 /\ cooled = FALSE /\ steady = 0
    /\ xpc = [t \in Threads |-> "idle"]
    /\ attempt = [t \in Threads |-> 0] /\ post = [t \in Threads |-> 0]
    /\ error = [t \in Threads |-> "Unknown"]

Goto(t, l) == xpc' = [xpc EXCEPT ![t] = l]

\* execute_with_retry() returns; its locals are gone.
Return(t) ==
    /\ Goto(t, "idle")
    /\ attempt' = [attempt EXCEPT ![t] = 0]
    /\ post' = [post EXCEPT ![t] = 0]
    /\ error' = [error EXCEPT ![t] = "Unknown"]

-----------------------------------------------------------------------------
(* The circuit breaker; each operation holds its mutex throughout.          *)

TimeoutPasses ==
    /\ breaker = "Open" /\ ~cooled /\ cooled' = TRUE
    /\ UNCHANGED <<breaker, failures, successes, steady, executorVars>>

Allowed == breaker = "Open" => cooled

\* transition_to_half_open() when the timeout has passed.
AllowRequest ==
    /\ breaker' = IF breaker = "Open" THEN "HalfOpen" ELSE breaker
    /\ successes' = IF breaker = "Open" THEN 0 ELSE successes
    /\ UNCHANGED <<failures, cooled, steady>>

\* Fault: one probe closes the breaker.
RecordSuccessOfProbe ==
    /\ steady' = IF steady < SuccessThreshold THEN steady + 1 ELSE steady
    /\ failures' = 0
    /\ breaker' = IF breaker = "HalfOpen" THEN "Closed" ELSE breaker
    /\ successes' = 0
    /\ UNCHANGED cooled

RecordSuccess ==
    /\ steady' = IF steady < SuccessThreshold THEN steady + 1 ELSE steady
    /\ failures' = 0
    /\ IF breaker = "HalfOpen"
       THEN IF successes + 1 >= SuccessThreshold
            THEN breaker' = "Closed" /\ successes' = 0
            ELSE successes' = successes + 1 /\ UNCHANGED breaker
       ELSE UNCHANGED <<breaker, successes>>
    /\ UNCHANGED cooled

\* Fault: the threshold is compared before the failure is counted.
RecordFailureLate ==
    /\ steady' = 0 /\ successes' = 0
    /\ IF breaker = "HalfOpen" \/ (breaker = "Closed" /\ failures >= FailureThreshold)
       THEN breaker' = "Open" /\ failures' = 0 /\ cooled' = FALSE
       ELSE failures' = failures + 1 /\ UNCHANGED <<breaker, cooled>>

\* A failure of a request admitted earlier is counted in the open breaker
\* too, where no threshold is compared.
RecordFailure ==
    /\ steady' = 0 /\ successes' = 0
    /\ IF breaker = "HalfOpen" \/ (breaker = "Closed" /\ failures + 1 >= FailureThreshold)
       THEN breaker' = "Open" /\ failures' = 0 /\ cooled' = FALSE
       ELSE failures' = failures + 1 /\ UNCHANGED <<breaker, cooled>>

-----------------------------------------------------------------------------
(* execute_with_retry().                                                    *)

Call(t) ==
    /\ xpc[t] = "idle" /\ Goto(t, "admit")
    /\ UNCHANGED <<breakerVars, attempt, post, error>>

Admit(t) ==
    /\ xpc[t] = "admit" /\ attempt[t] <= ExecRetries
    /\ Allowed /\ AllowRequest
    /\ Goto(t, "tool")
    /\ UNCHANGED <<attempt, post, error>>

\* "Circuit breaker open", or "Max retries exceeded" after the last attempt.
Refuse(t) ==
    /\ xpc[t] = "admit" /\ (attempt[t] <= ExecRetries => ~Allowed)
    /\ Return(t) /\ UNCHANGED breakerVars

\* An exception leaves the try block; its text says what type it has.
Throw(t, types) ==
    /\ Goto(t, "failed")
    /\ post' = [post EXCEPT ![t] = 0]
    /\ \E y \in types : error' = [error EXCEPT ![t] = y]

\* The tool is invoked again for every attempt, whatever failed before.
CallTool(t) ==
    /\ xpc[t] = "tool"
    /\ \/ Throw(t, ErrorTypes)
       \/ Goto(t, "post") /\ UNCHANGED <<post, error>>
    /\ UNCHANGED <<breakerVars, attempt>>

\* RetryPolicy::should_retry(), which is not given the HTTP status.
MayRetry(n, type) ==
    n < 5 /\ (type = "Transient" \/ (type = "Unknown" /\ n < 3))

Handle(t) ==
    /\ xpc[t] = "failed"
    /\ RecordFailure
    /\ IF MayRetry(attempt[t], error[t])
       THEN /\ Goto(t, "admit")
            /\ attempt' = [attempt EXCEPT ![t] = @ + 1]
            /\ error' = [error EXCEPT ![t] = "Unknown"]
            /\ UNCHANGED post
       ELSE Return(t)

-----------------------------------------------------------------------------
(* ApiClient: post_with_retry() and extract_text().                         *)

Send(t) ==
    /\ xpc[t] = "post" /\ post[t] <= ApiRetries

LastPost(t) == post[t] = ApiRetries

Responded(t) ==
    /\ Send(t) /\ Goto(t, "extract")
    /\ post' = [post EXCEPT ![t] = 0]
    /\ UNCHANGED <<breakerVars, attempt, error>>

\* 429: `continue` takes the increment of the loop.
RateLimited(t) ==
    /\ Send(t)
    /\ post' = [post EXCEPT ![t] = @ + 1]
    /\ UNCHANGED <<breakerVars, xpc, attempt, error>>

\* 5xx and 3xx are Unknown by their text, an exception of the network is
\* Transient.
Unavailable(t) ==
    /\ Send(t)
    /\ IF LastPost(t)
       THEN Throw(t, {"Unknown", "Transient"})
       ELSE post' = [post EXCEPT ![t] = @ + 1] /\ UNCHANGED <<xpc, error>>
    /\ UNCHANGED <<breakerVars, attempt>>

\* 4xx, and the status 0 of an answer that was cut off: the text of the body
\* decides the type.
ClientError(t) ==
    /\ Send(t) /\ Throw(t, ErrorTypes)
    /\ UNCHANGED <<breakerVars, attempt>>

\* "exhausted retries": the last answer was a 429.
Exhausted(t) ==
    /\ xpc[t] = "post" /\ post[t] > ApiRetries
    /\ Throw(t, {"Unknown"})
    /\ UNCHANGED <<breakerVars, attempt>>

\* An error object or a format it does not know is an exception.
ExtractText(t) ==
    /\ xpc[t] = "extract"
    /\ \/ RecordSuccess /\ Return(t)
       \/ Throw(t, ErrorTypes) /\ UNCHANGED <<breakerVars, attempt>>

-----------------------------------------------------------------------------
MaStep(t) ==
    \/ Admit(t) \/ Refuse(t) \/ CallTool(t) \/ Handle(t) \/ Responded(t) \/ RateLimited(t)
    \/ Unavailable(t) \/ ClientError(t) \/ Exhausted(t) \/ ExtractText(t)

MaNext == TimeoutPasses \/ \E t \in Threads : Call(t) \/ MaStep(t)

MaSpec == MaInit /\ [][MaNext]_maVars

-----------------------------------------------------------------------------
(* Properties.                                                              *)

\* However the failures of several threads interleave, stale ones among them,
\* the breaker is open as soon as FailureThreshold of them follow each other:
\* the closed breaker never holds that many.  The half-open one never holds
\* as many successes as would have closed it, and every success it holds was
\* recorded after the last failure.
BreakerOnTime ==
    /\ breaker = "Closed" => failures < FailureThreshold
    /\ breaker = "HalfOpen" => successes < SuccessThreshold
    /\ successes <= steady

\* The breaker closes only on evidence: SuccessThreshold successes in a row
\* with no failure of any thread among them.
ClosesOnEvidence ==
    [][breaker = "HalfOpen" /\ breaker' = "Closed" => steady' = SuccessThreshold]_maVars

=============================================================================
