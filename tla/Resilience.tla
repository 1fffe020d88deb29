------------------------------ MODULE Resilience ------------------------------
(***************************************************************************)
(* The protection of an external dependency: resilience_strategy.py (rate  *)
(* limit, circuit breaker, degradation), retry_strategy.py and             *)
(* timeout_strategy.py of the ticket agent.  They are pure: each function  *)
(* takes a snapshot and returns a decision or the next snapshot.  Here     *)
(* several callers of one operation keep the snapshot between them, ask    *)
(* before each attempt, record each result, and retry as they are told.    *)
(***************************************************************************)
EXTENDS Naturals, FiniteSets, FiniteSetsExt

CONSTANTS
    Callers,
    Protected,          \* the operations a behaviour may be about
    Failures,           \* what the dependency may answer with
    LlmRetries,         \* settings.llm_max_retries
    InitialDelay,       \* RetryBackoff, in ticks
    MaxDelay,
    MaxInWindow,        \* max_requests
    Window,             \* window_seconds and rolling_window_seconds, in ticks
    FailureCount,       \* failure_count_threshold; the rate threshold is 1/2
    MinimumRequests,    \* minimum_request_count
    OpenTicks,          \* open_seconds
    MaxProbes,          \* half_open_max_probes
    SuccessThreshold,   \* half_open_success_threshold
    MaxCalls,           \* bound on the calls of a behaviour
    MaxLost             \* bound on the calls whose result nobody records

ASSUME PolicyAssumption ==
    /\ {LlmRetries, MaxLost, MaxCalls} \subseteq Nat
    /\ {InitialDelay, MaxInWindow, Window, FailureCount, MinimumRequests,
        OpenTicks, MaxProbes, SuccessThreshold} \subseteq Nat \ {0}
    /\ MaxDelay >= InitialDelay

-----------------------------------------------------------------------------
(* Retry                                                                   *)

Transient == {"connection_error", "timeout", "rate_limited", "server_error"}
Categories == Transient \cup
    {"conflict", "client_error", "validation_error", "auth_error",
     "permission_error", "not_found", "business_rule", "unknown"}

LlmOperations == {"llm.intent_classification", "llm.field_extraction"}
Operations == LlmOperations \cup
    {"embedding.create", "java.query_order", "java.create_ticket",
     "qdrant.vector_search", "milvus.vector_search", "rag.generate_answer"}

\* build_ticket_agent_retry_policies; retry_all_server_errors is on throughout.
RetryPolicies == [op \in Operations |->
    IF op \in LlmOperations
    THEN [retries |-> LlmRetries, on |-> Transient \cup {"conflict"},
          codes |-> {408, 409, 429, 500, 502, 503, 504}, needsKey |-> FALSE]
    ELSE [retries |-> 1, on |-> Transient,
          codes |-> {408, 429, 500, 502, 503, 504}, needsKey |-> op = "java.create_ticket"]]

CategoryOfStatus(status) ==
    CASE status = 408          -> "timeout"
      [] status = 409          -> "conflict"
      [] status = 429          -> "rate_limited"
      [] status \in 500..599   -> "server_error"
      [] status \in {400, 422} -> "validation_error"
      [] status = 401          -> "auth_error"
      [] status = 403          -> "permission_error"
      [] status = 404          -> "not_found"
      [] status \in (402..499) \ {403, 404, 408, 409, 422, 429} -> "client_error"
      [] status \in 100..399   -> "unknown"

\* What failed: an HTTP status with the Retry-After header it came with, or an
\* error code or exception, whose category its name gives (status 0).
Failure(status, exception, retryAfter) ==
    [category |-> IF status # 0 THEN CategoryOfStatus(status) ELSE exception,
     status |-> status, after |-> retryAfter]

StatusRetryable(policy, status) ==
    \/ status \in policy.codes
    \/ status \in 500..599 /\ "server_error" \in policy.on

\* delay_for_retry, without the jitter; ticks of any length.
DelayFor(retry) == Min({InitialDelay * 2^(retry - 1), MaxDelay})

\* Mutant: a write is repeated without an idempotency key.
DecideRetry_AnyWrite(op, attempt, failure, keyed) ==
    LET policy == RetryPolicies[op] IN
    [again |-> /\ policy.retries # 0
               /\ failure.category \in policy.on
               /\ failure.status # 0 => StatusRetryable(policy, failure.status)
               /\ attempt < policy.retries + 1,
     delay |-> DelayFor(attempt)]

\* A Retry-After is respected up to max_delay_seconds.
DecideRetry(op, attempt, failure, keyed) ==
    LET policy == RetryPolicies[op] IN
    [again |-> /\ policy.retries # 0
               /\ failure.category \in policy.on
               /\ failure.status # 0 => StatusRetryable(policy, failure.status)
               /\ policy.needsKey => keyed
               /\ attempt < policy.retries + 1,
     delay |-> IF failure.after # 0 /\ failure.category = "rate_limited"
               THEN Min({failure.after, MaxDelay})
               ELSE DelayFor(attempt)]

-----------------------------------------------------------------------------
(* Timeouts: what a caller is told when an attempt runs out of time.       *)

TimeoutPolicies == [op \in Operations |->
    [retries |-> IF op \in LlmOperations THEN LlmRetries ELSE 1,
     needsKey |-> op = "java.create_ticket"]]

TimeoutRetryAllowed(op, keyed) ==
    /\ TimeoutPolicies[op].retries > 0
    /\ TimeoutPolicies[op].needsKey => keyed

-----------------------------------------------------------------------------
(* Rate limit, circuit breaker, degradation                                *)

Snapshot(state, requests, failures, successes) ==
    [state |-> state, requests |-> requests, failures |-> failures,
     successes |-> successes, elapsed |-> 0, probes |-> 0]

WithinLimit(inWindow) == inWindow < MaxInWindow

ShouldOpen(s) ==
    /\ s.requests >= MinimumRequests
    /\ s.failures >= FailureCount
    /\ 2 * s.failures >= s.requests

\* Mutant: every caller may probe.
DecideCircuit_EveryProbe(s) ==
    CASE s.state = "closed" ->
           [allow |-> ~ShouldOpen(s), next |-> IF ShouldOpen(s) THEN "open" ELSE "closed",
            probe |-> FALSE]
      [] s.state = "open" ->
           LET over == s.elapsed >= OpenTicks IN
           [allow |-> over, next |-> IF over THEN "half_open" ELSE "open", probe |-> over]
      [] s.state = "half_open" -> [allow |-> TRUE, next |-> "half_open", probe |-> TRUE]

DecideCircuit(s) ==
    CASE s.state = "closed" ->
           [allow |-> ~ShouldOpen(s), next |-> IF ShouldOpen(s) THEN "open" ELSE "closed",
            probe |-> FALSE]
      [] s.state = "open" ->
           LET over == s.elapsed >= OpenTicks IN
           [allow |-> over, next |-> IF over THEN "half_open" ELSE "open", probe |-> over]
      [] s.state = "half_open" ->
           LET free == s.probes < MaxProbes IN
           [allow |-> free, next |-> "half_open", probe |-> free]

\* Mutant: a successful probe is still counted as in flight.
RecordResult_KeepsProbes(s, ok) ==
    CASE s.state = "closed" ->
           LET next == Snapshot("closed", s.requests + 1,
                                s.failures + (IF ok THEN 0 ELSE 1), 0)
           IN  IF ~ok /\ ShouldOpen(next) THEN Snapshot("open", 0, 0, 0) ELSE next
      [] s.state # "closed" /\ ok ->
           IF s.successes + 1 >= SuccessThreshold THEN Snapshot("closed", 0, 0, 0)
           ELSE [s EXCEPT !.state = "half_open", !.successes = @ + 1]
      [] s.state # "closed" /\ ~ok -> Snapshot("open", 0, 0, 0)

RecordResult(s, ok) ==
    CASE s.state = "closed" ->
           LET next == Snapshot("closed", s.requests + 1,
                                s.failures + (IF ok THEN 0 ELSE 1),
                                IF ok THEN s.successes + 1 ELSE 0)
           IN  IF ~ok /\ ShouldOpen(next) THEN Snapshot("open", 0, 0, 0) ELSE next
      [] s.state = "half_open" /\ ok ->
           IF s.successes + 1 >= SuccessThreshold THEN Snapshot("closed", 0, 0, 0)
           ELSE Snapshot("half_open", 0, 0, s.successes + 1)
      [] s.state = "open" /\ ok -> Snapshot("half_open", 0, 0, 1)
      [] s.state # "closed" /\ ~ok -> Snapshot("open", 0, 0, 0)

DegradationOf ==
    [op \in Operations |->
       CASE op \in LlmOperations \cup {"rag.generate_answer"}       -> "return_safe_fallback"
         [] op \in {"embedding.create", "java.query_order"}         -> "retry_later"
         [] op = "java.create_ticket"                               -> "require_manual_review"
         [] op \in {"qdrant.vector_search", "milvus.vector_search"} ->
              "use_cache_or_return_no_context"]

\* build_degradation_plan for a call that is not let through.
Plan(op, cached) ==
    IF DegradationOf[op] = "use_cache_or_return_no_context" /\ ~cached
    THEN "return_no_context" ELSE DegradationOf[op]

\* evaluate_dependency_protection: the rate limit is asked first, and a call it
\* refuses leaves the breaker alone.
Protection(s, inWindow) ==
    IF ~WithinLimit(inWindow) THEN [allow |-> FALSE, next |-> s.state, probe |-> FALSE]
    ELSE DecideCircuit(s)

-----------------------------------------------------------------------------
(* Callers that share the snapshot                                         *)

ASSUME ProtectedAssumption == Protected \subseteq Operations

VARIABLES
    operation,  \* the operation this behaviour is about
    circuit,    \* CircuitBreakerSnapshot
    inWindow,   \* RateLimitUsage: requests and time left in the window
    left,
    call,       \* caller -> its call
    wait,       \* caller -> ticks before its next attempt
    carriedOut, \* caller -> how often the dependency did what the call asks for
    late,       \* history: since the breaker opened or closed, the result of a
                \* call let through before that was recorded
    calls,      \* calls made
    lost        \* calls whose result was not recorded

vars == <<operation, circuit, inWindow, left, call, wait, carriedOut, late, calls, lost>>

NoCall == [pc |-> "idle", keyed |-> FALSE, attempt |-> 1, before |-> FALSE,
           answer |-> "none"]

Init ==
    /\ operation \in Protected
    /\ circuit = Snapshot("closed", 0, 0, 0)
    /\ inWindow = 0
    /\ left = Window
    /\ call = [c \in Callers |-> NoCall]
    /\ wait = [c \in Callers |-> 0]
    /\ carriedOut = [c \in Callers |-> 0]
    /\ late = FALSE
    /\ calls = 0
    /\ lost = 0

Begin(c) ==
    /\ call[c].pc = "idle"
    /\ calls < MaxCalls
    /\ calls' = calls + 1
    /\ \E keyed \in BOOLEAN :
          call' = [call EXCEPT ![c] = [NoCall EXCEPT !.pc = "ask", !.keyed = keyed]]
    /\ carriedOut' = [carriedOut EXCEPT ![c] = 0]
    /\ UNCHANGED <<operation, circuit, inWindow, left, wait, late, lost>>

\* The breaker moves to another state: what is out was let through before.
Moved(calling) == [c \in Callers |-> [calling[c] EXCEPT !.before = @ \/ calling[c].pc = "out"]]

Refused(c) ==
    LET d == Protection(circuit, inWindow) IN
    /\ call[c].pc = "ask" /\ wait[c] = 0
    /\ ~d.allow
    /\ circuit' = IF d.next = circuit.state THEN circuit ELSE Snapshot(d.next, 0, 0, 0)
    /\ late' = (late /\ d.next = circuit.state)
    /\ \E cached \in BOOLEAN :
          LET told == [NoCall EXCEPT !.answer = Plan(operation, cached)]
              calling == [call EXCEPT ![c] = told]
          IN  call' = IF d.next = circuit.state THEN calling ELSE Moved(calling)
    /\ UNCHANGED <<operation, inWindow, left, wait, carriedOut, calls, lost>>

Admitted(c) ==
    LET d == Protection(circuit, inWindow) IN
    /\ call[c].pc = "ask" /\ wait[c] = 0
    /\ d.allow
    /\ circuit' = [circuit EXCEPT !.state = d.next,
                                  !.probes = IF d.probe THEN @ + 1 ELSE @]
    /\ inWindow' = inWindow + 1
    /\ call' = [call EXCEPT ![c].pc = "out", ![c].before = FALSE]
    /\ UNCHANGED <<operation, left, wait, carriedOut, late, calls, lost>>

\* The dependency does what it is asked, once per idempotency key.
Executed(c) ==
    carriedOut' = [carriedOut EXCEPT ![c] = IF call[c].keyed THEN 1 ELSE @ + 1]

\* The result is recorded; RecordResult says what becomes of the breaker.
Recorded(c, ok, next) ==
    LET s == RecordResult(circuit, ok)
        moved == s.state \in {"open", "closed"} /\ s.state # circuit.state
    IN  /\ circuit' = s
        /\ late' = IF moved THEN FALSE ELSE late \/ call[c].before
        /\ call' = IF moved THEN Moved([call EXCEPT ![c] = next])
                   ELSE [call EXCEPT ![c] = next]

Succeeds(c) ==
    /\ call[c].pc = "out"
    /\ Executed(c)
    /\ Recorded(c, TRUE, [NoCall EXCEPT !.answer = "result"])
    /\ UNCHANGED <<operation, inWindow, left, wait, calls, lost>>

\* A failure may hide that the dependency did what it was asked.
Fails(c) ==
    /\ call[c].pc = "out"
    /\ \E f \in Failures :
          /\ \/ UNCHANGED carriedOut
             \/ f.category \in {"timeout", "connection_error", "server_error"} /\ Executed(c)
          /\ LET d == DecideRetry(operation, call[c].attempt, f, call[c].keyed)
             IN  /\ wait' = [wait EXCEPT ![c] = IF d.again THEN d.delay ELSE 0]
                 /\ Recorded(c, FALSE,
                      IF d.again
                      THEN [call[c] EXCEPT !.pc = "ask", !.attempt = @ + 1, !.before = FALSE]
                      ELSE [NoCall EXCEPT !.answer = "failed"])
    /\ UNCHANGED <<operation, inWindow, left, calls, lost>>

\* A caller dies with its call: the snapshot never hears of the result.
Lost(c) ==
    /\ call[c].pc = "out"
    /\ lost < MaxLost
    /\ lost' = lost + 1
    /\ call' = [call EXCEPT ![c] = NoCall]
    /\ UNCHANGED <<operation, circuit, inWindow, left, wait, carriedOut, late, calls>>

\* The callers' clock: a window ends every Window ticks, and the counters of a
\* closed breaker with it.
Tick ==
    LET over == left = 1 IN
    /\ left' = IF over THEN Window ELSE left - 1
    /\ inWindow' = IF over THEN 0 ELSE inWindow
    /\ circuit' = CASE circuit.state = "open" ->
                         [circuit EXCEPT !.elapsed = Min({@ + 1, OpenTicks})]
                    [] circuit.state = "closed" /\ over -> Snapshot("closed", 0, 0, 0)
                    [] OTHER -> circuit
    /\ wait' = [c \in Callers |-> IF wait[c] > 0 THEN wait[c] - 1 ELSE 0]
    /\ UNCHANGED <<operation, call, carriedOut, late, calls, lost>>

Answered(c) == Succeeds(c) \/ Fails(c)

Next ==
    \/ \E c \in Callers : Begin(c) \/ Refused(c) \/ Admitted(c) \/ Answered(c) \/ Lost(c)
    \/ Tick

\* Time passes, and a call that is out is answered or times out.
Fairness == WF_vars(Tick) /\ \A c \in Callers : WF_vars(Answered(c))

Spec == Init /\ [][Next]_vars /\ Fairness

-----------------------------------------------------------------------------
(***************************************************************************)
(* A write whose answer was lost is repeated only with an idempotency key: *)
(* whatever fails and however often the call is retried, the ticket of one *)
(* call is created once (requires_idempotency_key of java.create_ticket).  *)
(***************************************************************************)
WrittenAtMostOnce ==
    operation = "java.create_ticket" => \A c \in Callers : carriedOut[c] <= 1

(***************************************************************************)
(* A dependency that is being probed is spared: of the calls let through   *)
(* since the breaker opened at most half_open_max_probes are out at once,  *)
(* unless a straggler of before was recorded in between, which the         *)
(* snapshot cannot tell from a probe (decide_circuit_breaker,              *)
(* record_circuit_breaker_result).                                         *)
(***************************************************************************)
ProbesAreFew ==
    circuit.state \in {"open", "half_open"} /\ ~late
      => Cardinality({c \in Callers : call[c].pc = "out" /\ ~call[c].before}) <= MaxProbes

(***************************************************************************)
(* No sequence of results shuts a dependency off for good: again and again *)
(* the next caller would be let through, unless the result of a call was   *)
(* lost, since a half-open breaker has no timeout on its probes.           *)
(***************************************************************************)
NeverShutForGood == []<>(Protection(circuit, inWindow).allow \/ lost > 0)
=============================================================================
