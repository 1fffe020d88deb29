----------------------------- MODULE ModelCalls -----------------------------
(***************************************************************************)
(* Requests of ai-service that call the model, behind the windows of       *)
(* RateLimits.  /chat and /stream-chat (LLMChatService) choose a model,    *)
(* fit the request into its token budget, retry and at last fall back to   *)
(* another model, all within a total time budget; once a stream is open    *)
(* its chunks go to the client as they come.  The other routes call the    *)
(* model once, and /tool-chat calls it again with the order it asked for.  *)
(***************************************************************************)
EXTENDS RateLimits, Sequences

CONSTANTS
    TierModel,          \* resolved_llm_fast_model and so on, by tier
    DefaultTier,        \* llm_default_route_tier
    FallbackModel,      \* resolved_llm_fallback_model
    FallbackEnabled,
    RequestTimeout,     \* request_timeout_seconds, in ticks
    TotalTimeout,       \* llm_total_timeout_seconds
    JavaTimeout,        \* java_business_service_timeout_seconds
    MaxRetries,
    MaxDelay,           \* longest pause before a retry
    Inputs,             \* estimated input tokens of a request
    OutputTokens,       \* max_output_tokens
    MinOutput, MaxInput, MaxTotal,
    FallbackTotal,      \* llm_disable_fallback_above_total_tokens
    InputPrice, OutputPrice,
    MaxCost,            \* llm_max_estimated_cost_per_request
    LastArrival,        \* bound: no request arrives later
    MaxChunks,          \* bound: chunks of a stream
    None

ASSUME ModelCallsAssumption ==
    /\ RequestTimeout \in Nat \ {0} /\ TotalTimeout \in Nat \ {0} /\ JavaTimeout \in Nat
    /\ MaxRetries \in 0..5 /\ MaxDelay \in Nat \ {0}
    /\ DOMAIN TierModel = {"fast", "balanced", "strong"}
    /\ DefaultTier \in DOMAIN TierModel /\ FallbackEnabled \in BOOLEAN
    /\ OutputTokens \in Nat \ {0} /\ MinOutput \in Nat \ {0}
    /\ Inputs \subseteq Nat /\ {MaxInput, MaxTotal, FallbackTotal} \subseteq Nat

VARIABLES
    requests,   \* request -> what is known of it
    heard       \* request -> the call each chunk came from that its client received

vars == <<limits, requests, heard>>

NoRequest == [pc |-> "new", client |-> None, route |-> None, model |-> None, start |-> 0,
              since |-> 0, attempt |-> 0, fallback |-> FALSE, input |-> 0, output |-> 0]

Init ==
    /\ LimitsInit
    /\ requests = [r \in Requests |-> NoRequest]
    /\ heard = [r \in Requests |-> <<>>]

-----------------------------------------------------------------------------
(* Decisions of app/core.                                                  *)

Budgeted == {"chat", "stream"}

\* route_llm_model for a question with these traits.
Tier(traits) ==
    IF traits \cap {"strong", "long"} # {} THEN "strong"
    ELSE IF "fast" \in traits THEN "fast"
    ELSE DefaultTier

Cost(input, output) == input * InputPrice + output * OutputPrice

Affordable(input, output) == Cost(input, output) <= MaxCost

\* Mutant: what is checked is the cut output, what is asked for the whole.
Output_Uncut(input) ==
    LET whole == input + OutputTokens <= MaxTotal
        cut == IF whole THEN OutputTokens
               ELSE IF input > MaxTotal THEN 0 ELSE MaxTotal - input
    IN  IF input > MaxInput \/ (~whole /\ cut < MinOutput) \/ ~Affordable(input, cut)
        THEN 0 ELSE OutputTokens

\* build_llm_cost_control_decision: the output that is asked for, cut to
\* what fits; 0 blocks the request.
Output(input) ==
    LET whole == input + OutputTokens <= MaxTotal
        cut == IF whole THEN OutputTokens
               ELSE IF input > MaxTotal THEN 0 ELSE MaxTotal - input
    IN  IF input > MaxInput \/ (~whole /\ cut < MinOutput) \/ ~Affordable(input, cut)
        THEN 0 ELSE cut

\* map_openai_error_to_app_exception, by the name of the error.
RetryableErrors == {"timeout", "rate_limited", "provider", "connection"}
FatalErrors == {"authentication", "bad_request"}

\* An answer without choices or without text is not retried either, but
\* another model may be asked.
Unusable == {"bad_response", "empty_response"}
FallbackErrors == RetryableErrors \cup Unusable

Power(n) == CASE n = 0 -> 1 [] n = 1 -> 2 [] n = 2 -> 4 [] n = 3 -> 8 [] OTHER -> 16

Backoff(attempt) == IF Power(attempt - 1) < MaxDelay THEN Power(attempt - 1) ELSE MaxDelay

\* The pause before a retry; a 429 may come with a Retry-After header,
\* which replaces it up to the maximum.
Pauses(attempt, error) ==
    {Backoff(attempt)} \cup (IF error = "rate_limited" THEN 1..MaxDelay ELSE {})

\* build_llm_retry_decision; a fallback is one attempt.
Retried(q, error) ==
    /\ ~q.fallback
    /\ error \in RetryableErrors
    /\ MaxRetries > 0 /\ q.attempt < MaxRetries + 1

\* Mutant: the pause is not counted.
Fits_WithoutPause(q, pause) == now - q.start + RequestTimeout <= TotalTimeout

\* build_llm_timeout_budget_decision
Fits(q, pause) == now - q.start + pause + RequestTimeout <= TotalTimeout

\* Cost control lets only a small request fall back.
FallbackAllowed(q) == q.input + q.output <= FallbackTotal

\* build_llm_fallback_decision and what cost control allows.
FallsBack(q, error) ==
    /\ FallbackEnabled /\ ~q.fallback
    /\ error \in FallbackErrors
    /\ FallbackModel # q.model
    /\ FallbackAllowed(q)

-----------------------------------------------------------------------------
Becomes(r, q) == requests' = [requests EXCEPT ![r] = q]

Ended(q) == [NoRequest EXCEPT !.pc = "done", !.client = q.client]

Calling(q) == [q EXCEPT !.pc = "call", !.since = now]

Running(r, pc) == requests[r].pc = pc

\* A request at the middleware, then at its route: without a key, with a
\* forbidden prompt or over the token budget it ends there.
Arrive(r) ==
    /\ Running(r, "new") /\ now <= LastArrival
    /\ \E c \in Clients, route \in Routes, n \in Inputs, rejected \in BOOLEAN,
         traits \in SUBSET {"strong", "long", "fast"} :
          LET q == [pc |-> "new", client |-> c, route |-> route,
                    model |-> TierModel[Tier(traits)], start |-> now, since |-> 0,
                    attempt |-> 1, fallback |-> FALSE, input |-> n,
                    output |-> IF route \in Budgeted THEN Output(n) ELSE OutputTokens]
          IN  /\ Admit(r, c, route)
              /\ Becomes(r, IF Allowed(c, route) /\ ~rejected /\ q.output > 0
                            THEN Calling(q) ELSE Ended(q))
    /\ UNCHANGED <<now, redis, threads, let, heard>>

Finish(r) == Becomes(r, Ended(requests[r]))

ChatAnswers(r) ==
    /\ Running(r, "call") /\ requests[r].route = "chat"
    /\ Finish(r)
    /\ UNCHANGED <<limits, heard>>

StreamOpens(r) ==
    /\ Running(r, "call") /\ requests[r].route = "stream"
    /\ Becomes(r, [requests[r] EXCEPT !.pc = "stream", !.since = now])
    /\ UNCHANGED <<limits, heard>>

\* The routes that call the model once: an answer, or one that does not fit
\* the schema.
PlainAnswers(r) ==
    /\ Running(r, "call") /\ requests[r].route = "plain"
    /\ Finish(r)
    /\ UNCHANGED <<limits, heard>>

\* /tool-chat: the model asks for an order and gets it from the business
\* service.
AsksForOrder(r) ==
    /\ Running(r, "call") /\ requests[r].route = "tool" /\ requests[r].attempt = 1
    /\ Becomes(r, [requests[r] EXCEPT !.pc = "java", !.since = now])
    /\ Go(r, "incr")
    /\ UNCHANGED <<now, counters, admitted, redis, let, heard>>

\* An answer without a tool call, or a tool call that is refused; asking
\* again after the order is an error.
ToolChatAnswers(r) ==
    /\ Running(r, "call") /\ requests[r].route = "tool"
    /\ Finish(r)
    /\ UNCHANGED <<limits, heard>>

\* An attempt of LLMChatService that is not retried.
GiveUp(r, q, error) ==
    Becomes(r, IF FallsBack(q, error) /\ Fits(q, 0)
               THEN Calling([q EXCEPT !.fallback = TRUE])
               ELSE Ended(q))

\* A call of /chat that returns nothing usable.
AnswersBadly(r, error) ==
    /\ Running(r, "call") /\ requests[r].route = "chat"
    /\ GiveUp(r, requests[r], error)
    /\ UNCHANGED <<limits, heard>>

\* A timeout takes its time.
CallFails(r, error) ==
    /\ Running(r, "call")
    /\ error = "timeout" => now = requests[r].since + RequestTimeout

\* A retry that no longer fits ends the request, without falling back.
Fails(r, error) ==
    /\ CallFails(r, error) /\ requests[r].route \in Budgeted
    /\ LET q == requests[r] IN
          IF ~Retried(q, error) THEN GiveUp(r, q, error)
          ELSE \E pause \in Pauses(q.attempt, error) :
                  Becomes(r, IF Fits(q, pause)
                             THEN [q EXCEPT !.pc = "sleep", !.since = now + pause,
                                            !.attempt = q.attempt + 1]
                             ELSE Ended(q))
    /\ UNCHANGED <<limits, heard>>

PlainFails(r, error) ==
    /\ CallFails(r, error) /\ requests[r].route \notin Budgeted
    /\ Finish(r)
    /\ UNCHANGED <<limits, heard>>

Retry(r) ==
    /\ Running(r, "sleep") /\ now = requests[r].since
    /\ Becomes(r, Calling(requests[r]))
    /\ UNCHANGED <<limits, heard>>

Call(q) == [attempt |-> q.attempt, fallback |-> q.fallback]

Chunk(r) ==
    /\ Running(r, "stream")
    /\ Len(heard[r]) < MaxChunks
    /\ Becomes(r, [requests[r] EXCEPT !.since = now])
    /\ heard' = [heard EXCEPT ![r] = Append(@, Call(requests[r]))]
    /\ UNCHANGED limits

\* Mutant: a broken stream is opened again with the other model.
StreamEnds_Reopened(r) ==
    /\ Running(r, "stream")
    /\ GiveUp(r, requests[r], "connection")
    /\ UNCHANGED <<limits, heard>>

\* The end of the stream, an error event, or the client is gone.
StreamEnds(r) ==
    /\ Running(r, "stream")
    /\ Finish(r)
    /\ heard' = [heard EXCEPT ![r] = <<>>]
    /\ UNCHANGED limits

\* The business service answers the tool call: the order, or an error.
JavaAnswers(r) ==
    /\ threads[r] \in {"serve", "limited"}
    /\ Go(r, "none")
    /\ LET q == requests[r] IN
          \/ /\ q.pc = "java" /\ threads[r] = "serve"
             /\ Becomes(r, Calling([q EXCEPT !.attempt = 2]))
          \/ /\ Becomes(r, IF q.pc = "java" THEN Ended(q) ELSE q)
    /\ UNCHANGED <<now, counters, admitted, redis, let, heard>>

\* A timeout, or nobody there: the thread, if any, goes on.
JavaIsSilent(r) ==
    /\ Running(r, "java")
    /\ threads[r] = "none" \/ now = requests[r].since + JavaTimeout
    /\ Finish(r)
    /\ UNCHANGED <<limits, heard>>

Client == [r \in Requests |-> requests[r].client]

\* Nothing takes longer than its timeout: a call, a pause, a gap between two
\* chunks, a tool call.  The threads of the business service may.
Due(q) ==
    CASE q.pc = "sleep"  -> now >= q.since
      [] q.pc \in {"call", "stream"} -> now >= q.since + RequestTimeout
      [] q.pc = "java"   -> now >= q.since + JavaTimeout
      [] OTHER -> FALSE

Tick ==
    /\ \E r \in Requests : requests[r].pc # "done" \/ threads[r] # "none"
    /\ \A r \in Requests : ~Due(requests[r])
    /\ now < LastArrival \/ \E r \in Requests : requests[r].pc \notin {"new", "done"}
    /\ Advance
    /\ UNCHANGED <<requests, heard>>

Step(r) ==
    \/ Arrive(r) \/ Retry(r)
    \/ ChatAnswers(r) \/ StreamOpens(r) \/ PlainAnswers(r)
    \/ AsksForOrder(r) \/ ToolChatAnswers(r)
    \/ \E error \in Unusable : AnswersBadly(r, error)
    \/ \E error \in RetryableErrors \cup FatalErrors : Fails(r, error) \/ PlainFails(r, error)
    \/ Chunk(r) \/ StreamEnds(r) \/ JavaAnswers(r) \/ JavaIsSilent(r)

ServeTool(r) ==
    \/ Increment(r, Client[r]) /\ UNCHANGED <<requests, heard>>
    \/ SetExpiry(r, Client[r]) /\ UNCHANGED <<requests, heard>>
    \/ RedisFails(r, Client[r]) /\ UNCHANGED <<requests, heard>>

Restart == JavaDies /\ UNCHANGED <<requests, heard>>

Next == (\E r \in Requests : Step(r) \/ ServeTool(r)) \/ Restart \/ Tick

Spec == Init /\ [][Next]_vars

-----------------------------------------------------------------------------
(***************************************************************************)
(* Retries with growing pauses, a fallback and a slow provider add up.  A  *)
(* request of /chat and the opening of a stream are done within the total  *)
(* budget, or within one call if that is longer; /tool-chat within two     *)
(* calls of the model and one of the business service                      *)
(* (build_llm_timeout_budget_decision).                                    *)
(***************************************************************************)
AnsweredInTime ==
    \A r \in Requests :
        LET q == requests[r]
            spent == now - q.start
        IN  /\ q.pc \in {"call", "sleep"} /\ q.route \in Budgeted =>
                  spent <= TotalTimeout \/ spent <= RequestTimeout
            /\ q.pc \in {"call", "java"} /\ q.route = "tool" =>
                  spent <= 2 * RequestTimeout + JavaTimeout

(***************************************************************************)
(* Whatever attempt or model a call belongs to, the tokens it may use are  *)
(* within the budget of a request, and those of a fallback within the      *)
(* threshold for fallbacks (build_llm_cost_control_decision).              *)
(***************************************************************************)
WithinTokenBudget ==
    \A r \in Requests :
        LET q == requests[r] IN
        q.pc = "call" /\ q.route \in Budgeted =>
            /\ q.output >= 1 /\ q.input + q.output <= MaxTotal
            /\ Affordable(q.input, q.output)
            /\ q.fallback => q.input + q.output <= FallbackTotal

(***************************************************************************)
(* Retries and the fallback end where the stream begins: the chunks a      *)
(* client of /stream-chat receives come from one call of the model, never  *)
(* the beginning of one answer and the rest of another (stream_reply).     *)
(***************************************************************************)
OneVoice == \A r \in Requests : \A i, j \in DOMAIN heard[r] : heard[r][i] = heard[r][j]

(***************************************************************************)
(* CounterExpires of RateLimits, for the clients of the tool calls.        *)
(***************************************************************************)
CountersExpire == CounterExpires(Client)
=============================================================================
