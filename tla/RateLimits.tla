----------------------------- MODULE RateLimits -----------------------------
(***************************************************************************)
(* The two fixed windows a request meets.  In ai-service a middleware on   *)
(* the event loop counts in memory, per client and per route, and counts   *)
(* the requests to the model and to the tools once more.  In the business  *)
(* service each tool call counts in Redis, with INCR and EXPIRE as two     *)
(* calls of a Tomcat thread, either of which may fail and is then ignored. *)
(***************************************************************************)
EXTENDS Naturals, FiniteSets

CONSTANTS
    Requests,
    Clients,
    Limit,         \* scope -> requests per window; 0 switches the scope off
    Window,        \* rate_limit_window_seconds, in ticks
    JavaLimit,
    JavaWindow     \* windowSeconds of the tool endpoints, in ticks

Scopes == <<"client", "route", "ai", "tool">>
Routes == {"chat", "stream", "plain", "tool"}

ASSUME RateLimitsAssumption ==
    /\ Limit \in [{"client", "route", "ai", "tool"} -> Nat]
    /\ Window \in Nat \ {0} /\ JavaLimit \in Nat \ {0} /\ JavaWindow \in Nat \ {0}

VARIABLES
    now,
    counters,   \* scope -> identity -> the window and count of the middleware
    admitted,   \* history: what each request was let through by
    redis,      \* client -> count and expiry (0: none) of its tool calls
    threads,    \* request -> step of the Tomcat thread that serves its tool call
    let         \* history: requests let through by the window of redis

limits == <<now, counters, admitted, redis, threads, let>>

NoCounter == [window |-> 0, count |-> 0]
NoKey == [count |-> 0, expires |-> 0]

LimitsInit ==
    /\ now = 0
    /\ counters = [s \in DOMAIN Limit |-> [i \in Clients \cup Routes |-> NoCounter]]
    /\ admitted = {}
    /\ redis = [c \in Clients |-> NoKey]
    /\ threads = [r \in Requests |-> "none"]
    /\ let = {}

-----------------------------------------------------------------------------
(* The middleware.                                                         *)

WindowStart == (now \div Window) * Window

\* /tool-chat counts for the model and for the tools.
Applies(scope, route) ==
    Limit[scope] > 0 /\ (scope = "tool" => route = "tool")

Identity(scope, client, route) == IF scope = "route" THEN route ELSE client

\* Mutant: the request that reaches the limit is let through.
Full_OneMore(scope, identity) ==
    LET c == counters[scope][identity]
    IN  c.window = WindowStart /\ c.count > Limit[scope]

Full(scope, identity) ==
    LET c == counters[scope][identity]
    IN  c.window = WindowStart /\ c.count >= Limit[scope]

Counted(c) == [window |-> WindowStart,
               count |-> (IF c.window = WindowStart THEN c.count ELSE 0) + 1]

\* The first scope that is full refuses; those before it stay counted.
Passed(client, route) ==
    LET checked == {k \in DOMAIN Scopes : Applies(Scopes[k], route)}
    IN  {k \in checked :
            \A j \in checked : j <= k => ~Full(Scopes[j], Identity(Scopes[j], client, route))}

Allowed(client, route) ==
    \A k \in DOMAIN Scopes : Applies(Scopes[k], route) => k \in Passed(client, route)

Count(client, route) ==
    counters' = [s \in DOMAIN Limit |-> [i \in Clients \cup Routes |->
        IF \E k \in Passed(client, route) :
              Scopes[k] = s /\ Identity(s, client, route) = i
        THEN Counted(counters[s][i]) ELSE counters[s][i]]]

Admit(r, client, route) ==
    /\ Count(client, route)
    /\ admitted' = IF ~Allowed(client, route) THEN admitted
                   ELSE admitted \cup
                        {[request |-> r, window |-> WindowStart, scope |-> Scopes[k],
                          identity |-> Identity(Scopes[k], client, route)] :
                            k \in Passed(client, route)}

-----------------------------------------------------------------------------
(* RedisToolRateLimiter.check, in the thread that serves the tool call of  *)
(* request r for client c.                                                 *)

Go(r, step) == threads' = [threads EXCEPT ![r] = step]

ExpiresAfter(count) == count = 1

Increments(c) == redis' = [redis EXCEPT ![c].count = @ + 1]
Expires(c) == redis' = [redis EXCEPT ![c].expires = now + JavaWindow]

Increment(r, c) ==
    /\ threads[r] = "incr"
    /\ Increments(c)
    /\ LET n == redis[c].count + 1 IN
          /\ Go(r, IF ExpiresAfter(n) THEN "expire"
                   ELSE IF n > JavaLimit THEN "limited" ELSE "serve")
          /\ let' = IF n <= JavaLimit THEN let \cup {[request |-> r, client |-> c]} ELSE let
    /\ UNCHANGED <<now, counters, admitted>>

SetExpiry(r, c) ==
    /\ threads[r] = "expire"
    /\ Expires(c)
    /\ Go(r, "serve")
    /\ UNCHANGED <<now, counters, admitted, let>>

\* A RuntimeException of either call is logged and the request goes on, no
\* longer counted.  Redis may not have had the command, or have carried it out
\* and its reply was lost.
RedisFails(r, c) ==
    /\ threads[r] \in {"incr", "expire"}
    /\ \/ UNCHANGED redis
       \/ threads[r] = "incr" /\ Increments(c)
       \/ threads[r] = "expire" /\ Expires(c)
    /\ Go(r, "serve")
    /\ UNCHANGED <<now, counters, admitted, let>>

\* The business service dies: between INCR and EXPIRE nobody sets the expiry.
JavaDies ==
    /\ \E r \in Requests : threads[r] # "none"
    /\ threads' = [r \in Requests |-> "none"]
    /\ UNCHANGED <<now, counters, admitted, redis, let>>

\* A tick, and the keys of Redis that end with it.
Advance ==
    LET ending == {c \in Clients : redis[c].expires = now + 1} IN
    /\ now' = now + 1
    /\ redis' = [c \in Clients |-> IF c \in ending THEN NoKey ELSE redis[c]]
    /\ let' = {e \in let : e.client \notin ending}
    /\ UNCHANGED <<counters, admitted, threads>>

-----------------------------------------------------------------------------
(***************************************************************************)
(* Counting and refusing are spread over four counters, a later one of     *)
(* which may refuse what an earlier one has counted, and over windows that *)
(* end while requests run.  In no window does a client or a route get more *)
(* requests through than its limit, nor a client more tool calls through   *)
(* the window of Redis (check, RedisToolRateLimiter.check).                *)
(***************************************************************************)
QuotaKept ==
    /\ \A a \in admitted :
          Cardinality({b \in admitted : /\ b.scope = a.scope /\ b.identity = a.identity
                                        /\ b.window = a.window}) <= Limit[a.scope]
    /\ \A c \in Clients : Cardinality({e \in let : e.client = c}) <= JavaLimit

(***************************************************************************)
(* A tool call is counted in a window of windowSeconds, after which its    *)
(* counter is gone (docs/java-business-database-design.md 481): a counter  *)
(* has an expiry, unless a thread is about to set it.  Refuted: an INCR    *)
(* whose reply is lost, or an EXPIRE that fails or dies with its thread,   *)
(* leaves one that grows for good and at last refuses its client for ever  *)
(* (RedisToolRateLimiter 43 to 52).                                        *)
(***************************************************************************)
CounterExpires(client) ==
    \A c \in Clients :
        redis[c].count > 0 /\ redis[c].expires = 0 =>
            \E r \in Requests : client[r] = c /\ threads[r] = "expire"
=============================================================================
