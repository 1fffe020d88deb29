-------------------------- MODULE ModelCallsProofs --------------------------
(***************************************************************************)
(* Proofs about ModelCalls and RateLimits, for any requests, clients,      *)
(* windows, limits, timeouts, retries, token budgets and prices.           *)
(***************************************************************************)
EXTENDS ModelCalls, FiniteSetTheorems, TLAPS

----------------------------------------------------------------------------
(* Types.                                                                  *)

Identities == Clients \cup Routes
Admissions == [request : Requests, window : Nat, scope : DOMAIN Limit, identity : Identities]
Passes == [request : Requests, client : Clients]

Models == {TierModel[t] : t \in DOMAIN TierModel}
Stages == {"new", "call", "sleep", "stream", "java", "done"}

RequestRecords ==
    [pc : Stages, client : Clients \cup {None}, route : Routes \cup {None},
     model : Models \cup {None}, start : Nat, since : Nat, attempt : Nat,
     fallback : BOOLEAN, input : Nat, output : Nat]

Calls == [attempt : Nat, fallback : BOOLEAN]

WindowTypes ==
    /\ counters \in [DOMAIN Limit -> [Identities -> [window : Nat, count : Nat]]]
    /\ admitted \in SUBSET Admissions

RedisTypes ==
    /\ redis \in [Clients -> [count : Nat, expires : Nat]]
    /\ threads \in [Requests -> {"none", "incr", "expire", "limited", "serve"}]
    /\ let \in SUBSET Passes

TypeOK ==
    /\ now \in Nat
    /\ WindowTypes /\ RedisTypes
    /\ requests \in [Requests -> RequestRecords]
    /\ heard \in [Requests -> Seq(Calls)]

----------------------------------------------------------------------------
(* What is known of a request.                                             *)

Known(q) == q.pc # "new" => q.client \in Clients

\* A call or a pause began so early that it ends within the budget.
Timely(q) ==
    /\ q.pc = "call" =>
          /\ now <= q.since + RequestTimeout
          /\ q.route \in Budgeted => \/ q.since = q.start
                                     \/ q.since + RequestTimeout <= q.start + TotalTimeout
          /\ q.route = "tool" =>
                IF q.attempt = 1 THEN q.since = q.start
                ELSE q.since <= q.start + RequestTimeout + JavaTimeout
    /\ q.pc = "sleep" =>
          /\ q.route \in Budgeted
          /\ now <= q.since
          /\ q.since + RequestTimeout <= q.start + TotalTimeout
    /\ q.pc = "java" =>
          /\ q.route = "tool"
          /\ now <= q.since + JavaTimeout
          /\ q.since <= q.start + RequestTimeout

\* A request that may call the model fits its token budget.
Within(q) ==
    q.pc \in {"call", "sleep"} /\ q.route \in Budgeted =>
        /\ q.output >= 1 /\ q.input + q.output <= MaxTotal
        /\ Affordable(q.input, q.output)
        /\ q.fallback => q.input + q.output <= FallbackTotal

Sound(q) == Known(q) /\ Timely(q) /\ Within(q)

RequestsInv == \A r \in Requests : Sound(requests[r])

\* A thread of the business service serves a request that waits or has gone.
ThreadsInv ==
    \A r \in Requests : threads[r] # "none" => requests[r].pc \in {"java", "done"}

\* A client hears chunks only of the call that has opened its stream.
VoiceInv ==
    \A r \in Requests :
        IF requests[r].pc = "stream"
        THEN \A i \in DOMAIN heard[r] : heard[r][i] = Call(requests[r])
        ELSE heard[r] = <<>>

CallsInv == RequestsInv /\ ThreadsInv /\ VoiceInv

----------------------------------------------------------------------------
(* What the windows have let through.                                      *)

Through(scope, identity, window) ==
    {a \in admitted : a.scope = scope /\ a.identity = identity /\ a.window = window}

Spent(scope, identity) ==
    IF counters[scope][identity].window = WindowStart THEN counters[scope][identity].count ELSE 0

WindowsInv ==
    /\ IsFiniteSet(admitted)
    /\ \A a \in admitted : a.window <= WindowStart
    /\ \A s \in DOMAIN Limit, i \in Identities : counters[s][i].window <= WindowStart
    /\ \A s \in DOMAIN Limit, i \in Identities :
          /\ Limit[s] > 0 => Spent(s, i) <= Limit[s]
          /\ Cardinality(Through(s, i, WindowStart)) <= Spent(s, i)
          /\ \A w \in Nat : Cardinality(Through(s, i, w)) <= Limit[s]

LetOf(c) == {e \in let : e.client = c}

RedisInv ==
    /\ IsFiniteSet(let)
    /\ \A c \in Clients : /\ Cardinality(LetOf(c)) <= redis[c].count
                          /\ Cardinality(LetOf(c)) <= JavaLimit

Inv == CallsInv /\ WindowsInv /\ RedisInv

----------------------------------------------------------------------------
(* Windows and their arithmetic.                                           *)

LEMMA Later == ASSUME NEW n \in Nat, NEW w \in Nat \ {0}
               PROVE  n \div w \in Nat /\ n \div w <= (n + 1) \div w
OBVIOUS

LEMMA Multiples == ASSUME NEW a \in Nat, NEW b \in Nat, NEW w \in Nat, a <= b
                   PROVE  a * w \in Nat /\ a * w <= b * w
OBVIOUS

LEMMA WindowStartType == ASSUME now \in Nat PROVE WindowStart \in Nat
<1>1. now \div Window \in Nat
  BY Later, RateLimitsAssumption
<1>2. QED
  BY <1>1, Multiples, RateLimitsAssumption DEF WindowStart

LEMMA WindowStartGrows == ASSUME now \in Nat, now' = now + 1
                          PROVE  WindowStart' \in Nat /\ WindowStart <= WindowStart'
<1>1. /\ now \div Window \in Nat /\ now' \div Window \in Nat
      /\ now \div Window <= now' \div Window
  BY Later, RateLimitsAssumption
<1>2. QED
  BY <1>1, Multiples, RateLimitsAssumption DEF WindowStart

LEMMA ScopeFacts ==
    /\ DOMAIN Scopes = 1 .. 4
    /\ \A k \in DOMAIN Scopes : Scopes[k] \in DOMAIN Limit
    /\ \A j, k \in DOMAIN Scopes : Scopes[j] = Scopes[k] => j = k
BY RateLimitsAssumption DEF Scopes

\* A finite set with at most one more element.
LEMMA OneMore ==
    ASSUME NEW S, IsFiniteSet(S), NEW x, NEW T, T \subseteq S \cup {x}
    PROVE  /\ IsFiniteSet(T) /\ Cardinality(T) \in Nat /\ Cardinality(S) \in Nat
           /\ Cardinality(T) <= Cardinality(S) + 1
<1>0. Cardinality(S) \in Nat
  BY FS_CardinalityType
<1>1. /\ IsFiniteSet(S \cup {x})
      /\ Cardinality(S \cup {x}) <= Cardinality(S) + 1
  <2>1. /\ IsFiniteSet(S \cup {x})
        /\ \/ Cardinality(S \cup {x}) = Cardinality(S)
           \/ Cardinality(S \cup {x}) = Cardinality(S) + 1
    BY FS_AddElement
  <2>2. QED
    BY <1>0, <2>1
<1>2. /\ IsFiniteSet(T) /\ Cardinality(T) \in Nat /\ Cardinality(S \cup {x}) \in Nat
      /\ Cardinality(T) <= Cardinality(S \cup {x})
  BY <1>1, FS_Subset, FS_CardinalityType
<1>3. QED
  BY <1>0, <1>1, <1>2

LEMMA FourMore ==
    ASSUME NEW S, IsFiniteSet(S), NEW a, NEW b, NEW c, NEW d, NEW T,
           T \subseteq S \cup {a, b, c, d}
    PROVE  IsFiniteSet(T)
<1>1. /\ IsFiniteSet(S \cup {a}) /\ IsFiniteSet((S \cup {a}) \cup {b})
      /\ IsFiniteSet(((S \cup {a}) \cup {b}) \cup {c})
      /\ IsFiniteSet((((S \cup {a}) \cup {b}) \cup {c}) \cup {d})
  BY FS_AddElement
<1>2. T \subseteq (((S \cup {a}) \cup {b}) \cup {c}) \cup {d}
  OBVIOUS
<1>3. QED
  BY <1>1, <1>2, FS_Subset

LEMMA ThroughFinite ==
    ASSUME WindowsInv, NEW s, NEW i, NEW w
    PROVE  IsFiniteSet(Through(s, i, w)) /\ Cardinality(Through(s, i, w)) \in Nat
BY FS_Subset, FS_CardinalityType DEF WindowsInv, Through

LEMMA FrameWindows ==
    ASSUME WindowTypes, WindowsInv, UNCHANGED <<now, counters, admitted>>
    PROVE  WindowTypes' /\ WindowsInv'
BY DEF WindowTypes, WindowsInv, Through, Spent, WindowStart

\* The middleware lets a request through, or counts it and refuses.
LEMMA AdmitInv ==
    ASSUME now \in Nat, WindowTypes, WindowsInv, NEW r \in Requests, NEW c \in Clients,
           NEW route \in Routes, Admit(r, c, route), now' = now
    PROVE  WindowTypes' /\ WindowsInv'
<1> DEFINE P == Passed(c, route)
           Id(s) == Identity(s, c, route)
           Record(s) == [request |-> r, window |-> WindowStart, scope |-> s, identity |-> Id(s)]
           Hit(s, i) == \E k \in P : Scopes[k] = s /\ Id(s) = i
<1>1. WindowStart \in Nat /\ WindowStart' = WindowStart
  BY WindowStartType DEF WindowStart
<1>2. \A s : Id(s) \in Identities
  BY DEF Identity, Identities
<1>3. P \subseteq 1 .. 4 /\ \A k \in P : Scopes[k] \in DOMAIN Limit
  BY ScopeFacts DEF Passed
<1>4. \A s \in DOMAIN Limit : Record(s) \in Admissions
  BY <1>1, <1>2 DEF Admissions
<1>5. admitted' = admitted \/ admitted' = admitted \cup {Record(Scopes[k]) : k \in P}
  BY DEF Admit
<1>6. \A s \in DOMAIN Limit, i \in Identities :
        counters'[s][i] = IF Hit(s, i) THEN Counted(counters[s][i]) ELSE counters[s][i]
  BY DEF Admit, Count, Identities
<1>7. ASSUME NEW s \in DOMAIN Limit, NEW i \in Identities
      PROVE  counters[s][i].window \in Nat /\ counters[s][i].count \in Nat
  BY DEF WindowTypes
<1>8. WindowTypes'
  <2>1. admitted' \in SUBSET Admissions
    BY <1>3, <1>4, <1>5 DEF WindowTypes
  <2>2. \A s \in DOMAIN Limit, i \in Identities :
          Counted(counters[s][i]) \in [window : Nat, count : Nat]
    BY <1>1, <1>7 DEF Counted
  <2>3. counters' \in [DOMAIN Limit -> [Identities -> [window : Nat, count : Nat]]]
    BY <2>2 DEF Admit, Count, Identities, WindowTypes
  <2>4. QED
    BY <2>1, <2>3 DEF WindowTypes
<1>9. IsFiniteSet(admitted')
  <2>1. admitted' \subseteq admitted \cup
          {Record(Scopes[1]), Record(Scopes[2]), Record(Scopes[3]), Record(Scopes[4])}
    <3>1. \A k \in P : k = 1 \/ k = 2 \/ k = 3 \/ k = 4
      BY <1>3
    <3>2. QED
      BY <1>5, <3>1
  <2>2. IsFiniteSet(admitted)
    BY DEF WindowsInv
  <2> HIDE DEF Record
  <2>3. QED
    BY <2>1, <2>2, FourMore
<1>10. \A a \in admitted' : a.window <= WindowStart'
  <2>1. \A s : Record(s).window = WindowStart
    OBVIOUS
  <2>2. \A a \in admitted : a.window <= WindowStart
    BY DEF WindowsInv
  <2> HIDE DEF P, Record
  <2>3. QED
    BY <1>1, <1>5, <2>1, <2>2
\* Where a request is counted there was room for it.
<1>11. ASSUME NEW s \in DOMAIN Limit, NEW i \in Identities, Hit(s, i)
       PROVE  Limit[s] \in Nat /\ Spent(s, i) \in Nat /\ Spent(s, i) + 1 <= Limit[s]
  <2>1. PICK k \in P : Scopes[k] = s /\ Id(s) = i
    BY <1>11
  <2>2. k \in DOMAIN Scopes /\ Applies(s, route) /\ ~Full(s, i)
    <3>1. k \in DOMAIN Scopes /\ k <= k
      BY <1>3, ScopeFacts
    <3>2. QED
      BY <2>1, <3>1 DEF Passed
  <2>3. Limit[s] \in Nat /\ Limit[s] > 0
    BY <2>2, RateLimitsAssumption DEF Applies
  <2>4. QED
    BY <1>7, <2>2, <2>3 DEF Full, Spent
<1>12. ASSUME NEW s \in DOMAIN Limit, NEW i \in Identities
       PROVE  /\ counters'[s][i].window <= WindowStart'
              /\ Spent(s, i)' = IF Hit(s, i) THEN Spent(s, i) + 1 ELSE Spent(s, i)
  <2>1. CASE Hit(s, i)
    <3>1. counters'[s][i] = Counted(counters[s][i])
      BY <1>6, <2>1
    <3>2. /\ counters'[s][i].window = WindowStart
          /\ counters'[s][i].count = Spent(s, i) + 1
      BY <3>1 DEF Counted, Spent
    <3>3. QED
      BY <1>1, <2>1, <3>2 DEF Spent
  <2>2. CASE ~Hit(s, i)
    BY <1>1, <1>6, <1>7, <2>2 DEF Spent, WindowsInv
  <2>3. QED
    BY <2>1, <2>2
<1>13. ASSUME NEW s \in DOMAIN Limit, NEW i \in Identities, NEW w \in Nat
       PROVE  Cardinality(Through(s, i, w)') <=
                Cardinality(Through(s, i, w)) + (IF Hit(s, i) /\ w = WindowStart THEN 1 ELSE 0)
  <2>1. IsFiniteSet(Through(s, i, w)) /\ Cardinality(Through(s, i, w)) \in Nat
    BY ThroughFinite
  <2>2. CASE Hit(s, i) /\ w = WindowStart
    <3>1. Through(s, i, w)' \subseteq Through(s, i, w) \cup {Record(s)}
      BY <1>5 DEF Through
    <3>2. QED
      BY <2>1, <2>2, <3>1, OneMore
  <2>3. CASE ~(Hit(s, i) /\ w = WindowStart)
    <3>1. Through(s, i, w)' = Through(s, i, w)
      BY <1>5, <2>3 DEF Through
    <3>2. QED
      BY <2>1, <2>3, <3>1
  <2>4. QED
    BY <2>2, <2>3
<1>14. ASSUME NEW s \in DOMAIN Limit, NEW i \in Identities
       PROVE  /\ Limit[s] > 0 => Spent(s, i)' <= Limit[s]
              /\ Cardinality(Through(s, i, WindowStart)') <= Spent(s, i)'
              /\ \A w \in Nat : Cardinality(Through(s, i, w)') <= Limit[s]
  <2>1. Spent(s, i) \in Nat /\ Limit[s] \in Nat
    BY <1>7, RateLimitsAssumption DEF Spent
  <2>2. /\ Limit[s] > 0 => Spent(s, i) <= Limit[s]
        /\ Cardinality(Through(s, i, WindowStart)) <= Spent(s, i)
        /\ \A w \in Nat : Cardinality(Through(s, i, w)) <= Limit[s]
    BY DEF WindowsInv
  <2>3. \A w \in Nat : /\ Cardinality(Through(s, i, w)) \in Nat
                       /\ Cardinality(Through(s, i, w)') \in Nat
    <3>1. ASSUME NEW w \in Nat
          PROVE  /\ Cardinality(Through(s, i, w)) \in Nat
                 /\ Cardinality(Through(s, i, w)') \in Nat
      <4>1. Cardinality(Through(s, i, w)) \in Nat
        BY ThroughFinite
      <4>2. Through(s, i, w)' \subseteq admitted'
        BY DEF Through
      <4>3. IsFiniteSet(Through(s, i, w)')
        BY <1>9, <4>2, FS_Subset
      <4>4. QED
        BY <4>1, <4>3, FS_CardinalityType
    <3>2. QED
      BY <3>1
  <2>4. CASE Hit(s, i)
    <3>1. Spent(s, i)' = Spent(s, i) + 1 /\ Spent(s, i) + 1 <= Limit[s]
      BY <1>11, <1>12, <2>4
    <3>2. Cardinality(Through(s, i, WindowStart)') <= Spent(s, i) + 1
      BY <1>1, <1>13, <2>1, <2>2, <2>3, <2>4
    <3>3. ASSUME NEW w \in Nat PROVE Cardinality(Through(s, i, w)') <= Limit[s]
      <4>1. CASE w = WindowStart
        BY <1>1, <2>1, <2>3, <3>1, <3>2, <4>1
      <4>2. CASE w # WindowStart
        BY <1>13, <2>1, <2>2, <2>3, <4>2
      <4>3. QED
        BY <4>1, <4>2
    <3>4. QED
      BY <3>1, <3>2, <3>3
  <2>5. CASE ~Hit(s, i)
    <3>1. Spent(s, i)' = Spent(s, i)
      BY <1>12, <2>5
    <3>2. \A w \in Nat : Cardinality(Through(s, i, w)') <= Cardinality(Through(s, i, w))
      BY <1>13, <2>3, <2>5
    <3>3. QED
      BY <1>1, <2>1, <2>2, <2>3, <3>1, <3>2
  <2>6. QED
    BY <2>4, <2>5
<1>15. WindowsInv'
  <2>1. ASSUME NEW s \in DOMAIN Limit, NEW i \in Identities
        PROVE  Through(s, i, WindowStart)' = {a \in admitted' :
                  a.scope = s /\ a.identity = i /\ a.window = WindowStart'}
    BY DEF Through
  <2>2. QED
    BY <1>1, <1>9, <1>10, <1>12, <1>14 DEF WindowsInv, Through
<1>16. QED
  BY <1>8, <1>15

\* A tick, which may begin a new window: nothing has been let through in it.
LEMMA TickInv ==
    ASSUME now \in Nat, WindowTypes, WindowsInv, now' = now + 1, UNCHANGED <<counters, admitted>>
    PROVE  WindowTypes' /\ WindowsInv'
<1>1. WindowTypes'
  BY DEF WindowTypes
<1>2. WindowStart \in Nat /\ WindowStart' \in Nat /\ WindowStart <= WindowStart'
  BY WindowStartType, WindowStartGrows
<1>3. CASE WindowStart' = WindowStart
  BY <1>1, <1>3 DEF WindowsInv, Through, Spent
<1>4. CASE WindowStart' # WindowStart
  <2>1. ASSUME NEW s \in DOMAIN Limit, NEW i \in Identities
        PROVE  /\ Spent(s, i)' = 0
               /\ Through(s, i, WindowStart)' = {}
               /\ counters'[s][i].window <= WindowStart'
    <3>1. counters[s][i].window \in Nat /\ counters[s][i].window <= WindowStart
      BY DEF WindowTypes, WindowsInv
    <3>2. \A a \in admitted : a.window \in Nat /\ a.window <= WindowStart
      BY DEF WindowTypes, WindowsInv, Admissions
    <3>3. QED
      BY <1>2, <1>4, <3>1, <3>2 DEF Spent, Through
  <2>2. \A a \in admitted' : a.window <= WindowStart'
    BY <1>2 DEF WindowTypes, WindowsInv, Admissions
  <2>3. \A s \in DOMAIN Limit : Limit[s] \in Nat
    BY RateLimitsAssumption
  <2>4. ASSUME NEW s \in DOMAIN Limit, NEW i \in Identities
        PROVE  /\ Limit[s] > 0 => Spent(s, i)' <= Limit[s]
               /\ Cardinality(Through(s, i, WindowStart)') <= Spent(s, i)'
               /\ \A w \in Nat : Cardinality(Through(s, i, w)') <= Limit[s]
    <3>1. Cardinality(Through(s, i, WindowStart)') = 0 /\ Spent(s, i)' = 0
      BY <2>1, FS_EmptySet
    <3>2. \A w \in Nat : Through(s, i, w)' = Through(s, i, w)
      BY DEF Through
    <3>3. \A w \in Nat : Cardinality(Through(s, i, w)) <= Limit[s]
      BY DEF WindowsInv
    <3>4. QED
      BY <2>3, <3>1, <3>2, <3>3
  <2>5. IsFiniteSet(admitted')
    BY DEF WindowsInv
  <2>6. QED
    BY <1>1, <2>1, <2>2, <2>4, <2>5 DEF WindowsInv
<1>5. QED
  BY <1>1, <1>3, <1>4

----------------------------------------------------------------------------
(* The window of Redis.                                                    *)

LEMMA FrameRedis ==
    ASSUME RedisInv, UNCHANGED <<redis, let>>
    PROVE  RedisInv'
BY DEF RedisInv, LetOf

LEMMA LetOfFinite ==
    ASSUME RedisInv, NEW c
    PROVE  IsFiniteSet(LetOf(c)) /\ Cardinality(LetOf(c)) \in Nat
BY FS_Subset, FS_CardinalityType DEF RedisInv, LetOf

\* INCR: a request is let through only up to the limit.
LEMMA IncrementInv ==
    ASSUME RedisTypes, RedisInv, NEW r \in Requests, NEW c \in Clients, Increment(r, c)
    PROVE  RedisTypes' /\ RedisInv'
<1> DEFINE n == redis[c].count + 1
           e == [request |-> r, client |-> c]
<1>1. redis[c].count \in Nat /\ redis[c].expires \in Nat /\ n \in Nat /\ JavaLimit \in Nat
  BY RateLimitsAssumption DEF RedisTypes
<1>2. /\ redis' = [redis EXCEPT ![c] = [count |-> n, expires |-> redis[c].expires]]
      /\ let' = IF n <= JavaLimit THEN let \cup {e} ELSE let
  <2>1. redis' = [redis EXCEPT ![c].count = n] /\ redis \in [Clients -> [count : Nat, expires : Nat]]
    BY DEF Increment, Increments, RedisTypes
  <2>2. [redis[c] EXCEPT !.count = n] = [count |-> n, expires |-> redis[c].expires]
    BY <2>1
  <2>3. redis' = [redis EXCEPT ![c] = [count |-> n, expires |-> redis[c].expires]]
    BY <2>1, <2>2
  <2>4. QED
    BY <2>3 DEF Increment
<1>3. RedisTypes'
  <2>1. threads' \in [Requests -> {"none", "incr", "expire", "limited", "serve"}]
    BY DEF RedisTypes, Increment, Go
  <2>2. QED
    BY <1>1, <1>2, <2>1 DEF RedisTypes, Increment, Passes
<1>4. IsFiniteSet(let')
  BY <1>2, FS_AddElement DEF RedisInv
<1>5. ASSUME NEW d \in Clients
      PROVE  Cardinality(LetOf(d)') <= redis'[d].count /\ Cardinality(LetOf(d)') <= JavaLimit
  <2>1. /\ IsFiniteSet(LetOf(d)) /\ Cardinality(LetOf(d)) \in Nat
        /\ Cardinality(LetOf(d)) <= redis[d].count /\ Cardinality(LetOf(d)) <= JavaLimit
        /\ redis[d].count \in Nat
    BY LetOfFinite DEF RedisInv, RedisTypes
  <2>2. CASE d = c /\ n <= JavaLimit
    <3>1. LetOf(d)' \subseteq LetOf(d) \cup {e}
      BY <1>2 DEF LetOf
    <3>2. /\ Cardinality(LetOf(d)') <= Cardinality(LetOf(d)) + 1
          /\ Cardinality(LetOf(d)') \in Nat
      BY <2>1, <3>1, OneMore
    <3>3. redis'[d].count = redis[d].count + 1
      BY <1>1, <1>2, <2>2 DEF RedisTypes
    <3>4. QED
      BY <1>1, <2>1, <2>2, <3>2, <3>3
  <2>3. CASE ~(d = c /\ n <= JavaLimit)
    <3>1. LetOf(d)' = LetOf(d)
      BY <1>2, <2>3 DEF LetOf
    <3>2. redis'[d].count >= redis[d].count
      BY <1>1, <1>2, <2>1 DEF RedisTypes
    <3>3. redis'[d].count \in Nat
      BY <1>3 DEF RedisTypes
    <3>4. QED
      BY <2>1, <3>1, <3>2, <3>3
  <2>4. QED
    BY <2>2, <2>3
<1>6. QED
  BY <1>3, <1>4, <1>5 DEF RedisInv

\* A key that ends takes its count and what it let through with it.
LEMMA AdvanceInv ==
    ASSUME now \in Nat, RedisTypes, RedisInv, Advance
    PROVE  RedisTypes' /\ RedisInv'
<1>1. ASSUME NEW c \in Clients
      PROVE  \/ redis'[c] = NoKey /\ LetOf(c)' = {}
             \/ redis'[c] = redis[c] /\ LetOf(c)' = LetOf(c)
  BY DEF Advance, LetOf, RedisTypes
<1>2. RedisTypes'
  BY DEF RedisTypes, Advance, NoKey
<1>3. IsFiniteSet(let')
  BY FS_Subset DEF RedisInv, Advance
<1>4. ASSUME NEW c \in Clients
      PROVE  Cardinality(LetOf(c)') <= redis'[c].count /\ Cardinality(LetOf(c)') <= JavaLimit
  <2>1. CASE redis'[c] = NoKey /\ LetOf(c)' = {}
    BY <2>1, FS_EmptySet, RateLimitsAssumption DEF NoKey
  <2>2. CASE redis'[c] = redis[c] /\ LetOf(c)' = LetOf(c)
    BY <2>2 DEF RedisInv
  <2>3. QED
    BY <1>1, <2>1, <2>2
<1>5. QED
  BY <1>2, <1>3, <1>4 DEF RedisInv

----------------------------------------------------------------------------
(* The steps of a request.                                                 *)

LEMMA EndedIsSound ==
    ASSUME NEW q \in RequestRecords, q.client \in Clients
    PROVE  /\ Ended(q) \in RequestRecords /\ Sound(Ended(q))
           /\ Ended(q).pc = "done" /\ Ended(q).client = q.client
BY DEF Ended, NoRequest, RequestRecords, Stages, Sound, Known, Timely, Within

\* The call a request makes keeps all but its stage and its beginning.
LEMMA CallingFields ==
    ASSUME NEW q \in RequestRecords, now \in Nat
    PROVE  /\ Calling(q) \in RequestRecords
           /\ Calling(q).pc = "call" /\ Calling(q).since = now
           /\ Calling(q).client = q.client /\ Calling(q).route = q.route
           /\ Calling(q).start = q.start /\ Calling(q).attempt = q.attempt
           /\ Calling(q).fallback = q.fallback
           /\ Calling(q).input = q.input /\ Calling(q).output = q.output
BY DEF Calling, RequestRecords, Stages

LEMMA MoveInv ==
    ASSUME TypeOK, RequestsInv, NEW r \in Requests, NEW q \in RequestRecords,
           Becomes(r, q), Sound(q), now' = now
    PROVE  requests' \in [Requests -> RequestRecords] /\ RequestsInv' /\ requests'[r] = q
<1>1. /\ requests' \in [Requests -> RequestRecords] /\ requests'[r] = q
      /\ \A p \in Requests \ {r} : requests'[p] = requests[p]
  BY DEF TypeOK, Becomes
<1>2. \A p \in Requests : Sound(requests'[p])
  BY <1>1 DEF RequestsInv
<1>3. RequestsInv'
  BY <1>2 DEF RequestsInv, Sound, Known, Timely, Within
<1>4. QED
  BY <1>1, <1>3

\* A request that neither waits for Java nor streams has no thread and has
\* heard nothing.
LEMMA StageMove ==
    ASSUME TypeOK, Inv, NEW r \in Requests, NEW q \in RequestRecords, Becomes(r, q), Sound(q),
           requests[r].pc \in {"new", "call", "sleep"},
           UNCHANGED <<now, redis, threads, heard>>
    PROVE  requests' \in [Requests -> RequestRecords] /\ CallsInv'
<1>1. requests' \in [Requests -> RequestRecords] /\ RequestsInv' /\ requests'[r] = q
  BY MoveInv DEF Inv, CallsInv
<1>2. \A p \in Requests \ {r} : requests'[p] = requests[p]
  BY DEF TypeOK, Becomes
<1>3. threads[r] = "none" /\ heard[r] = <<>>
  BY DEF Inv, CallsInv, ThreadsInv, VoiceInv, TypeOK, RedisTypes
<1>4. ThreadsInv' /\ VoiceInv'
  BY <1>2, <1>3 DEF Inv, CallsInv, ThreadsInv, VoiceInv
<1>5. QED
  BY <1>1, <1>4 DEF CallsInv

\* A step of a request that touches neither the limits nor what was heard.
LEMMA QuietMove ==
    ASSUME TypeOK, Inv, NEW r \in Requests, NEW q \in RequestRecords, Becomes(r, q), Sound(q),
           requests[r].pc \in {"call", "sleep"}, UNCHANGED <<limits, heard>>
    PROVE  TypeOK' /\ Inv'
<1>1. UNCHANGED <<now, counters, admitted, redis, threads, let, heard>>
  BY DEF limits
<1>2. requests' \in [Requests -> RequestRecords] /\ CallsInv'
  BY <1>1, StageMove
<1>3. TypeOK'
  BY <1>1, <1>2 DEF TypeOK, WindowTypes, RedisTypes
<1>4. WindowsInv' /\ RedisInv'
  BY <1>1, FrameWindows, FrameRedis DEF Inv, TypeOK
<1>5. QED
  BY <1>2, <1>3, <1>4 DEF Inv

\* The budget is asked before a request waits or falls back.
LEMMA GiveUpInv ==
    ASSUME TypeOK, Inv, NEW r \in Requests, NEW error, requests[r].pc = "call",
           requests[r].route \in Budgeted, GiveUp(r, requests[r], error),
           UNCHANGED <<limits, heard>>
    PROVE  TypeOK' /\ Inv'
<1>1. PICK q \in RequestRecords : q = requests[r] /\ Sound(q) /\ q.client \in Clients
  BY DEF TypeOK, Inv, CallsInv, RequestsInv, Sound, Known
<1>2. CASE FallsBack(q, error) /\ Fits(q, 0)
  <2>1. PICK p \in RequestRecords :
          /\ p = [q EXCEPT !.fallback = TRUE]
          /\ p.client = q.client /\ p.route = q.route /\ p.start = q.start
          /\ p.attempt = q.attempt /\ p.fallback = TRUE
          /\ p.input = q.input /\ p.output = q.output
    <3>1. [q EXCEPT !.fallback = TRUE] \in RequestRecords
      BY DEF RequestRecords
    <3>2. QED
      BY <3>1 DEF RequestRecords
  <2>2. Becomes(r, Calling(p))
    BY <1>1, <1>2, <2>1 DEF GiveUp
  <2>3. now \in Nat /\ p.start \in Nat
    BY DEF TypeOK, RequestRecords
  <2>4. Sound(Calling(p))
    <3>1. Known(Calling(p))
      BY <1>1, <2>1, <2>3, CallingFields DEF Known
    <3>2. Timely(Calling(p))
      <4>1. now - p.start + 0 + RequestTimeout <= TotalTimeout
        BY <1>2, <2>1 DEF Fits
      <4>2. RequestTimeout \in Nat /\ TotalTimeout \in Nat
        BY ModelCallsAssumption
      <4>3. now + RequestTimeout <= p.start + TotalTimeout /\ now <= now + RequestTimeout
        BY <2>3, <4>1, <4>2
      <4>4. p.route \in Budgeted /\ p.route # "tool"
        BY <1>1, <2>1 DEF Budgeted
      <4>5. QED
        BY <2>3, <4>3, <4>4, CallingFields DEF Timely
    <3>3. Within(Calling(p))
      BY <1>1, <1>2, <2>1, <2>3, CallingFields DEF Within, Sound, FallsBack, FallbackAllowed
    <3>4. QED
      BY <3>1, <3>2, <3>3 DEF Sound
  <2>5. QED
    BY <1>1, <2>1, <2>2, <2>3, <2>4, CallingFields, QuietMove
<1>3. CASE ~(FallsBack(q, error) /\ Fits(q, 0))
  <2>1. Becomes(r, Ended(q))
    BY <1>1, <1>3 DEF GiveUp
  <2>2. QED
    BY <1>1, <2>1, EndedIsSound, QuietMove
<1>4. QED
  BY <1>2, <1>3

\* A request that ends while it calls the model.
LEMMA FinishInv ==
    ASSUME TypeOK, Inv, NEW r \in Requests, requests[r].pc = "call", Finish(r),
           UNCHANGED <<limits, heard>>
    PROVE  TypeOK' /\ Inv'
<1>1. requests[r] \in RequestRecords /\ requests[r].client \in Clients
  BY DEF TypeOK, Inv, CallsInv, RequestsInv, Sound, Known
<1>2. QED
  BY <1>1, EndedIsSound, QuietMove DEF Finish

LEMMA OutputFits ==
    ASSUME NEW n \in Nat
    PROVE  /\ Output(n) \in Nat
           /\ Output(n) > 0 => n + Output(n) <= MaxTotal /\ Affordable(n, Output(n))
BY ModelCallsAssumption DEF Output

LEMMA ArriveInv ==
    ASSUME TypeOK, Inv, NEW r \in Requests, Arrive(r)
    PROVE  TypeOK' /\ Inv'
<1>1. PICK c \in Clients, route \in Routes, n \in Inputs, rejected \in BOOLEAN,
           traits \in SUBSET {"strong", "long", "fast"} :
        LET q == [pc |-> "new", client |-> c, route |-> route,
                  model |-> TierModel[Tier(traits)], start |-> now, since |-> 0,
                  attempt |-> 1, fallback |-> FALSE, input |-> n,
                  output |-> IF route \in Budgeted THEN Output(n) ELSE OutputTokens]
        IN  /\ Admit(r, c, route)
            /\ Becomes(r, IF Allowed(c, route) /\ ~rejected /\ q.output > 0
                          THEN Calling(q) ELSE Ended(q))
  BY DEF Arrive
<1> DEFINE output == IF route \in Budgeted THEN Output(n) ELSE OutputTokens
           model == TierModel[Tier(traits)]
<1>2. /\ now \in Nat /\ n \in Nat /\ output \in Nat /\ RequestTimeout \in Nat
      /\ requests[r].pc = "new" /\ UNCHANGED <<now, redis, threads, let, heard>>
  BY ModelCallsAssumption, OutputFits DEF TypeOK, Arrive, Running
<1>3. model \in Models
  BY ModelCallsAssumption DEF Tier, Models
<1>4. PICK q \in RequestRecords :
        /\ q.client = c /\ q.route = route /\ q.start = now /\ q.attempt = 1
        /\ q.fallback = FALSE /\ q.input = n /\ q.output = output
        /\ Admit(r, c, route)
        /\ (Becomes(r, Calling(q)) /\ q.output > 0) \/ Becomes(r, Ended(q))
  <2> DEFINE q == [pc |-> "new", client |-> c, route |-> route, model |-> model, start |-> now,
                   since |-> 0, attempt |-> 1, fallback |-> FALSE, input |-> n,
                   output |-> output]
  <2>1. q \in RequestRecords
    BY <1>2, <1>3 DEF RequestRecords, Stages
  <2>2. /\ Admit(r, c, route)
        /\ Becomes(r, IF Allowed(c, route) /\ ~rejected /\ q.output > 0
                      THEN Calling(q) ELSE Ended(q))
    BY <1>1
  <2> HIDE DEF output, model
  <2>3. QED
    BY <2>1, <2>2
<1>5. CASE Becomes(r, Calling(q)) /\ q.output > 0
  <2>1. Known(Calling(q)) /\ Timely(Calling(q))
    BY <1>2, <1>4, CallingFields DEF Known, Timely
  <2>2. Within(Calling(q))
    BY <1>2, <1>4, <1>5, CallingFields, OutputFits DEF Within
  <2>3. Calling(q) \in RequestRecords /\ Sound(Calling(q))
    BY <1>2, <2>1, <2>2, CallingFields DEF Sound
  <2>4. requests' \in [Requests -> RequestRecords] /\ CallsInv'
    BY <1>2, <1>5, <2>3, StageMove
  <2>5. QED
    BY <1>2, <1>4, <2>4, AdmitInv, FrameRedis DEF TypeOK, Inv, RedisTypes
<1>6. CASE Becomes(r, Ended(q))
  <2>1. Ended(q) \in RequestRecords /\ Sound(Ended(q))
    BY <1>4, EndedIsSound
  <2>2. requests' \in [Requests -> RequestRecords] /\ CallsInv'
    BY <1>2, <1>6, <2>1, StageMove
  <2>3. QED
    BY <1>2, <1>4, <2>2, AdmitInv, FrameRedis DEF TypeOK, Inv, RedisTypes
<1>7. QED
  BY <1>4, <1>5, <1>6

\* A retry waits only if the pause and the call after it fit the budget.
LEMMA FailsInv ==
    ASSUME TypeOK, Inv, NEW r \in Requests, NEW error, Fails(r, error)
    PROVE  TypeOK' /\ Inv'
<1>1. PICK q \in RequestRecords :
        /\ q = requests[r] /\ Sound(q) /\ q.client \in Clients
        /\ q.pc = "call" /\ q.route \in Budgeted
  BY DEF TypeOK, Inv, CallsInv, RequestsInv, Sound, Known, Fails, CallFails, Running
<1>2. UNCHANGED <<limits, heard>>
  BY DEF Fails
<1>3. CASE ~Retried(q, error)
  BY <1>1, <1>2, <1>3, GiveUpInv DEF Fails
<1>4. CASE Retried(q, error)
  <2>1. PICK pause \in Pauses(q.attempt, error) :
          Becomes(r, IF Fits(q, pause)
                     THEN [q EXCEPT !.pc = "sleep", !.since = now + pause,
                                    !.attempt = q.attempt + 1]
                     ELSE Ended(q))
    BY <1>1, <1>4 DEF Fails
  <2>2. pause \in Nat
    BY ModelCallsAssumption DEF Pauses, Backoff, Power
  <2>3. CASE Fits(q, pause)
    <3>1. now \in Nat /\ now + pause \in Nat /\ q.start \in Nat /\ q.attempt + 1 \in Nat
      BY <2>2 DEF TypeOK, RequestRecords
    <3>2. PICK p \in RequestRecords :
            /\ Becomes(r, p)
            /\ p.pc = "sleep" /\ p.since = now + pause /\ p.start = q.start
            /\ p.client = q.client /\ p.route = q.route /\ p.fallback = q.fallback
            /\ p.input = q.input /\ p.output = q.output
      <4>1. [q EXCEPT !.pc = "sleep", !.since = now + pause,
                      !.attempt = q.attempt + 1] \in RequestRecords
        BY <3>1 DEF RequestRecords, Stages
      <4>2. QED
        BY <2>1, <2>3, <4>1 DEF RequestRecords
    <3>3. now - p.start + pause + RequestTimeout <= TotalTimeout
      BY <2>3, <3>2 DEF Fits
    <3>4. Sound(p)
      <4>1. RequestTimeout \in Nat /\ TotalTimeout \in Nat
        BY ModelCallsAssumption
      <4>2. p.since + RequestTimeout <= p.start + TotalTimeout /\ now <= p.since
        BY <2>2, <3>1, <3>2, <3>3, <4>1
      <4>3. QED
        BY <1>1, <3>2, <4>2 DEF Sound, Known, Timely, Within
    <3>5. QED
      BY <1>1, <1>2, <3>2, <3>4, QuietMove
  <2>4. CASE ~Fits(q, pause)
    BY <1>1, <1>2, <2>1, <2>4, EndedIsSound, QuietMove
  <2>5. QED
    BY <2>3, <2>4
<1>5. QED
  BY <1>3, <1>4

LEMMA RetryInv ==
    ASSUME TypeOK, Inv, NEW r \in Requests, Retry(r)
    PROVE  TypeOK' /\ Inv'
<1>1. PICK q \in RequestRecords : q = requests[r] /\ Sound(q) /\ q.client \in Clients
  BY DEF TypeOK, Inv, CallsInv, RequestsInv, Sound, Known, Retry, Running
<1>2. q.pc = "sleep" /\ now = q.since /\ now \in Nat /\ RequestTimeout \in Nat
  BY <1>1, ModelCallsAssumption DEF Retry, Running, TypeOK
<1>3. Sound(Calling(q))
  BY <1>1, <1>2, CallingFields DEF Sound, Known, Timely, Within, Budgeted
<1>4. QED
  BY <1>1, <1>2, <1>3, CallingFields, QuietMove DEF Retry

LEMMA StreamOpensInv ==
    ASSUME TypeOK, Inv, NEW r \in Requests, StreamOpens(r)
    PROVE  TypeOK' /\ Inv'
<1>1. requests[r] \in RequestRecords /\ requests[r].client \in Clients /\ now \in Nat
  BY DEF TypeOK, Inv, CallsInv, RequestsInv, Sound, Known, StreamOpens, Running
<1>2. PICK q \in RequestRecords : Becomes(r, q) /\ q.pc = "stream" /\ q.client = requests[r].client
  <2>1. [requests[r] EXCEPT !.pc = "stream", !.since = now] \in RequestRecords
    BY <1>1 DEF RequestRecords, Stages
  <2>2. QED
    BY <1>1, <2>1 DEF StreamOpens, RequestRecords
<1>3. Sound(q)
  BY <1>1, <1>2 DEF Sound, Known, Timely, Within
<1>4. QED
  BY <1>1, <1>2, <1>3, QuietMove DEF StreamOpens, Running

\* The steps that may touch a thread or what was heard: what is left to show.
LEMMA OtherMove ==
    ASSUME TypeOK, Inv, NEW r \in Requests, NEW q \in RequestRecords, Becomes(r, q), Sound(q),
           q.client = requests[r].client, UNCHANGED <<now, counters, admitted, redis, let>>,
           threads' \in [Requests -> {"none", "incr", "expire", "limited", "serve"}],
           \A p \in Requests \ {r} : threads'[p] = threads[p] /\ heard'[p] = heard[p],
           threads'[r] # "none" => q.pc \in {"java", "done"},
           heard' \in [Requests -> Seq(Calls)],
           IF q.pc = "stream" THEN \A i \in DOMAIN heard'[r] : heard'[r][i] = Call(q)
           ELSE heard'[r] = <<>>
    PROVE  TypeOK' /\ Inv'
<1>1. requests' \in [Requests -> RequestRecords] /\ RequestsInv' /\ requests'[r] = q
  BY MoveInv DEF Inv, CallsInv
<1>2. \A p \in Requests \ {r} : requests'[p] = requests[p]
  BY DEF TypeOK, Becomes
<1>3. ThreadsInv'
  BY <1>1, <1>2 DEF Inv, CallsInv, ThreadsInv
<1>4. VoiceInv'
  <2>1. ASSUME NEW p \in Requests
        PROVE  IF requests'[p].pc = "stream"
               THEN \A i \in DOMAIN heard'[p] : heard'[p][i] = Call(requests'[p])
               ELSE heard'[p] = <<>>
    <3>1. CASE p = r
      BY <1>1, <3>1
    <3>2. CASE p # r
      <4>1. heard'[p] = heard[p] /\ requests'[p] = requests[p]
        BY <1>2, <3>2
      <4>2. IF requests[p].pc = "stream"
            THEN \A i \in DOMAIN heard[p] : heard[p][i] = Call(requests[p])
            ELSE heard[p] = <<>>
        BY DEF Inv, CallsInv, VoiceInv
      <4>3. QED
        BY <4>1, <4>2
    <3>3. QED
      BY <3>1, <3>2
  <2>2. \A p \in Requests : Call(requests'[p]) = Call(requests[p])'
    BY DEF Call
  <2>3. QED
    BY <2>1, <2>2, Zenon DEF VoiceInv
<1>5. TypeOK'
  BY <1>1 DEF TypeOK, WindowTypes, RedisTypes
<1>6. WindowsInv' /\ RedisInv'
  BY FrameWindows, FrameRedis DEF Inv, TypeOK
<1>7. QED
  BY <1>1, <1>3, <1>4, <1>5, <1>6 DEF Inv, CallsInv

LEMMA AsksForOrderInv ==
    ASSUME TypeOK, Inv, NEW r \in Requests, AsksForOrder(r)
    PROVE  TypeOK' /\ Inv'
<1>1. PICK q \in RequestRecords : q = requests[r] /\ Sound(q) /\ q.client \in Clients
  BY DEF TypeOK, Inv, CallsInv, RequestsInv, Sound, Known, AsksForOrder, Running
<1>2. /\ q.pc = "call" /\ q.route = "tool" /\ q.attempt = 1 /\ now \in Nat
      /\ threads[r] = "none" /\ heard[r] = <<>>
      /\ UNCHANGED <<now, counters, admitted, redis, let, heard>>
      /\ threads' = [threads EXCEPT ![r] = "incr"]
  BY <1>1 DEF AsksForOrder, Running, Go, TypeOK, RedisTypes, Inv, CallsInv, ThreadsInv, VoiceInv
<1>3. PICK p \in RequestRecords :
        Becomes(r, p) /\ p.pc = "java" /\ p.since = now /\ p.start = q.start
        /\ p.client = q.client /\ p.route = q.route
  <2>1. [q EXCEPT !.pc = "java", !.since = now] \in RequestRecords
    BY <1>2 DEF RequestRecords, Stages
  <2>2. QED
    BY <1>1, <2>1 DEF AsksForOrder, RequestRecords
<1>4. Sound(p)
  <2>1. now <= q.start + RequestTimeout /\ now <= now + JavaTimeout
    BY <1>1, <1>2, ModelCallsAssumption DEF Sound, Timely
  <2>2. QED
    BY <1>1, <1>2, <1>3, <2>1 DEF Sound, Known, Timely, Within
<1>5. QED
  BY <1>1, <1>2, <1>3, <1>4, OtherMove DEF TypeOK, RedisTypes

LEMMA ChunkInv ==
    ASSUME TypeOK, Inv, NEW r \in Requests, Chunk(r)
    PROVE  TypeOK' /\ Inv'
<1>1. PICK q \in RequestRecords : q = requests[r] /\ Sound(q) /\ q.client \in Clients
  BY DEF TypeOK, Inv, CallsInv, RequestsInv, Sound, Known, Chunk, Running
<1>2. /\ q.pc = "stream" /\ now \in Nat /\ threads[r] = "none"
      /\ UNCHANGED <<now, counters, admitted, redis, threads, let>>
      /\ heard' = [heard EXCEPT ![r] = Append(heard[r], Call(q))]
      /\ heard[r] \in Seq(Calls) /\ \A i \in DOMAIN heard[r] : heard[r][i] = Call(q)
  BY <1>1 DEF Chunk, Running, limits, TypeOK, RedisTypes, Inv, CallsInv, ThreadsInv, VoiceInv
<1>3. PICK p \in RequestRecords :
        Becomes(r, p) /\ p.pc = "stream" /\ p.client = q.client
        /\ p.attempt = q.attempt /\ p.fallback = q.fallback
  <2>1. [q EXCEPT !.since = now] \in RequestRecords
    BY <1>2 DEF RequestRecords
  <2>2. QED
    BY <1>1, <1>2, <2>1 DEF Chunk, RequestRecords
<1>4. Sound(p)
  BY <1>1, <1>3 DEF Sound, Known, Timely, Within
<1>5. Call(p) = Call(q) /\ Call(q) \in Calls
  BY <1>3 DEF Call, Calls, RequestRecords
<1>6. /\ heard' \in [Requests -> Seq(Calls)]
      /\ \A i \in DOMAIN heard'[r] : heard'[r][i] = Call(p)
      /\ \A o \in Requests \ {r} : heard'[o] = heard[o]
  <2> DEFINE more == Append(heard[r], Call(q))
  <2>1. more \in Seq(Calls) /\ \A i \in DOMAIN more : more[i] = Call(q)
    BY <1>2, <1>5
  <2>2. heard' = [heard EXCEPT ![r] = more]
    BY <1>2
  <2> HIDE DEF more
  <2>3. QED
    BY <1>5, <2>1, <2>2 DEF TypeOK
<1>7. QED
  BY <1>1, <1>2, <1>3, <1>4, <1>6, OtherMove DEF TypeOK, RedisTypes

LEMMA StreamEndsInv ==
    ASSUME TypeOK, Inv, NEW r \in Requests, StreamEnds(r)
    PROVE  TypeOK' /\ Inv'
<1>1. PICK q \in RequestRecords : q = requests[r] /\ q.client \in Clients /\ q.pc = "stream"
  BY DEF TypeOK, Inv, CallsInv, RequestsInv, Sound, Known, StreamEnds, Running
<1>2. /\ UNCHANGED <<now, counters, admitted, redis, threads, let>>
      /\ Becomes(r, Ended(q)) /\ heard' = [heard EXCEPT ![r] = <<>>]
  BY <1>1 DEF StreamEnds, limits, Finish
<1>3. heard' \in [Requests -> Seq(Calls)] /\ heard'[r] = <<>>
  BY <1>2 DEF TypeOK
<1>4. \A o \in Requests \ {r} : heard'[o] = heard[o]
  BY <1>2 DEF TypeOK
<1>5. QED
  BY <1>1, <1>2, <1>3, <1>4, EndedIsSound, OtherMove DEF TypeOK, RedisTypes

\* The answer of Java may come when the request has long gone.
LEMMA JavaAnswersInv ==
    ASSUME TypeOK, Inv, NEW r \in Requests, JavaAnswers(r)
    PROVE  TypeOK' /\ Inv'
<1>1. PICK q \in RequestRecords :
        /\ q = requests[r] /\ Sound(q) /\ q.client \in Clients
        /\ q.pc \in {"java", "done"} /\ heard[r] = <<>>
  BY DEF TypeOK, RedisTypes, Inv, CallsInv, RequestsInv, Sound, Known, ThreadsInv, VoiceInv,
         JavaAnswers
<1>2. /\ UNCHANGED <<now, counters, admitted, redis, let, heard>> /\ now \in Nat
      /\ threads' = [threads EXCEPT ![r] = "none"] /\ threads[r] # "expire"
  BY DEF JavaAnswers, Go, TypeOK
<1>3. ASSUME NEW p \in RequestRecords, Becomes(r, p), Sound(p), p.client = q.client,
             p.pc # "stream"
      PROVE  TypeOK' /\ Inv'
  BY <1>1, <1>2, <1>3, OtherMove DEF TypeOK, RedisTypes
<1>4. CASE q.pc = "java" /\ Becomes(r, Calling([q EXCEPT !.attempt = 2]))
  <2>1. PICK p \in RequestRecords :
          /\ Becomes(r, Calling(p))
          /\ p.client = q.client /\ p.route = q.route /\ p.start = q.start /\ p.attempt = 2
    <3>1. [q EXCEPT !.attempt = 2] \in RequestRecords
      BY DEF RequestRecords
    <3>2. QED
      BY <1>4, <3>1 DEF RequestRecords
  <2>2. Sound(Calling(p))
    <3>1. p.route = "tool" /\ p.route \notin Budgeted
      BY <1>1, <1>4, <2>1 DEF Sound, Timely, Budgeted
    <3>2. now <= q.start + RequestTimeout + JavaTimeout /\ now <= now + RequestTimeout
      <4>1. now <= q.since + JavaTimeout /\ q.since <= q.start + RequestTimeout
        BY <1>1, <1>4 DEF Sound, Timely
      <4>2. q.since \in Nat /\ q.start \in Nat /\ RequestTimeout \in Nat /\ JavaTimeout \in Nat
        BY ModelCallsAssumption DEF RequestRecords
      <4>3. QED
        BY <1>2, <4>1, <4>2
    <3>3. Calling(p).since <= Calling(p).start + RequestTimeout + JavaTimeout
      BY <1>2, <2>1, <3>2, CallingFields
    <3>4. QED
      BY <1>1, <1>2, <2>1, <3>1, <3>2, <3>3, CallingFields DEF Sound, Known, Timely, Within
  <2>3. QED
    BY <1>2, <1>3, <1>4, <2>1, <2>2, CallingFields
<1>5. CASE Becomes(r, IF q.pc = "java" THEN Ended(q) ELSE q)
  BY <1>1, <1>3, <1>5, EndedIsSound
<1>6. QED
  BY <1>1, <1>4, <1>5 DEF JavaAnswers

LEMMA JavaIsSilentInv ==
    ASSUME TypeOK, Inv, NEW r \in Requests, JavaIsSilent(r)
    PROVE  TypeOK' /\ Inv'
<1>1. PICK q \in RequestRecords :
        q = requests[r] /\ q.client \in Clients /\ q.pc = "java" /\ heard[r] = <<>>
  BY DEF TypeOK, Inv, CallsInv, RequestsInv, Sound, Known, VoiceInv, JavaIsSilent, Running
<1>2. UNCHANGED <<now, counters, admitted, redis, threads, let, heard>> /\ Becomes(r, Ended(q))
  BY <1>1 DEF JavaIsSilent, limits, Finish
<1>3. QED
  BY <1>1, <1>2, EndedIsSound, OtherMove DEF TypeOK, RedisTypes

----------------------------------------------------------------------------
(* The threads of the business service, restarts and the clock.            *)

\* The calls go on as before while only threads and keys change.
LEMMA ThreadMove ==
    ASSUME TypeOK, Inv, UNCHANGED <<now, counters, admitted, requests, heard>>,
           RedisTypes',
           \A r \in Requests : threads'[r] # "none" => threads[r] # "none"
    PROVE  TypeOK' /\ CallsInv' /\ WindowsInv'
<1>1. TypeOK'
  BY DEF TypeOK, WindowTypes
<1>2. RequestsInv' /\ VoiceInv'
  BY DEF Inv, CallsInv, RequestsInv, VoiceInv, Sound, Known, Timely, Within
<1>3. ThreadsInv'
  BY DEF Inv, CallsInv, ThreadsInv
<1>4. WindowsInv'
  BY FrameWindows DEF Inv, TypeOK
<1>5. QED
  BY <1>1, <1>2, <1>3, <1>4 DEF CallsInv

LEMMA ServedClient ==
    ASSUME TypeOK, Inv, NEW r \in Requests, threads[r] # "none"
    PROVE  Client[r] = requests[r].client /\ requests[r].client \in Clients
BY DEF Client, Inv, CallsInv, ThreadsInv, RequestsInv, Sound, Known

\* A command that fails may have been carried out: the counter has at least
\* what was let through.
LEMMA ServeToolInv ==
    ASSUME TypeOK, Inv, NEW r \in Requests, ServeTool(r)
    PROVE  TypeOK' /\ Inv'
<1> DEFINE c == requests[r].client
<1>0. threads[r] # "none" /\ Client[r] = c /\ c \in Clients
  BY ServedClient DEF ServeTool, Increment, SetExpiry, RedisFails
<1>1. /\ UNCHANGED <<now, counters, admitted, requests, heard>>
      /\ \A p \in Requests \ {r} : threads'[p] = threads[p]
  BY DEF ServeTool, Increment, SetExpiry, RedisFails, Go, TypeOK, RedisTypes
<1>2. CASE Increment(r, c)
  <2>1. RedisTypes' /\ RedisInv'
    BY <1>0, <1>2, IncrementInv DEF TypeOK, Inv
  <2>2. TypeOK' /\ CallsInv' /\ WindowsInv'
    BY <1>0, <1>1, <2>1, ThreadMove
  <2>3. QED
    BY <2>1, <2>2 DEF Inv
<1>3. CASE SetExpiry(r, c) \/ RedisFails(r, c)
  <2>1. /\ UNCHANGED let /\ threads' = [threads EXCEPT ![r] = "serve"]
        /\ redis' = redis \/ Increments(c) \/ Expires(c)
    BY <1>3 DEF SetExpiry, RedisFails, Go
  <2>2. now + JavaWindow \in Nat
    BY RateLimitsAssumption DEF TypeOK
  <2>3. PICK k \in [count : Nat, expires : Nat] : k.count >= redis[c].count /\ redis' = [redis EXCEPT ![c] = k]
    <3>1. redis[c] \in [count : Nat, expires : Nat] /\ redis = [redis EXCEPT ![c] = redis[c]]
      BY <1>0 DEF TypeOK, RedisTypes
    <3>2. CASE redis' = redis
      BY <3>1, <3>2
    <3>3. CASE Increments(c)
      <4> DEFINE k == [count |-> redis[c].count + 1, expires |-> redis[c].expires]
      <4>1. redis' = [redis EXCEPT ![c].count = redis[c].count + 1]
        BY <3>3 DEF Increments
      <4>2. [redis[c] EXCEPT !.count = redis[c].count + 1] = k
        BY <3>1
      <4>3. k \in [count : Nat, expires : Nat] /\ k.count >= redis[c].count
        BY <3>1
      <4>4. redis' = [redis EXCEPT ![c] = k]
        BY <4>1, <4>2
      <4>5. QED
        BY <4>3, <4>4
    <3>4. CASE Expires(c)
      <4> DEFINE k == [count |-> redis[c].count, expires |-> now + JavaWindow]
      <4>1. redis' = [redis EXCEPT ![c].expires = now + JavaWindow]
        BY <3>4 DEF Expires
      <4>2. [redis[c] EXCEPT !.expires = now + JavaWindow] = k
        BY <3>1
      <4>3. k \in [count : Nat, expires : Nat] /\ k.count >= redis[c].count
        BY <2>2, <3>1
      <4>4. redis' = [redis EXCEPT ![c] = k]
        BY <4>1, <4>2
      <4>5. QED
        BY <4>3, <4>4
    <3>5. QED
      BY <2>1, <3>2, <3>3, <3>4
  <2>4. RedisTypes'
    BY <2>1, <2>3 DEF TypeOK, RedisTypes
  <2>5. \A d \in Clients : /\ redis[d].count \in Nat /\ redis'[d].count \in Nat
                           /\ redis[d].count <= redis'[d].count
    BY <2>3 DEF TypeOK, RedisTypes
  <2>6. \A d \in Clients : LetOf(d)' = LetOf(d) /\ Cardinality(LetOf(d)) \in Nat
    BY <2>1, LetOfFinite DEF Inv, LetOf
  <2>7. \A d \in Clients : Cardinality(LetOf(d)') <= redis'[d].count
    BY <2>5, <2>6 DEF Inv, RedisInv
  <2>8. RedisInv'
    BY <2>1, <2>6, <2>7 DEF Inv, RedisInv
  <2>9. TypeOK' /\ CallsInv' /\ WindowsInv'
    BY <1>0, <1>1, <2>4, ThreadMove
  <2>10. QED
    BY <2>8, <2>9 DEF Inv
<1>4. QED
  BY <1>0, <1>2, <1>3 DEF ServeTool

LEMMA RestartInv ==
    ASSUME TypeOK, Inv, Restart
    PROVE  TypeOK' /\ Inv'
<1>1. /\ UNCHANGED <<now, counters, admitted, redis, let, requests, heard>>
      /\ threads' = [r \in Requests |-> "none"]
  BY DEF Restart, JavaDies
<1>2. RedisTypes'
  BY <1>1 DEF TypeOK, RedisTypes
<1>3. TypeOK' /\ CallsInv' /\ WindowsInv'
  BY <1>1, <1>2, ThreadMove
<1>4. QED
  BY <1>1, <1>3, FrameRedis DEF Inv

\* The clock goes on only while nothing is due.
LEMMA ClockInv ==
    ASSUME TypeOK, Inv, Tick
    PROVE  TypeOK' /\ Inv'
<1>1. /\ now \in Nat /\ now' = now + 1 /\ UNCHANGED <<counters, admitted, threads>>
      /\ UNCHANGED <<requests, heard>> /\ Advance
  BY DEF Tick, Advance, TypeOK
<1>2. RedisTypes' /\ RedisInv'
  BY <1>1, AdvanceInv DEF TypeOK, Inv
<1>3. WindowTypes' /\ WindowsInv'
  BY <1>1, TickInv DEF TypeOK, Inv
<1>4. TypeOK'
  BY <1>1, <1>2, <1>3 DEF TypeOK
<1>5. ASSUME NEW r \in Requests PROVE Sound(requests[r])'
  <2>1. PICK q \in RequestRecords : q = requests[r] /\ Sound(q) /\ requests'[r] = q /\ ~Due(q)
    BY <1>1 DEF Tick, TypeOK, Inv, CallsInv, RequestsInv
  <2>2. /\ q.since \in Nat /\ RequestTimeout \in Nat /\ JavaTimeout \in Nat
        /\ q.pc = "call" => now < q.since + RequestTimeout
        /\ q.pc = "sleep" => now < q.since
        /\ q.pc = "java" => now < q.since + JavaTimeout
    BY <1>1, <2>1, ModelCallsAssumption DEF Due, RequestRecords
  <2>3. /\ q.pc = "call" => now' <= q.since + RequestTimeout
        /\ q.pc = "sleep" => now' <= q.since
        /\ q.pc = "java" => now' <= q.since + JavaTimeout
    BY <1>1, <2>2
  <2>4. QED
    BY <1>1, <2>1, <2>3 DEF Sound, Known, Timely, Within
<1>6. RequestsInv'
  BY <1>5 DEF RequestsInv
<1>7. ThreadsInv' /\ VoiceInv'
  BY <1>1 DEF Inv, CallsInv, ThreadsInv, VoiceInv
<1>8. QED
  BY <1>2, <1>3, <1>4, <1>6, <1>7 DEF Inv, CallsInv

----------------------------------------------------------------------------
LEMMA InitInv == Init => TypeOK /\ Inv
<1> SUFFICES ASSUME Init PROVE TypeOK /\ Inv
  OBVIOUS
<1>1. now = 0 /\ admitted = {} /\ let = {}
  BY DEF Init, LimitsInit
<1>2. TypeOK
  <2>1. WindowTypes /\ RedisTypes
    BY DEF Init, LimitsInit, WindowTypes, RedisTypes, NoCounter, NoKey, Identities
  <2>2. NoRequest \in RequestRecords
    BY DEF NoRequest, RequestRecords, Stages
  <2>3. QED
    BY <2>1, <2>2 DEF Init, LimitsInit, TypeOK
<1>3. CallsInv
  BY DEF Init, LimitsInit, CallsInv, RequestsInv, ThreadsInv, VoiceInv, NoRequest, Sound, Known,
         Timely, Within
<1>4. WindowsInv
  <2>1. WindowStart \in Nat
    BY <1>1, WindowStartType
  <2>2. ASSUME NEW s \in DOMAIN Limit, NEW i \in Identities
        PROVE  /\ counters[s][i].window = 0 /\ Spent(s, i) = 0 /\ Limit[s] \in Nat
               /\ \A w : Through(s, i, w) = {}
    BY <1>1, RateLimitsAssumption
       DEF Init, LimitsInit, NoCounter, Spent, Through, Identities
  <2>3. IsFiniteSet(admitted) /\ \A a \in admitted : a.window <= WindowStart
    BY <1>1, FS_EmptySet
  <2>4. ASSUME NEW s \in DOMAIN Limit, NEW i \in Identities, NEW w
        PROVE  Cardinality(Through(s, i, w)) = 0
    BY <2>2, FS_EmptySet
  <2>5. ASSUME NEW s \in DOMAIN Limit, NEW i \in Identities
        PROVE  /\ counters[s][i].window <= WindowStart
               /\ Limit[s] > 0 => Spent(s, i) <= Limit[s]
               /\ Cardinality(Through(s, i, WindowStart)) <= Spent(s, i)
               /\ \A w \in Nat : Cardinality(Through(s, i, w)) <= Limit[s]
    BY <2>1, <2>2, <2>4
  <2>6. QED
    BY <2>3, <2>5 DEF WindowsInv
<1>5. RedisInv
  <2>1. ASSUME NEW c \in Clients PROVE LetOf(c) = {} /\ redis[c].count = 0
    BY <1>1 DEF LetOf, Init, LimitsInit, NoKey
  <2>2. QED
    BY <1>1, <2>1, FS_EmptySet, RateLimitsAssumption DEF RedisInv
<1>6. QED
  BY <1>2, <1>3, <1>4, <1>5 DEF Inv

LEMMA StepInv ==
    ASSUME TypeOK, Inv, NEW r \in Requests, Step(r)
    PROVE  TypeOK' /\ Inv'
<1>1. CASE ChatAnswers(r) \/ PlainAnswers(r) \/ ToolChatAnswers(r)
  BY <1>1, FinishInv DEF ChatAnswers, PlainAnswers, ToolChatAnswers, Running
<1>2. ASSUME NEW error, AnswersBadly(r, error) PROVE TypeOK' /\ Inv'
  BY <1>2, GiveUpInv DEF AnswersBadly, Running, Budgeted
<1>3. ASSUME NEW error, PlainFails(r, error) PROVE TypeOK' /\ Inv'
  BY <1>3, FinishInv DEF PlainFails, CallFails, Running
<1>4. QED
  BY <1>1, <1>2, <1>3, ArriveInv, RetryInv, StreamOpensInv, AsksForOrderInv, FailsInv, ChunkInv,
     StreamEndsInv, JavaAnswersInv, JavaIsSilentInv DEF Step

LEMMA NextInv == TypeOK /\ Inv /\ [Next]_vars => TypeOK' /\ Inv'
<1> SUFFICES ASSUME TypeOK, Inv, [Next]_vars PROVE TypeOK' /\ Inv'
  OBVIOUS
<1>1. CASE UNCHANGED vars
  <2>1. UNCHANGED <<now, counters, admitted, redis, threads, let, requests, heard>>
    BY <1>1 DEF vars, limits
  <2>2. RedisTypes'
    BY <2>1 DEF TypeOK, RedisTypes
  <2>3. QED
    BY <2>1, <2>2, ThreadMove, FrameRedis DEF Inv
<1>2. QED
  BY <1>1, StepInv, ServeToolInv, RestartInv, ClockInv DEF Next

LEMMA Invariance == Spec => [](TypeOK /\ Inv)
BY InitInv, NextInv, PTL DEF Spec

\* Every variable keeps its type, whatever the limits, budgets and failures.
THEOREM TypeCorrect == Spec => []TypeOK
BY Invariance, PTL

\* In no window does a client or a route get more requests through than its
\* limit, nor a client more tool calls through a window of Redis.
THEOREM QuotasAreKept == Spec => []QuotaKept
<1>1. TypeOK /\ Inv => QuotaKept
  <2> SUFFICES ASSUME TypeOK, Inv PROVE QuotaKept
    OBVIOUS
  <2>1. ASSUME NEW a \in admitted
        PROVE  Cardinality({b \in admitted : /\ b.scope = a.scope /\ b.identity = a.identity
                                              /\ b.window = a.window}) <= Limit[a.scope]
    <3>1. a.scope \in DOMAIN Limit /\ a.identity \in Identities /\ a.window \in Nat
      BY DEF TypeOK, WindowTypes, Admissions
    <3>2. QED
      BY <3>1 DEF Inv, WindowsInv, Through
  <2>2. ASSUME NEW c \in Clients
        PROVE  Cardinality({e \in let : e.client = c}) <= JavaLimit
    BY DEF Inv, RedisInv, LetOf
  <2>3. QED
    BY <2>1, <2>2 DEF QuotaKept
<1>2. QED
  BY <1>1, Invariance, PTL

\* Retries, pauses and the fallback stay within the total time budget.
THEOREM AnswersAreInTime == Spec => []AnsweredInTime
<1>1. TypeOK /\ Inv => AnsweredInTime
  <2> SUFFICES ASSUME TypeOK, Inv, NEW r \in Requests
               PROVE  LET q == requests[r]
                          spent == now - q.start
                      IN  /\ q.pc \in {"call", "sleep"} /\ q.route \in Budgeted =>
                                spent <= TotalTimeout \/ spent <= RequestTimeout
                          /\ q.pc \in {"call", "java"} /\ q.route = "tool" =>
                                spent <= 2 * RequestTimeout + JavaTimeout
    BY DEF AnsweredInTime
  <2>1. PICK q \in RequestRecords : q = requests[r] /\ Timely(q)
    BY DEF TypeOK, Inv, CallsInv, RequestsInv, Sound
  <2>2. /\ now \in Nat /\ q.since \in Nat /\ q.start \in Nat
        /\ RequestTimeout \in Nat /\ TotalTimeout \in Nat /\ JavaTimeout \in Nat
    BY ModelCallsAssumption DEF TypeOK, RequestRecords
  <2>3. q.pc \in {"call", "sleep"} /\ q.route \in Budgeted =>
          now - q.start <= TotalTimeout \/ now - q.start <= RequestTimeout
    BY <2>1, <2>2 DEF Timely
  <2>4. q.pc \in {"call", "java"} /\ q.route = "tool" =>
          now - q.start <= 2 * RequestTimeout + JavaTimeout
    BY <2>1, <2>2 DEF Timely
  <2>5. QED
    BY <2>1, <2>3, <2>4
<1>2. QED
  BY <1>1, Invariance, PTL

\* Whatever attempt or model a call belongs to, its tokens are within the
\* budget of a request, and those of a fallback within its threshold.
THEOREM TokensAreWithinBudget == Spec => []WithinTokenBudget
<1>1. Inv => WithinTokenBudget
  BY DEF Inv, CallsInv, RequestsInv, Sound, Within, WithinTokenBudget
<1>2. QED
  BY <1>1, Invariance, PTL

\* What a client of /stream-chat has heard comes from one call of the model.
THEOREM StreamsHaveOneVoice == Spec => []OneVoice
<1>1. Inv => OneVoice
  BY DEF Inv, CallsInv, VoiceInv, OneVoice
<1>2. QED
  BY <1>1, Invariance, PTL
=============================================================================
