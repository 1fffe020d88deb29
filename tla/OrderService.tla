---------------------------- MODULE OrderService ----------------------------
(***************************************************************************)
(* OrderServiceImpl of java-business-service: queryOrder, refundOrder and  *)
(* cancelOrder as they run in several servlet threads at once.  A request  *)
(* is a sequence of steps over three stores that do not change together:   *)
(* the MySQL tables orders and order_events (one transaction per refund or *)
(* cancel), the Redis order cache and the Redis idempotency cache.  The    *)
(* ticket service writes the same idempotency cache.                       *)
(*                                                                         *)
(* Requests refused before any store is read (a malformed id, a reason too *)
(* long, an order id without a row) change nothing and are left out.       *)
(***************************************************************************)
EXTENDS OrderLedger, Naturals

CONSTANTS
    Workers,         \* servlet threads
    None,            \* no thread
    Miss,            \* a cache entry that is absent or has expired
    TicketEntry,     \* an idempotency entry written by the ticket service
    NoSnapshot,      \* a transaction that has not read yet
    Owner,           \* Owner[o]: the user whose order o is
    Requests,        \* the requests clients send
    TicketKeys,      \* keys that are also used to create a ticket
    RepeatableRead,  \* MySQL's default isolation; FALSE is READ COMMITTED
    RedisFaults,     \* whether a Redis call may fail (and is swallowed)
    MaxRequests,     \* bound on the requests of a behaviour
    MaxAborts        \* bound on the requests killed before their commit

Request == [op: Operation \cup {"query"}, order: Orders, reason: Reasons,
            user: Users, key: Keys \cup {NoKey}]

ASSUME ConstantsAssumption ==
    /\ NoKey \notin Keys
    /\ None \notin Workers
    /\ Miss \notin Row \cup Fingerprint \cup {TicketEntry}
    /\ TicketEntry \notin Fingerprint
    /\ NoSnapshot \notin [rows: [Orders -> Row], events: SUBSET Event]
    /\ Owner \in [Orders -> Users]
    /\ Requests \subseteq Request
    /\ Requests # {}
    /\ TicketKeys \subseteq Keys
    /\ RepeatableRead \in BOOLEAN
    /\ RedisFaults \in BOOLEAN
    /\ MaxRequests \in Nat
    /\ MaxAborts \in Nat
    /\ EventIds = Nat

\* Before any request an order is neither refunded nor canceled, and a legacy
\* event is the only one of its order and of its key.
ASSUME InitialAssumption ==
    /\ InitialRows \subseteq {row \in Row : ~Settled(row)}
    /\ LegacyEvents \subseteq
          {e \in Event : e.fp.op = "none" /\ e.fp.order = e.order /\ e.id = 0}
    /\ \A e, f \in LegacyEvents : e.order = f.order => e = f
    /\ \A e, f \in LegacyEvents : e.key = f.key /\ e.key # NoKey => e = f

VARIABLES
    orderCache,   \* Redis: order id -> cached row
    idemCache,    \* Redis: idempotency key -> fingerprint of who used it
    rowLock,      \* rowLock[o]: the thread whose transaction updated order o
    pc,           \* where each thread is
    req,          \* the request it serves
    reqId,        \* and its number, which names the event it may write
    hit,          \* what its idempotency cache lookup gave
    replay,       \* TRUE: it is answering with an earlier request's result
    loaded,       \* the Order object it holds
    inserted,     \* TRUE: its transaction inserted an order event
    snapshot,     \* the consistent read view of its transaction
    reply,        \* how its last request ended
    served,       \* requests begun
    aborts        \* requests killed

cacheVars == <<orderCache, idemCache>>
threadVars == <<pc, req, reqId, hit, replay, loaded, inserted, snapshot, reply>>
boundVars == <<served, aborts>>
vars == <<rows, events, orderCache, idemCache, rowLock, pc, req, reqId, hit,
          replay, loaded, inserted, snapshot, reply, served, aborts>>

Stage == {"idle", "lookup", "select", "load", "fetch", "fill", "check",
          "update", "put", "insert", "remember", "commit"}
Reply == {"none", "ok", "denied", "not_allowed", "already", "conflict",
          "error", "lost"}
Hit == {"none", "same", "legacy", "other"}

TypeOK ==
    /\ rows \in [Orders -> Row]
    /\ events \in SUBSET Event
    /\ orderCache \in [Orders -> Row \cup {Miss}]
    /\ idemCache \in [Keys -> Fingerprint \cup {Miss, TicketEntry}]
    /\ rowLock \in [Orders -> Workers \cup {None}]
    /\ pc \in [Workers -> Stage]
    /\ req \in [Workers -> Requests]
    /\ reqId \in [Workers -> Nat]
    /\ hit \in [Workers -> Hit]
    /\ replay \in [Workers -> BOOLEAN]
    /\ loaded \in [Workers -> Row]
    /\ inserted \in [Workers -> BOOLEAN]
    /\ snapshot \in [Workers -> [rows: [Orders -> Row], events: SUBSET Event]
                                  \cup {NoSnapshot}]
    /\ reply \in [Workers -> Reply]
    /\ served \in Nat
    /\ aborts \in Nat

\* What a thread holds when it holds no Order object.
Blank == [orderStatus |-> "waiting_shipment", paymentStatus |-> "unpaid"]

Init ==
    /\ LedgerInit
    /\ orderCache = [o \in Orders |-> Miss]
    \* The upgrade finds the old program's entries still in Redis, or expired.
    /\ \E kept \in SUBSET LegacyEvents :
          idemCache = [k \in Keys |->
                         IF \E e \in kept : e.key = k
                         THEN (CHOOSE e \in kept : e.key = k).fp
                         ELSE Miss]
    /\ rowLock = [o \in Orders |-> None]
    /\ pc = [w \in Workers |-> "idle"]
    /\ req = [w \in Workers |-> CHOOSE r \in Requests : TRUE]
    /\ reqId = [w \in Workers |-> 0]
    /\ hit = [w \in Workers |-> "none"]
    /\ replay = [w \in Workers |-> FALSE]
    /\ loaded = [w \in Workers |-> Blank]
    /\ inserted = [w \in Workers |-> FALSE]
    /\ snapshot = [w \in Workers |-> NoSnapshot]
    /\ reply = [w \in Workers |-> "none"]
    /\ served = 0
    /\ aborts = 0

----------------------------------------------------------------------------
\* Mutant: the fingerprint of before the upgrade.
FingerprintOf_NoOperation(r) ==
    [order |-> r.order, reason |-> r.reason, user |-> r.user, op |-> "none"]

FingerprintOf(r) ==
    [order |-> r.order, reason |-> r.reason, user |-> r.user, op |-> r.op]

\* The algorithm used before refunds and cancels were told apart.
LegacyFingerprintOf(r) == [FingerprintOf(r) EXCEPT !.op = "none"]

EventOf(w) == [id |-> reqId[w], order |-> req[w].order, op |-> req[w].op,
               key |-> req[w].key, fp |-> FingerprintOf(req[w])]

Writes(r) == r.op # "query"

\* The transaction of w has updated its order and not ended.
Holds(w) == rowLock[req[w].order] = w

\* A Redis read that fails is logged and taken for a miss.
RedisGet(entry) == IF RedisFaults THEN {entry, Miss} ELSE {entry}

\* A Redis write that fails is logged and lost.
RedisPut(old, new) == IF RedisFaults THEN {old, new} ELSE {new}

\* The read view of w's transaction: refundOrder and cancelOrder are
\* @Transactional, so under REPEATABLE READ the first SELECT fixes it;
\* queryOrder reads in autocommit mode.
ViewAt(w) == IF snapshot[w] # NoSnapshot
             THEN snapshot[w]
             ELSE [rows |-> rows, events |-> events]

KeepView(w) ==
    snapshot' = IF RepeatableRead /\ Writes(req[w])
                THEN [snapshot EXCEPT ![w] = ViewAt(w)]
                ELSE snapshot

\* A transaction sees its own update.
RowSeen(w) == IF Holds(w)
              THEN Applied(req[w].op, rows[req[w].order])
              ELSE ViewAt(w).rows[req[w].order]

Goto(w, stage) == pc' = [pc EXCEPT ![w] = stage]

\* Mutant: the connection goes back to the pool with its transaction open.
Released_Nothing(w) == rowLock

Released(w) == [o \in Orders |-> IF rowLock[o] = w THEN None ELSE rowLock[o]]

\* The transaction of w ends and the client is answered: the row lock is
\* released and the thread keeps nothing but the request and its outcome.
End(w, outcome) ==
    /\ Goto(w, "idle")
    /\ reply' = [reply EXCEPT ![w] = outcome]
    /\ hit' = [hit EXCEPT ![w] = "none"]
    /\ replay' = [replay EXCEPT ![w] = FALSE]
    /\ loaded' = [loaded EXCEPT ![w] = Blank]
    /\ inserted' = [inserted EXCEPT ![w] = FALSE]
    /\ snapshot' = [snapshot EXCEPT ![w] = NoSnapshot]
    /\ rowLock' = Released(w)
    /\ UNCHANGED <<req, reqId, cacheVars, served>>

\* An exception leaves the @Transactional method: nothing is committed.
Rollback(w, outcome) ==
    /\ End(w, outcome)
    /\ UNCHANGED <<rows, events>>

----------------------------------------------------------------------------
Begin(w, r) ==
    /\ pc[w] = "idle"
    /\ served < MaxRequests
    /\ served' = served + 1
    /\ req' = [req EXCEPT ![w] = r]
    /\ reqId' = [reqId EXCEPT ![w] = served + 1]
    /\ reply' = [reply EXCEPT ![w] = "none"]
    /\ Goto(w, IF Writes(r) /\ r.key # NoKey THEN "lookup" ELSE "load")
    /\ UNCHANGED <<rows, events, cacheVars, rowLock, hit, replay, loaded,
                   inserted, snapshot, aborts>>

\* What the idempotency cache entry of r's key says of r.
HitOf(entry, r) == IF entry = Miss THEN "none"
                   ELSE IF entry = FingerprintOf(r) THEN "same"
                   ELSE IF entry = LegacyFingerprintOf(r) THEN "legacy"
                   ELSE "other"

\* findOrderByIdempotency, first half: ticketIdempotencyCache.get.
Lookup(w) ==
    /\ pc[w] = "lookup"
    /\ \E entry \in RedisGet(idemCache[req[w].key]) :
          /\ hit' = [hit EXCEPT ![w] = HitOf(entry, req[w])]
          /\ replay' = [replay EXCEPT ![w] = entry = FingerprintOf(req[w])]
          /\ Goto(w, IF entry = FingerprintOf(req[w]) THEN "load" ELSE "select")
    /\ UNCHANGED <<rows, events, cacheVars, rowLock, req, reqId, loaded,
                   inserted, snapshot, reply, boundVars>>

\* Mutant: events of before the upgrade are not recognised.
Answers_NewOnly(e, w) ==
    /\ hit[w] = "none"
    /\ e.fp = FingerprintOf(req[w])

\* The event is an earlier answer to this request: the fingerprints agree, or
\* only the legacy ones do and the event is of the same operation.
Answers(e, w) ==
    \/ /\ hit[w] = "none"
       /\ e.fp = FingerprintOf(req[w])
    \/ /\ hit[w] = "none"
       /\ e.fp = LegacyFingerprintOf(req[w])
       /\ e.op = req[w].op
    \/ /\ hit[w] = "legacy"
       /\ e.op = req[w].op

\* findOrderByIdempotency, second half: the SELECT on order_events.  A first
\* call that finds nothing goes on to the order; the call made after a
\* DuplicateKeyException rethrows it.
SelectEvent(w) ==
    /\ pc[w] = "select"
    /\ LET found == {e \in ViewAt(w).events : e.key = req[w].key}
       IN \/ /\ \E e \in found : Answers(e, w)
             /\ replay' = [replay EXCEPT ![w] = TRUE]
             /\ Goto(w, "load")
             /\ KeepView(w)
             /\ UNCHANGED <<rows, events, cacheVars, rowLock, req, reqId, hit,
                            loaded, inserted, reply, boundVars>>
          \/ /\ found = {}
             /\ hit[w] # "legacy"
             /\ ~Holds(w)
             /\ Goto(w, "load")
             /\ KeepView(w)
             /\ UNCHANGED <<rows, events, cacheVars, rowLock, req, reqId, hit,
                            replay, loaded, inserted, reply, boundVars>>
          \/ /\ found = {}
             /\ hit[w] # "legacy"
             /\ Holds(w)
             /\ Rollback(w, "error")
             /\ UNCHANGED aborts
          \/ /\ found # {} \/ hit[w] = "legacy"
             /\ \A e \in found : ~Answers(e, w)
             /\ Rollback(w, "conflict")
             /\ UNCHANGED aborts

\* loadOrder: the order cache, else ...
Load(w) ==
    /\ pc[w] = "load"
    /\ \E entry \in RedisGet(orderCache[req[w].order]) :
          IF entry = Miss
          THEN /\ Goto(w, "fetch")
               /\ UNCHANGED loaded
          ELSE /\ loaded' = [loaded EXCEPT ![w] = entry]
               /\ Goto(w, "check")
    /\ UNCHANGED <<rows, events, cacheVars, rowLock, req, reqId, hit, replay,
                   inserted, snapshot, reply, boundVars>>

\* ... the row in the database, which ...
Fetch(w) ==
    /\ pc[w] = "fetch"
    /\ loaded' = [loaded EXCEPT ![w] = RowSeen(w)]
    /\ KeepView(w)
    /\ Goto(w, "fill")
    /\ UNCHANGED <<rows, events, cacheVars, rowLock, req, reqId, hit, replay,
                   inserted, reply, boundVars>>

\* ... is put in the cache.
Fill(w) ==
    /\ pc[w] = "fill"
    /\ \E entry \in RedisPut(orderCache[req[w].order], loaded[w]) :
          orderCache' = [orderCache EXCEPT ![req[w].order] = entry]
    /\ Goto(w, "check")
    /\ UNCHANGED <<rows, events, idemCache, rowLock, req, reqId, hit, replay,
                   loaded, inserted, snapshot, reply, boundVars>>

\* Mutant: every order that cannot be settled any more is called settled.
Verdict_Merged(r, row) ==
    IF Owner[r.order] # r.user THEN "denied"
    ELSE IF r.op = "query" THEN "ok"
    ELSE IF Settled(row) \/ row.orderStatus # "waiting_shipment" THEN "already"
    ELSE "update"

\* checkAccess, then the status checks of the operation on the loaded Order.
Verdict(r, row) ==
    IF Owner[r.order] # r.user THEN "denied"
    ELSE CASE r.op = "query" -> "ok"
           [] r.op = "refund" ->
                IF row.orderStatus # "waiting_shipment" THEN "not_allowed"
                ELSE IF row.paymentStatus = "refunded" THEN "already"
                ELSE "update"
           [] r.op = "cancel" ->
                IF Settled(row) THEN "already"
                ELSE IF row.orderStatus # "waiting_shipment" THEN "not_allowed"
                ELSE "update"

\* A replayed answer is returned without the checks; in the catch branch the
\* method returns normally and its transaction commits.
Check(w) ==
    /\ pc[w] = "check"
    /\ LET verdict == Verdict(req[w], loaded[w])
       IN \/ /\ (replay[w] /\ Holds(w)) \/ (~replay[w] /\ verdict = "update")
             /\ Goto(w, IF replay[w] THEN "commit" ELSE "update")
             /\ UNCHANGED <<rows, events, cacheVars, rowLock, req, reqId, hit,
                            replay, loaded, inserted, snapshot, reply, served>>
          \/ /\ replay[w]
             /\ ~Holds(w)
             /\ Rollback(w, "ok")
          \/ /\ ~replay[w]
             /\ verdict # "update"
             /\ Rollback(w, verdict)
    /\ UNCHANGED aborts

\* Mutant: the Order that was loaded is checked, not the row.
RowMatches_Loaded(w) == Updatable(req[w].op, loaded[w])

\* The WHERE clause matches the committed row.
RowMatches(w) == Updatable(req[w].op, rows[req[w].order])

\* updateRefundState or updateCancelState: waits for the row, then updates it
\* if the committed row still allows it; no row updated is an exception.
Update(w) ==
    /\ pc[w] = "update"
    /\ rowLock[req[w].order] = None
    /\ \/ /\ RowMatches(w)
          /\ rowLock' = [rowLock EXCEPT ![req[w].order] = w]
          /\ loaded' = [loaded EXCEPT ![w] = Applied(req[w].op, @)]
          /\ Goto(w, "put")
          /\ UNCHANGED <<rows, events, cacheVars, req, reqId, hit, replay,
                         inserted, snapshot, reply, served>>
       \/ /\ ~RowMatches(w)
          /\ Rollback(w, "already")
    /\ UNCHANGED aborts

\* orderCache.put(order), before the transaction has committed.
Put(w) ==
    /\ pc[w] = "put"
    /\ \E entry \in RedisPut(orderCache[req[w].order], loaded[w]) :
          orderCache' = [orderCache EXCEPT ![req[w].order] = entry]
    /\ Goto(w, "insert")
    /\ UNCHANGED <<rows, events, idemCache, rowLock, req, reqId, hit, replay,
                   loaded, inserted, snapshot, reply, boundVars>>

\* Another open transaction has inserted an event with the same key.
KeyAwaited(w) ==
    /\ req[w].key # NoKey
    /\ \E v \in Workers \ {w} : inserted[v] /\ req[v].key = req[w].key

\* Mutant: INSERT IGNORE.
Insert_IgnoreDuplicate(w) ==
    /\ pc[w] = "insert"
    /\ ~KeyAwaited(w)
    /\ inserted' = [inserted EXCEPT ![w] = ~KeySpent(req[w].key)]
    /\ Goto(w, "commit")
    /\ UNCHANGED <<rows, events, cacheVars, rowLock, req, reqId, hit, replay,
                   loaded, snapshot, reply, boundVars>>

\* insertOrderEvent: waits for an uncommitted event with the key to commit or
\* vanish; a committed one makes it throw DuplicateKeyException, caught by
\* looking the key up again with the row still locked.
Insert(w) ==
    /\ pc[w] = "insert"
    /\ ~KeyAwaited(w)
    /\ IF KeySpent(req[w].key)
       THEN /\ Goto(w, "lookup")
            /\ UNCHANGED inserted
       ELSE /\ inserted' = [inserted EXCEPT ![w] = TRUE]
            /\ Goto(w, IF req[w].key # NoKey THEN "remember" ELSE "commit")
    /\ UNCHANGED <<rows, events, cacheVars, rowLock, req, reqId, hit, replay,
                   loaded, snapshot, reply, boundVars>>

\* ticketIdempotencyCache.put, also before the commit.
Remember(w) ==
    /\ pc[w] = "remember"
    /\ \E entry \in RedisPut(idemCache[req[w].key], FingerprintOf(req[w])) :
          idemCache' = [idemCache EXCEPT ![req[w].key] = entry]
    /\ Goto(w, "commit")
    /\ UNCHANGED <<rows, events, orderCache, rowLock, req, reqId, hit, replay,
                   loaded, inserted, snapshot, reply, boundVars>>

Commit(w) ==
    /\ pc[w] = "commit"
    /\ rows' = [rows EXCEPT ![req[w].order] = Applied(req[w].op, @)]
    /\ events' = IF inserted[w] THEN events \cup {EventOf(w)} ELSE events
    /\ End(w, "ok")
    /\ UNCHANGED aborts

----------------------------------------------------------------------------
\* The thread, its connection or the commit itself fails: MySQL rolls back,
\* Redis keeps what was put, the client has no answer.
Abort(w) ==
    /\ pc[w] # "idle"
    /\ aborts < MaxAborts
    /\ aborts' = aborts + 1
    /\ Rollback(w, "lost")

\* order_cache_ttl_seconds and ticket_idempotency_ttl_seconds run out.
ExpireOrder(o) ==
    /\ orderCache[o] # Miss
    /\ orderCache' = [orderCache EXCEPT ![o] = Miss]
    /\ UNCHANGED <<rows, events, idemCache, rowLock, threadVars, boundVars>>

ExpireKey(k) ==
    /\ idemCache[k] # Miss
    /\ idemCache' = [idemCache EXCEPT ![k] = Miss]
    /\ UNCHANGED <<rows, events, orderCache, rowLock, threadVars, boundVars>>

\* TicketServiceImpl.rememberIdempotency: a ticket created under the key.
RememberTicket(k) ==
    /\ idemCache[k] # TicketEntry
    /\ idemCache' = [idemCache EXCEPT ![k] = TicketEntry]
    /\ UNCHANGED <<rows, events, orderCache, rowLock, threadVars, boundVars>>

\* What a thread does once it has a request.
Proceed(w) ==
    \/ Lookup(w) \/ SelectEvent(w) \/ Load(w) \/ Fetch(w) \/ Fill(w)
    \/ Check(w) \/ Update(w) \/ Put(w) \/ Insert(w) \/ Remember(w)
    \/ Commit(w)

Next ==
    \/ \E w \in Workers, r \in Requests : Begin(w, r)
    \/ \E w \in Workers : Proceed(w)
    \/ \E w \in Workers : Abort(w)
    \/ \E o \in Orders : ExpireOrder(o)
    \/ \E k \in Keys : ExpireKey(k)
    \/ \E k \in TicketKeys : RememberTicket(k)

Spec == Init /\ [][Next]_vars

\* A servlet thread keeps running: the JVM schedules it and MySQL grants a row
\* lock that has become free.
FairSpec == Spec /\ \A w \in Workers : WF_vars(Proceed(w))

----------------------------------------------------------------------------
Answered(w) == pc[w] = "idle" /\ reply[w] # "none"

\* The order of w's last request is inside somebody's open transaction.
InFlight(w) == rowLock[req[w].order] # None

\* A refund or cancel answered with success has its audit event, or the
\* transaction whose result the client was shown is still open: success is
\* never reported for something that was not executed, which the comment on
\* fingerprint (OrderServiceImpl.java 411-414) names as the failure to avoid.
SuccessMeansExecuted ==
    \A w \in Workers :
        Answered(w) /\ reply[w] = "ok" /\ Writes(req[w]) /\ ~InFlight(w)
          => \E e \in events : e.order = req[w].order /\ e.op = req[w].op

\* REFUND_ALREADY_EXISTS, CANCEL_ALREADY_EXISTS: nobody is told that an order
\* was settled while it is still open, although the answer may have come from
\* the cache (loadOrder, OrderServiceImpl.java 169-177).
RefusalIsTrue ==
    \A w \in Workers :
        Answered(w) /\ reply[w] = "already" /\ ~InFlight(w)
          => Settled(rows[req[w].order])

\* The contract of findOrderByIdempotency (OrderServiceImpl.java 192-198): a
\* key reused with the same parameters gives the first result, before and
\* after the upgrade of the fingerprint; it is never a key conflict.
RetryKeepsItsAnswer ==
    \A w \in Workers :
        Answered(w) /\ reply[w] = "conflict"
          => ~ \E e \in events :
                 /\ e.key = req[w].key
                 /\ \/ e.fp = FingerprintOf(req[w])
                    \/ e.fp = LegacyFingerprintOf(req[w]) /\ e.op = req[w].op

\* The order cache is refreshed so that queryOrder and replayed answers do
\* not read the row of before the refund (OrderServiceImpl.java 307 and 363):
\* once the transaction has ended, what is cached of a settled order is its
\* row.
NoStaleOrderCache ==
    \A o \in Orders :
        Settled(rows[o]) /\ rowLock[o] = None => orderCache[o] \in {Miss, rows[o]}

\* Every request is answered: threads that wait for a row lock or for another
\* transaction's event with their key never wait for each other.
EveryRequestAnswered ==
    \A w \in Workers : pc[w] # "idle" ~> pc[w] = "idle"
=============================================================================
