--------------------------- MODULE TicketCreation ---------------------------
(***************************************************************************)
(* TicketServiceImpl.createTicket of java-business-service, as it runs in  *)
(* several servlet threads at once: one transaction over the table tickets *)
(* and the Redis idempotency cache, which refunds and cancels write too.   *)
(* Unlike the order write path it believes a cache entry only as far as    *)
(* the ticket it names is in the table.                                    *)
(*                                                                         *)
(* Requests refused before a ticket is looked up (no key, a key of the     *)
(* wrong form, an order that is not the user's or takes no tickets) change *)
(* nothing and are left out.                                               *)
(***************************************************************************)
EXTENDS Naturals

CONSTANTS
    Workers,         \* servlet threads
    Keys,            \* idempotency keys
    Contents,        \* what the request fingerprint is the hash of
    NamesOrder,      \* the contents that name a related order
    OrderKeys,       \* keys that are also used for a refund or a cancel
    OrderEntry,      \* an idempotency entry written by the order service
    Miss,            \* a cache entry that is absent or has expired
    NoSnapshot,      \* a transaction that has not read yet
    RepeatableRead,  \* MySQL's default isolation; FALSE is READ COMMITTED
    RedisFaults,     \* whether a Redis call may fail (and is swallowed)
    MaxRequests,     \* bound on the requests of a behaviour
    MaxAborts        \* bound on the requests killed before their commit

Request == [key: Keys, content: Contents]

\* The number of the request that inserted a ticket is its id; 0 is no ticket.
TicketIds == 1 .. MaxRequests
Ticket == [id: TicketIds, key: Keys, content: Contents]
Entry == [content: Contents, id: TicketIds]

\* What a transaction sees of the table.
View == [tickets: SUBSET Ticket]

ASSUME CreationAssumption ==
    /\ Keys # {} /\ Contents # {}
    /\ NamesOrder \subseteq Contents
    /\ OrderKeys \subseteq Keys
    /\ Miss \notin Entry \cup {OrderEntry}
    /\ OrderEntry \notin Entry
    /\ NoSnapshot \notin View
    /\ RepeatableRead \in BOOLEAN
    /\ RedisFaults \in BOOLEAN
    /\ MaxRequests \in Nat
    /\ MaxAborts \in Nat

VARIABLES
    tickets,    \* the committed rows of tickets
    idemCache,  \* Redis: idempotency key -> the request and its ticket
    pc,         \* where each thread is
    req,        \* the request it serves
    reqId,      \* and its number
    cached,     \* the idempotency entry it found
    answer,     \* the ticket it answers with
    inserted,   \* TRUE: its transaction inserted the ticket
    snapshot,   \* the consistent read view of its transaction
    reply,      \* how its last request ended
    served,     \* requests begun
    aborts      \* requests killed

boundVars == <<served, aborts>>
threadVars == <<pc, req, reqId, cached, answer, inserted, snapshot, reply>>
vars == <<tickets, idemCache, pc, req, reqId, cached, answer, inserted,
          snapshot, reply, served, aborts>>

TypeOK ==
    /\ tickets \in SUBSET Ticket
    /\ idemCache \in [Keys -> Entry \cup {OrderEntry, Miss}]
    /\ pc \in [Workers -> {"idle", "validate", "lookup", "verify", "select",
                           "insert", "reselect", "remember", "commit"}]
    /\ req \in [Workers -> Request]
    /\ reqId \in [Workers -> 0 .. MaxRequests]
    /\ cached \in [Workers -> Entry \cup {OrderEntry, Miss}]
    /\ answer \in [Workers -> 0 .. MaxRequests]
    /\ inserted \in [Workers -> BOOLEAN]
    /\ snapshot \in [Workers -> View \cup {NoSnapshot}]
    /\ reply \in [Workers -> {"none", "ok", "conflict", "error", "lost"}]
    /\ served \in 0 .. MaxRequests
    /\ aborts \in 0 .. MaxAborts

Init ==
    /\ tickets = {}
    /\ idemCache = [k \in Keys |-> Miss]
    /\ pc = [w \in Workers |-> "idle"]
    /\ req = [w \in Workers |-> CHOOSE r \in Request : TRUE]
    /\ reqId = [w \in Workers |-> 0]
    /\ cached = [w \in Workers |-> Miss]
    /\ answer = [w \in Workers |-> 0]
    /\ inserted = [w \in Workers |-> FALSE]
    /\ snapshot = [w \in Workers |-> NoSnapshot]
    /\ reply = [w \in Workers |-> "none"]
    /\ served = 0
    /\ aborts = 0

----------------------------------------------------------------------------
RedisGet(entry) == IF RedisFaults THEN {entry, Miss} ELSE {entry}
RedisPut(old, new) == IF RedisFaults THEN {old, new} ELSE {new}

\* createTicket is @Transactional: its first SELECT fixes what it reads.
ViewAt(w) == IF snapshot[w] # NoSnapshot THEN snapshot[w].tickets ELSE tickets

KeepView(w) == snapshot' = IF RepeatableRead
                           THEN [snapshot EXCEPT ![w] = [tickets |-> ViewAt(w)]]
                           ELSE snapshot

Goto(w, stage) == pc' = [pc EXCEPT ![w] = stage]

\* Mutant: the connection goes back to the pool with its transaction open.
Released_Nothing(w) == inserted

Released(w) == [inserted EXCEPT ![w] = FALSE]

\* The transaction of w ends and the client is answered.
End(w, outcome, id) ==
    /\ Goto(w, "idle")
    /\ reply' = [reply EXCEPT ![w] = outcome]
    /\ answer' = [answer EXCEPT ![w] = id]
    /\ cached' = [cached EXCEPT ![w] = Miss]
    /\ inserted' = Released(w)
    /\ snapshot' = [snapshot EXCEPT ![w] = NoSnapshot]
    /\ UNCHANGED <<req, reqId, served>>

Rollback(w, outcome, id) ==
    /\ End(w, outcome, id)
    /\ UNCHANGED <<tickets, idemCache>>

----------------------------------------------------------------------------
Begin(w, r) ==
    /\ pc[w] = "idle"
    /\ served < MaxRequests
    /\ served' = served + 1
    /\ req' = [req EXCEPT ![w] = r]
    /\ reqId' = [reqId EXCEPT ![w] = served + 1]
    /\ reply' = [reply EXCEPT ![w] = "none"]
    /\ answer' = [answer EXCEPT ![w] = 0]
    /\ Goto(w, IF r.content \in NamesOrder THEN "validate" ELSE "lookup")
    /\ UNCHANGED <<tickets, idemCache, cached, inserted, snapshot, aborts>>

\* validateRelatedOrder: a SELECT on orders, which opens the read view.
Validate(w) ==
    /\ pc[w] = "validate"
    /\ KeepView(w)
    /\ Goto(w, "lookup")
    /\ UNCHANGED <<tickets, idemCache, req, reqId, cached, answer, inserted,
                   reply, boundVars>>

\* findFromIdempotencyCache: the entry ...
Lookup(w) ==
    /\ pc[w] = "lookup"
    /\ \E entry \in RedisGet(idemCache[req[w].key]) :
          /\ cached' = [cached EXCEPT ![w] = entry]
          /\ Goto(w, IF entry = Miss THEN "select" ELSE "verify")
    /\ UNCHANGED <<tickets, idemCache, req, reqId, answer, inserted, snapshot,
                   reply, boundVars>>

\* Mutant: an entry is believed without looking for its ticket.
Named_Unseen(w) ==
    IF cached[w] \in {OrderEntry, Miss} THEN {}
    ELSE {[id |-> cached[w].id, key |-> req[w].key, content |-> cached[w].content]}

\* The ticket an entry names; that of an order entry has the id of an order.
Named(w) ==
    IF cached[w] \in {OrderEntry, Miss} THEN {}
    ELSE {t \in ViewAt(w) : t.id = cached[w].id}

\* Mutant: an entry of another request is a conflict, whatever became of it.
Contradicts_Entry(w) == cached[w] # Miss /\ cached[w] # OrderEntry /\ cached[w].content # req[w].content

\* The entry is of another request whose ticket exists.
Contradicts(w) == Named(w) # {} /\ cached[w].content # req[w].content

\* ... and a SELECT for the ticket it names.
Verify(w) ==
    /\ pc[w] = "verify"
    /\ \/ /\ Contradicts(w)
          /\ Rollback(w, "conflict", 0)
       \/ /\ ~Contradicts(w)
          /\ Named(w) # {}
          /\ Rollback(w, "ok", cached[w].id)
       \/ /\ ~Contradicts(w)
          /\ Named(w) = {}
          /\ Goto(w, "select")
          /\ KeepView(w)
          /\ UNCHANGED <<tickets, idemCache, req, reqId, cached, answer,
                         inserted, reply, served>>
    /\ UNCHANGED aborts

\* findByIdempotencyKey and existingTicketOrConflict, before the INSERT and
\* again after a DuplicateKeyException, which is rethrown if it finds nothing.
SelectKey(w) ==
    /\ pc[w] \in {"select", "reselect"}
    /\ LET found == {t \in ViewAt(w) : t.key = req[w].key}
       IN \/ /\ \E t \in found :
                   /\ t.content = req[w].content
                   /\ answer' = [answer EXCEPT ![w] = t.id]
             /\ Goto(w, "remember")
             /\ KeepView(w)
             /\ UNCHANGED <<tickets, idemCache, req, reqId, cached, inserted,
                            reply, served>>
          \/ /\ \E t \in found : t.content # req[w].content
             /\ Rollback(w, "conflict", 0)
          \/ /\ found = {}
             /\ pc[w] = "select"
             /\ Goto(w, "insert")
             /\ KeepView(w)
             /\ UNCHANGED <<tickets, idemCache, req, reqId, cached, answer,
                            inserted, reply, served>>
          \/ /\ found = {}
             /\ pc[w] = "reselect"
             /\ Rollback(w, "error", 0)
    /\ UNCHANGED aborts

\* Mutant: no unique index on (tenant, idempotency_key).
KeySpent_NoIndex(k) == FALSE

KeySpent(k) == \E t \in tickets : t.key = k

\* Another open transaction has inserted a ticket with the same key.
KeyAwaited(w) ==
    \E v \in Workers \ {w} : inserted[v] /\ req[v].key = req[w].key

\* insertTicket and insertCreatedEvent.
Insert(w) ==
    /\ pc[w] = "insert"
    /\ ~KeyAwaited(w)
    /\ IF KeySpent(req[w].key)
       THEN /\ Goto(w, "reselect")
            /\ UNCHANGED <<inserted, answer>>
       ELSE /\ Goto(w, "remember")
            /\ inserted' = [inserted EXCEPT ![w] = TRUE]
            /\ answer' = [answer EXCEPT ![w] = reqId[w]]
    /\ UNCHANGED <<tickets, idemCache, req, reqId, cached, snapshot, reply,
                   boundVars>>

EntryOf(w) == [content |-> req[w].content, id |-> answer[w]]

\* rememberIdempotency, before the commit.
Remember(w) ==
    /\ pc[w] = "remember"
    /\ \E entry \in RedisPut(idemCache[req[w].key], EntryOf(w)) :
          idemCache' = [idemCache EXCEPT ![req[w].key] = entry]
    /\ Goto(w, "commit")
    /\ UNCHANGED <<tickets, req, reqId, cached, answer, inserted, snapshot,
                   reply, boundVars>>

TicketOf(w) == [id |-> reqId[w], key |-> req[w].key, content |-> req[w].content]

Commit(w) ==
    /\ pc[w] = "commit"
    /\ tickets' = IF inserted[w] THEN tickets \cup {TicketOf(w)} ELSE tickets
    /\ End(w, "ok", answer[w])
    /\ UNCHANGED <<idemCache, aborts>>

----------------------------------------------------------------------------
\* The thread, its connection or the commit itself fails.
Abort(w) ==
    /\ pc[w] # "idle"
    /\ aborts < MaxAborts
    /\ aborts' = aborts + 1
    /\ Rollback(w, "lost", 0)

\* ticket_idempotency_ttl_seconds runs out.
ExpireKey(k) ==
    /\ idemCache[k] # Miss
    /\ idemCache' = [idemCache EXCEPT ![k] = Miss]
    /\ UNCHANGED <<tickets, threadVars, boundVars>>

\* applyRefund or applyCancel remembers its request under the same key.
RememberOrder(k) ==
    /\ idemCache[k] # OrderEntry
    /\ idemCache' = [idemCache EXCEPT ![k] = OrderEntry]
    /\ UNCHANGED <<tickets, threadVars, boundVars>>

Proceed(w) ==
    \/ Validate(w) \/ Lookup(w) \/ Verify(w) \/ SelectKey(w) \/ Insert(w)
    \/ Remember(w) \/ Commit(w)

Next ==
    \/ \E w \in Workers, r \in Request : Begin(w, r)
    \/ \E w \in Workers : Proceed(w)
    \/ \E w \in Workers : Abort(w)
    \/ \E k \in Keys : ExpireKey(k)
    \/ \E k \in OrderKeys : RememberOrder(k)

Spec == Init /\ [][Next]_vars

\* Threads run, and MySQL lets an INSERT go on once its key is decided.
FairSpec == Spec /\ \A w \in Workers : WF_vars(Proceed(w))

----------------------------------------------------------------------------
Answered(w) == pc[w] = "idle" /\ reply[w] # "none"

\* A key creates one ticket, however often and however concurrently it is
\* used and whatever Redis holds (uk_tickets_tenant_idempotency;
\* docs/java-business-database-design.md 315).
OneTicketPerKey == \A t, u \in tickets : t.key = u.key => t = u

\* The ticket a client is told of is in the table, is its own request's and
\* has its own key: entries of rolled back transactions and of refunds are
\* never answered with (findFromIdempotencyCache).
AnswerIsTicket ==
    \A w \in Workers :
        Answered(w) /\ reply[w] = "ok"
          => [id |-> answer[w], key |-> req[w].key, content |-> req[w].content]
                \in tickets

\* IDEMPOTENCY_KEY_CONFLICT is said only of a key that has created a ticket
\* for other parameters: what a killed request or a refund left in Redis does
\* not block the key.
ConflictIsReal ==
    \A w \in Workers :
        Answered(w) /\ reply[w] = "conflict"
          => \E t \in tickets : t.key = req[w].key /\ t.content # req[w].content

\* A request that loses the race to insert its ticket is answered with the
\* ticket of the winner (notes/stage7-06-mysql-ticket-write-transaction.md
\* 508-536): it fails only if there is no such ticket.
LoserGetsTheTicket ==
    \A w \in Workers :
        Answered(w) /\ reply[w] = "error"
          => [key |-> req[w].key, content |-> req[w].content]
                \notin {[key |-> t.key, content |-> t.content] : t \in tickets}

\* Every request is answered: nobody waits for a transaction that has ended.
EveryRequestAnswered ==
    \A w \in Workers : pc[w] # "idle" ~> pc[w] = "idle"
=============================================================================
