------------------------ MODULE TicketCreationProofs ------------------------
(***************************************************************************)
(* Proofs about TicketCreation, for any threads, keys, contents and bounds,*)
(* an unreliable Redis and both isolation levels.                          *)
(***************************************************************************)
EXTENDS TicketCreation, TLAPS

Busy(w) == pc[w] # "idle"

----------------------------------------------------------------------------
(* Types, with what they rest on: where a thread is says which of its      *)
(* fields are set.                                                         *)

StageInv ==
    \A w \in Workers :
        /\ Busy(w) => reqId[w] \in TicketIds /\ reqId[w] <= served
        /\ ~Busy(w) => cached[w] = Miss
        /\ pc[w] \in {"remember", "commit"} => answer[w] \in TicketIds
        /\ inserted[w] => /\ pc[w] \in {"remember", "commit"}
                          /\ answer[w] = reqId[w]

TypeInv == TypeOK /\ StageInv

LEMMA InitTypeInv == Init => TypeInv
<1> SUFFICES ASSUME Init PROVE TypeInv
  OBVIOUS
<1> USE CreationAssumption
<1>1. \E r \in Request : TRUE
  <2>1. PICK k \in Keys, c \in Contents : TRUE
    OBVIOUS
  <2>2. [key |-> k, content |-> c] \in Request
    BY DEF Request
  <2>3. QED
    BY <2>2
<1>2. (CHOOSE r \in Request : TRUE) \in Request
  BY <1>1
<1>3. req \in [Workers -> Request]
  BY <1>2 DEF Init
<1>4. TypeOK
  BY <1>3 DEF Init, TypeOK
<1>5. StageInv
  BY DEF Init, StageInv, Busy
<1>6. QED
  BY <1>4, <1>5 DEF TypeInv

\* What a transaction reads is in the table, or was when it first read.
LEMMA ViewType ==
    ASSUME TypeOK, NEW w \in Workers
    PROVE  /\ ViewAt(w) \in SUBSET Ticket
           /\ KeepView(w) => snapshot' \in [Workers -> View \cup {NoSnapshot}]
<1>1. ViewAt(w) \in SUBSET Ticket
  BY CreationAssumption DEF TypeOK, ViewAt, View
<1>2. QED
  BY <1>1 DEF TypeOK, KeepView, View

\* The end of a request, whatever becomes of the stores.
LEMMA EndTypeInv ==
    ASSUME TypeInv, NEW w \in Workers,
           NEW outcome \in {"ok", "conflict", "error", "lost"},
           NEW id \in 0 .. MaxRequests, End(w, outcome, id),
           tickets' \in SUBSET Ticket,
           idemCache' = idemCache, aborts' \in 0 .. MaxAborts
    PROVE  TypeInv'
<1>1. TypeOK'
  BY DEF TypeInv, TypeOK, End, Goto, Released
<1>2. StageInv'
  BY DEF TypeInv, TypeOK, StageInv, Busy, End, Goto, Released
<1>3. QED
  BY <1>1, <1>2 DEF TypeInv

LEMMA NextTypeInv == TypeInv /\ [Next]_vars => TypeInv'
<1> SUFFICES ASSUME TypeInv, [Next]_vars PROVE TypeInv'
  OBVIOUS
<1> USE CreationAssumption
<1>0. TypeOK /\ StageInv
  BY DEF TypeInv
<1>1. ASSUME NEW w \in Workers, NEW r \in Request, Begin(w, r) PROVE TypeInv'
  <2>1. TypeOK'
    BY <1>0, <1>1 DEF TypeOK, Begin, Goto
  <2>2. StageInv'
    BY <1>0, <1>1 DEF TypeOK, StageInv, Busy, Begin, Goto, TicketIds
  <2>3. QED
    BY <2>1, <2>2 DEF TypeInv
<1>2. ASSUME NEW w \in Workers, Validate(w) PROVE TypeInv'
  <2>1. TypeOK'
    BY <1>0, <1>2, ViewType DEF TypeOK, Validate, Goto, boundVars
  <2>2. StageInv'
    BY <1>0, <1>2 DEF TypeOK, StageInv, Busy, Validate, Goto, boundVars
  <2>3. QED
    BY <2>1, <2>2 DEF TypeInv
<1>3. ASSUME NEW w \in Workers, Lookup(w) PROVE TypeInv'
  <2>1. req[w].key \in Keys
    BY <1>0 DEF TypeOK, Request
  <2>2. TypeOK'
    BY <1>0, <1>3, <2>1 DEF TypeOK, Lookup, RedisGet, Goto, boundVars
  <2>3. StageInv'
    BY <1>0, <1>3 DEF TypeOK, StageInv, Busy, Lookup, Goto, boundVars
  <2>4. QED
    BY <2>2, <2>3 DEF TypeInv
<1>4. ASSUME NEW w \in Workers, Verify(w) PROVE TypeInv'
  <2>1. CASE Rollback(w, "conflict", 0)
    BY <1>0, <1>4, <2>1, EndTypeInv DEF Verify, Rollback, TypeOK
  <2>2. CASE Named(w) # {} /\ Rollback(w, "ok", cached[w].id)
    <3>1. cached[w].id \in 0 .. MaxRequests
      BY <1>0, <2>2 DEF Named, TypeOK, Entry, TicketIds
    <3>2. QED
      BY <1>0, <1>4, <2>2, <3>1, EndTypeInv DEF Verify, Rollback, TypeOK
  <2>3. CASE /\ Goto(w, "select")
             /\ KeepView(w)
             /\ UNCHANGED <<tickets, idemCache, req, reqId, cached, answer,
                            inserted, reply, served, aborts>>
    <3>1. TypeOK'
      BY <1>0, <2>3, ViewType DEF TypeOK, Goto
    <3>2. StageInv'
      BY <1>0, <1>4, <2>3 DEF TypeOK, StageInv, Busy, Verify, Goto
    <3>3. QED
      BY <3>1, <3>2 DEF TypeInv
  <2>4. QED
    BY <1>4, <2>1, <2>2, <2>3 DEF Verify
<1>5. ASSUME NEW w \in Workers, SelectKey(w) PROVE TypeInv'
  <2>1. CASE \E outcome \in {"conflict", "error"} : Rollback(w, outcome, 0)
    BY <1>0, <1>5, <2>1, EndTypeInv DEF SelectKey, Rollback, TypeOK
  <2>2. CASE /\ \E t \in ViewAt(w) : answer' = [answer EXCEPT ![w] = t.id]
             /\ Goto(w, "remember")
             /\ KeepView(w)
             /\ UNCHANGED <<tickets, idemCache, req, reqId, cached, inserted,
                            reply, served, aborts>>
    <3>1. PICK t \in Ticket : answer' = [answer EXCEPT ![w] = t.id]
      BY <1>0, <2>2, ViewType
    <3>2. t.id \in TicketIds /\ t.id \in 0 .. MaxRequests
      BY DEF Ticket, TicketIds
    <3>3. TypeOK'
      BY <1>0, <2>2, <3>1, <3>2, ViewType DEF TypeOK, Goto
    <3>4. StageInv'
      BY <1>0, <1>5, <2>2, <3>1, <3>2 DEF TypeOK, StageInv, Busy, SelectKey, Goto
    <3>5. QED
      BY <3>3, <3>4 DEF TypeInv
  <2>3. CASE /\ pc[w] = "select"
             /\ Goto(w, "insert")
             /\ KeepView(w)
             /\ UNCHANGED <<tickets, idemCache, req, reqId, cached, answer,
                            inserted, reply, served, aborts>>
    <3>1. TypeOK'
      BY <1>0, <2>3, ViewType DEF TypeOK, Goto
    <3>2. StageInv'
      BY <1>0, <2>3 DEF TypeOK, StageInv, Busy, Goto
    <3>3. QED
      BY <3>1, <3>2 DEF TypeInv
  <2>4. QED
    BY <1>5, <2>1, <2>2, <2>3 DEF SelectKey
<1>6. ASSUME NEW w \in Workers, Insert(w) PROVE TypeInv'
  <2>1. TypeOK'
    <3>1. CASE KeySpent(req[w].key)
      <4>1. /\ pc' = [pc EXCEPT ![w] = "reselect"]
            /\ UNCHANGED <<tickets, idemCache, req, reqId, cached, snapshot,
                           answer, inserted, reply, served, aborts>>
        BY <1>6, <3>1 DEF Insert, Goto, boundVars
      <4>2. QED
        BY <1>0, <4>1 DEF TypeOK
    <3>2. CASE ~KeySpent(req[w].key)
      <4>1. /\ pc' = [pc EXCEPT ![w] = "remember"]
            /\ inserted' = [inserted EXCEPT ![w] = TRUE]
            /\ answer' = [answer EXCEPT ![w] = reqId[w]]
            /\ UNCHANGED <<tickets, idemCache, req, reqId, cached, snapshot,
                           reply, served, aborts>>
        BY <1>6, <3>2 DEF Insert, Goto, boundVars
      <4>2. reqId[w] \in 0 .. MaxRequests
        BY <1>0 DEF TypeOK
      <4>3. QED
        BY <1>0, <4>1, <4>2 DEF TypeOK
    <3>3. QED
      BY <3>1, <3>2
  <2>2. StageInv'
    BY <1>0, <1>6 DEF TypeOK, StageInv, Busy, Insert, Goto, boundVars
  <2>3. QED
    BY <2>1, <2>2 DEF TypeInv
<1>7. ASSUME NEW w \in Workers, Remember(w) PROVE TypeInv'
  <2>1. EntryOf(w) \in Entry
    BY <1>0, <1>7 DEF TypeOK, StageInv, Remember, EntryOf, Entry, Request
  <2>2. TypeOK'
    BY <1>0, <1>7, <2>1 DEF TypeOK, Remember, RedisPut, Goto, boundVars, Request
  <2>3. StageInv'
    BY <1>0, <1>7 DEF TypeOK, StageInv, Busy, Remember, Goto, boundVars
  <2>4. QED
    BY <2>2, <2>3 DEF TypeInv
<1>8. ASSUME NEW w \in Workers, Commit(w) PROVE TypeInv'
  <2>1. TicketOf(w) \in Ticket
    BY <1>0, <1>8 DEF TypeOK, StageInv, Busy, Commit, TicketOf, Ticket, Request
  <2>2. tickets' \in SUBSET Ticket
    BY <1>0, <1>8, <2>1 DEF TypeOK, Commit
  <2>3. QED
    BY <1>0, <1>8, <2>2, EndTypeInv DEF TypeOK, Commit
<1>9. ASSUME NEW w \in Workers, Abort(w) PROVE TypeInv'
  BY <1>0, <1>9, EndTypeInv DEF TypeOK, Abort, Rollback
<1>10. ASSUME NEW k \in Keys, ExpireKey(k) \/ RememberOrder(k) PROVE TypeInv'
  BY <1>0, <1>10
     DEF TypeInv, TypeOK, StageInv, Busy, ExpireKey, RememberOrder, threadVars,
         boundVars
<1>11. CASE UNCHANGED vars
  BY <1>0, <1>11 DEF TypeInv, TypeOK, StageInv, Busy, vars
<1>12. QED
  BY <1>1, <1>2, <1>3, <1>4, <1>5, <1>6, <1>7, <1>8, <1>9, <1>10, <1>11
     DEF Next, Proceed

\* Every variable keeps its type, for any number of threads, keys and requests.
THEOREM TypeCorrect == Spec => []TypeOK
<1>1. TypeInv => TypeOK
  BY DEF TypeInv
<1>2. QED
  BY InitTypeInv, NextTypeInv, <1>1, PTL DEF Spec

----------------------------------------------------------------------------
(* One ticket for a key. The unique index is looked at by the INSERT, which *)
(* also waits for open transactions: so the key of an open INSERT is in no  *)
(* row and in no other open transaction.                                    *)

KeyInv ==
    /\ OneTicketPerKey
    /\ \A w \in Workers : inserted[w] => ~KeySpent(req[w].key)
    /\ \A v, w \in Workers :
          inserted[v] /\ inserted[w] /\ req[v].key = req[w].key => v = w

LEMMA InitKeyInv == Init => KeyInv
BY DEF Init, KeyInv, OneTicketPerKey, KeySpent

LEMMA NextKeyInv == TypeInv /\ KeyInv /\ [Next]_vars => KeyInv'
<1> SUFFICES ASSUME TypeInv, KeyInv, [Next]_vars PROVE KeyInv'
  OBVIOUS
<1>0. TypeOK /\ StageInv
  BY DEF TypeInv
<1> USE DEF KeyInv, OneTicketPerKey, KeySpent
<1>1. ASSUME NEW w \in Workers, NEW r \in Request, Begin(w, r) PROVE KeyInv'
  <2>1. ~inserted[w]
    BY <1>0, <1>1 DEF StageInv, Begin
  <2>2. QED
    BY <1>0, <1>1, <2>1 DEF TypeOK, Begin
\* A request that ends or goes on without having written.
<1>2. ASSUME tickets' = tickets, req' = req,
             \A w \in Workers : inserted'[w] => inserted[w]
      PROVE  KeyInv'
  BY <1>2
<1>3. ASSUME NEW w \in Workers, Insert(w) PROVE KeyInv'
  <2>1. CASE KeySpent(req[w].key)
    BY <1>2, <1>3, <2>1 DEF Insert
  <2>2. CASE ~KeySpent(req[w].key)
    <3>1. /\ tickets' = tickets /\ req' = req
          /\ inserted' = [inserted EXCEPT ![w] = TRUE]
          /\ \A v \in Workers \ {w} : ~(inserted[v] /\ req[v].key = req[w].key)
      BY <1>3, <2>2 DEF Insert, KeyAwaited
    <3>2. QED
      BY <1>0, <2>2, <3>1 DEF TypeOK
  <2>3. QED
    BY <2>1, <2>2
<1>4. ASSUME NEW w \in Workers, Commit(w) PROVE KeyInv'
  <2>1. req' = req /\ inserted' = [inserted EXCEPT ![w] = FALSE]
    BY <1>4 DEF Commit, End, Released
  <2>2. CASE ~inserted[w]
    BY <1>0, <1>2, <1>4, <2>1, <2>2 DEF TypeOK, Commit
  <2>3. CASE inserted[w]
    <3>1. tickets' = tickets \cup {TicketOf(w)} /\ TicketOf(w).key = req[w].key
      BY <1>4, <2>3 DEF Commit, TicketOf
    <3>2. QED
      BY <1>0, <2>1, <2>3, <3>1 DEF TypeOK
  <2>4. QED
    BY <2>2, <2>3
<1>5. ASSUME NEW w \in Workers, NEW outcome, NEW id, Rollback(w, outcome, id)
      PROVE  KeyInv'
  BY <1>0, <1>2, <1>5 DEF TypeOK, Rollback, End, Released
<1>6. ASSUME NEW w \in Workers, Validate(w) \/ Lookup(w) \/ Remember(w)
      PROVE  KeyInv'
  BY <1>2, <1>6 DEF Validate, Lookup, Remember
<1>7. ASSUME NEW w \in Workers, Verify(w) \/ SelectKey(w) PROVE KeyInv'
  BY <1>2, <1>5, <1>7 DEF Verify, SelectKey
<1>8. ASSUME NEW w \in Workers, Abort(w) PROVE KeyInv'
  BY <1>5, <1>8 DEF Abort
<1>9. ASSUME NEW k \in Keys, ExpireKey(k) \/ RememberOrder(k) PROVE KeyInv'
  BY <1>2, <1>9 DEF ExpireKey, RememberOrder, threadVars
<1>10. CASE UNCHANGED vars
  BY <1>2, <1>10 DEF vars
<1>11. QED
  BY <1>1, <1>3, <1>4, <1>6, <1>7, <1>8, <1>9, <1>10, CreationAssumption
     DEF Next, Proceed

\* A key creates one ticket at most, however its requests interleave and
\* whatever Redis and the read views show (uk_tickets_tenant_idempotency).
THEOREM OneTicketForAKey == Spec => []OneTicketPerKey
<1>1. KeyInv => OneTicketPerKey
  BY DEF KeyInv
<1>2. QED
  BY InitTypeInv, NextTypeInv, InitKeyInv, NextKeyInv, <1>1, PTL DEF Spec

----------------------------------------------------------------------------
(* What the numbers of requests, the read views and the entries in Redis   *)
(* mean. A number is one request's for good, so an entry that names it can  *)
(* be outlived by a rolled back transaction, but never speak of another     *)
(* ticket.                                                                  *)

NumberInv ==
    /\ \A t \in tickets : t.id <= served
    /\ \A t, u \in tickets : t.id = u.id => t = u
    /\ \A v, w \in Workers : Busy(v) /\ Busy(w) /\ reqId[v] = reqId[w] => v = w
    /\ \A w \in Workers : Busy(w) => \A t \in tickets : t.id # reqId[w]

ViewInv ==
    \A w \in Workers : snapshot[w] # NoSnapshot => snapshot[w].tickets \subseteq tickets

\* Whatever ticket the entry e of key k names, or will name, is of that key
\* and of the request that the entry is of.
Means(e, k) ==
    /\ e.id <= served
    /\ \A t \in tickets : t.id = e.id => t.key = k /\ t.content = e.content
    /\ \A w \in Workers :
          Busy(w) /\ reqId[w] = e.id
            => req[w].key = k /\ req[w].content = e.content

EntryInv ==
    /\ \A k \in Keys : idemCache[k] \in Entry => Means(idemCache[k], k)
    /\ \A w \in Workers : cached[w] \in Entry => Means(cached[w], req[w].key)

\* The ticket a thread is about to answer with is in the table or its own.
Answer(w) == [id |-> answer[w], key |-> req[w].key, content |-> req[w].content]

AnswerInv ==
    \A w \in Workers :
        pc[w] \in {"remember", "commit"} => inserted[w] \/ Answer(w) \in tickets

CacheInv == NumberInv /\ ViewInv /\ EntryInv /\ AnswerInv

LEMMA InitCacheInv == Init => CacheInv
BY CreationAssumption
   DEF Init, CacheInv, NumberInv, ViewInv, EntryInv, AnswerInv, Busy, Entry

LEMMA NextNumberInv == TypeInv /\ NumberInv /\ [Next]_vars => NumberInv'
<1> SUFFICES ASSUME TypeInv, NumberInv, [Next]_vars PROVE NumberInv'
  OBVIOUS
<1>0. TypeOK /\ StageInv
  BY DEF TypeInv
<1> USE DEF NumberInv, Busy
<1>1. ASSUME NEW w \in Workers, NEW r \in Request, Begin(w, r) PROVE NumberInv'
  <2>1. /\ tickets' = tickets
        /\ served \in Nat /\ served' = served + 1
        /\ reqId' = [reqId EXCEPT ![w] = served + 1]
        /\ \A v \in Workers \ {w} : pc'[v] = pc[v]
    BY <1>0, <1>1 DEF TypeOK, Begin, Goto
  <2>2. \A v \in Workers : Busy(v) => reqId[v] \in Nat /\ reqId[v] <= served
    BY <1>0 DEF StageInv, TicketIds
  <2>3. \A t \in tickets : t.id \in Nat
    BY <1>0 DEF TypeOK, Ticket, TicketIds
  <2>4. QED
    BY <1>0, <2>1, <2>2, <2>3 DEF TypeOK
<1>2. ASSUME tickets' = tickets, reqId' = reqId, served' = served,
             \A w \in Workers : Busy(w)' => Busy(w)
      PROVE  NumberInv'
  BY <1>2
<1>3. ASSUME NEW w \in Workers, Commit(w) PROVE NumberInv'
  <2>1. /\ reqId' = reqId /\ served' = served
        /\ Busy(w) /\ ~Busy(w)'
        /\ \A v \in Workers \ {w} : pc'[v] = pc[v]
    BY <1>0, <1>3 DEF TypeOK, Commit, End, Goto
  <2>2. \A t \in tickets' : t \in tickets \/ (t = TicketOf(w) /\ t.id = reqId[w])
    BY <1>3 DEF Commit, TicketOf
  <2>3. reqId[w] <= served
    BY <1>0, <2>1 DEF StageInv
  <2>4. QED
    BY <2>1, <2>2, <2>3
<1>4. ASSUME NEW w \in Workers, NEW outcome, NEW id, Rollback(w, outcome, id)
      PROVE  NumberInv'
  BY <1>0, <1>2, <1>4 DEF TypeOK, Rollback, End, Goto
<1>5. ASSUME NEW w \in Workers, NEW stage, pc[w] # "idle", Goto(w, stage),
             UNCHANGED <<tickets, reqId, served>>
      PROVE  NumberInv'
  BY <1>0, <1>2, <1>5 DEF TypeOK, Goto
<1>6. ASSUME NEW w \in Workers,
             Validate(w) \/ Lookup(w) \/ Insert(w) \/ Remember(w)
      PROVE  NumberInv'
  BY <1>5, <1>6 DEF Validate, Lookup, Insert, Remember, boundVars
<1>7. ASSUME NEW w \in Workers, Verify(w) \/ SelectKey(w) PROVE NumberInv'
  BY <1>4, <1>5, <1>7 DEF Verify, SelectKey
<1>8. ASSUME NEW w \in Workers, Abort(w) PROVE NumberInv'
  BY <1>4, <1>8 DEF Abort
<1>9. ASSUME NEW k \in Keys, ExpireKey(k) \/ RememberOrder(k) PROVE NumberInv'
  BY <1>2, <1>9 DEF ExpireKey, RememberOrder, threadVars, boundVars
<1>10. CASE UNCHANGED vars
  BY <1>2, <1>10 DEF vars
<1>11. QED
  BY <1>1, <1>3, <1>6, <1>7, <1>8, <1>9, <1>10, CreationAssumption
     DEF Next, Proceed

\* Tickets are never deleted or changed.
LEMMA TicketsGrow == [Next]_vars => tickets \subseteq tickets'
BY DEF Next, Proceed, Begin, Validate, Lookup, Verify, SelectKey, Insert, Remember,
       Commit, Abort, ExpireKey, RememberOrder, Rollback, vars

LEMMA NextViewInv == TypeInv /\ ViewInv /\ [Next]_vars => ViewInv'
<1> SUFFICES ASSUME TypeInv, ViewInv, [Next]_vars, NEW w \in Workers,
                    snapshot'[w] # NoSnapshot
             PROVE  snapshot'[w].tickets \subseteq tickets'
  BY DEF ViewInv
<1>0. TypeOK
  BY DEF TypeInv
<1>1. tickets \subseteq tickets'
  BY TicketsGrow
<1>2. ViewAt(w) \subseteq tickets
  BY DEF ViewAt, ViewInv
<1>3. \/ snapshot'[w] = snapshot[w]
      \/ snapshot'[w] = [tickets |-> ViewAt(w)]
      \/ snapshot'[w] = NoSnapshot
  <2>1. ASSUME NEW v \in Workers, KeepView(v)
        PROVE  snapshot'[w] = snapshot[w] \/ snapshot'[w] = [tickets |-> ViewAt(w)]
    BY <1>0, <2>1 DEF TypeOK, KeepView
  <2>2. ASSUME NEW v \in Workers, NEW outcome, NEW id, End(v, outcome, id)
        PROVE  snapshot'[w] = snapshot[w] \/ snapshot'[w] = NoSnapshot
    BY <1>0, <2>2 DEF TypeOK, End
  <2>3. ASSUME NEW v \in Workers, Proceed(v) \/ Abort(v) PROVE <1>3!1 \/ <1>3!2 \/ <1>3!3
    BY <2>1, <2>2, <2>3
       DEF Proceed, Validate, Lookup, Verify, SelectKey, Insert, Remember, Commit,
           Abort, Rollback
  <2>4. QED
    BY <2>3 DEF Next, Begin, ExpireKey, RememberOrder, threadVars, vars
<1>4. QED
  BY <1>1, <1>2, <1>3 DEF ViewInv

\* What an entry means it means for good: later requests have later numbers.
LEMMA MeaningKept ==
    ASSUME TypeInv, NumberInv, [Next]_vars,
           NEW e \in Entry, NEW k \in Keys, Means(e, k)
    PROVE  Means(e, k)'
<1>0. TypeOK /\ StageInv
  BY DEF TypeInv
<1> USE DEF Means, Busy
<1>1. e.id \in Nat
  BY DEF Entry, TicketIds
<1>2. ASSUME NEW w \in Workers, NEW r \in Request, Begin(w, r) PROVE Means(e, k)'
  <2>1. /\ tickets' = tickets
        /\ served \in Nat /\ served' = served + 1
        /\ reqId' = [reqId EXCEPT ![w] = served + 1]
        /\ \A v \in Workers \ {w} : pc'[v] = pc[v] /\ req'[v] = req[v]
    BY <1>0, <1>2 DEF TypeOK, Begin, Goto
  <2>2. QED
    BY <1>0, <1>1, <2>1 DEF TypeOK
<1>3. ASSUME served' = served, reqId' = reqId, req' = req,
             \A w \in Workers : Busy(w)' => Busy(w),
             \A t \in tickets' :
                t \in tickets \/ \E w \in Workers : Busy(w) /\ t = TicketOf(w)
      PROVE  Means(e, k)'
  BY <1>3 DEF TicketOf
<1>4. ASSUME NEW w \in Workers, Proceed(w) \/ Abort(w) PROVE Means(e, k)'
  <2>1. /\ served' = served /\ reqId' = reqId /\ req' = req
        /\ Busy(w)
        /\ \A v \in Workers \ {w} : pc'[v] = pc[v]
    BY <1>0, <1>4
       DEF TypeOK, Proceed, Validate, Lookup, Verify, SelectKey, Insert, Remember,
           Commit, Abort, Rollback, End, Goto, boundVars
  <2>2. tickets' = tickets \/ tickets' = tickets \cup {TicketOf(w)}
    BY <1>4
       DEF Proceed, Validate, Lookup, Verify, SelectKey, Insert, Remember, Commit,
           Abort, Rollback
  <2>3. QED
    BY <1>3, <2>1, <2>2
<1>5. ASSUME NEW o \in Keys, ExpireKey(o) \/ RememberOrder(o) PROVE Means(e, k)'
  BY <1>3, <1>5 DEF ExpireKey, RememberOrder, threadVars, boundVars
<1>6. CASE UNCHANGED vars
  BY <1>3, <1>6 DEF vars
<1>7. QED
  BY <1>2, <1>4, <1>5, <1>6, CreationAssumption DEF Next

\* The entry a thread makes means what entries mean.
LEMMA MadeMeaning ==
    ASSUME TypeInv, CacheInv, NEW w \in Workers, pc[w] = "remember"
    PROVE  EntryOf(w) \in Entry /\ req[w].key \in Keys /\ Means(EntryOf(w), req[w].key)
<1>0. TypeOK /\ StageInv /\ NumberInv /\ AnswerInv
  BY DEF TypeInv, CacheInv
<1>1. EntryOf(w) \in Entry /\ req[w].key \in Keys
  BY <1>0 DEF TypeOK, StageInv, EntryOf, Entry, Request
<1>2. CASE inserted[w]
  BY <1>0, <1>1, <1>2 DEF StageInv, NumberInv, Means, EntryOf, Busy
<1>3. CASE Answer(w) \in tickets
  BY <1>0, <1>1, <1>3 DEF NumberInv, Means, EntryOf, Answer
<1>4. QED
  BY <1>0, <1>1, <1>2, <1>3 DEF AnswerInv

LEMMA NextEntryInv == TypeInv /\ CacheInv /\ [Next]_vars => EntryInv'
<1> SUFFICES ASSUME TypeInv, CacheInv, [Next]_vars PROVE EntryInv'
  OBVIOUS
<1>0. TypeOK /\ StageInv /\ NumberInv /\ EntryInv
  BY DEF TypeInv, CacheInv
<1>1. ASSUME NEW k \in Keys, idemCache'[k] \in Entry PROVE Means(idemCache[k], k)'
  <2>1. CASE idemCache'[k] = idemCache[k]
    <3>1. PICK e \in Entry : e = idemCache[k]
      BY <1>1, <2>1
    <3>2. Means(e, k)'
      BY <1>0, <1>1, <2>1, <3>1, MeaningKept DEF EntryInv
    <3>3. QED
      BY <2>1, <3>1, <3>2
  <2>2. CASE \E w \in Workers : Remember(w) /\ k = req[w].key /\ idemCache'[k] = EntryOf(w)
    <3>1. PICK w \in Workers : Remember(w) /\ k = req[w].key /\ idemCache'[k] = EntryOf(w)
      BY <2>2
    <3>2. EntryOf(w) \in Entry /\ Means(EntryOf(w), k)
      BY <3>1, MadeMeaning DEF Remember
    <3>3. PICK e \in Entry : e = EntryOf(w)
      BY <3>2
    <3>4. Means(e, k)'
      BY <1>0, <3>2, <3>3, MeaningKept
    <3>5. QED
      BY <3>1, <3>3, <3>4
  <2>3. \/ idemCache'[k] = idemCache[k]
        \/ idemCache'[k] \in {Miss, OrderEntry}
        \/ \E w \in Workers : Remember(w) /\ k = req[w].key /\ idemCache'[k] = EntryOf(w)
    <3>1. ASSUME NEW w \in Workers, Remember(w) PROVE <2>3
      BY <1>0, <3>1 DEF TypeOK, Remember, RedisPut
    <3>2. ASSUME NEW o \in Keys, ExpireKey(o) \/ RememberOrder(o) PROVE <2>3
      BY <1>0, <3>2 DEF TypeOK, ExpireKey, RememberOrder
    <3>3. CASE idemCache' = idemCache
      BY <3>3
    <3>4. QED
      BY <3>1, <3>2, <3>3, CreationAssumption
         DEF Next, Proceed, Begin, Validate, Lookup, Verify, SelectKey, Insert, Commit,
             Abort, Rollback, vars
  <2>4. QED
    BY <1>1, <2>1, <2>2, <2>3, CreationAssumption
<1>2. ASSUME NEW w \in Workers, cached'[w] \in Entry
      PROVE  Means(cached[w], req[w].key)'
  <2>1. /\ req'[w] = req[w]
        /\ cached'[w] \in {cached[w], idemCache[req[w].key]}
    <3>1. ASSUME NEW v \in Workers, NEW r \in Request, Begin(v, r) PROVE <2>1
      BY <1>0, <1>2, <3>1, CreationAssumption DEF TypeOK, StageInv, Busy, Begin
    <3>2. ASSUME NEW v \in Workers, Lookup(v) PROVE <2>1
      BY <1>0, <1>2, <3>2, CreationAssumption DEF TypeOK, Lookup, RedisGet
    <3>3. ASSUME NEW v \in Workers, NEW outcome, NEW id, End(v, outcome, id) PROVE <2>1
      BY <1>0, <1>2, <3>3, CreationAssumption DEF TypeOK, End
    <3>4. CASE req' = req /\ cached' = cached
      BY <3>4
    <3>5. QED
      BY <3>1, <3>2, <3>3, <3>4
         DEF Next, Proceed, Validate, Verify, SelectKey, Insert, Remember, Commit,
             Abort, Rollback, ExpireKey, RememberOrder, threadVars, vars
  <2>2. req[w].key \in Keys
    BY <1>0 DEF TypeOK, Request
  <2>3. PICK e \in Entry : e = cached'[w]
    BY <1>2
  <2>4. PICK k \in Keys : k = req[w].key
    BY <2>2
  <2>5. Means(e, k)
    BY <1>0, <2>1, <2>3, <2>4 DEF EntryInv
  <2>6. Means(e, k)'
    BY <1>0, <2>5, MeaningKept
  <2>7. QED
    BY <2>1, <2>3, <2>4, <2>6
<1>3. QED
  BY <1>1, <1>2 DEF EntryInv

LEMMA NextAnswerInv == TypeInv /\ CacheInv /\ [Next]_vars => AnswerInv'
<1> SUFFICES ASSUME TypeInv, CacheInv, [Next]_vars, NEW w \in Workers,
                    pc'[w] \in {"remember", "commit"}
             PROVE  inserted'[w] \/ Answer(w)' \in tickets'
  BY DEF AnswerInv
<1>0. TypeOK /\ StageInv /\ ViewInv /\ AnswerInv
  BY DEF TypeInv, CacheInv
<1>1. tickets \subseteq tickets'
  BY TicketsGrow
\* Anybody else's step, or one that leaves the answer of w alone.
<1>2. ASSUME pc[w] \in {"remember", "commit"},
             answer'[w] = answer[w], req'[w] = req[w], inserted'[w] = inserted[w]
      PROVE  inserted'[w] \/ Answer(w)' \in tickets'
  BY <1>0, <1>1, <1>2 DEF AnswerInv, Answer
<1>3. ASSUME NEW v \in Workers, NEW stage, pc[v] \notin {"remember", "commit"},
             stage \notin {"remember", "commit"}, Goto(v, stage),
             UNCHANGED <<req, inserted>>, \A u \in Workers \ {v} : answer'[u] = answer[u]
      PROVE  inserted'[w] \/ Answer(w)' \in tickets'
  BY <1>0, <1>2, <1>3 DEF TypeOK, Goto
<1>4. ASSUME NEW v \in Workers, NEW outcome, NEW id, End(v, outcome, id)
      PROVE  inserted'[w] \/ Answer(w)' \in tickets'
  BY <1>0, <1>2, <1>4 DEF TypeOK, End, Goto, Released
<1>5. ASSUME NEW v \in Workers, NEW r \in Request, Begin(v, r)
      PROVE  inserted'[w] \/ Answer(w)' \in tickets'
  BY <1>0, <1>2, <1>5 DEF TypeOK, Begin, Goto
<1>6. ASSUME NEW v \in Workers, SelectKey(v)
      PROVE  inserted'[w] \/ Answer(w)' \in tickets'
  <2>1. CASE \E outcome, id : Rollback(v, outcome, id)
    BY <1>4, <2>1 DEF Rollback
  <2>2. CASE /\ \E t \in ViewAt(v) :
                   /\ t.key = req[v].key /\ t.content = req[v].content
                   /\ answer' = [answer EXCEPT ![v] = t.id]
             /\ Goto(v, "remember")
             /\ UNCHANGED <<req, inserted>>
    <3>1. PICK t \in tickets : /\ t.key = req[v].key /\ t.content = req[v].content
                               /\ answer' = [answer EXCEPT ![v] = t.id]
      BY <1>0, <2>2 DEF ViewAt, ViewInv
    <3>2. t = [id |-> t.id, key |-> t.key, content |-> t.content]
      BY <1>0 DEF TypeOK, Ticket
    <3>3. CASE w = v
      <4>1. Answer(w)' = t
        BY <1>0, <2>2, <3>1, <3>2, <3>3 DEF TypeOK, Answer
      <4>2. QED
        BY <1>1, <4>1
    <3>4. CASE w # v
      BY <1>0, <1>2, <2>2, <3>1, <3>4 DEF TypeOK, Goto
    <3>5. QED
      BY <3>3, <3>4
  <2>3. CASE Goto(v, "insert") /\ pc[v] = "select" /\ UNCHANGED <<req, inserted, answer>>
    BY <1>3, <2>3
  <2>4. QED
    BY <1>6, <2>1, <2>2, <2>3 DEF SelectKey
<1>7. ASSUME NEW v \in Workers, Insert(v)
      PROVE  inserted'[w] \/ Answer(w)' \in tickets'
  BY <1>0, <1>2, <1>7 DEF TypeOK, Insert, Goto
<1>8. ASSUME NEW v \in Workers, Remember(v)
      PROVE  inserted'[w] \/ Answer(w)' \in tickets'
  BY <1>0, <1>2, <1>8 DEF TypeOK, Remember, Goto
<1>9. ASSUME NEW v \in Workers, Validate(v) \/ Lookup(v)
      PROVE  inserted'[w] \/ Answer(w)' \in tickets'
  BY <1>3, <1>9 DEF Validate, Lookup
<1>10. ASSUME NEW v \in Workers, Verify(v)
      PROVE  inserted'[w] \/ Answer(w)' \in tickets'
  BY <1>3, <1>4, <1>10 DEF Verify, Rollback
<1>11. ASSUME NEW v \in Workers, Commit(v) \/ Abort(v)
      PROVE  inserted'[w] \/ Answer(w)' \in tickets'
  BY <1>4, <1>11 DEF Commit, Abort, Rollback
<1>12. CASE UNCHANGED <<pc, answer, req, inserted>>
  BY <1>0, <1>2, <1>12
<1>13. QED
  BY <1>5, <1>6, <1>7, <1>8, <1>9, <1>10, <1>11, <1>12
     DEF Next, Proceed, ExpireKey, RememberOrder, threadVars, vars

LEMMA NextCacheInv == TypeInv /\ CacheInv /\ [Next]_vars => CacheInv'
BY NextNumberInv, NextViewInv, NextEntryInv, NextAnswerInv DEF CacheInv

----------------------------------------------------------------------------
(* What clients are told.                                                  *)

ReplyInv == AnswerIsTicket /\ ConflictIsReal

LEMMA InitReplyInv == Init => ReplyInv
BY DEF Init, ReplyInv, AnswerIsTicket, ConflictIsReal, Answered

\* An entry that names a ticket of the table was made for that ticket.
LEMMA NamedTicket ==
    ASSUME TypeInv, CacheInv, NEW w \in Workers, Named(w) # {}
    PROVE  \E t \in tickets : /\ t.id = cached[w].id
                              /\ t.key = req[w].key
                              /\ t.content = cached[w].content
<1>0. TypeOK /\ EntryInv /\ ViewInv
  BY DEF TypeInv, CacheInv
<1>1. cached[w] \in Entry
  BY <1>0 DEF Named, TypeOK
<1>2. PICK t \in tickets : t.id = cached[w].id
  BY <1>0 DEF Named, ViewAt, ViewInv
<1>3. QED
  BY <1>0, <1>1, <1>2 DEF EntryInv, Means

LEMMA NextReplyInv == TypeInv /\ CacheInv /\ ReplyInv /\ [Next]_vars => ReplyInv'
<1> SUFFICES ASSUME TypeInv, CacheInv, ReplyInv, [Next]_vars, NEW w \in Workers,
                    Answered(w)'
             PROVE  /\ reply'[w] = "ok" => Answer(w)' \in tickets'
                    /\ reply'[w] = "conflict"
                         => \E t \in tickets' : t.key = req'[w].key /\ t.content # req'[w].content
  BY DEF ReplyInv, AnswerIsTicket, ConflictIsReal, Answer
<1> DEFINE Goal == /\ reply'[w] = "ok" => Answer(w)' \in tickets'
                   /\ reply'[w] = "conflict"
                        => \E t \in tickets' : t.key = req'[w].key /\ t.content # req'[w].content
<1>0. TypeOK /\ StageInv /\ ViewInv /\ AnswerInv
  BY DEF TypeInv, CacheInv
<1>1. tickets \subseteq tickets'
  BY TicketsGrow
\* A step that is not the answer to w's request.
<1>2. ASSUME pc'[w] = pc[w], reply'[w] = reply[w], answer'[w] = answer[w], req'[w] = req[w]
      PROVE  Goal
  BY <1>1, <1>2 DEF Answered, ReplyInv, AnswerIsTicket, ConflictIsReal, Answer
<1>3. ASSUME NEW v \in Workers, v # w, Proceed(v) \/ Abort(v) \/ \E r \in Request : Begin(v, r)
      PROVE  Goal
  <2>1. pc'[w] = pc[w] /\ reply'[w] = reply[w] /\ answer'[w] = answer[w] /\ req'[w] = req[w]
    BY <1>0, <1>3
       DEF TypeOK, Proceed, Validate, Lookup, Verify, SelectKey, Insert, Remember,
           Commit, Abort, Begin, Rollback, End, Goto, boundVars
  <2>2. QED
    BY <1>2, <2>1
<1>4. ASSUME Verify(w) PROVE Goal
  <2>1. CASE Contradicts(w) /\ Rollback(w, "conflict", 0)
    <3>1. PICK t \in tickets : t.key = req[w].key /\ t.content = cached[w].content
      BY <2>1, NamedTicket DEF Contradicts
    <3>2. QED
      BY <1>0, <2>1, <3>1 DEF TypeOK, Contradicts, Rollback, End
  <2>2. CASE ~Contradicts(w) /\ Named(w) # {} /\ Rollback(w, "ok", cached[w].id)
    <3>1. PICK t \in tickets : /\ t.id = cached[w].id /\ t.key = req[w].key
                               /\ t.content = cached[w].content
      BY <2>2, NamedTicket
    <3>2. t = [id |-> t.id, key |-> t.key, content |-> t.content]
      BY <1>0 DEF TypeOK, Ticket
    <3>3. Answer(w)' = t
      BY <1>0, <2>2, <3>1, <3>2 DEF TypeOK, Answer, Contradicts, Rollback, End
    <3>4. QED
      BY <1>0, <1>1, <2>2, <3>3 DEF TypeOK, Rollback, End
  <2>3. CASE Goto(w, "select")
    BY <1>0, <2>3 DEF TypeOK, Goto, Answered
  <2>4. QED
    BY <1>4, <2>1, <2>2, <2>3 DEF Verify
<1>5. ASSUME SelectKey(w) PROVE Goal
  <2>1. CASE /\ \E t \in ViewAt(w) : t.key = req[w].key /\ t.content # req[w].content
             /\ Rollback(w, "conflict", 0)
    BY <1>0, <2>1 DEF TypeOK, ViewAt, ViewInv, Rollback, End
  <2>2. CASE Rollback(w, "error", 0)
    BY <1>0, <2>2 DEF TypeOK, Rollback, End
  <2>3. CASE Goto(w, "remember") \/ Goto(w, "insert")
    BY <1>0, <2>3 DEF TypeOK, Goto, Answered
  <2>4. QED
    BY <1>5, <2>1, <2>2, <2>3 DEF SelectKey
<1>6. ASSUME Commit(w) PROVE Goal
  <2>1. Answer(w)' = Answer(w) /\ reply'[w] = "ok"
    BY <1>0, <1>6 DEF TypeOK, Commit, End, Answer
  <2>2. CASE inserted[w]
    <3>1. Answer(w) = TicketOf(w)
      BY <1>0, <2>2 DEF StageInv, Answer, TicketOf
    <3>2. QED
      BY <1>6, <2>1, <2>2, <3>1 DEF Commit
  <2>3. CASE Answer(w) \in tickets
    BY <1>1, <2>1, <2>3
  <2>4. QED
    BY <1>0, <1>6, <2>2, <2>3 DEF AnswerInv, Commit
<1>7. ASSUME Abort(w) PROVE Goal
  BY <1>0, <1>7 DEF TypeOK, Abort, Rollback, End
<1>8. ASSUME NEW r \in Request, Begin(w, r) PROVE Goal
  BY <1>0, <1>8 DEF TypeOK, Begin
<1>9. ASSUME Validate(w) \/ Lookup(w) \/ Insert(w) \/ Remember(w) PROVE Goal
  BY <1>0, <1>9 DEF TypeOK, Validate, Lookup, Insert, Remember, Goto, Answered
<1>10. CASE UNCHANGED <<pc, reply, answer, req>>
  BY <1>2, <1>10
<1>11. QED
  <2>1. Goal
    BY <1>3, <1>4, <1>5, <1>6, <1>7, <1>8, <1>9, <1>10
       DEF Next, Proceed, ExpireKey, RememberOrder, threadVars, vars
  <2>2. QED
    BY <2>1

\* No client is told of a ticket that is not in the table with its own key
\* and content: neither a rolled back transaction nor a refund with the same
\* key, whose entries stay in Redis, nor a stale read view can make it so.
THEOREM AnswersAreTickets == Spec => []AnswerIsTicket
<1>1. ReplyInv => AnswerIsTicket
  BY DEF ReplyInv
<1>2. QED
  BY InitTypeInv, NextTypeInv, InitCacheInv, NextCacheInv, InitReplyInv, NextReplyInv,
     <1>1, PTL DEF Spec

\* A key is refused as used for something else only if it was: what other
\* requests left in Redis without a ticket blocks nobody.
THEOREM ConflictsAreReal == Spec => []ConflictIsReal
<1>1. ReplyInv => ConflictIsReal
  BY DEF ReplyInv
<1>2. QED
  BY InitTypeInv, NextTypeInv, InitCacheInv, NextCacheInv, InitReplyInv, NextReplyInv,
     <1>1, PTL DEF Spec
=============================================================================
