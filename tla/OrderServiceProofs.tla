------------------------- MODULE OrderServiceProofs -------------------------
(***************************************************************************)
(* Proofs about OrderService, for any orders, keys, threads, requests and  *)
(* bounds, and both isolation levels.                                      *)
(***************************************************************************)
EXTENDS OrderService, TLAPS

----------------------------------------------------------------------------
(* The operators on rows and requests. *)

LEMMA AppliedType ==
    ASSUME NEW row \in Row, NEW op
    PROVE  Applied(op, row) \in Row
BY DEF Applied, Row, OrderStatus, PaymentStatus

LEMMA AppliedSettles ==
    ASSUME NEW row \in Row, NEW op \in Operation
    PROVE  /\ Settled(Applied(op, row))
           /\ op = "refund" => Applied(op, row).paymentStatus = "refunded"
           /\ op = "cancel" => Applied(op, row).orderStatus = "canceled"
           /\ op = "refund" => Applied(op, row).orderStatus = row.orderStatus
           /\ op = "cancel" => Applied(op, row).paymentStatus = row.paymentStatus
BY DEF Applied, Settled, Row, Operation

LEMMA UpdatableOpen ==
    ASSUME NEW row \in Row, NEW op, Updatable(op, row)
    PROVE  ~Settled(row)
BY DEF Updatable, Settled

LEMMA VerdictType ==
    ASSUME NEW r \in Request, NEW row
    PROVE  /\ Verdict(r, row) \in {"ok", "denied", "not_allowed", "already", "update"}
           /\ Verdict(r, row) = "update" => Writes(r)
<1>1. CASE r.op = "query"
  BY <1>1 DEF Verdict, Writes
<1>2. CASE r.op = "refund"
  BY <1>2 DEF Verdict, Writes
<1>3. CASE r.op = "cancel"
  BY <1>3 DEF Verdict, Writes
<1>4. QED
  BY <1>1, <1>2, <1>3 DEF Request, Operation

LEMMA FingerprintType ==
    ASSUME NEW r \in Request, Writes(r)
    PROVE  /\ FingerprintOf(r) \in Fingerprint
           /\ FingerprintOf(r).order = r.order
           /\ LegacyFingerprintOf(r) \in Fingerprint
           /\ LegacyFingerprintOf(r).order = r.order
           /\ FingerprintOf(r).op = r.op
BY DEF FingerprintOf, LegacyFingerprintOf, Fingerprint, Request, Writes, Operation

----------------------------------------------------------------------------
(* Types, with what the typing of the shared stores rests on: only a refund *)
(* or a cancel gets as far as the stages that write, and only one with a    *)
(* key as far as those that use the key.                                    *)

WriteStages == {"update", "put", "insert", "remember", "commit"}
KeyStages == {"lookup", "select", "remember"}

StageInv ==
    /\ \A w \in Workers : pc[w] \in WriteStages \cup KeyStages => Writes(req[w])
    /\ \A w \in Workers : pc[w] \in KeyStages => req[w].key # NoKey
    /\ \A o \in Orders : rowLock[o] # None =>
          /\ req[rowLock[o]].order = o
          /\ Writes(req[rowLock[o]])
          /\ pc[rowLock[o]] # "idle"

TypeInv == TypeOK /\ StageInv

LEMMA InitTypeInv == Init => TypeInv
<1> SUFFICES ASSUME Init PROVE TypeInv
  OBVIOUS
<1> USE ConstantsAssumption, InitialAssumption
<1>1. rows \in [Orders -> Row]
  <2>1. PICK initial \in [Orders -> InitialRows] :
           rows = [o \in Orders |->
                     IF \E e \in LegacyEvents : e.order = o
                     THEN Applied((CHOOSE e \in LegacyEvents : e.order = o).op,
                                  initial[o])
                     ELSE initial[o]]
    BY DEF Init, LedgerInit
  <2>2. \A o \in Orders : initial[o] \in Row
    OBVIOUS
  <2>3. QED
    BY <2>1, <2>2, AppliedType
<1>2. events \in SUBSET Event
  BY DEF Init, LedgerInit
<1>3. idemCache \in [Keys -> Fingerprint \cup {Miss, TicketEntry}]
  <2>1. PICK kept \in SUBSET LegacyEvents :
           idemCache = [k \in Keys |->
                          IF \E e \in kept : e.key = k
                          THEN (CHOOSE e \in kept : e.key = k).fp
                          ELSE Miss]
    BY DEF Init
  <2>2. ASSUME NEW k \in Keys, \E e \in kept : e.key = k
        PROVE  (CHOOSE e \in kept : e.key = k).fp \in Fingerprint
    BY <2>2 DEF Event
  <2>3. QED
    BY <2>1, <2>2
<1>4. req \in [Workers -> Requests]
  BY DEF Init
<1>5. loaded \in [Workers -> Row]
  BY DEF Init, Blank, Row, OrderStatus, PaymentStatus
<1>6. TypeOK
  BY <1>1, <1>2, <1>3, <1>4, <1>5
     DEF Init, TypeOK, Stage, Hit, Reply
<1>7. StageInv
  BY DEF Init, StageInv, WriteStages, KeyStages
<1>8. QED
  BY <1>6, <1>7 DEF TypeInv

\* How a request ends: the row lock goes, the thread is idle.
LEMMA RollbackTypeInv ==
    ASSUME TypeInv, NEW w \in Workers, NEW outcome \in Reply,
           Rollback(w, outcome), aborts' \in Nat
    PROVE  TypeInv'
<1> USE ConstantsAssumption DEF Rollback, End, Released, Goto, cacheVars
<1>1. Blank \in Row
  BY DEF Blank, Row, OrderStatus, PaymentStatus
<1>2. TypeOK'
  BY <1>1 DEF TypeInv, TypeOK, Stage, Hit
<1>3. StageInv'
  BY DEF TypeInv, TypeOK, StageInv, WriteStages, KeyStages
<1>4. QED
  BY <1>2, <1>3 DEF TypeInv

LEMMA CommitTypeInv ==
    ASSUME TypeInv, NEW w \in Workers, Commit(w)
    PROVE  TypeInv'
<1> USE ConstantsAssumption DEF Commit, End, Released, Goto, cacheVars
<1>1. Blank \in Row
  BY DEF Blank, Row, OrderStatus, PaymentStatus
<1>2. Writes(req[w]) /\ req[w] \in Request
  BY DEF TypeInv, TypeOK, StageInv, WriteStages
<1>3. EventOf(w) \in Event
  BY <1>2, FingerprintType
     DEF TypeInv, TypeOK, EventOf, Event, Request, Writes
<1>4. rows' \in [Orders -> Row] /\ events' \in SUBSET Event
  BY <1>2, <1>3, AppliedType DEF TypeInv, TypeOK, Request
<1>5. TypeOK'
  BY <1>1, <1>4 DEF TypeInv, TypeOK, Stage, Hit, Reply
<1>6. StageInv'
  BY DEF TypeInv, TypeOK, StageInv, WriteStages, KeyStages
<1>7. QED
  BY <1>5, <1>6 DEF TypeInv

LEMMA ViewType ==
    ASSUME TypeInv, NEW w \in Workers
    PROVE  /\ ViewAt(w) \in [rows: [Orders -> Row], events: SUBSET Event]
           /\ RowSeen(w) \in Row
           /\ KeepView(w) => snapshot' \in
                [Workers -> [rows: [Orders -> Row], events: SUBSET Event]
                              \cup {NoSnapshot}]
<1>1. ViewAt(w) \in [rows: [Orders -> Row], events: SUBSET Event]
  BY DEF ViewAt, TypeInv, TypeOK
<1>2. req[w].order \in Orders
  BY ConstantsAssumption DEF TypeInv, TypeOK, Request
<1>3. RowSeen(w) \in Row
  BY <1>1, <1>2, AppliedType DEF RowSeen, TypeInv, TypeOK
<1>4. KeepView(w) => snapshot' \in
         [Workers -> [rows: [Orders -> Row], events: SUBSET Event]
                       \cup {NoSnapshot}]
  BY <1>1 DEF KeepView, TypeInv, TypeOK
<1>5. QED
  BY <1>1, <1>3, <1>4

LEMMA NextTypeInv == TypeInv /\ [Next]_vars => TypeInv'
<1> SUFFICES ASSUME TypeInv, [Next]_vars PROVE TypeInv'
  OBVIOUS
<1> USE ConstantsAssumption
<1>r. \A w \in Workers : req[w] \in Request /\ req[w].order \in Orders
  BY DEF TypeInv, TypeOK, Request
<1>1. ASSUME NEW w \in Workers, NEW r \in Requests, Begin(w, r)
      PROVE  TypeInv'
  <2>1. TypeOK'
    BY <1>1 DEF TypeInv, TypeOK, Begin, Goto, Stage, Reply, cacheVars
  <2>2. StageInv'
    BY <1>1 DEF TypeInv, TypeOK, StageInv, Begin, Goto, cacheVars,
                WriteStages, KeyStages
  <2>3. QED
    BY <2>1, <2>2 DEF TypeInv
<1>2. ASSUME NEW w \in Workers, Lookup(w)
      PROVE  TypeInv'
  <2>1. TypeOK'
    BY <1>2 DEF TypeInv, TypeOK, Lookup, HitOf, Goto, Stage, Hit, cacheVars, boundVars
  <2>2. StageInv'
    BY <1>2 DEF TypeInv, TypeOK, StageInv, Lookup, Goto, cacheVars, boundVars,
                WriteStages, KeyStages
  <2>3. QED
    BY <2>1, <2>2 DEF TypeInv
<1>3. ASSUME NEW w \in Workers, SelectEvent(w)
      PROVE  TypeInv'
  <2>1. CASE KeepView(w) /\ Goto(w, "load") /\ pc[w] = "select"
             /\ replay' \in [Workers -> BOOLEAN]
             /\ UNCHANGED <<rows, events, cacheVars, rowLock, req, reqId, hit,
                            loaded, inserted, reply, boundVars>>
    <3>1. TypeOK'
      BY <2>1, ViewType DEF TypeInv, TypeOK, Goto, Stage, cacheVars, boundVars
    <3>2. StageInv'
      BY <2>1 DEF TypeInv, TypeOK, StageInv, Goto, cacheVars, boundVars,
                  WriteStages, KeyStages
    <3>3. QED
      BY <3>1, <3>2 DEF TypeInv
  <2>2. CASE \E outcome \in {"error", "conflict"} :
               Rollback(w, outcome) /\ UNCHANGED aborts
    BY <2>2, RollbackTypeInv DEF TypeInv, TypeOK, Reply
  <2>3. QED
    BY <1>3, <2>1, <2>2 DEF SelectEvent, TypeInv, TypeOK
<1>4. ASSUME NEW w \in Workers, Load(w)
      PROVE  TypeInv'
  <2>1. TypeOK'
    BY <1>4, <1>r
       DEF TypeInv, TypeOK, Load, Goto, Stage, cacheVars, boundVars, RedisGet
  <2>2. StageInv'
    BY <1>4 DEF TypeInv, TypeOK, StageInv, Load, Goto, cacheVars, boundVars,
                WriteStages, KeyStages
  <2>3. QED
    BY <2>1, <2>2 DEF TypeInv
<1>5. ASSUME NEW w \in Workers, Fetch(w)
      PROVE  TypeInv'
  <2>1. TypeOK'
    BY <1>5, ViewType
       DEF TypeInv, TypeOK, Fetch, Goto, Stage, cacheVars, boundVars
  <2>2. StageInv'
    BY <1>5 DEF TypeInv, TypeOK, StageInv, Fetch, Goto, cacheVars, boundVars,
                WriteStages, KeyStages
  <2>3. QED
    BY <2>1, <2>2 DEF TypeInv
<1>6. ASSUME NEW w \in Workers, Fill(w)
      PROVE  TypeInv'
  <2>1. TypeOK'
    BY <1>6, <1>r
       DEF TypeInv, TypeOK, Fill, Goto, Stage, boundVars, RedisPut
  <2>2. StageInv'
    BY <1>6 DEF TypeInv, TypeOK, StageInv, Fill, Goto, boundVars,
                WriteStages, KeyStages
  <2>3. QED
    BY <2>1, <2>2 DEF TypeInv
<1>7. ASSUME NEW w \in Workers, Check(w)
      PROVE  TypeInv'
  <2>1. CASE \E stage \in {"commit", "update"} :
               /\ Goto(w, stage) /\ Writes(req[w]) /\ pc[w] = "check"
               /\ UNCHANGED <<rows, events, cacheVars, rowLock, req, reqId, hit,
                            replay, loaded, inserted, snapshot, reply, served>>
               /\ UNCHANGED aborts
    <3>1. TypeOK'
      BY <2>1 DEF TypeInv, TypeOK, Goto, Stage, cacheVars
    <3>2. StageInv'
      BY <2>1 DEF TypeInv, TypeOK, StageInv, Goto, cacheVars,
                  WriteStages, KeyStages
    <3>3. QED
      BY <3>1, <3>2 DEF TypeInv
  <2>2. CASE \E outcome \in Reply : Rollback(w, outcome) /\ UNCHANGED aborts
    BY <2>2, RollbackTypeInv DEF TypeInv, TypeOK
  <2>3. Holds(w) => Writes(req[w])
    BY <1>r DEF Holds, TypeInv, StageInv
  <2>4. /\ Verdict(req[w], loaded[w])
             \in {"ok", "denied", "not_allowed", "already", "update"}
        /\ Verdict(req[w], loaded[w]) = "update" => Writes(req[w])
    BY <1>r, VerdictType
  <2>5. QED
    BY <1>7, <2>1, <2>2, <2>3, <2>4 DEF Check, Reply
<1>8. ASSUME NEW w \in Workers, Update(w)
      PROVE  TypeInv'
  <2>1. CASE /\ Goto(w, "put") /\ pc[w] = "update"
             /\ rowLock' = [rowLock EXCEPT ![req[w].order] = w]
             /\ loaded' = [loaded EXCEPT ![w] = Applied(req[w].op, @)]
             /\ UNCHANGED <<rows, events, cacheVars, req, reqId, hit, replay,
                            inserted, snapshot, reply, served, aborts>>
    <3>1. TypeOK'
      BY <2>1, <1>r, AppliedType DEF TypeInv, TypeOK, Goto, Stage, cacheVars
    <3>2. StageInv'
      BY <2>1, <1>r DEF TypeInv, TypeOK, StageInv, Goto, cacheVars,
                  WriteStages, KeyStages
    <3>3. QED
      BY <3>1, <3>2 DEF TypeInv
  <2>2. CASE Rollback(w, "already") /\ UNCHANGED aborts
    BY <2>2, RollbackTypeInv DEF TypeInv, TypeOK, Reply
  <2>3. QED
    BY <1>8, <2>1, <2>2 DEF Update, RowMatches
<1>9. ASSUME NEW w \in Workers, Put(w)
      PROVE  TypeInv'
  <2>1. TypeOK'
    BY <1>9, <1>r
       DEF TypeInv, TypeOK, Put, Goto, Stage, boundVars, RedisPut
  <2>2. StageInv'
    BY <1>9 DEF TypeInv, TypeOK, StageInv, Put, Goto, boundVars,
                WriteStages, KeyStages
  <2>3. QED
    BY <2>1, <2>2 DEF TypeInv
<1>10. ASSUME NEW w \in Workers, Insert(w)
       PROVE  TypeInv'
  <2>1. TypeOK'
    BY <1>10 DEF TypeInv, TypeOK, Insert, Goto, Stage, cacheVars, boundVars
  <2>2. StageInv'
    BY <1>10 DEF TypeInv, TypeOK, StageInv, Insert, Goto, cacheVars, boundVars,
                 WriteStages, KeyStages, KeySpent
  <2>3. QED
    BY <2>1, <2>2 DEF TypeInv
<1>11. ASSUME NEW w \in Workers, Remember(w)
       PROVE  TypeInv'
  <2>1. req[w].key \in Keys /\ FingerprintOf(req[w]) \in Fingerprint
    BY <1>11, <1>r, FingerprintType
       DEF TypeInv, StageInv, Remember, KeyStages, WriteStages, Request
  <2>2. TypeOK'
    BY <1>11, <2>1
       DEF TypeInv, TypeOK, Remember, Goto, Stage, boundVars, RedisPut
  <2>3. StageInv'
    BY <1>11 DEF TypeInv, TypeOK, StageInv, Remember, Goto, boundVars,
                 WriteStages, KeyStages
  <2>4. QED
    BY <2>2, <2>3 DEF TypeInv
<1>12. ASSUME NEW w \in Workers, Commit(w)
       PROVE  TypeInv'
  BY <1>12, CommitTypeInv
<1>13. ASSUME NEW w \in Workers, Abort(w)
       PROVE  TypeInv'
  BY <1>13, RollbackTypeInv DEF Abort, TypeInv, TypeOK, Reply
<1>14. ASSUME NEW o \in Orders, ExpireOrder(o)
       PROVE  TypeInv'
  BY <1>14 DEF ExpireOrder, TypeInv, TypeOK, StageInv, threadVars, boundVars
<1>15. ASSUME NEW k \in Keys, ExpireKey(k)
       PROVE  TypeInv'
  BY <1>15 DEF ExpireKey, TypeInv, TypeOK, StageInv, threadVars, boundVars
<1>16. ASSUME NEW k \in TicketKeys, RememberTicket(k)
       PROVE  TypeInv'
  BY <1>16 DEF RememberTicket, TypeInv, TypeOK, StageInv, threadVars, boundVars
<1>17. CASE UNCHANGED vars
  BY <1>17 DEF vars, TypeInv, TypeOK, StageInv
<1>18. QED
  BY <1>1, <1>2, <1>3, <1>4, <1>5, <1>6, <1>7, <1>8, <1>9, <1>10, <1>11,
     <1>12, <1>13, <1>14, <1>15, <1>16, <1>17 DEF Next, Proceed

LEMMA TypeInvariance == Spec => []TypeInv
BY InitTypeInv, NextTypeInv, PTL DEF Spec

\* Every reachable state has the types of the stores and threads.
THEOREM TypeCorrect == Spec => []TypeOK
<1>1. TypeInv => TypeOK
  BY DEF TypeInv
<1>2. QED
  BY <1>1, TypeInvariance, PTL

----------------------------------------------------------------------------
(* Safety that needs nothing of Redis: whatever the caches hold, lose or    *)
(* keep of a transaction that was rolled back, the row locks, the WHERE     *)
(* clauses and the unique key protect the ledger.                           *)

\* A thread between its UPDATE and its commit has the row locked, and the
\* locked row is still as the UPDATE found it.
LockInv ==
    /\ \A w \in Workers :
          pc[w] \in {"put", "insert", "remember", "commit"} => Holds(w)
    /\ \A o \in Orders :
          rowLock[o] # None => Updatable(req[rowLock[o]].op, rows[o])

\* Uncommitted events exclude each other and the committed ones by their key.
KeyInv ==
    /\ \A w \in Workers : inserted[w] => pc[w] \in {"remember", "commit"}
    /\ \A w \in Workers : pc[w] = "remember" => inserted[w]
    /\ \A w \in Workers : inserted[w] => ~KeySpent(req[w].key)
    /\ \A v, w \in Workers :
          inserted[v] /\ inserted[w] /\ req[v].key = req[w].key
            => v = w \/ req[w].key = NoKey

LedgerInv ==
    /\ RefundXorCancel
    /\ EventsApplied
    /\ OneEventPerOrder
    /\ KeySpentOnce

Safety == TypeInv /\ LockInv /\ KeyInv /\ LedgerInv

\* What the upgrade left: one event of an order, none of an unsettled order.
LEMMA InitRows ==
    ASSUME LedgerInit, NEW o \in Orders
    PROVE  \/ /\ \A e \in events : e.order # o
              /\ rows[o] \in Row
              /\ ~Settled(rows[o])
           \/ \E e \in events, row \in Row :
                /\ e \in Event
                /\ e.order = o
                /\ ~Settled(row)
                /\ rows[o] = Applied(e.op, row)
<1>1. PICK initial \in [Orders -> InitialRows] :
         rows = [x \in Orders |->
                   IF \E e \in LegacyEvents : e.order = x
                   THEN Applied((CHOOSE e \in LegacyEvents : e.order = x).op,
                                initial[x])
                   ELSE initial[x]]
  BY DEF LedgerInit
<1>2. initial[o] \in Row /\ ~Settled(initial[o])
  BY InitialAssumption
<1>3. CASE \E e \in LegacyEvents : e.order = o
  <2> DEFINE e == CHOOSE e \in LegacyEvents : e.order = o
  <2>1. e \in LegacyEvents /\ e.order = o
    BY <1>3
  <2>2. rows[o] = Applied(e.op, initial[o])
    BY <1>1, <1>3
  <2>3. e \in Event /\ e \in events
    BY <2>1, InitialAssumption DEF LedgerInit
  <2>4. QED
    BY <1>2, <2>1, <2>2, <2>3
<1>4. CASE ~ \E e \in LegacyEvents : e.order = o
  BY <1>1, <1>2, <1>4 DEF LedgerInit
<1>5. QED
  BY <1>3, <1>4

LEMMA InitSafety == Init => Safety
<1> SUFFICES ASSUME Init PROVE Safety
  OBVIOUS
<1>1. TypeInv
  BY InitTypeInv
<1>2. LockInv /\ KeyInv
  BY DEF Init, LockInv, KeyInv, Holds
<1>3. LedgerInit
  BY DEF Init
<1>4. OneEventPerOrder /\ KeySpentOnce
  BY <1>3, InitialAssumption DEF LedgerInit, OneEventPerOrder, KeySpentOnce
<1>5. RefundXorCancel
  <2> SUFFICES ASSUME NEW o \in Orders
               PROVE  ~ /\ rows[o].paymentStatus = "refunded"
                        /\ rows[o].orderStatus = "canceled"
    BY DEF RefundXorCancel
  <2>1. CASE ~Settled(rows[o])
    BY <2>1 DEF Settled
  <2>2. CASE \E e \in events, row \in Row :
               /\ e \in Event
               /\ e.order = o
               /\ ~Settled(row)
               /\ rows[o] = Applied(e.op, row)
    BY <2>2, AppliedSettles DEF Event, Operation, Settled
  <2>3. QED
    BY <1>3, <2>1, <2>2, InitRows
<1>6. EventsApplied
  <2> SUFFICES ASSUME NEW e \in events
               PROVE  IF e.op = "refund"
                      THEN rows[e.order].paymentStatus = "refunded"
                      ELSE rows[e.order].orderStatus = "canceled"
    BY DEF EventsApplied
  <2>1. e \in Event /\ e.order \in Orders /\ e.op \in Operation
    BY <1>1 DEF TypeInv, TypeOK, Event
  <2>2. PICK f \in events, row \in Row :
              f \in Event /\ f.order = e.order /\ rows[e.order] = Applied(f.op, row)
    BY <1>3, <2>1, InitRows
  <2>3. f = e
    BY <1>4, <2>2 DEF OneEventPerOrder
  <2>4. QED
    BY <2>1, <2>2, <2>3, AppliedSettles DEF Operation
<1>7. QED
  BY <1>1, <1>2, <1>4, <1>5, <1>6 DEF Safety, LedgerInv

\* A request that ends without a commit leaves no lock and no event behind.
LEMMA RollbackSafety ==
    ASSUME Safety, NEW w \in Workers, NEW outcome, Rollback(w, outcome)
    PROVE  LockInv' /\ KeyInv' /\ LedgerInv'
<1> USE ConstantsAssumption DEF Rollback, End, Released, Goto, cacheVars
<1>1. LockInv'
  BY DEF Safety, TypeInv, TypeOK, StageInv, LockInv, Holds, Stage, Request
<1>2. KeyInv'
  BY DEF Safety, TypeInv, TypeOK, StageInv, KeyInv, KeySpent
<1>3. LedgerInv'
  BY DEF Safety, LedgerInv, RefundXorCancel, EventsApplied, OneEventPerOrder,
         KeySpentOnce
<1>4. QED
  BY <1>1, <1>2, <1>3

\* A step that changes no table, no lock, no event and not what is served.
LEMMA StepSafety ==
    ASSUME Safety, NEW w \in Workers, NEW stage,
           Goto(w, stage),
           UNCHANGED <<rows, events, rowLock, req, inserted>>,
           stage \in {"put", "insert", "remember", "commit"} => Holds(w),
           inserted[w] => stage \in {"remember", "commit"},
           stage = "remember" => inserted[w]
    PROVE  LockInv' /\ KeyInv' /\ LedgerInv'
<1> USE ConstantsAssumption DEF Goto
<1>1. LockInv'
  BY DEF Safety, TypeInv, TypeOK, StageInv, LockInv, Holds
<1>2. KeyInv'
  BY DEF Safety, TypeInv, TypeOK, StageInv, KeyInv, KeySpent
<1>3. LedgerInv'
  BY DEF Safety, LedgerInv, RefundXorCancel, EventsApplied, OneEventPerOrder,
         KeySpentOnce
<1>4. QED
  BY <1>1, <1>2, <1>3

\* The row a transaction commits was open, so the order has no event yet.
LEMMA NoEventYet ==
    ASSUME Safety, NEW w \in Workers, Holds(w)
    PROVE  /\ req[w] \in Request
           /\ Writes(req[w])
           /\ Updatable(req[w].op, rows[req[w].order])
           /\ \A e \in events : e.order # req[w].order
<1>1. req[w] \in Request /\ req[w].order \in Orders
  BY ConstantsAssumption DEF Safety, TypeInv, TypeOK, Request
<1>2. Writes(req[w]) /\ Updatable(req[w].op, rows[req[w].order])
  BY <1>1, ConstantsAssumption DEF Safety, TypeInv, StageInv, LockInv, Holds
<1>3. \A e \in events : e.order # req[w].order
  BY <1>2 DEF Safety, LedgerInv, EventsApplied, Updatable
<1>4. QED
  BY <1>1, <1>2, <1>3

LEMMA CommitSafety ==
    ASSUME Safety, NEW w \in Workers, Commit(w)
    PROVE  LockInv' /\ KeyInv' /\ LedgerInv'
<1> USE ConstantsAssumption DEF Commit, End, Released, Goto, cacheVars
<1>1. Holds(w)
  BY DEF Safety, LockInv
<1>2. /\ req[w] \in Request
      /\ Writes(req[w])
      /\ Updatable(req[w].op, rows[req[w].order])
      /\ \A e \in events : e.order # req[w].order
  BY <1>1, NoEventYet
<1> DEFINE o == req[w].order
           op == req[w].op
<1>3. o \in Orders /\ op \in Operation /\ rows[o] \in Row
  BY <1>2 DEF Request, Writes, Safety, TypeInv, TypeOK
<1>4. /\ rows'[o] = Applied(op, rows[o])
      /\ \A x \in Orders : x # o => rows'[x] = rows[x]
  BY <1>3 DEF Safety, TypeInv, TypeOK
<1>5. events' = events \/ events' = events \cup {EventOf(w)}
  OBVIOUS
<1>6. EventOf(w).order = o /\ EventOf(w).op = op /\ EventOf(w).key = req[w].key
  BY DEF EventOf
<1>7. LockInv'
  <2>1. \A v \in Workers : Holds(v)' <=> v # w /\ Holds(v)
    BY <1>1, <1>3 DEF Holds, Safety, TypeInv, TypeOK, Request
  <2>2. \A v \in Workers :
           pc'[v] \in {"put", "insert", "remember", "commit"} => Holds(v)'
    BY <2>1 DEF Safety, LockInv, TypeInv, TypeOK
  <2>3. \A x \in Orders :
           rowLock'[x] # None => Updatable(req'[rowLock'[x]].op, rows'[x])
    BY <1>1, <1>3, <1>4 DEF Safety, LockInv, TypeInv, TypeOK, Holds
  <2>4. QED
    BY <2>2, <2>3 DEF LockInv
<1>8. KeyInv'
  <2>1. \A v \in Workers : inserted'[v] => v # w /\ inserted[v] /\ pc'[v] = pc[v]
    BY DEF Safety, TypeInv, TypeOK
  <2>2. ASSUME NEW v \in Workers, inserted'[v] PROVE ~KeySpent(req[v].key)'
    BY <2>1, <2>2, <1>6 DEF Safety, KeyInv, KeySpent
  <2>3. QED
    BY <2>1, <2>2 DEF Safety, KeyInv, TypeInv, TypeOK
<1>9. RefundXorCancel'
  BY <1>2, <1>3, <1>4, AppliedSettles
     DEF Safety, LedgerInv, RefundXorCancel, Updatable, Operation
<1>10. EventsApplied' /\ OneEventPerOrder'
  <2>1. \A e \in events : e.order \in Orders
    BY DEF Safety, TypeInv, TypeOK, Event
  <2>2. EventsApplied'
    BY <1>2, <1>3, <1>4, <1>6, <2>1, AppliedSettles
       DEF Safety, LedgerInv, EventsApplied, Operation
  <2>3. OneEventPerOrder'
    BY <1>2, <1>6 DEF Safety, LedgerInv, OneEventPerOrder
  <2>4. QED
    BY <2>2, <2>3
<1>11. KeySpentOnce'
  <2>1. CASE ~inserted[w]
    BY <2>1 DEF Safety, LedgerInv, KeySpentOnce
  <2>2. CASE inserted[w]
    BY <2>2, <1>6 DEF Safety, LedgerInv, KeySpentOnce, KeyInv, KeySpent
  <2>3. QED
    BY <2>1, <2>2
<1>12. QED
  BY <1>7, <1>8, <1>9, <1>10, <1>11 DEF LedgerInv

LEMMA NextSafety == Safety /\ [Next]_vars => Safety'
<1> SUFFICES ASSUME Safety, [Next]_vars
             PROVE  LockInv' /\ KeyInv' /\ LedgerInv'
  BY NextTypeInv DEF Safety
<1> USE ConstantsAssumption
<1>1. ASSUME NEW w \in Workers, NEW r \in Requests, Begin(w, r)
      PROVE  LockInv' /\ KeyInv' /\ LedgerInv'
  <2>1. pc[w] = "idle" /\ ~inserted[w] /\ \A o \in Orders : rowLock[o] # w
    BY <1>1 DEF Begin, Safety, TypeInv, TypeOK, StageInv, KeyInv
  <2>2. LockInv'
    BY <1>1, <2>1
       DEF Begin, Goto, Safety, TypeInv, TypeOK, StageInv, LockInv, Holds
  <2>3. KeyInv'
    BY <1>1, <2>1
       DEF Begin, Goto, Safety, TypeInv, TypeOK, KeyInv, KeySpent
  <2>4. LedgerInv'
    BY <1>1 DEF Begin, Safety, LedgerInv, RefundXorCancel, EventsApplied,
                OneEventPerOrder, KeySpentOnce
  <2>5. QED
    BY <2>2, <2>3, <2>4
<1>2. ASSUME NEW w \in Workers, Lookup(w)
      PROVE  LockInv' /\ KeyInv' /\ LedgerInv'
  <2>1. PICK stage \in {"load", "select"} : Goto(w, stage)
    BY <1>2 DEF Lookup
  <2>2. ~inserted[w]
    BY <1>2 DEF Lookup, Safety, KeyInv
  <2>3. QED
    BY <1>2, <2>1, <2>2, StepSafety DEF Lookup
<1>3. ASSUME NEW w \in Workers, SelectEvent(w)
      PROVE  LockInv' /\ KeyInv' /\ LedgerInv'
  <2>1. ~inserted[w]
    BY <1>3 DEF SelectEvent, Safety, KeyInv
  <2>2. CASE Goto(w, "load") /\ UNCHANGED <<rows, events, rowLock, req, inserted>>
    BY <2>1, <2>2, StepSafety
  <2>3. CASE \E outcome \in Reply : Rollback(w, outcome)
    BY <2>3, RollbackSafety
  <2>4. QED
    BY <1>3, <2>2, <2>3 DEF SelectEvent, Reply
<1>4. ASSUME NEW w \in Workers, Load(w)
      PROVE  LockInv' /\ KeyInv' /\ LedgerInv'
  <2>1. PICK stage \in {"fetch", "check"} : Goto(w, stage)
    BY <1>4 DEF Load
  <2>2. ~inserted[w]
    BY <1>4 DEF Load, Safety, KeyInv
  <2>3. QED
    BY <1>4, <2>1, <2>2, StepSafety DEF Load
<1>5. ASSUME NEW w \in Workers, Fetch(w) \/ Fill(w)
      PROVE  LockInv' /\ KeyInv' /\ LedgerInv'
  <2>1. PICK stage \in {"fill", "check"} : Goto(w, stage)
    BY <1>5 DEF Fetch, Fill
  <2>2. ~inserted[w]
    BY <1>5 DEF Fetch, Fill, Safety, KeyInv
  <2>3. QED
    BY <1>5, <2>1, <2>2, StepSafety DEF Fetch, Fill
<1>6. ASSUME NEW w \in Workers, Check(w)
      PROVE  LockInv' /\ KeyInv' /\ LedgerInv'
  <2>1. ~inserted[w]
    BY <1>6 DEF Check, Safety, KeyInv
  <2>2. CASE /\ \/ Goto(w, "commit") /\ Holds(w)
                \/ Goto(w, "update")
             /\ UNCHANGED <<rows, events, rowLock, req, inserted>>
    BY <2>1, <2>2, StepSafety
  <2>3. CASE \E outcome : Rollback(w, outcome)
    BY <2>3, RollbackSafety
  <2>4. QED
    BY <1>6, <2>2, <2>3 DEF Check
<1>7. ASSUME NEW w \in Workers, Update(w)
      PROVE  LockInv' /\ KeyInv' /\ LedgerInv'
  <2> DEFINE o == req[w].order
  <2>1. o \in Orders
    BY DEF Safety, TypeInv, TypeOK, Request
  <2>2. CASE Rollback(w, "already")
    BY <2>2, RollbackSafety
  <2>3. CASE /\ pc[w] = "update"
             /\ rowLock[o] = None
             /\ Updatable(req[w].op, rows[o])
             /\ rowLock' = [rowLock EXCEPT ![o] = w]
             /\ Goto(w, "put")
             /\ UNCHANGED <<rows, events, req, inserted>>
    <3>1. ~inserted[w]
      BY <2>3 DEF Safety, KeyInv
    <3>2. LockInv'
      BY <2>1, <2>3 DEF Goto, Safety, TypeInv, TypeOK, LockInv, Holds
    <3>3. KeyInv'
      BY <2>3, <3>1 DEF Goto, Safety, TypeInv, TypeOK, KeyInv, KeySpent
    <3>4. LedgerInv'
      BY <2>3 DEF Safety, LedgerInv, RefundXorCancel, EventsApplied,
                  OneEventPerOrder, KeySpentOnce
    <3>5. QED
      BY <3>2, <3>3, <3>4
  <2>4. QED
    BY <1>7, <2>2, <2>3 DEF Update, RowMatches
<1>8. ASSUME NEW w \in Workers, Put(w)
      PROVE  LockInv' /\ KeyInv' /\ LedgerInv'
  BY <1>8, StepSafety DEF Put, Safety, LockInv, KeyInv
<1>9. ASSUME NEW w \in Workers, Insert(w)
      PROVE  LockInv' /\ KeyInv' /\ LedgerInv'
  <2>1. ~inserted[w] /\ Holds(w)
    BY <1>9 DEF Insert, Safety, KeyInv, LockInv
  <2>2. CASE KeySpent(req[w].key)
    BY <1>9, <2>1, <2>2, StepSafety DEF Insert
  <2>3. CASE ~KeySpent(req[w].key)
    <3>1. /\ inserted' = [inserted EXCEPT ![w] = TRUE]
          /\ Goto(w, IF req[w].key # NoKey THEN "remember" ELSE "commit")
          /\ UNCHANGED <<rows, events, rowLock, req>>
      BY <1>9, <2>3 DEF Insert
    <3>2. LockInv'
      BY <2>1, <3>1 DEF Goto, Safety, TypeInv, TypeOK, LockInv, Holds
    <3>3. \A v \in Workers \ {w} :
             ~(inserted[v] /\ req[v].key = req[w].key /\ req[w].key # NoKey)
      BY <1>9 DEF Insert, KeyAwaited
    <3>4. KeyInv'
      BY <2>3, <3>1, <3>3 DEF Goto, Safety, TypeInv, TypeOK, KeyInv, KeySpent
    <3>5. LedgerInv'
      BY <3>1 DEF Safety, LedgerInv, RefundXorCancel, EventsApplied,
                  OneEventPerOrder, KeySpentOnce
    <3>6. QED
      BY <3>2, <3>4, <3>5
  <2>4. QED
    BY <2>2, <2>3
<1>10. ASSUME NEW w \in Workers, Remember(w)
       PROVE  LockInv' /\ KeyInv' /\ LedgerInv'
  BY <1>10, StepSafety DEF Remember, Safety, LockInv, KeyInv
<1>11. ASSUME NEW w \in Workers, Commit(w)
       PROVE  LockInv' /\ KeyInv' /\ LedgerInv'
  BY <1>11, CommitSafety
<1>12. ASSUME NEW w \in Workers, Abort(w)
       PROVE  LockInv' /\ KeyInv' /\ LedgerInv'
  BY <1>12, RollbackSafety DEF Abort
<1>13. CASE UNCHANGED <<rows, events, rowLock, pc, req, inserted>>
  BY <1>13 DEF Safety, LockInv, Holds, KeyInv, KeySpent, LedgerInv,
               RefundXorCancel, EventsApplied, OneEventPerOrder, KeySpentOnce
<1>14. QED
  BY <1>1, <1>2, <1>3, <1>4, <1>5, <1>6, <1>7, <1>8, <1>9, <1>10, <1>11,
     <1>12, <1>13
     DEF Next, Proceed, vars, ExpireOrder, ExpireKey, RememberTicket, threadVars

LEMMA SafetyInvariance == Spec => []Safety
<1>1. Safety /\ [Next]_vars => Safety'
  BY NextSafety
<1>2. QED
  BY InitSafety, <1>1, PTL DEF Spec

\* No order is both refunded and canceled, whatever happens to the caches.
THEOREM NeverBothSettled == Spec => []RefundXorCancel
<1>1. Safety => RefundXorCancel
  BY DEF Safety, LedgerInv
<1>2. QED
  BY <1>1, SafetyInvariance, PTL

\* A key is spent by one event, whatever happens to the caches.
THEOREM KeysSpentOnce == Spec => []KeySpentOnce
<1>1. Safety => KeySpentOnce
  BY DEF Safety, LedgerInv
<1>2. QED
  BY <1>1, SafetyInvariance, PTL

\* Every event was applied, and an order is settled at most once, whatever
\* happens to the caches.
THEOREM SettledAtMostOnce == Spec => [](EventsApplied /\ OneEventPerOrder)
<1>1. Safety => EventsApplied /\ OneEventPerOrder
  BY DEF Safety, LedgerInv
<1>2. QED
  BY <1>1, SafetyInvariance, PTL

----------------------------------------------------------------------------
(* The audit trail, when no Redis call fails.  A thread that finds its key  *)
(* spent after its UPDATE must not take the event for its own answer: it    *)
(* would commit the UPDATE without an event.  It cannot, because the cache  *)
(* entry of a spent key agrees with the event (an entry left by a rollback  *)
(* has been overwritten) and the event is of another order.                 *)

\* What the idempotency cache may say of a key that fingerprint fp has spent.
AgreesWith(entry, fp) == entry \in {Miss, TicketEntry, fp}

SecondLookup(w) == Holds(w) /\ pc[w] \in {"lookup", "select"}

EventAudit ==
    /\ SettledHasEvent
    /\ \A e \in events : e.fp.order = e.order
    /\ \A e \in events : e.key # NoKey => AgreesWith(idemCache[e.key], e.fp)

ThreadAudit(w) ==
    /\ pc[w] = "commit" =>
          /\ inserted[w]
          /\ req[w].key # NoKey =>
                AgreesWith(idemCache[req[w].key], FingerprintOf(req[w]))
    /\ Holds(w) =>
          pc[w] \in {"put", "insert", "remember", "commit", "lookup", "select"}
    /\ SecondLookup(w) => KeySpent(req[w].key)
    /\ SecondLookup(w) /\ pc[w] = "select" => hit[w] \in {"none", "other"}
    /\ snapshot[w] # NoSnapshot => snapshot[w].events \subseteq events

AuditInv == EventAudit /\ \A w \in Workers : ThreadAudit(w)

LEMMA InitAudit == Init => AuditInv
<1> SUFFICES ASSUME Init PROVE AuditInv
  OBVIOUS
<1> USE ConstantsAssumption, InitialAssumption
<1>1. TypeInv /\ LedgerInit
  BY InitTypeInv DEF Init
<1>2. SettledHasEvent
  BY <1>1, InitRows DEF SettledHasEvent
<1>3. \A e \in events : e.fp.order = e.order
  BY <1>1 DEF LedgerInit
<1>4. ASSUME NEW e \in events, e.key # NoKey
      PROVE  AgreesWith(idemCache[e.key], e.fp)
  <2>1. e \in LegacyEvents /\ e.key \in Keys
    BY <1>1, <1>4 DEF LedgerInit, Event
  <2>2. PICK kept \in SUBSET LegacyEvents :
           idemCache = [k \in Keys |->
                          IF \E f \in kept : f.key = k
                          THEN (CHOOSE f \in kept : f.key = k).fp
                          ELSE Miss]
    BY DEF Init
  <2>3. CASE ~ \E f \in kept : f.key = e.key
    BY <2>1, <2>2, <2>3 DEF AgreesWith
  <2>4. CASE \E f \in kept : f.key = e.key
    <3>1. (CHOOSE f \in kept : f.key = e.key) = e
      BY <1>4, <2>1, <2>4
    <3>2. QED
      BY <2>1, <2>2, <2>4, <3>1 DEF AgreesWith
  <2>5. QED
    BY <2>3, <2>4
<1>5. \A w \in Workers : ThreadAudit(w)
  <2>1. \A w \in Workers : req[w].order \in Orders
    BY <1>1 DEF TypeInv, TypeOK, Request
  <2>2. QED
    BY <2>1 DEF Init, ThreadAudit, Holds, SecondLookup
<1>6. QED
  BY <1>2, <1>3, <1>4, <1>5 DEF AuditInv, EventAudit

\* Every row and event of a transaction's view is, or was, committed.
LEMMA ViewCommitted ==
    ASSUME AuditInv, NEW w \in Workers
    PROVE  /\ ViewAt(w).events \subseteq events
           /\ KeepView(w) /\ Safety => \A v \in Workers :
                 snapshot'[v] # NoSnapshot => snapshot'[v].events \subseteq events
<1>1. ViewAt(w).events \subseteq events
  BY DEF ViewAt, AuditInv, ThreadAudit
<1>2. QED
  BY <1>1 DEF KeepView, AuditInv, ThreadAudit, Safety, TypeInv, TypeOK

\* A rollback removes what w claimed and nothing else.
LEMMA RollbackAudit ==
    ASSUME Safety, AuditInv, NEW w \in Workers, NEW outcome, Rollback(w, outcome)
    PROVE  AuditInv'
<1> USE ConstantsAssumption DEF Rollback, End, Released, Goto, cacheVars
<1>1. EventAudit'
  BY DEF EventAudit, AuditInv, SettledHasEvent
<1>2. ASSUME NEW v \in Workers PROVE ThreadAudit(v)'
  <2>0. req[v].order \in Orders
    BY DEF Safety, TypeInv, TypeOK, Request
  <2>1. Holds(v)' => v # w /\ Holds(v)
    BY <2>0 DEF Holds, Safety, TypeInv, TypeOK
  <2>2. CASE v = w
    BY <2>1, <2>2 DEF ThreadAudit, SecondLookup, Safety, TypeInv, TypeOK
  <2>3. CASE v # w
    BY <2>1, <2>3
       DEF ThreadAudit, AuditInv, SecondLookup, KeySpent, Safety, TypeInv, TypeOK
  <2>4. QED
    BY <2>2, <2>3
<1>3. QED
  BY <1>1, <1>2 DEF AuditInv

\* A step that concerns w alone.
LEMMA StepAudit ==
    ASSUME Safety, AuditInv, NEW w \in Workers,
           UNCHANGED <<rows, events, rowLock, req, idemCache>>,
           \A v \in Workers \ {w} :
              /\ pc'[v] = pc[v]
              /\ inserted'[v] = inserted[v]
              /\ hit'[v] = hit[v]
              /\ snapshot'[v] = snapshot[v],
           ThreadAudit(w)'
    PROVE  AuditInv'
<1>1. EventAudit'
  BY DEF AuditInv, EventAudit, SettledHasEvent
<1>2. ASSUME NEW v \in Workers \ {w} PROVE ThreadAudit(v)'
  <2>1. ThreadAudit(v)
    BY DEF AuditInv
  <2>2. QED
    BY <2>1 DEF ThreadAudit, Holds, SecondLookup, KeySpent
<1>3. QED
  BY <1>1, <1>2 DEF AuditInv

\* The cache entry of a key that w finds spent is not of w's order.
LEMMA SpentByAnother ==
    ASSUME Safety, AuditInv, NEW w \in Workers, Holds(w),
           NEW e \in events
    PROVE  /\ e.fp # FingerprintOf(req[w])
           /\ e.fp # LegacyFingerprintOf(req[w])
<1>1. /\ req[w] \in Request
      /\ Writes(req[w])
      /\ e.order # req[w].order
  BY NoEventYet
<1>2. e.fp.order = e.order
  BY DEF AuditInv, EventAudit
<1>3. QED
  BY <1>1, <1>2, FingerprintType

LEMMA LookupAudit ==
    ASSUME ~RedisFaults, Safety, AuditInv, NEW w \in Workers, Lookup(w)
    PROVE  AuditInv'
<1> USE ConstantsAssumption
<1>1. PICK entry \in {idemCache[req[w].key]} :
         /\ hit' = [hit EXCEPT ![w] = HitOf(entry, req[w])]
         /\ Goto(w, IF entry = FingerprintOf(req[w]) THEN "load" ELSE "select")
  BY DEF Lookup, RedisGet
<1>2. pc[w] = "lookup" /\ ThreadAudit(w)
  BY DEF Lookup, AuditInv
<1>3. ASSUME Holds(w) PROVE ThreadAudit(w)'
  <2>1. PICK e \in events : e.key = req[w].key /\ e.key # NoKey
    BY <1>2, <1>3 DEF ThreadAudit, SecondLookup, KeySpent
  <2>2. entry \in {Miss, TicketEntry, e.fp}
    BY <1>1, <2>1 DEF AuditInv, EventAudit, AgreesWith
  <2>3. entry # FingerprintOf(req[w]) /\ entry # LegacyFingerprintOf(req[w])
    BY <1>3, <2>2, SpentByAnother, NoEventYet, FingerprintType
  <2>4. HitOf(entry, req[w]) \in {"none", "other"}
    BY <2>3 DEF HitOf
  <2>5. pc'[w] = "select" /\ hit'[w] \in {"none", "other"}
    BY <1>1, <2>3, <2>4 DEF Goto, Safety, TypeInv, TypeOK
  <2>6. KeySpent(req[w].key)'
    BY <2>1 DEF Lookup, KeySpent
  <2>7. QED
    BY <1>2, <2>5, <2>6 DEF Lookup, ThreadAudit, SecondLookup
<1>4. ASSUME ~Holds(w) PROVE ThreadAudit(w)'
  <2>1. ~Holds(w)' /\ pc'[w] \in {"load", "select"}
    BY <1>1, <1>4 DEF Lookup, Holds, Goto, Safety, TypeInv, TypeOK
  <2>2. QED
    BY <1>2, <2>1 DEF Lookup, ThreadAudit, SecondLookup
<1>5. ThreadAudit(w)'
  BY <1>3, <1>4
<1>6. QED
  BY <1>5, StepAudit DEF Lookup, Goto, cacheVars, Safety, TypeInv, TypeOK

LEMMA SelectAudit ==
    ASSUME Safety, AuditInv, NEW w \in Workers, SelectEvent(w)
    PROVE  AuditInv'
<1> USE ConstantsAssumption
<1>1. pc[w] = "select" /\ ThreadAudit(w)
  BY DEF SelectEvent, AuditInv
<1>2. CASE \E outcome : Rollback(w, outcome)
  BY <1>2, RollbackAudit
<1>3. CASE /\ ~Holds(w)
           /\ Goto(w, "load")
           /\ KeepView(w)
           /\ UNCHANGED <<rows, events, cacheVars, rowLock, req, hit, inserted>>
  <2>1. ThreadAudit(w)'
    BY <1>1, <1>3, ViewCommitted
       DEF ThreadAudit, Holds, SecondLookup, Goto, Safety, TypeInv, TypeOK
  <2>2. \A v \in Workers \ {w} :
           pc'[v] = pc[v] /\ snapshot'[v] = snapshot[v]
    BY <1>3 DEF Goto, KeepView, Safety, TypeInv, TypeOK
  <2>3. QED
    BY <1>3, <2>1, <2>2, StepAudit DEF cacheVars
<1>4. ASSUME Holds(w), NEW e \in ViewAt(w).events
      PROVE  ~Answers(e, w)
  BY <1>1, <1>4, ViewCommitted, SpentByAnother
     DEF ThreadAudit, SecondLookup, Answers
<1>5. QED
  BY <1>2, <1>3, <1>4 DEF SelectEvent

\* Steps of a thread that has the row, as it was, or has not locked it yet.
LEMMA ReadAudit ==
    ASSUME Safety, AuditInv, NEW w \in Workers,
           pc[w] \in {"load", "fetch", "fill", "check"},
           NEW stage \in {"fetch", "fill", "check", "update"},
           Goto(w, stage),
           snapshot' = snapshot \/ KeepView(w),
           UNCHANGED <<rows, events, idemCache, rowLock, req, hit, inserted>>
    PROVE  AuditInv'
<1>1. ~Holds(w)
  BY DEF AuditInv, ThreadAudit
<1>2. ThreadAudit(w)'
  BY <1>1, ViewCommitted
     DEF AuditInv, ThreadAudit, Holds, SecondLookup, Goto, Safety, TypeInv, TypeOK
<1>3. \A v \in Workers \ {w} :
         pc'[v] = pc[v] /\ snapshot'[v] = snapshot[v]
  BY DEF Goto, KeepView, Safety, TypeInv, TypeOK
<1>4. QED
  BY <1>2, <1>3, StepAudit

LEMMA CheckAudit ==
    ASSUME Safety, AuditInv, NEW w \in Workers, Check(w)
    PROVE  AuditInv'
<1>1. ~Holds(w) /\ pc[w] = "check"
  BY DEF Check, AuditInv, ThreadAudit
<1>2. CASE \E outcome : Rollback(w, outcome)
  BY <1>2, RollbackAudit
<1>3. CASE /\ Goto(w, "update")
           /\ UNCHANGED <<rows, events, cacheVars, rowLock, req, hit, inserted,
                         snapshot>>
  BY <1>1, <1>3, ReadAudit DEF cacheVars
<1>4. QED
  BY <1>1, <1>2, <1>3 DEF Check

LEMMA UpdateAudit ==
    ASSUME Safety, AuditInv, NEW w \in Workers, Update(w)
    PROVE  AuditInv'
<1> USE ConstantsAssumption
<1> DEFINE o == req[w].order
<1>1. CASE Rollback(w, "already")
  BY <1>1, RollbackAudit
<1>2. CASE /\ rowLock[o] = None
           /\ rowLock' = [rowLock EXCEPT ![o] = w]
           /\ Goto(w, "put")
           /\ UNCHANGED <<rows, events, cacheVars, req, hit, inserted, snapshot>>
  <2>1. \A v \in Workers : req[v].order \in Orders
    BY DEF Safety, TypeInv, TypeOK, Request
  <2>2. EventAudit'
    BY <1>2 DEF AuditInv, EventAudit, SettledHasEvent, cacheVars
  <2>3. ASSUME NEW v \in Workers PROVE ThreadAudit(v)'
    <3>1. ThreadAudit(v)
      BY DEF AuditInv
    <3>2. CASE v = w
      BY <1>2, <3>1, <3>2
         DEF ThreadAudit, SecondLookup, Goto, Safety, TypeInv, TypeOK
    <3>3. CASE v # w
      <4>1. Holds(v)' => Holds(v)
        BY <1>2, <2>1, <3>3 DEF Holds, Safety, TypeInv, TypeOK
      <4>2. pc'[v] = pc[v]
        BY <1>2, <3>3 DEF Goto, Safety, TypeInv, TypeOK
      <4>3. QED
        BY <1>2, <3>1, <4>1, <4>2
           DEF ThreadAudit, SecondLookup, KeySpent, cacheVars
    <3>4. QED
      BY <3>2, <3>3
  <2>4. QED
    BY <2>2, <2>3 DEF AuditInv
<1>3. QED
  BY <1>1, <1>2 DEF Update, RowMatches

LEMMA InsertAudit ==
    ASSUME Safety, AuditInv, NEW w \in Workers, Insert(w)
    PROVE  AuditInv'
<1>1. pc[w] = "insert" /\ ThreadAudit(w)
  BY DEF Insert, AuditInv
<1>2. UNCHANGED <<rows, events, idemCache, orderCache, rowLock, req, hit, snapshot>>
  BY DEF Insert, cacheVars
<1>3. CASE KeySpent(req[w].key)
  <2>1. Goto(w, "lookup") /\ inserted' = inserted
    BY <1>3 DEF Insert
  <2>2. ThreadAudit(w)'
    BY <1>1, <1>2, <1>3, <2>1
       DEF ThreadAudit, Holds, SecondLookup, KeySpent, Goto,
           Safety, TypeInv, TypeOK
  <2>3. QED
    BY <1>2, <2>1, <2>2, StepAudit DEF Goto, Safety, TypeInv, TypeOK
<1>4. CASE ~KeySpent(req[w].key)
  <2>1. /\ inserted' = [inserted EXCEPT ![w] = TRUE]
        /\ Goto(w, IF req[w].key # NoKey THEN "remember" ELSE "commit")
    BY <1>4 DEF Insert
  <2>2. ThreadAudit(w)'
    BY <1>1, <1>2, <2>1
       DEF ThreadAudit, Holds, SecondLookup, Goto, Safety, TypeInv, TypeOK
  <2>3. QED
    BY <1>2, <2>1, <2>2, StepAudit DEF Goto, Safety, TypeInv, TypeOK
<1>5. QED
  BY <1>3, <1>4

\* Remembering a key can contradict no event and no other uncommitted event:
\* the key is w's.
LEMMA RememberAudit ==
    ASSUME ~RedisFaults, Safety, AuditInv, NEW w \in Workers, Remember(w)
    PROVE  AuditInv'
<1> USE ConstantsAssumption
<1> DEFINE k == req[w].key
<1>1. /\ pc[w] = "remember"
      /\ idemCache' = [idemCache EXCEPT ![k] = FingerprintOf(req[w])]
      /\ Goto(w, "commit")
      /\ UNCHANGED <<rows, events, rowLock, req, hit, inserted, snapshot>>
  BY DEF Remember, RedisPut
<1>2. inserted[w] /\ ~KeySpent(k) /\ k # NoKey /\ k \in Keys
  BY <1>1 DEF Safety, KeyInv, TypeInv, TypeOK, StageInv, KeyStages, Request
<1>3. idemCache \in [Keys -> Fingerprint \cup {Miss, TicketEntry}]
  BY DEF Safety, TypeInv, TypeOK
<1>4. EventAudit'
  BY <1>1, <1>2, <1>3
     DEF AuditInv, EventAudit, SettledHasEvent, AgreesWith, KeySpent
<1>5. ASSUME NEW v \in Workers PROVE ThreadAudit(v)'
  <2>1. ThreadAudit(v)
    BY DEF AuditInv
  <2>2. CASE v = w
    BY <1>1, <1>2, <1>3, <2>1, <2>2
       DEF ThreadAudit, Holds, SecondLookup, AgreesWith, FingerprintOf, Goto,
           Safety, TypeInv, TypeOK
  <2>3. CASE v # w
    <3>1. pc'[v] = pc[v] /\ (Holds(v)' <=> Holds(v)) /\ (KeySpent(req[v].key)' <=> KeySpent(req[v].key))
      BY <1>1, <2>3 DEF Goto, Holds, KeySpent, Safety, TypeInv, TypeOK
    <3>2. pc[v] = "commit" => req[v].key # k
      BY <1>2, <2>1, <2>3 DEF ThreadAudit, Safety, KeyInv
    <3>3. pc[v] = "commit" => idemCache'[req[v].key] = idemCache[req[v].key] \/ req[v].key = NoKey
      BY <1>1, <1>3, <3>2 DEF Safety, TypeInv, TypeOK, Request
    <3>4. FingerprintOf(req[v])' = FingerprintOf(req[v])
      BY <1>1 DEF FingerprintOf
    <3>5. QED
      BY <1>1, <2>1, <3>1, <3>3, <3>4 DEF ThreadAudit, SecondLookup, AgreesWith
  <2>4. QED
    BY <2>2, <2>3
<1>6. QED
  BY <1>4, <1>5 DEF AuditInv

LEMMA CommitAudit ==
    ASSUME Safety, AuditInv, NEW w \in Workers, Commit(w)
    PROVE  /\ AuditInv'
           /\ inserted[w]
<1> USE ConstantsAssumption
<1>1. inserted[w] /\ Holds(w)
  BY DEF Commit, AuditInv, ThreadAudit, Safety, LockInv
<1>2. /\ rows' = [rows EXCEPT ![req[w].order] = Applied(req[w].op, @)]
      /\ events' = events \cup {EventOf(w)}
      /\ UNCHANGED <<idemCache, req>>
  BY <1>1 DEF Commit, End, Released, cacheVars
<1>3. /\ EventOf(w).order = req[w].order
      /\ EventOf(w).key = req[w].key
      /\ EventOf(w).fp = FingerprintOf(req[w])
      /\ FingerprintOf(req[w]).order = req[w].order
  BY DEF EventOf, FingerprintOf
<1>4. SettledHasEvent'
  <2>1. ASSUME NEW o \in Orders, Settled(rows[o])'
        PROVE  \E e \in events' : e.order = o
    <3>1. CASE o = req[w].order
      BY <1>2, <1>3, <3>1
    <3>2. CASE o # req[w].order
      <4>1. rows'[o] = rows[o]
        BY <1>2, <3>2 DEF Safety, TypeInv, TypeOK
      <4>2. QED
        BY <1>2, <2>1, <4>1 DEF AuditInv, EventAudit, SettledHasEvent, Settled
    <3>3. QED
      BY <3>1, <3>2
  <2>2. QED
    BY <2>1 DEF SettledHasEvent
<1>5. \A e \in events' : e.fp.order = e.order
  BY <1>2, <1>3 DEF AuditInv, EventAudit
<1>6. \A e \in events' : e.key # NoKey => AgreesWith(idemCache[e.key], e.fp)'
  <2>1. req[w].key # NoKey =>
           AgreesWith(idemCache[req[w].key], FingerprintOf(req[w]))
    BY DEF Commit, AuditInv, ThreadAudit
  <2>2. QED
    BY <1>2, <1>3, <2>1 DEF AuditInv, EventAudit, AgreesWith
<1>7. ASSUME NEW v \in Workers PROVE ThreadAudit(v)'
  <2>0. req[v].order \in Orders /\ ThreadAudit(v)
    BY DEF Safety, TypeInv, TypeOK, Request, AuditInv
  <2>1. Holds(v)' => v # w /\ Holds(v)
    BY <2>0 DEF Commit, End, Released, Holds, Safety, TypeInv, TypeOK
  <2>2. CASE v = w
    BY <2>1, <2>2
       DEF Commit, End, Released, Goto, ThreadAudit, SecondLookup, Safety, TypeInv, TypeOK
  <2>3. CASE v # w
    <3>1. /\ pc'[v] = pc[v]
          /\ hit'[v] = hit[v]
          /\ inserted'[v] = inserted[v]
          /\ snapshot'[v] = snapshot[v]
      BY <2>3 DEF Commit, End, Released, Goto, Safety, TypeInv, TypeOK
    <3>2. KeySpent(req[v].key) => KeySpent(req[v].key)'
      BY <1>2 DEF KeySpent
    <3>3. QED
      BY <1>2, <2>0, <2>1, <3>1, <3>2
         DEF ThreadAudit, SecondLookup, AgreesWith, FingerprintOf
  <2>4. QED
    BY <2>2, <2>3
<1>8. QED
  BY <1>1, <1>4, <1>5, <1>6, <1>7 DEF AuditInv, EventAudit

LEMMA NextAudit ==
    ASSUME ~RedisFaults
    PROVE  Safety /\ AuditInv /\ [Next]_vars => AuditInv'
<1> SUFFICES ASSUME Safety, AuditInv, [Next]_vars PROVE AuditInv'
  OBVIOUS
<1> USE ConstantsAssumption
<1>1. ASSUME NEW w \in Workers, NEW r \in Requests, Begin(w, r)
      PROVE  AuditInv'
  <2>1. pc[w] = "idle" /\ \A o \in Orders : rowLock[o] # w
    BY <1>1 DEF Begin, Safety, TypeInv, TypeOK, StageInv
  <2>2. /\ req' = [req EXCEPT ![w] = r]
        /\ pc'[w] \in {"lookup", "load"}
        /\ \A v \in Workers \ {w} : pc'[v] = pc[v] /\ req'[v] = req[v]
        /\ UNCHANGED <<rows, events, idemCache, rowLock, hit, inserted, snapshot>>
    BY <1>1 DEF Begin, Goto, cacheVars, Safety, TypeInv, TypeOK
  <2>3. r.order \in Orders
    BY DEF Request
  <2>4. EventAudit'
    BY <2>2 DEF AuditInv, EventAudit, SettledHasEvent
  <2>5. ThreadAudit(w)'
    <3>1. ~Holds(w)'
      BY <2>1, <2>2, <2>3 DEF Holds, Safety, TypeInv, TypeOK
    <3>2. QED
      BY <2>2, <3>1 DEF AuditInv, ThreadAudit, SecondLookup
  <2>6. ASSUME NEW v \in Workers \ {w} PROVE ThreadAudit(v)'
    BY <2>2 DEF AuditInv, ThreadAudit, SecondLookup, Holds, KeySpent,
                AgreesWith, FingerprintOf
  <2>7. QED
    BY <2>4, <2>5, <2>6 DEF AuditInv
<1>2. ASSUME NEW w \in Workers, Lookup(w)
      PROVE  AuditInv'
  BY <1>2, LookupAudit
<1>3. ASSUME NEW w \in Workers, SelectEvent(w)
      PROVE  AuditInv'
  BY <1>3, SelectAudit
<1>4. ASSUME NEW w \in Workers, Load(w)
      PROVE  AuditInv'
  <2>1. PICK stage \in {"fetch", "check"} : Goto(w, stage)
    BY <1>4 DEF Load
  <2>2. QED
    BY <1>4, <2>1, ReadAudit DEF Load, cacheVars
<1>5. ASSUME NEW w \in Workers, Fetch(w)
      PROVE  AuditInv'
  BY <1>5, ReadAudit DEF Fetch, cacheVars
<1>6. ASSUME NEW w \in Workers, Fill(w)
      PROVE  AuditInv'
  BY <1>6, ReadAudit DEF Fill
<1>7. ASSUME NEW w \in Workers, Check(w)
      PROVE  AuditInv'
  BY <1>7, CheckAudit
<1>8. ASSUME NEW w \in Workers, Update(w)
      PROVE  AuditInv'
  BY <1>8, UpdateAudit
<1>9. ASSUME NEW w \in Workers, Put(w)
      PROVE  AuditInv'
  <2>1. pc[w] = "put" /\ ThreadAudit(w)
    BY <1>9 DEF Put, AuditInv
  <2>2. ThreadAudit(w)'
    BY <1>9, <2>1 DEF Put, Goto, ThreadAudit, Holds, SecondLookup,
                      Safety, TypeInv, TypeOK
  <2>3. QED
    BY <1>9, <2>2, StepAudit DEF Put, Goto, Safety, TypeInv, TypeOK
<1>10. ASSUME NEW w \in Workers, Insert(w)
       PROVE  AuditInv'
  BY <1>10, InsertAudit
<1>11. ASSUME NEW w \in Workers, Remember(w)
       PROVE  AuditInv'
  BY <1>11, RememberAudit
<1>12. ASSUME NEW w \in Workers, Commit(w)
       PROVE  AuditInv'
  BY <1>12, CommitAudit
<1>13. ASSUME NEW w \in Workers, Abort(w)
       PROVE  AuditInv'
  BY <1>13, RollbackAudit DEF Abort
<1>14. CASE /\ \E k \in Keys, entry \in {Miss, TicketEntry} :
                  idemCache' = [idemCache EXCEPT ![k] = entry]
            /\ UNCHANGED <<rows, events, rowLock, threadVars>>
  BY <1>14 DEF AuditInv, EventAudit, SettledHasEvent, ThreadAudit, SecondLookup,
               Holds, KeySpent, AgreesWith, FingerprintOf, threadVars,
               Safety, TypeInv, TypeOK, Event, Request
<1>15. CASE UNCHANGED <<rows, events, idemCache, rowLock, threadVars>>
  BY <1>15 DEF AuditInv, EventAudit, SettledHasEvent, ThreadAudit, SecondLookup,
               Holds, KeySpent, AgreesWith, FingerprintOf, threadVars
<1>16. QED
  BY <1>1, <1>2, <1>3, <1>4, <1>5, <1>6, <1>7, <1>8, <1>9, <1>10, <1>11, <1>12,
     <1>13, <1>14, <1>15
     DEF Next, Proceed, vars, ExpireOrder, ExpireKey, RememberTicket, threadVars

LEMMA AuditInvariance ==
    ASSUME ~RedisFaults
    PROVE  Spec => [](Safety /\ AuditInv)
<1>1. Safety /\ [Next]_vars => Safety'
  BY NextSafety
<1>2. Safety /\ AuditInv /\ [Next]_vars => AuditInv'
  BY NextAudit
<1>3. QED
  BY InitSafety, InitAudit, <1>1, <1>2, PTL DEF Spec

\* As long as Redis answers, an order is settled exactly when its one event
\* says so: rollbacks, retries, expiry and keys shared with tickets included.
THEOREM AuditTrailExact ==
    ASSUME ~RedisFaults
    PROVE  Spec => []EventsExplainRows
<1>1. Safety /\ AuditInv => EventsExplainRows
  BY DEF Safety, LedgerInv, AuditInv, EventAudit, EventsExplainRows
<1>2. QED
  BY <1>1, AuditInvariance, PTL

\* The only step that changes the ledger is a commit, and it executes one
\* refund or cancel.
LEMMA StepRefines ==
    ASSUME ~RedisFaults
    PROVE  Safety /\ AuditInv /\ [Next]_vars => [LedgerNext]_ledgerVars
<1> SUFFICES ASSUME Safety, AuditInv, [Next]_vars
             PROVE  LedgerNext \/ UNCHANGED ledgerVars
  OBVIOUS
<1>1. ASSUME NEW w \in Workers, Commit(w)
      PROVE  LedgerNext
  <2> DEFINE e == EventOf(w)
  <2>1. inserted[w] /\ Holds(w)
    BY <1>1, CommitAudit DEF Commit, Safety, LockInv
  <2>2. /\ rows' = [rows EXCEPT ![req[w].order] = Applied(req[w].op, @)]
        /\ events' = events \cup {e}
    BY <1>1, <2>1 DEF Commit
  <2>3. e.order = req[w].order /\ e.op = req[w].op /\ e.key = req[w].key
    BY DEF EventOf
  <2>4. e \in Event
    BY <2>1, NoEventYet, FingerprintType, ConstantsAssumption
       DEF EventOf, Event, Request, Writes, Safety, TypeInv, TypeOK
  <2>5. e \notin events
    BY <2>1, <2>3, NoEventYet
  <2>6. Updatable(e.op, rows[e.order])
    BY <2>1, <2>3, NoEventYet
  <2>7. ~KeySpent(e.key)
    BY <2>1, <2>3 DEF Safety, KeyInv
  <2>8. Execute(e)
    BY <2>2, <2>3, <2>6, <2>7 DEF Execute
  <2>9. QED
    BY <2>2, <2>4, <2>5, <2>8 DEF LedgerNext
<1>2. CASE UNCHANGED ledgerVars
  BY <1>2
<1>3. QED
  BY <1>1, <1>2
     DEF Next, Proceed, Begin, Lookup, SelectEvent, Load, Fetch, Fill, Check,
         Update, RowMatches, Put, Insert, Remember, Abort, Rollback, ExpireOrder, ExpireKey,
         RememberTicket, vars, ledgerVars

\* The service with its threads, transactions and caches implements the
\* atomic ledger.
THEOREM ImplementsLedger ==
    ASSUME ~RedisFaults
    PROVE  Spec => LedgerSpec
<1>1. Init => LedgerInit
  BY DEF Init
<1>2. Safety /\ AuditInv /\ [Next]_vars => [LedgerNext]_ledgerVars
  BY StepRefines
<1>3. QED
  BY <1>1, <1>2, AuditInvariance, PTL DEF Spec, LedgerSpec

----------------------------------------------------------------------------
(* What clients are told, when no request is killed between its INSERT and  *)
(* its commit: Redis may fail, entries may expire and keys may be shared.   *)
(* A transaction that has inserted its event is then sure to commit it, so  *)
(* what the idempotency cache shows of it is about to be true.              *)

Committing(v) == pc[v] = "commit" /\ inserted[v]

\* Fingerprint fp has spent key k, or is about to.
Destined(k, fp) ==
    \/ \E e \in events : e.key = k /\ e.fp = fp
    \/ \E v \in Workers :
          Committing(v) /\ req[v].key = k /\ FingerprintOf(req[v]) = fp

\* What r asks for has been done, or is about to be.
Executed(r) ==
    \/ \E e \in events : e.order = r.order /\ e.op = r.op
    \/ \E v \in Workers :
          Committing(v) /\ req[v].order = r.order /\ req[v].op = r.op

EventsTell ==
    /\ LegacyEvents \subseteq events
    /\ \A e \in events :
          /\ e.fp.order = e.order
          /\ e.fp.op \in {"none", e.op}
          /\ e.fp.op = "none" => e \in LegacyEvents

CacheTells ==
    \A k \in Keys : idemCache[k] \notin {Miss, TicketEntry} =>
        /\ Destined(k, idemCache[k])
        /\ idemCache[k].op = "none" =>
              \E e \in LegacyEvents : e.key = k /\ e.fp = idemCache[k]

ViewTells(w) ==
    snapshot[w] # NoSnapshot =>
        /\ LegacyEvents \subseteq snapshot[w].events
        /\ snapshot[w].events \subseteq events

AnswerInv(w) ==
    /\ ViewTells(w)
    /\ pc[w] = "idle" => hit[w] = "none" /\ ~replay[w]
    /\ hit[w] = "legacy" =>
          \E e \in LegacyEvents :
             e.key = req[w].key /\ e.fp = LegacyFingerprintOf(req[w])
    /\ replay[w] => Executed(req[w])
    /\ pc[w] = "commit" => inserted[w] \/ replay[w]
    /\ pc[w] = "idle" /\ reply[w] = "ok" /\ Writes(req[w]) => Executed(req[w])

AnswersInv == EventsTell /\ CacheTells /\ \A w \in Workers : AnswerInv(w)

LEMMA InitAnswers == Init => AnswersInv
<1> SUFFICES ASSUME Init PROVE AnswersInv
  OBVIOUS
<1> USE ConstantsAssumption, InitialAssumption
<1>1. EventsTell
  BY DEF Init, LedgerInit, EventsTell
<1>2. CacheTells
  <2>1. PICK kept \in SUBSET LegacyEvents :
           idemCache = [k \in Keys |->
                          IF \E e \in kept : e.key = k
                          THEN (CHOOSE e \in kept : e.key = k).fp
                          ELSE Miss]
    BY DEF Init
  <2>2. ASSUME NEW k \in Keys, idemCache[k] \notin {Miss, TicketEntry}
        PROVE  \E e \in LegacyEvents : e.key = k /\ e.fp = idemCache[k]
    <3> DEFINE e == CHOOSE e \in kept : e.key = k
    <3>1. \E f \in kept : f.key = k
      BY <2>1, <2>2
    <3>2. e \in kept /\ e.key = k
      BY <3>1
    <3>3. idemCache[k] = e.fp
      BY <2>1, <3>1
    <3>4. QED
      BY <3>2, <3>3
  <2>3. QED
    BY <1>1, <2>2 DEF CacheTells, Destined, EventsTell
<1>3. \A w \in Workers : AnswerInv(w)
  BY DEF Init, AnswerInv, ViewTells
<1>4. QED
  BY <1>1, <1>2, <1>3 DEF AnswersInv

\* What the step of thread w leaves alone of every other thread.
Alone(w) ==
    \A v \in Workers \ {w} :
        /\ pc'[v] = pc[v]
        /\ req'[v] = req[v]
        /\ hit'[v] = hit[v]
        /\ replay'[v] = replay[v]
        /\ loaded'[v] = loaded[v]
        /\ inserted'[v] = inserted[v]
        /\ snapshot'[v] = snapshot[v]
        /\ reply'[v] = reply[v]

LEMMA ViewAlone ==
    ASSUME TypeOK, NEW w \in Workers, KeepView(w)
    PROVE  /\ \A v \in Workers \ {w} : snapshot'[v] = snapshot[v]
           /\ snapshot'[w] \in {snapshot[w], ViewAt(w)}
BY DEF KeepView, TypeOK

LEMMA RollbackAlone ==
    ASSUME TypeOK, NEW w \in Workers, NEW outcome, Rollback(w, outcome)
    PROVE  /\ Alone(w)
           /\ pc'[w] = "idle" /\ req' = req /\ hit'[w] = "none" /\ ~replay'[w]
           /\ snapshot'[w] = NoSnapshot /\ reply'[w] = outcome
           /\ UNCHANGED <<rows, events, orderCache, idemCache>>
BY DEF Rollback, End, Goto, Alone, TypeOK, cacheVars

LEMMA StepsAlone ==
    ASSUME Safety, NEW w \in Workers
    PROVE  /\ \A r \in Requests : Begin(w, r) => Alone(w)
           /\ Proceed(w) => Alone(w)
<1> USE DEF Alone, Goto, cacheVars, boundVars
<1>0. TypeOK
  BY DEF Safety, TypeInv
<1>1. ASSUME NEW r \in Requests, Begin(w, r) PROVE Alone(w)
  BY <1>0, <1>1 DEF Begin, TypeOK
<1>2. ASSUME NEW outcome, Rollback(w, outcome) PROVE Alone(w)
  BY <1>0, <1>2, RollbackAlone
<1>3. CASE Lookup(w) \/ Load(w) \/ Fill(w) \/ Put(w) \/ Remember(w)
  BY <1>0, <1>3 DEF Lookup, Load, Fill, Put, Remember, TypeOK
<1>4. CASE Fetch(w)
  BY <1>0, <1>4, ViewAlone DEF Fetch, TypeOK
<1>5. CASE SelectEvent(w)
  <2>1. CASE KeepView(w)
    BY <1>0, <1>2, <1>5, <2>1, ViewAlone DEF SelectEvent, TypeOK
  <2>2. CASE ~KeepView(w)
    BY <1>2, <1>5, <2>2 DEF SelectEvent
  <2>3. QED
    BY <2>1, <2>2
<1>6. CASE Check(w)
  BY <1>0, <1>2, <1>6 DEF Check, TypeOK
<1>7. CASE Update(w)
  BY <1>0, <1>2, <1>7 DEF Update, TypeOK
<1>8. CASE Insert(w)
  BY <1>0, <1>8 DEF Insert, TypeOK
<1>9. CASE Commit(w)
  BY <1>0, <1>9 DEF Commit, End, TypeOK
<1>10. QED
  BY <1>1, <1>3, <1>4, <1>5, <1>6, <1>7, <1>8, <1>9 DEF Proceed

\* The one way out of "commit" is the commit.
LEMMA CommitsStay ==
    ASSUME MaxAborts = 0, Safety, [Next]_vars
    PROVE  /\ events \subseteq events'
           /\ \A v \in Workers : Committing(v) =>
                 \/ Committing(v)' /\ req'[v] = req[v]
                 \/ EventOf(v) \in events'
<1> USE DEF Committing
<1>0. TypeOK /\ \A w \in Workers : ~Abort(w)
  BY DEF Safety, TypeInv, TypeOK, Abort
<1>1. ASSUME NEW w \in Workers, \/ \E r \in Requests : Begin(w, r)
                                \/ Proceed(w)
      PROVE  \/ ~Committing(w) /\ events' = events
             \/ events' = events \cup {EventOf(w)}
             \/ events' = events /\ ~inserted[w]
  <2>1. CASE Commit(w)
    BY <2>1 DEF Commit
  <2>2. CASE ~Commit(w)
    BY <1>1, <2>2
       DEF Begin, Proceed, Lookup, SelectEvent, Load, Fetch, Fill, Check, Update,
           Put, Insert, Remember, Rollback
  <2>3. QED
    BY <2>1, <2>2
<1>2. CASE UNCHANGED <<events, pc, req, inserted>>
  BY <1>2
<1>3. ASSUME NEW w \in Workers, \/ \E r \in Requests : Begin(w, r)
                                \/ Proceed(w)
      PROVE  /\ events \subseteq events'
             /\ \A v \in Workers : Committing(v) =>
                 \/ Committing(v)' /\ req'[v] = req[v]
                 \/ EventOf(v) \in events'
  <2>1. Alone(w)
    BY <1>3, StepsAlone
  <2>2. QED
    BY <1>1, <1>3, <2>1 DEF Alone
<1>4. QED
  BY <1>0, <1>2, <1>3 DEF Next, vars, ExpireOrder, ExpireKey, RememberTicket, threadVars

LEMMA FactsStay ==
    ASSUME MaxAborts = 0, Safety, [Next]_vars
    PROVE  /\ \A k, fp : Destined(k, fp) => Destined(k, fp)'
           /\ \A r : Executed(r) => Executed(r)'
<1>1. ASSUME NEW k, NEW fp, Destined(k, fp) PROVE Destined(k, fp)'
  BY <1>1, CommitsStay DEF Destined, EventOf, FingerprintOf
<1>2. ASSUME NEW r, Executed(r) PROVE Executed(r)'
  BY <1>2, CommitsStay DEF Executed, EventOf
<1>3. QED
  BY <1>1, <1>2

\* What the entry found in the cache says of the request that looked it up.
LEMMA EntryTells ==
    ASSUME Safety, EventsTell, CacheTells, NEW w \in Workers, pc[w] = "lookup",
           NEW entry \in RedisGet(idemCache[req[w].key])
    PROVE  /\ entry = FingerprintOf(req[w]) => Executed(req[w])
           /\ HitOf(entry, req[w]) = "legacy" =>
                 \E e \in LegacyEvents :
                    e.key = req[w].key /\ e.fp = LegacyFingerprintOf(req[w])
<1> USE ConstantsAssumption
<1> DEFINE k == req[w].key
<1>1. req[w] \in Request /\ Writes(req[w]) /\ k \in Keys
  BY DEF Safety, TypeInv, TypeOK, StageInv, KeyStages, Request
<1>2. /\ FingerprintOf(req[w]) \in Fingerprint
      /\ LegacyFingerprintOf(req[w]) \in Fingerprint
      /\ FingerprintOf(req[w]).order = req[w].order
      /\ FingerprintOf(req[w]).op = req[w].op
      /\ req[w].op # "none"
  BY <1>1, FingerprintType DEF Request, Writes, Operation
<1>3. LegacyFingerprintOf(req[w]).op = "none"
  BY DEF LegacyFingerprintOf, FingerprintOf
<1>4. ASSUME entry = FingerprintOf(req[w]) PROVE Executed(req[w])
  <2>1. Destined(k, FingerprintOf(req[w]))
    BY <1>1, <1>2, <1>4 DEF RedisGet, CacheTells
  <2>2. ASSUME NEW e \in events, e.fp = FingerprintOf(req[w])
        PROVE  e.order = req[w].order /\ e.op = req[w].op
    BY <1>2, <2>2 DEF EventsTell
  <2>3. ASSUME NEW v \in Workers, FingerprintOf(req[v]) = FingerprintOf(req[w])
        PROVE  req[v].order = req[w].order /\ req[v].op = req[w].op
    BY <2>3 DEF FingerprintOf
  <2>4. QED
    BY <2>1, <2>2, <2>3 DEF Destined, Executed
<1>5. ASSUME HitOf(entry, req[w]) = "legacy"
      PROVE  \E e \in LegacyEvents : e.key = k /\ e.fp = LegacyFingerprintOf(req[w])
  <2>1. entry = LegacyFingerprintOf(req[w])
    BY <1>5 DEF HitOf
  <2>2. QED
    BY <1>1, <1>2, <1>3, <2>1 DEF RedisGet, CacheTells
<1>6. QED
  BY <1>4, <1>5

\* An event that answers w is of w's order and operation.
LEMMA AnswerTells ==
    ASSUME Safety, EventsTell, NEW w \in Workers, AnswerInv(w), pc[w] = "select",
           NEW e \in ViewAt(w).events, e.key = req[w].key, Answers(e, w)
    PROVE  Executed(req[w])
<1> USE ConstantsAssumption
<1>1. /\ req[w] \in Request /\ Writes(req[w]) /\ req[w].key # NoKey
      /\ req[w].op # "none"
  BY DEF Safety, TypeInv, TypeOK, StageInv, KeyStages, Request, Operation
<1>2. e \in events
  BY DEF ViewAt, AnswerInv, ViewTells
<1>3. CASE e.fp = FingerprintOf(req[w])
  BY <1>1, <1>2, <1>3, FingerprintType DEF EventsTell, Executed
<1>4. CASE e.fp = LegacyFingerprintOf(req[w]) /\ e.op = req[w].op
  BY <1>1, <1>2, <1>4, FingerprintType DEF EventsTell, Executed
<1>5. CASE hit[w] = "legacy" /\ e.op = req[w].op
  <2>1. PICK f \in LegacyEvents :
           f.key = req[w].key /\ f.fp = LegacyFingerprintOf(req[w])
    BY <1>5 DEF AnswerInv
  <2>2. f = e
    BY <1>1, <1>2, <2>1 DEF EventsTell, Safety, LedgerInv, KeySpentOnce
  <2>3. QED
    BY <1>4, <1>5, <2>1, <2>2
<1>6. QED
  BY <1>3, <1>4, <1>5 DEF Answers

\* The acting thread, step by step.
LEMMA ProceedAnswer ==
    ASSUME MaxAborts = 0, Safety, AnswersInv, NEW w \in Workers, Proceed(w)
    PROVE  AnswerInv(w)'
<1> USE ConstantsAssumption DEF Goto
<1>0. /\ TypeOK
      /\ AnswerInv(w)
      /\ EventsTell
      /\ CacheTells
      /\ [Next]_vars
      /\ events \subseteq events'
      /\ \A r : Executed(r) => Executed(r)'
  BY CommitsStay, FactsStay DEF Safety, TypeInv, AnswersInv, Next
<1>1. req[w] \in Request
  BY <1>0 DEF TypeOK
\* Steps that change where w is, what it has loaded or its read view only.
<1>2. ASSUME req'[w] = req[w], hit'[w] = hit[w], replay'[w] = replay[w],
             inserted'[w] = inserted[w],
             snapshot'[w] \in {snapshot[w], ViewAt(w)},
             pc'[w] # "idle",
             pc'[w] = "commit" => inserted[w] \/ replay[w]
      PROVE  AnswerInv(w)'
  <2>1. ViewTells(w)'
    BY <1>0, <1>2 DEF AnswerInv, ViewTells, ViewAt, EventsTell
  <2>2. LegacyFingerprintOf(req[w])' = LegacyFingerprintOf(req[w])
    BY <1>2 DEF LegacyFingerprintOf, FingerprintOf
  <2>3. QED
    BY <1>0, <1>2, <2>1, <2>2 DEF AnswerInv
<1>3. ASSUME NEW outcome, Rollback(w, outcome),
             outcome = "ok" /\ Writes(req[w]) => Executed(req[w])
      PROVE  AnswerInv(w)'
  <2>1. /\ pc'[w] = "idle" /\ req'[w] = req[w] /\ hit'[w] = "none" /\ ~replay'[w]
        /\ snapshot'[w] = NoSnapshot /\ reply'[w] = outcome
    BY <1>0, <1>3, RollbackAlone
  <2>2. QED
    BY <1>0, <1>3, <2>1 DEF AnswerInv, ViewTells
<1>4. CASE Lookup(w)
  <2>1. PICK entry \in RedisGet(idemCache[req[w].key]) :
           /\ hit' = [hit EXCEPT ![w] = HitOf(entry, req[w])]
           /\ replay' = [replay EXCEPT ![w] = entry = FingerprintOf(req[w])]
           /\ pc' = [pc EXCEPT ![w] = IF entry = FingerprintOf(req[w]) THEN "load" ELSE "select"]
    BY <1>4 DEF Lookup
  <2>2. /\ hit'[w] = HitOf(entry, req[w])
        /\ replay'[w] = (entry = FingerprintOf(req[w]))
        /\ pc'[w] \in {"load", "select"}
        /\ req' = req /\ snapshot' = snapshot
    BY <1>0, <1>4, <2>1 DEF Lookup, TypeOK
  <2>3. /\ entry = FingerprintOf(req[w]) => Executed(req[w])
        /\ HitOf(entry, req[w]) = "legacy" =>
              \E e \in LegacyEvents :
                 e.key = req[w].key /\ e.fp = LegacyFingerprintOf(req[w])
    BY <1>0, <1>4, EntryTells DEF Lookup
  <2>4. LegacyFingerprintOf(req[w])' = LegacyFingerprintOf(req[w])
    BY <2>2 DEF LegacyFingerprintOf, FingerprintOf
  <2>5. ViewTells(w)'
    BY <1>0, <2>2 DEF AnswerInv, ViewTells
  <2>6. QED
    BY <1>0, <2>2, <2>3, <2>4, <2>5 DEF AnswerInv
<1>5. CASE SelectEvent(w)
  <2>1. pc[w] = "select"
    BY <1>5 DEF SelectEvent
  <2>2. CASE /\ \E e \in ViewAt(w).events : e.key = req[w].key /\ Answers(e, w)
             /\ replay' = [replay EXCEPT ![w] = TRUE]
             /\ pc' = [pc EXCEPT ![w] = "load"]
             /\ KeepView(w)
             /\ UNCHANGED <<req, hit>>
    <3>1. Executed(req[w])
      BY <1>0, <2>1, <2>2, AnswerTells
    <3>2. pc'[w] = "load" /\ snapshot'[w] \in {snapshot[w], ViewAt(w)}
      BY <1>0, <2>2, ViewAlone DEF TypeOK
    <3>3. ViewTells(w)'
      BY <1>0, <3>2 DEF AnswerInv, ViewTells, ViewAt, EventsTell
    <3>4. LegacyFingerprintOf(req[w])' = LegacyFingerprintOf(req[w])
      BY <2>2 DEF LegacyFingerprintOf, FingerprintOf
    <3>5. QED
      BY <1>0, <2>2, <3>1, <3>2, <3>3, <3>4 DEF AnswerInv
  <2>3. CASE /\ pc' = [pc EXCEPT ![w] = "load"]
             /\ KeepView(w)
             /\ UNCHANGED <<req, hit, replay, inserted>>
    BY <1>0, <1>2, <2>3, ViewAlone DEF TypeOK
  <2>4. CASE Rollback(w, "error") \/ Rollback(w, "conflict")
    BY <1>3, <2>4
  <2>5. QED
    BY <1>5, <2>2, <2>3, <2>4 DEF SelectEvent
<1>6. CASE Load(w) \/ Fill(w) \/ Put(w)
  BY <1>0, <1>2, <1>6 DEF Load, Fill, Put, TypeOK
<1>7. CASE Fetch(w)
  BY <1>0, <1>2, <1>7, ViewAlone DEF Fetch, TypeOK
<1>8. CASE Check(w)
  <2>1. CASE Rollback(w, "ok") /\ replay[w]
    BY <1>0, <1>3, <2>1 DEF AnswerInv
  <2>2. CASE Rollback(w, Verdict(req[w], loaded[w]))
    <3>1. Verdict(req[w], loaded[w]) = "ok" => ~Writes(req[w])
      BY <1>1 DEF Verdict, Writes, Request, Operation
    <3>2. QED
      BY <1>3, <2>2, <3>1
  <2>3. CASE /\ pc' = [pc EXCEPT ![w] = IF replay[w] THEN "commit" ELSE "update"]
             /\ UNCHANGED <<req, hit, replay, inserted, snapshot>>
    BY <1>0, <1>2, <2>3 DEF TypeOK
  <2>4. QED
    BY <1>8, <2>1, <2>2, <2>3 DEF Check
<1>9. CASE Update(w)
  <2>1. CASE Rollback(w, "already")
    BY <1>3, <2>1
  <2>2. CASE /\ pc' = [pc EXCEPT ![w] = "put"]
             /\ UNCHANGED <<req, hit, replay, inserted, snapshot>>
    BY <1>0, <1>2, <2>2 DEF TypeOK
  <2>3. QED
    BY <1>9, <2>1, <2>2 DEF Update
<1>10. CASE Insert(w)
  <2>1. CASE KeySpent(req[w].key)
    BY <1>0, <1>2, <1>10, <2>1 DEF Insert, TypeOK
  <2>2. CASE ~KeySpent(req[w].key)
    <3>1. /\ pc'[w] \in {"remember", "commit"} /\ inserted'[w]
          /\ req' = req /\ hit' = hit /\ replay' = replay /\ snapshot' = snapshot
      BY <1>0, <1>10, <2>2 DEF Insert, TypeOK
    <3>2. ViewTells(w)'
      BY <1>0, <3>1 DEF AnswerInv, ViewTells
    <3>3. LegacyFingerprintOf(req[w])' = LegacyFingerprintOf(req[w])
      BY <3>1 DEF LegacyFingerprintOf, FingerprintOf
    <3>4. QED
      BY <1>0, <3>1, <3>2, <3>3 DEF AnswerInv
  <2>3. QED
    BY <2>1, <2>2
<1>11. CASE Remember(w)
  <2>1. inserted[w]
    BY <1>11 DEF Remember, Safety, KeyInv
  <2>2. QED
    BY <1>0, <1>2, <1>11, <2>1 DEF Remember, TypeOK
<1>12. CASE Commit(w)
  <2>1. /\ pc'[w] = "idle" /\ hit'[w] = "none" /\ ~replay'[w]
        /\ snapshot'[w] = NoSnapshot /\ req' = req
    BY <1>0, <1>12 DEF Commit, End, TypeOK
  <2>2. Executed(req[w])'
    <3>1. CASE inserted[w]
      <4>1. /\ EventOf(w) \in events'
            /\ EventOf(w).order = req'[w].order
            /\ EventOf(w).op = req'[w].op
        BY <1>12, <2>1, <3>1 DEF Commit, EventOf
      <4>2. QED
        BY <4>1 DEF Executed
    <3>2. CASE ~inserted[w]
      <4>1. Executed(req[w])
        BY <1>0, <1>12, <3>2 DEF Commit, AnswerInv
      <4>2. QED
        BY <1>0, <2>1, <4>1
    <3>3. QED
      BY <3>1, <3>2
  <2>3. QED
    BY <2>1, <2>2 DEF AnswerInv, ViewTells
<1>13. QED
  BY <1>4, <1>5, <1>6, <1>7, <1>8, <1>9, <1>10, <1>11, <1>12 DEF Proceed

\* A thread that does not act is told nothing new.
LEMMA OthersAnswer ==
    ASSUME MaxAborts = 0, Safety, AnswersInv, [Next]_vars, NEW v \in Workers,
           pc'[v] = pc[v], req'[v] = req[v], hit'[v] = hit[v],
           replay'[v] = replay[v], inserted'[v] = inserted[v],
           snapshot'[v] = snapshot[v], reply'[v] = reply[v]
    PROVE  AnswerInv(v)'
<1>1. /\ AnswerInv(v)
      /\ events \subseteq events'
      /\ Executed(req[v]) => Executed(req[v])'
  BY CommitsStay, FactsStay DEF AnswersInv
<1>2. LegacyFingerprintOf(req[v])' = LegacyFingerprintOf(req[v])
  BY DEF LegacyFingerprintOf, FingerprintOf
<1>3. QED
  BY <1>1, <1>2 DEF AnswerInv, ViewTells

LEMMA NextAnswers ==
    ASSUME MaxAborts = 0
    PROVE  Safety /\ AnswersInv /\ [Next]_vars => AnswersInv'
<1> SUFFICES ASSUME Safety, AnswersInv, [Next]_vars PROVE AnswersInv'
  OBVIOUS
<1> USE ConstantsAssumption
<1>0. /\ TypeOK
      /\ EventsTell
      /\ CacheTells
      /\ events \subseteq events'
      /\ \A k, fp : Destined(k, fp) => Destined(k, fp)'
  BY CommitsStay, FactsStay DEF Safety, TypeInv, AnswersInv
<1>1. EventsTell'
  <2>1. CASE events' = events
    BY <1>0, <2>1 DEF EventsTell
  <2>2. ASSUME NEW w \in Workers, Commit(w) PROVE EventsTell'
    <3>1. /\ EventOf(w).fp.order = EventOf(w).order
          /\ EventOf(w).fp.op = EventOf(w).op
          /\ EventOf(w).fp.op # "none"
      BY <2>2 DEF Commit, EventOf, FingerprintOf, Safety, TypeInv, TypeOK,
                  Request, Operation
    <3>2. QED
      BY <1>0, <2>2, <3>1 DEF Commit, EventsTell
  <2>3. QED
    BY <2>1, <2>2
       DEF Next, Begin, Proceed, Lookup, SelectEvent, Load, Fetch, Fill, Check,
           Update, Put, Insert, Remember, Abort, Rollback, ExpireOrder, ExpireKey,
           RememberTicket, vars
<1>2. CacheTells'
  <2>1. ASSUME NEW k \in Keys, idemCache'[k] \in {idemCache[k], Miss, TicketEntry},
               idemCache'[k] \notin {Miss, TicketEntry}
        PROVE  /\ Destined(k, idemCache[k])'
               /\ idemCache'[k].op = "none" =>
                     \E e \in LegacyEvents : e.key = k /\ e.fp = idemCache'[k]
    <3>1. idemCache'[k] = idemCache[k] /\ Destined(k, idemCache[k])
      BY <1>0, <2>1 DEF CacheTells
    <3>2. Destined(k, idemCache[k])'
      BY <1>0, <3>1 DEF Destined
    <3>3. QED
      BY <1>0, <2>1, <3>1, <3>2 DEF CacheTells
  <2>2. CASE \A k \in Keys : idemCache'[k] \in {idemCache[k], Miss, TicketEntry}
    BY <2>1, <2>2 DEF CacheTells
  <2>3. ASSUME NEW w \in Workers, Remember(w) PROVE CacheTells'
    <3> DEFINE c == req[w].key
    <3>1. /\ \A k \in Keys : k # c => idemCache'[k] = idemCache[k]
          /\ idemCache'[c] \in {idemCache[c], FingerprintOf(req[w])}
          /\ c \in Keys
      BY <2>3 DEF Remember, RedisPut, Safety, TypeInv, TypeOK, StageInv,
                  KeyStages, Request
    <3>2. Committing(w)' /\ req' = req
      BY <2>3 DEF Remember, Goto, Committing, Safety, TypeInv, TypeOK, KeyInv
    <3>3. /\ Destined(c, FingerprintOf(req[w]))'
          /\ FingerprintOf(req[w])' = FingerprintOf(req[w])
      BY <3>2 DEF Destined, FingerprintOf
    <3>4. FingerprintOf(req[w]).op # "none"
      BY <2>3 DEF Remember, FingerprintOf, Safety, TypeInv, TypeOK, Request, Operation
    <3>5. ASSUME NEW k \in Keys, idemCache'[k] \notin {Miss, TicketEntry}
          PROVE  /\ Destined(k, idemCache[k])'
                 /\ idemCache'[k].op = "none" =>
                       \E e \in LegacyEvents : e.key = k /\ e.fp = idemCache'[k]
      <4>1. CASE idemCache'[k] = idemCache[k]
        BY <2>1, <3>5, <4>1
      <4>2. CASE k = c /\ idemCache'[k] = FingerprintOf(req[w])
        BY <3>2, <3>3, <3>4, <4>2
      <4>3. QED
        BY <3>1, <4>1, <4>2
    <3>6. QED
      BY <3>5 DEF CacheTells
  <2>4. ASSUME NEW k \in Keys, ExpireKey(k) \/ RememberTicket(k) PROVE CacheTells'
    BY <2>2, <2>4 DEF ExpireKey, RememberTicket, Safety, TypeInv, TypeOK
  <2>5. QED
    BY <2>2, <2>3, <2>4
       DEF Next, Begin, Proceed, Lookup, SelectEvent, Load, Fetch, Fill, Check,
           Update, Put, Insert, Commit, Abort, Rollback, End, ExpireOrder,
           cacheVars, vars
<1>3. \A w \in Workers : ~Abort(w)
  BY <1>0 DEF TypeOK, Abort
<1>4. ASSUME NEW w \in Workers, NEW r \in Requests, Begin(w, r)
      PROVE  \A v \in Workers : AnswerInv(v)'
  <2>1. /\ pc'[w] \in {"lookup", "load"} /\ reply'[w] = "none"
        /\ hit' = hit /\ replay' = replay /\ snapshot' = snapshot
        /\ pc[w] = "idle" /\ AnswerInv(w)
    BY <1>0, <1>4 DEF Begin, Goto, TypeOK, AnswersInv
  <2>2. AnswerInv(w)'
    BY <1>0, <2>1 DEF AnswerInv, ViewTells
  <2>3. QED
    BY <1>4, <2>2, StepsAlone, OthersAnswer DEF Alone
<1>5. ASSUME NEW w \in Workers, Proceed(w)
      PROVE  \A v \in Workers : AnswerInv(v)'
  <2>1. Alone(w) /\ AnswerInv(w)'
    BY <1>5, StepsAlone, ProceedAnswer
  <2>2. ASSUME NEW v \in Workers \ {w} PROVE AnswerInv(v)'
    BY <2>1, OthersAnswer DEF Alone
  <2>3. QED
    BY <2>1, <2>2
<1>6. ASSUME UNCHANGED threadVars, NEW v \in Workers PROVE AnswerInv(v)'
  <2>1. UNCHANGED <<pc, req, hit, replay, inserted, snapshot, reply>>
    BY <1>6 DEF threadVars
  <2>2. QED
    BY <2>1, OthersAnswer
<1>7. QED
  BY <1>1, <1>2, <1>3, <1>4, <1>5, <1>6
     DEF Next, vars, ExpireOrder, ExpireKey, RememberTicket, threadVars, AnswersInv

LEMMA AnswersInvariance ==
    ASSUME MaxAborts = 0
    PROVE  Spec => [](Safety /\ AnswersInv)
<1>1. Safety /\ [Next]_vars => Safety'
  BY NextSafety
<1>2. Safety /\ AnswersInv /\ [Next]_vars => AnswersInv'
  BY NextAnswers
<1>3. QED
  BY InitSafety, InitAnswers, <1>1, <1>2, PTL DEF Spec

\* A refund or cancel reported as done has its event, or its transaction is
\* about to commit one: also when Redis fails, when the answer is taken from
\* another request's entry and when the key has been used for something else.
THEOREM SuccessReported ==
    ASSUME MaxAborts = 0
    PROVE  Spec => []SuccessMeansExecuted
<1>1. Safety /\ AnswersInv => SuccessMeansExecuted
  <2> SUFFICES ASSUME Safety, AnswersInv, NEW w \in Workers,
                      Answered(w), reply[w] = "ok", Writes(req[w]), ~InFlight(w)
               PROVE  \E e \in events : e.order = req[w].order /\ e.op = req[w].op
    BY DEF SuccessMeansExecuted
  <2>1. Executed(req[w])
    BY DEF AnswersInv, AnswerInv, Answered
  <2>2. ASSUME NEW v \in Workers, Committing(v), req[v].order = req[w].order
        PROVE  FALSE
    BY <2>2, ConstantsAssumption
       DEF Committing, Safety, LockInv, Holds, InFlight
  <2>3. QED
    BY <2>1, <2>2 DEF Executed
<1>2. QED
  BY <1>1, AnswersInvariance, PTL

----------------------------------------------------------------------------
(* Key conflicts, when moreover no ticket is created under a key of an      *)
(* order: what the cache remembers of a key is what the key's one event     *)
(* says, so a request refused for its key is not that event's request.      *)

Matches(e, r) ==
    \/ e.fp = FingerprintOf(r)
    \/ e.fp = LegacyFingerprintOf(r) /\ e.op = r.op

\* The key of r has been spent, or is about to be, by another request.
SpentOtherwise(r) ==
    \E fp \in Fingerprint :
       /\ Destined(r.key, fp)
       /\ fp # FingerprintOf(r)
       /\ fp # LegacyFingerprintOf(r)

\* r conflicts with the event of its key.
Conflicts(r) ==
    \E e \in events : e.key = r.key /\ e.key # NoKey /\ ~Matches(e, r)

ConflictInv(w) ==
    /\ pc[w] = "select" => hit[w] # "same"
    /\ hit[w] = "other" => SpentOtherwise(req[w])
    /\ pc[w] = "idle" /\ reply[w] = "conflict" => Conflicts(req[w])

ConflictsInv ==
    /\ \A k \in Keys : idemCache[k] # TicketEntry
    /\ \A w \in Workers : ConflictInv(w)

LEMMA InitConflicts == Init => ConflictsInv
<1> SUFFICES ASSUME Init PROVE ConflictsInv
  OBVIOUS
<1> USE ConstantsAssumption
<1>1. \A k \in Keys : idemCache[k] # TicketEntry
  <2>1. PICK kept \in SUBSET LegacyEvents :
           idemCache = [k \in Keys |->
                          IF \E e \in kept : e.key = k
                          THEN (CHOOSE e \in kept : e.key = k).fp
                          ELSE Miss]
    BY DEF Init
  <2>2. ASSUME NEW k \in Keys, \E e \in kept : e.key = k
        PROVE  (CHOOSE e \in kept : e.key = k).fp \in Fingerprint
    BY <2>2, InitialAssumption DEF Event
  <2>3. QED
    BY <2>1, <2>2
<1>2. QED
  BY <1>1 DEF Init, ConflictsInv, ConflictInv

LEMMA ConflictsStay ==
    ASSUME MaxAborts = 0, Safety, [Next]_vars
    PROVE  \A r : /\ SpentOtherwise(r) => SpentOtherwise(r)'
                  /\ Conflicts(r) => Conflicts(r)'
<1> SUFFICES ASSUME NEW r
             PROVE  /\ SpentOtherwise(r) => SpentOtherwise(r)'
                    /\ Conflicts(r) => Conflicts(r)'
  OBVIOUS
<1>1. SpentOtherwise(r) => SpentOtherwise(r)'
  BY FactsStay DEF SpentOtherwise, FingerprintOf, LegacyFingerprintOf
<1>2. Conflicts(r) => Conflicts(r)'
  BY CommitsStay DEF Conflicts, Matches, FingerprintOf, LegacyFingerprintOf
<1>3. QED
  BY <1>1, <1>2

\* The SELECT that finds no answer under w's key finds another's event.
LEMMA ConflictTells ==
    ASSUME Safety, AnswersInv, NEW w \in Workers, ConflictInv(w), pc[w] = "select",
           \/ hit[w] = "legacy"
           \/ \E e \in ViewAt(w).events : e.key = req[w].key,
           \A e \in ViewAt(w).events : e.key = req[w].key => ~Answers(e, w)
    PROVE  Conflicts(req[w])
<1> USE ConstantsAssumption
<1>1. /\ AnswerInv(w) /\ EventsTell /\ KeySpentOnce
      /\ req[w].key # NoKey
      /\ hit[w] \in {"none", "legacy", "other"}
  BY DEF AnswersInv, Safety, TypeInv, TypeOK, StageInv, KeyStages, LedgerInv, Hit,
         ConflictInv
<1>2. LegacyEvents \subseteq ViewAt(w).events /\ ViewAt(w).events \subseteq events
  BY <1>1 DEF ViewAt, AnswerInv, ViewTells, EventsTell
<1>3. CASE hit[w] = "legacy"
  <2>1. PICK e \in LegacyEvents :
           e.key = req[w].key /\ e.fp = LegacyFingerprintOf(req[w])
    BY <1>1, <1>3 DEF AnswerInv
  <2>2. e.op # req[w].op
    BY <1>2, <1>3, <2>1 DEF Answers
  <2>3. e.fp.op = "none" /\ FingerprintOf(req[w]).op # "none"
    BY <2>1, InitialAssumption
       DEF FingerprintOf, Safety, TypeInv, TypeOK, StageInv, KeyStages,
           Writes, Request, Operation
  <2>4. QED
    BY <1>1, <1>2, <2>1, <2>2, <2>3 DEF Conflicts, Matches
<1>4. CASE hit[w] # "legacy"
  <2>1. PICK e \in ViewAt(w).events : e.key = req[w].key
    BY <1>4
  <2>2. CASE hit[w] = "none"
    BY <1>1, <1>2, <2>1, <2>2 DEF Answers, Conflicts, Matches
  <2>3. CASE hit[w] = "other"
    <3>1. PICK fp \in Fingerprint :
             /\ Destined(req[w].key, fp)
             /\ fp # FingerprintOf(req[w])
             /\ fp # LegacyFingerprintOf(req[w])
      BY <2>3 DEF ConflictInv, SpentOtherwise
    <3>2. KeySpent(req[w].key)
      BY <1>1, <1>2, <2>1 DEF KeySpent
    <3>3. ASSUME NEW v \in Workers, Committing(v), req[v].key = req[w].key
          PROVE  FALSE
      BY <3>2, <3>3 DEF Committing, Safety, KeyInv
    <3>4. PICK f \in events : f.key = req[w].key /\ f.fp = fp
      BY <3>1, <3>3 DEF Destined
    <3>5. QED
      BY <1>1, <3>1, <3>4 DEF Conflicts, Matches
  <2>4. QED
    BY <1>1, <1>4, <2>2, <2>3
<1>5. QED
  BY <1>3, <1>4

LEMMA ProceedConflict ==
    ASSUME MaxAborts = 0, Safety, AnswersInv, ConflictsInv,
           NEW w \in Workers, Proceed(w)
    PROVE  ConflictInv(w)'
<1> USE ConstantsAssumption DEF Goto
<1>0. /\ TypeOK
      /\ ConflictInv(w)
      /\ [Next]_vars
      /\ \A r : SpentOtherwise(r) => SpentOtherwise(r)'
      /\ \A r : Conflicts(r) => Conflicts(r)'
  BY ConflictsStay DEF Safety, TypeInv, ConflictsInv, Next
<1>1. ASSUME req'[w] = req[w], hit'[w] = hit[w], pc'[w] \notin {"idle", "select"}
      PROVE  ConflictInv(w)'
  BY <1>0, <1>1 DEF ConflictInv
<1>2. ASSUME NEW outcome, Rollback(w, outcome),
             outcome = "conflict" => Conflicts(req[w])
      PROVE  ConflictInv(w)'
  <2>1. pc'[w] = "idle" /\ req'[w] = req[w] /\ hit'[w] = "none" /\ reply'[w] = outcome
    BY <1>0, <1>2, RollbackAlone
  <2>2. QED
    BY <1>0, <1>2, <2>1 DEF ConflictInv
<1>3. CASE Lookup(w)
  <2>1. PICK entry \in RedisGet(idemCache[req[w].key]) :
           /\ hit' = [hit EXCEPT ![w] = HitOf(entry, req[w])]
           /\ pc' = [pc EXCEPT ![w] = IF entry = FingerprintOf(req[w]) THEN "load" ELSE "select"]
    BY <1>3 DEF Lookup
  <2>2. /\ hit'[w] = HitOf(entry, req[w])
        /\ pc'[w] = IF entry = FingerprintOf(req[w]) THEN "load" ELSE "select"
        /\ req' = req
    BY <1>0, <1>3, <2>1 DEF Lookup, TypeOK
  <2>3. /\ req[w].key \in Keys
        /\ req[w] \in Request
        /\ FingerprintOf(req[w]) \in Fingerprint
    BY <1>3, FingerprintType
       DEF Lookup, Safety, TypeInv, TypeOK, StageInv, KeyStages, Request
  <2>4. ASSUME HitOf(entry, req[w]) = "other" PROVE SpentOtherwise(req[w])
    <3>1. /\ entry # Miss
          /\ entry # FingerprintOf(req[w])
          /\ entry # LegacyFingerprintOf(req[w])
      BY <2>4 DEF HitOf
    <3>2. entry = idemCache[req[w].key] /\ entry \in Fingerprint
      BY <1>0, <2>3, <3>1 DEF RedisGet, TypeOK, ConflictsInv
    <3>3. Destined(req[w].key, entry)
      BY <2>3, <3>1, <3>2 DEF AnswersInv, CacheTells
    <3>4. QED
      BY <3>1, <3>2, <3>3 DEF SpentOtherwise
  <2>5. pc'[w] = "select" => HitOf(entry, req[w]) # "same"
    BY <2>2, <2>3 DEF HitOf
  <2>6. QED
    BY <1>0, <2>2, <2>4, <2>5 DEF ConflictInv
<1>4. CASE SelectEvent(w)
  <2>1. CASE pc' = [pc EXCEPT ![w] = "load"] /\ UNCHANGED <<req, hit>>
    BY <1>0, <1>1, <2>1 DEF TypeOK
  <2>2. CASE Rollback(w, "error")
    BY <1>2, <2>2
  <2>3. ASSUME \/ hit[w] = "legacy"
               \/ {e \in ViewAt(w).events : e.key = req[w].key} # {},
               \A e \in {e \in ViewAt(w).events : e.key = req[w].key} : ~Answers(e, w),
               Rollback(w, "conflict")
        PROVE  ConflictInv(w)'
    <3>1. pc[w] = "select"
      BY <1>4 DEF SelectEvent
    <3>2. \/ hit[w] = "legacy"
          \/ \E e \in ViewAt(w).events : e.key = req[w].key
      BY <2>3
    <3>3. \A e \in ViewAt(w).events : e.key = req[w].key => ~Answers(e, w)
      BY <2>3
    <3>4. Conflicts(req[w])
      BY <1>0, <3>1, <3>2, <3>3, ConflictTells
    <3>5. QED
      BY <1>2, <2>3, <3>4
  <2>4. QED
    BY <1>4, <2>1, <2>2, <2>3 DEF SelectEvent
<1>5. CASE Load(w) \/ Fetch(w) \/ Fill(w) \/ Put(w) \/ Remember(w)
  BY <1>0, <1>1, <1>5 DEF Load, Fetch, Fill, Put, Remember, TypeOK
<1>6. CASE Check(w)
  <2>1. Verdict(req[w], loaded[w]) # "conflict"
    BY <1>0, VerdictType DEF TypeOK
  <2>2. QED
    BY <1>0, <1>1, <1>2, <1>6, <2>1 DEF Check, TypeOK
<1>7. CASE Update(w)
  BY <1>0, <1>1, <1>2, <1>7 DEF Update, TypeOK
<1>8. CASE Insert(w)
  BY <1>0, <1>1, <1>8 DEF Insert, TypeOK
<1>9. CASE Commit(w)
  <2>1. pc'[w] = "idle" /\ hit'[w] = "none" /\ reply'[w] = "ok"
    BY <1>0, <1>9 DEF Commit, End, TypeOK
  <2>2. QED
    BY <2>1 DEF ConflictInv
<1>10. QED
  BY <1>3, <1>4, <1>5, <1>6, <1>7, <1>8, <1>9 DEF Proceed

LEMMA NextConflicts ==
    ASSUME MaxAborts = 0, TicketKeys = {}
    PROVE  Safety /\ AnswersInv /\ ConflictsInv /\ [Next]_vars => ConflictsInv'
<1> SUFFICES ASSUME Safety, AnswersInv, ConflictsInv, [Next]_vars
             PROVE  ConflictsInv'
  OBVIOUS
<1> USE ConstantsAssumption
<1>0. TypeOK
  BY DEF Safety, TypeInv
<1>1. \A k \in Keys : idemCache'[k] # TicketEntry
  <2>1. ASSUME NEW w \in Workers, Remember(w)
        PROVE  \A k \in Keys : idemCache'[k] # TicketEntry
    <3>1. /\ FingerprintOf(req[w]) \in Fingerprint
          /\ req[w].key \in Keys
      BY <2>1, FingerprintType
         DEF Remember, Safety, TypeInv, TypeOK, StageInv, KeyStages, Request
    <3>2. QED
      BY <1>0, <2>1, <3>1 DEF Remember, RedisPut, TypeOK, ConflictsInv
  <2>2. ASSUME NEW k \in Keys, ExpireKey(k)
        PROVE  \A c \in Keys : idemCache'[c] # TicketEntry
    BY <1>0, <2>2 DEF ExpireKey, TypeOK, ConflictsInv
  <2>3. CASE idemCache' = idemCache
    BY <2>3 DEF ConflictsInv
  <2>4. QED
    BY <2>1, <2>2, <2>3
       DEF Next, Begin, Proceed, Lookup, SelectEvent, Load, Fetch, Fill, Check,
           Update, Put, Insert, Commit, Abort, Rollback, End, ExpireOrder,
           cacheVars, vars
<1>2. \A w \in Workers : ~Abort(w)
  BY <1>0 DEF TypeOK, Abort
<1>3. ASSUME NEW v \in Workers, pc'[v] = pc[v], req'[v] = req[v], hit'[v] = hit[v],
             reply'[v] = reply[v]
      PROVE  ConflictInv(v)'
  BY <1>3, ConflictsStay DEF ConflictsInv, ConflictInv
<1>4. ASSUME NEW w \in Workers, NEW r \in Requests, Begin(w, r)
      PROVE  \A v \in Workers : ConflictInv(v)'
  <2>1. ConflictInv(w)'
    <3>1. pc'[w] \in {"lookup", "load"} /\ hit'[w] = "none"
      BY <1>0, <1>4 DEF Begin, Goto, TypeOK, AnswersInv, AnswerInv
    <3>2. QED
      BY <3>1 DEF ConflictInv
  <2>2. QED
    BY <1>3, <1>4, <2>1, StepsAlone DEF Alone
<1>5. ASSUME NEW w \in Workers, Proceed(w)
      PROVE  \A v \in Workers : ConflictInv(v)'
  <2>1. Alone(w) /\ ConflictInv(w)'
    BY <1>5, StepsAlone, ProceedConflict
  <2>2. ASSUME NEW v \in Workers \ {w} PROVE ConflictInv(v)'
    BY <1>3, <2>1 DEF Alone
  <2>3. QED
    BY <2>1, <2>2
<1>6. ASSUME UNCHANGED threadVars, NEW v \in Workers PROVE ConflictInv(v)'
  BY <1>3, <1>6 DEF threadVars
<1>7. QED
  BY <1>1, <1>2, <1>4, <1>5, <1>6
     DEF Next, vars, ExpireOrder, ExpireKey, RememberTicket, threadVars, ConflictsInv

\* A key reused with the parameters of its first request is never refused as
\* a conflict, before and after the upgrade of the fingerprint, whatever
\* Redis loses.
THEOREM RetriesAreAnswered ==
    ASSUME MaxAborts = 0, TicketKeys = {}
    PROVE  Spec => []RetryKeepsItsAnswer
<1>1. Safety /\ ConflictsInv => RetryKeepsItsAnswer
  BY DEF Safety, LedgerInv, KeySpentOnce, ConflictsInv, ConflictInv, Conflicts,
         Matches, RetryKeepsItsAnswer, Answered
<1>2. Safety /\ AnswersInv /\ ConflictsInv /\ [Next]_vars => ConflictsInv'
  BY NextConflicts
<1>3. QED
  BY <1>1, <1>2, InitConflicts, AnswersInvariance, PTL DEF Spec

----------------------------------------------------------------------------
(* Refusals, when moreover a key is used for one order only.  A request     *)
(* that finds its key spent after its UPDATE has already shown the updated  *)
(* row to the order cache and may be rolled back; with keys of one order    *)
(* that never happens, and a settled row in the cache is a settled order or *)
(* one whose transaction is about to commit.                                *)

KeysPerOrder ==
    /\ \A r, s \in Requests : r.key = s.key /\ r.key # NoKey => r.order = s.order
    /\ \A e \in LegacyEvents, r \in Requests :
          e.key = r.key /\ e.key # NoKey => e.order = r.order

SettledSoon(o) == Settled(rows[o]) \/ rowLock[o] # None

\* row is what order o is, was or is about to be.
Real(o, row) ==
    /\ Settled(row) => SettledSoon(o)
    /\ row.orderStatus = "waiting_shipment" =>
          Settled(rows[o]) \/ rows[o].orderStatus = "waiting_shipment"

RefusalInv(w) ==
    /\ Holds(w) => pc[w] \in {"put", "insert", "remember", "commit"}
    /\ pc[w] \in {"fill", "check", "update", "put"} => Real(req[w].order, loaded[w])
    /\ pc[w] = "update" => loaded[w].orderStatus = "waiting_shipment"
    /\ snapshot[w] # NoSnapshot =>
          \A o \in Orders : Real(o, snapshot[w].rows[o])
    /\ pc[w] = "idle" /\ reply[w] = "already" => SettledSoon(req[w].order)

EventKeys ==
    \A e \in events, r \in Requests :
       e.key = r.key /\ e.key # NoKey => e.order = r.order

RefusalsInv ==
    /\ EventKeys
    /\ \A o \in Orders : orderCache[o] # Miss => Real(o, orderCache[o])
    /\ \A w \in Workers : RefusalInv(w)

LEMMA InitRefusals ==
    ASSUME KeysPerOrder
    PROVE  Init => RefusalsInv
<1> SUFFICES ASSUME Init PROVE RefusalsInv
  OBVIOUS
<1> USE ConstantsAssumption
<1>1. EventKeys
  BY DEF Init, LedgerInit, EventKeys, KeysPerOrder
<1>2. \A w \in Workers : req[w].order \in Orders
  BY InitTypeInv DEF TypeInv, TypeOK, Request
<1>3. QED
  BY <1>1, <1>2 DEF Init, RefusalsInv, RefusalInv, Holds

\* A row that is real stays real, unless a transaction is rolled back.
LEMMA RealStays ==
    ASSUME Safety,
           \/ UNCHANGED <<rows, rowLock>>
           \/ \E w \in Workers : Commit(w)
           \/ \E w \in Workers : rows' = rows /\ rowLock' = [rowLock EXCEPT ![req[w].order] = w]
    PROVE  \A o \in Orders :
              /\ SettledSoon(o) => SettledSoon(o)'
              /\ \A row \in Row : Real(o, row) => Real(o, row)'
<1> USE ConstantsAssumption
<1>b. Blank \in Row
  BY DEF Blank, Row, OrderStatus, PaymentStatus
<1> SUFFICES ASSUME NEW o \in Orders, NEW row \in Row
             PROVE  /\ SettledSoon(o) => SettledSoon(o)'
                    /\ Real(o, row) => Real(o, row)'
  BY <1>b
<1>0. TypeOK
  BY DEF Safety, TypeInv
<1>1. CASE UNCHANGED <<rows, rowLock>>
  BY <1>1 DEF SettledSoon, Real, Settled
<1>2. ASSUME NEW w \in Workers, Commit(w)
      PROVE  /\ SettledSoon(o) => SettledSoon(o)'
             /\ Real(o, row) => Real(o, row)'
  <2>1. Holds(w) /\ req[w].order \in Orders /\ req[w].op \in Operation
    BY <1>2, NoEventYet
       DEF Commit, Safety, LockInv, TypeInv, TypeOK, Request, Writes, Operation
  <2>2. rows' = [rows EXCEPT ![req[w].order] = Applied(req[w].op, @)]
    BY <1>2 DEF Commit
  <2>3. CASE o = req[w].order
    <3>1. rows'[o] = Applied(req[w].op, rows[o]) /\ rows[o] \in Row
      BY <1>0, <2>1, <2>2, <2>3 DEF TypeOK
    <3>2. Settled(rows'[o])
      BY <2>1, <3>1, AppliedSettles
    <3>3. QED
      BY <3>2 DEF SettledSoon, Real
  <2>4. CASE o # req[w].order
    <3>1. rows'[o] = rows[o]
      BY <1>0, <2>2, <2>4 DEF TypeOK
    <3>2. rowLock[o] # None => rowLock'[o] # None
      BY <1>0, <1>2, <2>4 DEF Commit, End, Released, TypeOK, Safety, TypeInv, StageInv
    <3>3. QED
      BY <3>1, <3>2 DEF SettledSoon, Real
  <2>5. QED
    BY <2>3, <2>4
<1>3. ASSUME NEW w \in Workers, rows' = rows,
             rowLock' = [rowLock EXCEPT ![req[w].order] = w]
      PROVE  /\ SettledSoon(o) => SettledSoon(o)'
             /\ Real(o, row) => Real(o, row)'
  BY <1>0, <1>3 DEF SettledSoon, Real, TypeOK
<1>4. QED
  BY <1>1, <1>2, <1>3

\* Without the row lock there is nothing to roll back.
LEMMA RollbackKeeps ==
    ASSUME Safety, NEW w \in Workers, ~Holds(w), NEW outcome, Rollback(w, outcome)
    PROVE  rowLock' = rowLock
BY ConstantsAssumption
   DEF Rollback, End, Released, Holds, Safety, TypeInv, TypeOK, StageInv

\* What w reads of its order is real.
LEMMA ViewReal ==
    ASSUME Safety, NEW w \in Workers, RefusalInv(w), ~Holds(w)
    PROVE  /\ \A o \in Orders : Real(o, ViewAt(w).rows[o])
           /\ Real(req[w].order, RowSeen(w))
<1>1. req[w].order \in Orders
  BY ConstantsAssumption DEF Safety, TypeInv, TypeOK, Request
<1>2. \A o \in Orders : Real(o, ViewAt(w).rows[o])
  BY DEF ViewAt, RefusalInv, Real, SettledSoon
<1>3. QED
  BY <1>1, <1>2 DEF RowSeen

\* The key of a request that has updated its order is not spent.
LEMMA NeverSpent ==
    ASSUME Safety, EventKeys, NEW w \in Workers, Holds(w)
    PROVE  ~KeySpent(req[w].key)
<1>1. \A e \in events : e.order # req[w].order
  BY NoEventYet
<1>2. req[w] \in Requests
  BY DEF Safety, TypeInv, TypeOK
<1>3. QED
  BY <1>1, <1>2 DEF KeySpent, EventKeys

\* The effect of a thread's step on rows and locks.
LEMMA ProceedLocks ==
    ASSUME Safety, RefusalsInv, NEW w \in Workers, Proceed(w)
    PROVE  \/ UNCHANGED <<rows, rowLock>>
           \/ Commit(w)
           \/ /\ rows' = rows
              /\ rowLock' = [rowLock EXCEPT ![req[w].order] = w]
              /\ pc[w] = "update" /\ pc'[w] = "put"
<1>0. RefusalInv(w) /\ TypeOK
  BY DEF RefusalsInv, Safety, TypeInv
<1>1. ASSUME NEW outcome, Rollback(w, outcome), pc[w] \in {"select", "check", "update"}
      PROVE  UNCHANGED <<rows, rowLock>>
  BY <1>0, <1>1, RollbackKeeps DEF Rollback, RefusalInv
<1>2. CASE SelectEvent(w)
  BY <1>1, <1>2 DEF SelectEvent
<1>3. CASE Check(w)
  BY <1>1, <1>3 DEF Check
<1>4. CASE Update(w)
  BY <1>0, <1>1, <1>4 DEF Update, Goto, TypeOK
<1>5. CASE Lookup(w) \/ Load(w) \/ Fetch(w) \/ Fill(w) \/ Put(w) \/ Insert(w) \/ Remember(w)
  BY <1>5 DEF Lookup, Load, Fetch, Fill, Put, Insert, Remember
<1>6. QED
  BY <1>2, <1>3, <1>4, <1>5 DEF Proceed

LEMMA ProceedReal ==
    ASSUME Safety, RefusalsInv, NEW w \in Workers, Proceed(w)
    PROVE  \A o \in Orders :
              /\ SettledSoon(o) => SettledSoon(o)'
              /\ \A row \in Row : Real(o, row) => Real(o, row)'
BY ProceedLocks, RealStays

\* Nothing of w's answer changes but the stage, what it holds and its view.
LEMMA StepRefusal ==
    ASSUME Safety, RefusalsInv, NEW w \in Workers, Proceed(w),
           UNCHANGED <<rowLock, req>>,
           Holds(w) => pc'[w] \in {"put", "insert", "remember", "commit"},
           pc'[w] \in {"fill", "check", "update", "put"} =>
              loaded'[w] \in Row /\ Real(req[w].order, loaded'[w]),
           pc'[w] = "update" => loaded'[w].orderStatus = "waiting_shipment",
           snapshot'[w] = snapshot[w] \/ (~Holds(w) /\ snapshot'[w] = ViewAt(w)),
           pc'[w] # "idle"
    PROVE  RefusalInv(w)'
<1> USE ConstantsAssumption
<1>0. TypeOK /\ TypeInv /\ RefusalInv(w) /\ req[w].order \in Orders
  BY DEF Safety, TypeInv, TypeOK, RefusalsInv, Request
<1>1. Holds(w)' => pc'[w] \in {"put", "insert", "remember", "commit"}
  BY DEF Holds
<1>2. pc'[w] \in {"fill", "check", "update", "put"} => Real(req[w].order, loaded[w])'
  <2> SUFFICES ASSUME pc'[w] \in {"fill", "check", "update", "put"}
               PROVE  Real(req[w].order, loaded[w])'
    OBVIOUS
  <2> DEFINE row == loaded'[w]
             o == req[w].order
  <2>1. row \in Row /\ Real(o, row)
    OBVIOUS
  <2>2. \A x \in Orders, y \in Row : Real(x, y) => Real(x, y)'
    BY ProceedReal
  <2>3. QED
    BY <1>0, <2>1, <2>2
<1>3. snapshot'[w] # NoSnapshot => \A o \in Orders : Real(o, snapshot[w].rows[o])'
  <2> SUFFICES ASSUME snapshot'[w] # NoSnapshot, NEW o \in Orders
               PROVE  Real(o, snapshot[w].rows[o])'
    OBVIOUS
  <2>1. snapshot'[w].rows[o] \in Row /\ Real(o, snapshot'[w].rows[o])
    <3>1. CASE snapshot'[w] = snapshot[w]
      BY <1>0, <3>1 DEF RefusalInv, TypeOK
    <3>2. CASE ~Holds(w) /\ snapshot'[w] = ViewAt(w)
      BY <1>0, <3>2, ViewReal, ViewType
    <3>3. QED
      BY <3>1, <3>2
  <2> DEFINE row == snapshot'[w].rows[o]
  <2>2. \A x \in Orders, y \in Row : Real(x, y) => Real(x, y)'
    BY ProceedReal
  <2>3. QED
    BY <2>1, <2>2
<1>4. QED
  BY <1>1, <1>2, <1>3 DEF RefusalInv

LEMMA RollbackRefusal ==
    ASSUME Safety, RefusalsInv, NEW w \in Workers, Proceed(w), ~Holds(w),
           NEW outcome, Rollback(w, outcome),
           outcome = "already" => SettledSoon(req[w].order)
    PROVE  RefusalInv(w)'
<1>0. TypeOK /\ req[w].order \in Orders
  BY ConstantsAssumption DEF Safety, TypeInv, TypeOK, Request
<1>1. /\ pc'[w] = "idle" /\ req' = req /\ snapshot'[w] = NoSnapshot
      /\ reply'[w] = outcome /\ rows' = rows /\ rowLock' = rowLock
  BY <1>0, RollbackAlone, RollbackKeeps
<1>2. SettledSoon(req[w].order)' <=> SettledSoon(req[w].order)
  BY <1>1 DEF SettledSoon, Settled
<1>3. ~Holds(w)'
  BY <1>1 DEF Holds
<1>4. QED
  BY <1>1, <1>2, <1>3 DEF RefusalInv

LEMMA ProceedRefusal ==
    ASSUME Safety, RefusalsInv, NEW w \in Workers, Proceed(w)
    PROVE  RefusalInv(w)'
<1> USE ConstantsAssumption DEF Goto
<1>0. TypeOK /\ TypeInv /\ RefusalInv(w) /\ EventKeys
  BY DEF Safety, TypeInv, RefusalsInv
<1> DEFINE o == req[w].order
<1>1. o \in Orders /\ req[w] \in Request
  BY <1>0 DEF TypeOK, Request
<1>2. pc[w] \notin {"put", "insert", "remember", "commit"} => ~Holds(w)
  BY <1>0 DEF RefusalInv
<1>3. CASE Lookup(w)
  BY <1>0, <1>2, <1>3, StepRefusal DEF Lookup, TypeOK
<1>4. CASE SelectEvent(w)
  <2>1. ~Holds(w)
    BY <1>2, <1>4 DEF SelectEvent
  <2>2. CASE pc' = [pc EXCEPT ![w] = "load"] /\ KeepView(w) /\ UNCHANGED <<rowLock, req>>
    BY <1>0, <2>1, <2>2, StepRefusal, ViewAlone DEF TypeOK
  <2>3. CASE Rollback(w, "error") \/ Rollback(w, "conflict")
    BY <2>1, <2>3, RollbackRefusal
  <2>4. QED
    BY <1>4, <2>2, <2>3 DEF SelectEvent
<1>5. CASE Load(w)
  <2>1. ~Holds(w) /\ UNCHANGED <<rowLock, req, snapshot>>
    BY <1>2, <1>5 DEF Load
  <2>2. PICK entry \in RedisGet(orderCache[o]) :
           IF entry = Miss
           THEN pc' = [pc EXCEPT ![w] = "fetch"]
           ELSE /\ loaded' = [loaded EXCEPT ![w] = entry]
                /\ pc' = [pc EXCEPT ![w] = "check"]
    BY <1>5 DEF Load
  <2>3. CASE entry = Miss
    <3>1. pc'[w] = "fetch"
      BY <1>0, <2>2, <2>3 DEF TypeOK
    <3>2. QED
      BY <2>1, <3>1, StepRefusal
  <2>4. CASE entry # Miss
    <3>1. pc'[w] = "check" /\ loaded'[w] = entry
      BY <1>0, <2>2, <2>4 DEF TypeOK
    <3>2. entry = orderCache[o] /\ entry \in Row /\ Real(o, entry)
      BY <1>0, <1>1, <2>4 DEF RedisGet, TypeOK, RefusalsInv
    <3>3. QED
      BY <2>1, <3>1, <3>2, StepRefusal
  <2>5. QED
    BY <2>3, <2>4
<1>6. CASE Fetch(w)
  <2>1. ~Holds(w) /\ UNCHANGED <<rowLock, req>>
    BY <1>2, <1>6 DEF Fetch
  <2>2. pc'[w] = "fill" /\ loaded'[w] = RowSeen(w) /\ snapshot'[w] \in {snapshot[w], ViewAt(w)}
    BY <1>0, <1>6, ViewAlone DEF Fetch, TypeOK
  <2>3. RowSeen(w) \in Row /\ Real(o, RowSeen(w))
    BY <1>0, <2>1, ViewReal, ViewType
  <2>4. QED
    BY <2>1, <2>2, <2>3, StepRefusal
<1>7. CASE Fill(w)
  <2>1. /\ ~Holds(w) /\ UNCHANGED <<rowLock, req, snapshot, loaded>>
        /\ pc[w] = "fill" /\ pc'[w] = "check"
    BY <1>0, <1>2, <1>7 DEF Fill, TypeOK
  <2>2. loaded[w] \in Row /\ Real(o, loaded[w])
    BY <1>0, <2>1 DEF RefusalInv, TypeOK
  <2>3. QED
    BY <2>1, <2>2, StepRefusal
<1>8. CASE Check(w)
  <2>1. ~Holds(w) /\ pc[w] = "check" /\ Real(o, loaded[w]) /\ loaded[w] \in Row
    BY <1>0, <1>2, <1>8 DEF Check, RefusalInv, TypeOK
  <2>2. CASE Rollback(w, "ok")
    BY <2>1, <2>2, RollbackRefusal
  <2>3. CASE Rollback(w, Verdict(req[w], loaded[w]))
    <3>1. Verdict(req[w], loaded[w]) = "already" => Settled(loaded[w])
      BY <1>1 DEF Verdict, Settled, Request, Operation
    <3>2. QED
      BY <2>1, <2>3, <3>1, RollbackRefusal DEF Real
  <2>4. CASE /\ pc' = [pc EXCEPT ![w] = "update"]
             /\ Verdict(req[w], loaded[w]) = "update"
             /\ UNCHANGED <<rowLock, req, snapshot, loaded>>
    <3>1. loaded[w].orderStatus = "waiting_shipment"
      BY <1>1, <2>4 DEF Verdict, Request, Operation
    <3>2. pc'[w] = "update"
      BY <1>0, <2>4 DEF TypeOK
    <3>3. QED
      BY <2>1, <2>4, <3>1, <3>2, StepRefusal
  <2>5. QED
    BY <1>8, <2>1, <2>2, <2>3, <2>4 DEF Check
<1>9. CASE Update(w)
  <2>1. /\ ~Holds(w) /\ pc[w] = "update"
        /\ Real(o, loaded[w]) /\ loaded[w] \in Row
        /\ loaded[w].orderStatus = "waiting_shipment"
        /\ Writes(req[w])
    BY <1>0, <1>2, <1>9 DEF Update, RefusalInv, TypeOK, TypeInv, StageInv, WriteStages
  <2>2. CASE ~RowMatches(w) /\ Rollback(w, "already")
    <3>1. Settled(rows[o])
      BY <2>1, <2>2 DEF RowMatches, Updatable, Real, Settled
    <3>2. QED
      BY <2>1, <2>2, <3>1, RollbackRefusal DEF SettledSoon
  <2>3. CASE /\ rowLock' = [rowLock EXCEPT ![o] = w]
             /\ loaded' = [loaded EXCEPT ![w] = Applied(req[w].op, @)]
             /\ pc' = [pc EXCEPT ![w] = "put"]
             /\ UNCHANGED <<rows, req, snapshot>>
    <3>1. /\ pc'[w] = "put"
          /\ loaded'[w] = Applied(req[w].op, loaded[w])
          /\ rowLock'[o] = w
      BY <1>0, <1>1, <2>3 DEF TypeOK
    <3>2. Real(o, loaded[w])'
      <4>1. Applied(req[w].op, loaded[w]).orderStatus \in {"waiting_shipment", "canceled"}
        BY <1>1, <2>1, AppliedSettles DEF Writes, Request, Operation
      <4>2. Settled(rows[o]) \/ rows[o].orderStatus = "waiting_shipment"
        BY <2>1 DEF Real
      <4>3. QED
        BY <2>3, <3>1, <4>1, <4>2 DEF Real, SettledSoon
    <3>3. snapshot'[w] # NoSnapshot => \A x \in Orders : Real(x, snapshot[w].rows[x])'
      <4> SUFFICES ASSUME snapshot'[w] # NoSnapshot, NEW x \in Orders
                   PROVE  Real(x, snapshot[w].rows[x])'
        OBVIOUS
      <4> DEFINE row == snapshot'[w].rows[x]
      <4>1. row \in Row /\ Real(x, row)
        BY <1>0, <2>3 DEF RefusalInv, TypeOK
      <4>2. \A y \in Orders, z \in Row : Real(y, z) => Real(y, z)'
        BY ProceedReal
      <4>3. QED
        BY <4>1, <4>2
    <3>4. QED
      BY <2>3, <3>1, <3>2, <3>3 DEF RefusalInv
  <2>4. QED
    BY <1>9, <2>2, <2>3 DEF Update
<1>10. CASE Put(w) \/ Remember(w)
  BY <1>0, <1>10, StepRefusal DEF Put, Remember, TypeOK
<1>11. CASE Insert(w)
  <2>1. Holds(w)
    BY <1>11 DEF Insert, Safety, LockInv
  <2>2. ~KeySpent(req[w].key)
    BY <1>0, <2>1, NeverSpent
  <2>3. pc'[w] \in {"remember", "commit"} /\ UNCHANGED <<rowLock, req, snapshot>>
    BY <1>0, <1>11, <2>2 DEF Insert, TypeOK
  <2>4. QED
    BY <2>3, StepRefusal
<1>12. CASE Commit(w)
  <2>1. /\ pc'[w] = "idle" /\ req' = req /\ snapshot'[w] = NoSnapshot /\ reply'[w] = "ok"
        /\ rowLock' = Released(w)
    BY <1>0, <1>12 DEF Commit, End, TypeOK
  <2>2. ~Holds(w)'
    BY <1>1, <2>1 DEF Holds, Released
  <2>3. QED
    BY <2>1, <2>2 DEF RefusalInv
<1>13. QED
  BY <1>3, <1>4, <1>5, <1>6, <1>7, <1>8, <1>9, <1>10, <1>11, <1>12 DEF Proceed

LEMMA OthersRefusal ==
    ASSUME Safety, RefusalsInv, NEW v \in Workers,
           pc'[v] = pc[v], req'[v] = req[v], loaded'[v] = loaded[v],
           snapshot'[v] = snapshot[v], reply'[v] = reply[v],
           Holds(v)' => Holds(v),
           \A o \in Orders :
              /\ SettledSoon(o) => SettledSoon(o)'
              /\ \A row \in Row : Real(o, row) => Real(o, row)'
    PROVE  RefusalInv(v)'
<1>0. TypeOK /\ RefusalInv(v) /\ req[v].order \in Orders
  BY ConstantsAssumption DEF Safety, TypeInv, TypeOK, RefusalsInv, Request
<1>1. Real(req[v].order, loaded[v]) => Real(req[v].order, loaded[v])'
  BY <1>0 DEF TypeOK
<1>2. ASSUME snapshot'[v] # NoSnapshot, NEW o \in Orders
      PROVE  Real(o, snapshot[v].rows[o])'
  <2>1. snapshot[v].rows[o] \in Row /\ Real(o, snapshot[v].rows[o])
    BY <1>0, <1>2 DEF RefusalInv, TypeOK
  <2>2. QED
    BY <2>1
<1>3. SettledSoon(req[v].order) => SettledSoon(req[v].order)'
  BY <1>0
<1>4. QED
  BY <1>0, <1>1, <1>2, <1>3 DEF RefusalInv

\* The order cache holds real rows.
LEMMA CacheReal ==
    ASSUME Safety, RefusalsInv,
           \A o \in Orders, row \in Row : Real(o, row) => Real(o, row)',
           \A o \in Orders :
              \/ orderCache'[o] \in {orderCache[o], Miss}
              \/ \E w \in Workers :
                    /\ pc[w] \in {"fill", "put"}
                    /\ req[w].order = o
                    /\ orderCache'[o] = loaded[w]
    PROVE  \A o \in Orders : orderCache'[o] # Miss => Real(o, orderCache[o])'
<1> SUFFICES ASSUME NEW o \in Orders, orderCache'[o] # Miss
             PROVE  Real(o, orderCache[o])'
  OBVIOUS
<1> DEFINE row == orderCache'[o]
<1>1. CASE orderCache'[o] = orderCache[o]
  <2>1. row \in Row /\ Real(o, row)
    BY <1>1 DEF RefusalsInv, Safety, TypeInv, TypeOK
  <2>2. QED
    BY <2>1
<1>2. ASSUME NEW w \in Workers, pc[w] \in {"fill", "put"}, req[w].order = o,
             orderCache'[o] = loaded[w]
      PROVE  Real(o, orderCache[o])'
  <2>1. row \in Row /\ Real(o, row)
    BY <1>2 DEF RefusalsInv, RefusalInv, Safety, TypeInv, TypeOK
  <2>2. QED
    BY <2>1
<1>3. QED
  BY <1>1, <1>2

LEMMA NextRefusals ==
    ASSUME MaxAborts = 0, KeysPerOrder
    PROVE  Safety /\ RefusalsInv /\ [Next]_vars => RefusalsInv'
<1> SUFFICES ASSUME Safety, RefusalsInv, [Next]_vars PROVE RefusalsInv'
  OBVIOUS
<1> USE ConstantsAssumption
<1>0. TypeOK /\ TypeInv /\ \A w \in Workers : ~Abort(w)
  BY DEF Safety, TypeInv, TypeOK, Abort
<1>1. EventKeys'
  <2>1. CASE events' = events
    BY <2>1 DEF RefusalsInv, EventKeys
  <2>2. ASSUME NEW w \in Workers, Commit(w) PROVE EventKeys'
    <3>1. req[w] \in Requests /\ EventOf(w).key = req[w].key /\ EventOf(w).order = req[w].order
      BY <1>0 DEF TypeOK, EventOf
    <3>2. QED
      BY <2>2, <3>1 DEF Commit, RefusalsInv, EventKeys, KeysPerOrder
  <2>3. QED
    BY <2>1, <2>2
       DEF Next, Begin, Proceed, Lookup, SelectEvent, Load, Fetch, Fill, Check,
           Update, Put, Insert, Remember, Abort, Rollback, ExpireOrder, ExpireKey,
           RememberTicket, vars
<1>2. ASSUME NEW w \in Workers, Proceed(w) PROVE RefusalsInv'
  <2>1. /\ Alone(w)
        /\ RefusalInv(w)'
        /\ \A o \in Orders :
              /\ SettledSoon(o) => SettledSoon(o)'
              /\ \A row \in Row : Real(o, row) => Real(o, row)'
    BY <1>2, StepsAlone, ProceedRefusal, ProceedReal
  <2>2. ASSUME NEW v \in Workers \ {w} PROVE RefusalInv(v)'
    <3>1. req'[v] = req[v] /\ req[v].order \in Orders
      BY <1>0, <2>1 DEF Alone, TypeOK, Request
    <3>2. Holds(v)' => Holds(v)
      <4>1. \/ rowLock' = rowLock
            \/ rowLock' = Released(w)
            \/ rowLock' = [rowLock EXCEPT ![req[w].order] = w]
        BY <1>2, ProceedLocks DEF Commit, End
      <4>2. QED
        BY <1>0, <2>2, <3>1, <4>1 DEF Holds, Released, TypeOK
    <3>3. QED
      BY <2>1, <2>2, <3>2, OthersRefusal DEF Alone
  <2>3. \A o \in Orders :
           \/ orderCache'[o] \in {orderCache[o], Miss}
           \/ \E v \in Workers :
                 /\ pc[v] \in {"fill", "put"}
                 /\ req[v].order = o
                 /\ orderCache'[o] = loaded[v]
    <3>1. CASE orderCache' = orderCache
      BY <3>1
    <3>2. CASE Fill(w) \/ Put(w)
      <4>1. /\ pc[w] \in {"fill", "put"}
            /\ \E entry \in RedisPut(orderCache[req[w].order], loaded[w]) :
                  orderCache' = [orderCache EXCEPT ![req[w].order] = entry]
        BY <3>2 DEF Fill, Put
      <4>2. QED
        BY <1>0, <4>1 DEF RedisPut, TypeOK
    <3>3. QED
      BY <1>2, <3>1, <3>2
         DEF Proceed, Lookup, SelectEvent, Load, Fetch, Check, Update, Insert,
             Remember, Commit, Rollback, End, cacheVars
  <2>4. \A o \in Orders : orderCache'[o] # Miss => Real(o, orderCache[o])'
    BY <2>1, <2>3, CacheReal
  <2>5. QED
    BY <1>1, <2>1, <2>2, <2>4 DEF RefusalsInv
<1>3. ASSUME UNCHANGED <<rows, rowLock>>,
             \A o \in Orders : orderCache'[o] \in {orderCache[o], Miss}
      PROVE  /\ \A o \in Orders :
                   /\ SettledSoon(o) => SettledSoon(o)'
                   /\ \A row \in Row : Real(o, row) => Real(o, row)'
             /\ \A o \in Orders : orderCache'[o] # Miss => Real(o, orderCache[o])'
  BY <1>3, RealStays, CacheReal
<1>4. ASSUME NEW w \in Workers, NEW r \in Requests, Begin(w, r) PROVE RefusalsInv'
  <2>1. /\ UNCHANGED <<rows, rowLock, orderCache, snapshot>>
        /\ pc'[w] \in {"lookup", "load"} /\ req'[w] = r
        /\ pc[w] = "idle" /\ RefusalInv(w) /\ r.order \in Orders
    BY <1>0, <1>4 DEF Begin, Goto, cacheVars, TypeOK, RefusalsInv, Request
  <2>2. RefusalInv(w)'
    <3>1. ~Holds(w)'
      BY <1>0, <2>1 DEF Holds, TypeInv, StageInv
    <3>2. snapshot'[w] # NoSnapshot => \A x \in Orders : Real(x, snapshot[w].rows[x])'
      BY <2>1 DEF RefusalInv, Real, SettledSoon
    <3>3. QED
      BY <2>1, <3>1, <3>2 DEF RefusalInv
  <2>3. ASSUME NEW v \in Workers \ {w} PROVE RefusalInv(v)'
    <3>1. Alone(w) /\ (Holds(v)' => Holds(v))
      BY <1>4, <2>1, StepsAlone DEF Alone, Holds
    <3>2. QED
      BY <1>3, <2>1, <3>1, OthersRefusal DEF Alone
  <2>4. QED
    BY <1>1, <1>3, <2>1, <2>2, <2>3 DEF RefusalsInv
<1>5. CASE /\ UNCHANGED <<rows, rowLock, threadVars>>
           /\ \A o \in Orders : orderCache'[o] \in {orderCache[o], Miss}
  <2>1. ASSUME NEW v \in Workers PROVE RefusalInv(v)'
    <3>1. /\ UNCHANGED <<pc, req, loaded, snapshot, reply>>
          /\ Holds(v)' => Holds(v)
      BY <1>5 DEF threadVars, Holds
    <3>2. QED
      BY <1>3, <1>5, <3>1, OthersRefusal
  <2>2. QED
    BY <1>1, <1>3, <1>5, <2>1 DEF RefusalsInv
<1>6. ASSUME NEW o \in Orders, ExpireOrder(o) PROVE RefusalsInv'
  BY <1>0, <1>5, <1>6 DEF ExpireOrder, TypeOK
<1>7. QED
  BY <1>0, <1>2, <1>4, <1>5, <1>6 DEF Next, vars, ExpireKey, RememberTicket, threadVars

\* Nobody is told that an order was settled while it is still open, although
\* the answer may come from the cache, from an old read view or from an UPDATE
\* that found no row: with faults of Redis, expiry and both isolation levels.
THEOREM RefusalsAreTrue ==
    ASSUME MaxAborts = 0, KeysPerOrder
    PROVE  Spec => []RefusalIsTrue
<1>1. RefusalsInv => RefusalIsTrue
  BY DEF RefusalsInv, RefusalInv, RefusalIsTrue, Answered, SettledSoon, InFlight
<1>2. Safety /\ [Next]_vars => Safety'
  BY NextSafety
<1>3. Safety /\ RefusalsInv /\ [Next]_vars => RefusalsInv'
  BY NextRefusals
<1>4. Init => RefusalsInv
  BY InitRefusals
<1>5. QED
  BY InitSafety, <1>1, <1>2, <1>3, <1>4, PTL DEF Spec
=============================================================================
