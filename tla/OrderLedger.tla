---------------------------- MODULE OrderLedger ----------------------------
(***************************************************************************)
(* What the order write path of java-business-service promises, whatever   *)
(* its caches, threads and failures do: an order is refunded or canceled   *)
(* at most once, never both, in one indivisible step that also writes the  *)
(* order's single audit event, and an idempotency key is spent by one      *)
(* event only.  OrderService is shown to implement this module.            *)
(***************************************************************************)

CONSTANTS
    Orders,        \* order ids of the tenant
    Keys,          \* idempotency keys
    NoKey,         \* the absent key of the public endpoints
    Reasons,       \* refund and cancel reasons
    Users,         \* callers
    EventIds,      \* ids of order events
    InitialRows,   \* what an order may look like before any request
    LegacyEvents   \* events written before the fingerprint had an operation

VARIABLES
    rows,          \* rows[o]: order_status and payment_status of order o
    events         \* the committed rows of order_events

ledgerVars == <<rows, events>>

OrderStatus == {"waiting_shipment", "shipped", "delivered", "canceled"}
PaymentStatus == {"unpaid", "paid", "refunded"}
Row == [orderStatus: OrderStatus, paymentStatus: PaymentStatus]

Operation == {"refund", "cancel"}

\* A request fingerprint; op = "none" is the algorithm of before the upgrade.
Fingerprint == [order: Orders, reason: Reasons, user: Users,
                op: Operation \cup {"none"}]

Event == [id: EventIds, order: Orders, op: Operation,
          key: Keys \cup {NoKey}, fp: Fingerprint]

\* Mutant: both operations write order_status.
Applied_OneColumn(op, row) ==
    [row EXCEPT !.orderStatus = IF op = "refund" THEN "refunded" ELSE "canceled"]

\* The columns an operation writes.
Applied(op, row) ==
    IF op = "refund" THEN [row EXCEPT !.paymentStatus = "refunded"]
                     ELSE [row EXCEPT !.orderStatus = "canceled"]

\* Mutant: each WHERE clause guards its own column only.
Updatable_OwnColumn(op, row) ==
    IF op = "refund" THEN row.paymentStatus # "refunded"
                     ELSE row.orderStatus = "waiting_shipment"

\* The WHERE clauses of updateRefundState and updateCancelState.
Updatable(op, row) ==
    /\ row.paymentStatus # "refunded"
    /\ row.orderStatus # "canceled"
    /\ op = "cancel" => row.orderStatus = "waiting_shipment"

\* Mutant: no unique index on (tenant, idempotency_key).
KeySpent_NoIndex(k) == FALSE

KeySpent(k) == k # NoKey /\ \E e \in events : e.key = k

\* The state an upgraded database is in: legacy events have been applied.
LedgerInit ==
    /\ events = LegacyEvents
    /\ \E initial \in [Orders -> InitialRows] :
          rows = [o \in Orders |->
                    IF \E e \in LegacyEvents : e.order = o
                    THEN Applied((CHOOSE e \in LegacyEvents : e.order = o).op,
                                 initial[o])
                    ELSE initial[o]]

Execute(e) ==
    /\ Updatable(e.op, rows[e.order])
    /\ ~KeySpent(e.key)
    /\ rows' = [rows EXCEPT ![e.order] = Applied(e.op, @)]
    /\ events' = events \cup {e}

\* One event at a time; e ranges over the events the step adds.
LedgerNext == \E e \in Event \cap (events' \ events) : Execute(e)

LedgerSpec == LedgerInit /\ [][LedgerNext]_ledgerVars

----------------------------------------------------------------------------
\* An order that has left the customer's hands: refunded or canceled.
Settled(row) == row.paymentStatus = "refunded" \/ row.orderStatus = "canceled"

\* Money is returned or the order is called off, never both (the WHERE
\* clauses of updateRefundState and updateCancelState exclude each other).
RefundXorCancel ==
    \A o \in Orders : ~ /\ rows[o].paymentStatus = "refunded"
                        /\ rows[o].orderStatus = "canceled"

\* A settled order has an event: nothing is refunded without an audit record.
SettledHasEvent ==
    \A o \in Orders : Settled(rows[o]) => \E e \in events : e.order = o

\* What an event says was done.
EventsApplied ==
    \A e \in events :
        IF e.op = "refund" THEN rows[e.order].paymentStatus = "refunded"
                           ELSE rows[e.order].orderStatus = "canceled"

OneEventPerOrder == \A e, f \in events : e.order = f.order => e = f

\* The audit trail and the order agree: an order is settled exactly when an
\* event says so, the event names what was done, and there is only one
\* (applyRefund and applyCancel update the row and insert the event in one
\* transaction).
EventsExplainRows ==
    /\ SettledHasEvent
    /\ EventsApplied
    /\ OneEventPerOrder

\* uk_order_events_tenant_idempotency: a key belongs to one event.
KeySpentOnce ==
    \A e, f \in events : e.key = f.key /\ e.key # NoKey => e = f
=============================================================================
