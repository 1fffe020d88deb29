--------------------------- MODULE MCOrderService ---------------------------
(***************************************************************************)
(* Instances of OrderService for TLC: two threads, two orders of one user, *)
(* one key, and the few requests in which the hard cases are.              *)
(***************************************************************************)
EXTENDS OrderService, TLC

CONSTANTS w1, w2, o1, o2, k1, k2, u1, damaged

MCWorkers == {w1, w2}
MCOwner == o1 :> u1 @@ o2 :> u1

Ask(op, o, k) ==
    [op |-> op, order |-> o, reason |-> damaged, user |-> u1, key |-> k]

\* One key reused for another order and for another operation, a request of
\* the public endpoint without a key, and a query.
ContendedRequests ==
    {Ask("refund", o1, k1), Ask("cancel", o1, NoKey), Ask("refund", o2, k1),
     Ask("query", o1, NoKey)}

\* Clients that retry with the key they used, beside a public request and a
\* reader; the refund of o2 reuses the key of a cancel from before the upgrade.
RetriedRequests ==
    {Ask("refund", o1, k1), Ask("cancel", o1, NoKey), Ask("query", o1, NoKey),
     Ask("cancel", o2, k2), Ask("refund", o2, k2)}

MCInitialRows ==
    {[orderStatus |-> "waiting_shipment", paymentStatus |-> "paid"],
     [orderStatus |-> "shipped", paymentStatus |-> "paid"]}

MCLegacyEvents ==
    {[id |-> 0, order |-> o2, op |-> "cancel", key |-> k2,
      fp |-> [order |-> o2, reason |-> damaged, user |-> u1, op |-> "none"]]}

Symmetric == Permutations(MCWorkers)
=============================================================================
