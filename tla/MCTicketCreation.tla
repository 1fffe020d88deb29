-------------------------- MODULE MCTicketCreation --------------------------
(***************************************************************************)
(* Instances of TicketCreation for TLC: two threads and two requests that  *)
(* differ, one of which names an order.                                    *)
(***************************************************************************)
EXTENDS TicketCreation

CONSTANTS w1, w2, k1, k2, broken, late
=============================================================================
