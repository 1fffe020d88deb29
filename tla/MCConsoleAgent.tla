--------------------------- MODULE MCConsoleAgent ---------------------------
(***************************************************************************)
(* An instance of ConsoleAgent for TLC: two conversations of one user      *)
(* served by two workers, by one agent with rules or by the supervisor     *)
(* with a model for its router.                                            *)
(***************************************************************************)
EXTENDS ConsoleAgent, TLC

CONSTANTS w1, w2, c1, c2, u1, o1, broken, refund, order, please

MCUserOf == c1 :> u1 @@ c2 :> u1

MCModes == {[graph |-> "agent", model |-> "rules"],
            [graph |-> "agent", model |-> "llm"],
            [graph |-> "supervisor", model |-> "llm"]}

\* For what does not hold: an old card for a draft nobody was shown.
SupervisorMode == {[graph |-> "supervisor", model |-> "rules"]}

Said(intent, issue, o, t) == [intent |-> intent, issue |-> issue, order |-> o, text |-> t]

\* A complaint that names no order, a refund and a question about an order.
MCMessages ==
    {Said("ticket", "complaint", NoOrder, broken), Said("refund", "refund", o1, refund),
     Said("order", "unknown", o1, order)}

MCModelFields == {[issue |-> "complaint", order |-> o1, text |-> broken],
                  [issue |-> "unknown", order |-> NoOrder, text |-> broken]}

MCCorrections == {[issue |-> "complaint", order |-> o1, text |-> order]}

Symmetric == Permutations({w1, w2})
=============================================================================
