------------------------- MODULE MCTicketWorkbench -------------------------
(***************************************************************************)
(* Instances of TicketWorkbench for TLC: a customer and two agents working *)
(* on one ticket through two threads.                                      *)
(***************************************************************************)
EXTENDS TicketWorkbench, TLC

CONSTANTS w1, w2, customer, agent1, agent2

MCUsers == {customer, agent1, agent2}
MCRole == customer :> "customer" @@ agent1 :> "agent" @@ agent2 :> "agent"

Ask(op, u) == [op |-> op, user |-> u, assignee |-> u, target |-> "closed"]

\* Work, question, answer, resolution, closing and reopening of a ticket that
\* one agent claims, perhaps twice at once, and hands over to another.
MCRequests ==
    {[Ask("status", agent1) EXCEPT !.target = t]
        : t \in {"in_progress", "waiting_user", "closed"}}
      \cup {Ask("resolve", agent1), Ask("reopen", customer), Ask("message", customer),
            Ask("claim", agent1), [Ask("assign", agent1) EXCEPT !.assignee = agent2]}

MCWorkers == {w1, w2}
=============================================================================
