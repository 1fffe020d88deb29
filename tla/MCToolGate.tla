----------------------------- MODULE MCToolGate -----------------------------
(* A small instance of ToolGate. *)
EXTENDS ToolGate, TLC

CONSTANTS a1, a2, d1, u1, ticket

TwoActors == {a1, a2}
OneDraft == {d1}
OneToken == {u1}
OneTool == {ticket}

Symmetric == Permutations(TwoActors)
=============================================================================
