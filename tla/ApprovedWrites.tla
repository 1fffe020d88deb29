--------------------------- MODULE ApprovedWrites ---------------------------
(***************************************************************************)
(* What the tool gate promises whoever approves a write: nothing is done   *)
(* that was not approved with exactly that content by exactly that actor,  *)
(* and an approval is carried out at most once, whatever is retried, lost  *)
(* or restarted in between.                                                *)
(***************************************************************************)
CONSTANT Writes    \* [actor, id, draft, tool]

VARIABLES
    approved,   \* writes somebody approved
    effects     \* writes the business service carried out

vars == <<approved, effects>>

SameSlot(v, w) == v.id = w.id /\ v.tool = w.tool

Init == approved = {} /\ effects = {}

Approve(w) ==
    /\ approved' = approved \cup {w}
    /\ UNCHANGED effects

CarryOut(w) ==
    /\ w \in approved
    /\ \A e \in effects : ~ SameSlot(e, w)
    /\ effects' = effects \cup {w}
    /\ UNCHANGED approved

Next == \E w \in Writes : Approve(w) \/ CarryOut(w)

Spec == Init /\ [][Next]_vars
=============================================================================
