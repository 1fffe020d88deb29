----------------------------- MODULE MCResilience -----------------------------
(* A small instance of Resilience: the write and a read with its own codes. *)
EXTENDS Resilience, TLC

CONSTANTS c1, c2, Absent, Broken

TwoCallers == {c1, c2}
WriteAndClassify == {"java.create_ticket", "llm.intent_classification", "milvus.vector_search"}
SomeFailures ==
    {Failure(0, "timeout", 0), Failure(429, "unknown", 3), Failure(409, "unknown", 0),
     Failure(501, "unknown", 0), Failure(404, "unknown", 0)}

\* TicketThreads on a small instance: ids with and without blanks around them,
\* two of them with the same file name.
Threads ==
    INSTANCE TicketThreads WITH
        Actors <- {"a1", "a2"}, RawIds <- {"x", " x", "y", " "}, Ids <- {"x", "y"},
        NormalOf <- ("x" :> "x") @@ (" x" :> "x") @@ ("y" :> "y") @@ (" " :> Absent),
        FileNames <- {"f"}, NameOf <- ("x" :> "f") @@ ("y" :> "f"), Values <- 1..2

SmallBindings ==
    [actor: {"a1", "a2"}, status: Threads!ThreadStatus, updated: 0..2, expires: (0..2) \cup {Absent}]

\* DeletedIsNeverResumed and ArchivedBeforeDeleted, as far as this instance goes.
ASSUME CleanupIsSafe ==
    \A b \in SmallBindings, policy \in [expired: 0..1, completed: 0..1, closed: 0..1],
       now \in 0..3, later \in 0..4 :
        LET plan == Threads!CleanupPlan([id \in {"x"} |-> b], policy, now) IN
        /\ Threads!Deleted(plan) \subseteq Threads!Archived(plan)
        /\ now <= later /\ Threads!Deleted(plan) # {} =>
              ~Threads!Resumable(b, b.actor, later)

\* LoadsItsOwn on this instance.
ASSUME SnapshotsAreOwn ==
    \A files \in Threads!Files, raw, other \in {"x", " x", "y"}, values \in 1..2 :
        LET saved == Threads!Save(files, raw, values) IN
        /\ Threads!Load(saved, raw) = values
        /\ (other = "y") # (raw = "y") => Threads!Load(saved, other) = "error"
=============================================================================
