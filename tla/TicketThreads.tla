---------------------------- MODULE TicketThreads ----------------------------
(***************************************************************************)
(* The life of an agent thread as thread_lifecycle.py, thread_cleanup.py   *)
(* and checkpoint_store.py decide it: a binding of the thread to its actor *)
(* expires, may be resumed until then, and is archived and its checkpoint  *)
(* deleted some time later; a snapshot of the thread is a file.            *)
(***************************************************************************)
EXTENDS Naturals

CONSTANTS
    Actors,
    RawIds,      \* thread ids as they are passed in
    Ids,         \* thread ids without blanks around them
    NormalOf,    \* NormalOf[raw]: the id, or Absent if nothing is left of it
    FileNames,
    NameOf,      \* NameOf[id]: 80 readable characters and 12 of a digest
    Values,      \* what the state of a graph run may be
    Broken,      \* a file that is no snapshot
    Absent

\* Seconds since some start.
Time == Nat

ThreadStatus == {"active", "waiting_confirmation", "completed", "closed"}

Binding == [actor: Actors, status: ThreadStatus, updated: Time, expires: Time \cup {Absent}]

Retention == [expired: Nat, completed: Nat, closed: Nat]

----------------------------------------------------------------------------
(* Bindings.                                                               *)

\* create_ticket_agent_thread_binding
Created(actor, now, ttl) ==
    [actor |-> actor, status |-> "active", updated |-> now, expires |-> now + ttl]

\* mark_ticket_agent_thread_waiting_confirmation, whatever the status was.
Waiting(b, now, ttl) ==
    [b EXCEPT !.status = "waiting_confirmation", !.updated = now, !.expires = now + ttl]

\* complete_ticket_agent_thread
Completed(b, now) ==
    [b EXCEPT !.status = "completed", !.updated = now, !.expires = Absent]

\* close_ticket_agent_thread
Closed(b, now) == [b EXCEPT !.status = "closed", !.updated = now, !.expires = Absent]

\* is_ticket_agent_thread_expired
Expired(b, now) == b.expires # Absent /\ now >= b.expires

\* evaluate_ticket_agent_thread_resume: the first reason that applies.
Resume(b, actor, now) ==
    CASE b.actor # actor                  -> "actor_mismatch"
      [] b.actor = actor /\ b.status \in {"completed", "closed"} -> b.status
      [] b.actor = actor /\ b.status \notin {"completed", "closed"} ->
            IF Expired(b, now) THEN "expired" ELSE "ok"

Resumable(b, actor, now) == Resume(b, actor, now) = "ok"

----------------------------------------------------------------------------
(* Cleanup.                                                                *)

Keep == [action |-> "keep", delete |-> FALSE, archive |-> FALSE]
Archive == [action |-> "archive", delete |-> TRUE, archive |-> TRUE]

\* An expired thread may be looked at for a while; a draft nobody confirmed is
\* archived at once.
Expire(b) == [action |-> "expire", delete |-> FALSE,
              archive |-> b.status = "waiting_confirmation"]

\* When the retention of a thread that can no longer go on has elapsed.
Deadline(b, policy) ==
    CASE b.status = "completed" -> b.updated + policy.completed
      [] b.status = "closed"    -> b.updated + policy.closed
      [] OTHER -> (IF b.expires = Absent THEN b.updated ELSE b.expires) + policy.expired

\* evaluate_ticket_agent_thread_cleanup
Cleanup(b, policy, now) ==
    IF b.status \in {"active", "waiting_confirmation"} /\ ~Expired(b, now) THEN Keep
    ELSE IF now >= Deadline(b, policy) THEN Archive
    ELSE IF b.status \in {"active", "waiting_confirmation"} THEN Expire(b)
    ELSE Keep

\* build_ticket_agent_thread_cleanup_plan for bindings by thread id.
CleanupPlan(bindings, policy, now) ==
    [id \in DOMAIN bindings |-> Cleanup(bindings[id], policy, now)]

\* checkpoint_delete_thread_ids, archive_required_thread_ids
Deleted(plan) == {id \in DOMAIN plan : plan[id].delete}
Archived(plan) == {id \in DOMAIN plan : plan[id].archive}

----------------------------------------------------------------------------
(* Snapshot files.                                                         *)

ThreadSnapshot == [thread: Ids, values: Values]

\* A file may be absent, hold a snapshot, or be broken: a write that stopped
\* half-way, another schema version.
Files == [FileNames -> ThreadSnapshot \cup {Absent, Broken}]

\* FileTicketAgentCheckpointStore.save, under the name of the normalised id.
Save(files, raw, values) ==
    IF NormalOf[raw] = Absent THEN files
    ELSE [files EXCEPT ![NameOf[NormalOf[raw]]] =
            [thread |-> NormalOf[raw], values |-> values]]

\* FileTicketAgentCheckpointStore.load: a broken file, or the file of another
\* thread with the same name, is an error and never an answer.
Load(files, raw) ==
    IF NormalOf[raw] = Absent THEN "error"
    ELSE LET file == files[NameOf[NormalOf[raw]]] IN
         IF file = Absent THEN Absent
         ELSE IF file = Broken THEN "error"
         ELSE IF file.thread # NormalOf[raw] THEN "error"
         ELSE file.values
=============================================================================
