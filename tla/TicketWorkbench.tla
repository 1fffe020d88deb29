-------------------------- MODULE TicketWorkbench --------------------------
(***************************************************************************)
(* TicketQueryServiceImpl of java-business-service: what customers and     *)
(* staff do to one ticket through the console, in concurrent transactions. *)
(* Every operation reads the ticket with its assignment, checks what it    *)
(* read, and then writes without looking again: the UPDATEs of the mapper  *)
(* name the ticket only.  It takes the time after its checks and before it *)
(* waits for the row, and its event is shown by that time.                 *)
(*                                                                         *)
(* The rows of ticket_events and ticket_messages a transaction inserts are *)
(* one entry of history, in the order of the commits, which for events     *)
(* that set the same column is also that of their ids.                     *)
(***************************************************************************)
EXTENDS Naturals, Sequences

CONSTANTS
    Workers,      \* servlet threads
    None,         \* no thread
    Users,        \* the tenant's users
    Nobody,       \* no user
    Role,         \* Role[u]: customer, agent, manager (supervisor or admin)
    Requester,    \* the customer whose ticket it is
    Requests,     \* the requests users send
    NoRequest,    \* an idle thread's
    MaxRequests,  \* bound on the requests of a behaviour
    MaxAborts     \* bound on the requests killed before their commit

Status == {"created", "in_progress", "waiting_user", "resolved", "closed"}
Operation == {"status", "resolve", "reopen", "message", "claim", "assign"}

\* target is read by the operation "status" only, assignee by "assign" only;
\* the pattern on target_status leaves "resolved" to resolveTicket.
Request == [op: Operation, user: Users, assignee: Users,
            target: {"in_progress", "waiting_user", "closed"}]

ASSUME WorkbenchAssumption ==
    /\ None \notin Workers
    /\ Nobody \notin Users
    /\ Role \in [Users -> {"customer", "agent", "manager"}]
    /\ Requester \in Users
    /\ Requests \subseteq Request
    /\ Requests # {}
    /\ NoRequest \notin Requests
    /\ MaxRequests \in Nat
    /\ MaxAborts \in Nat

VARIABLES
    status,    \* tickets.ticket_status
    assignee,  \* ticket_assignments.assignee_user_id, Nobody before the insert
    history,   \* the ticket's events and messages
    lock,      \* lock[t]: the thread whose transaction locked the row in table t
    pc,        \* where each thread is
    req,       \* the request it serves
    seen,      \* the Ticket it read
    at,        \* the time it took
    now,       \* the clock of the service
    served,    \* requests begun
    aborts     \* requests killed

tables == <<status, assignee, history>>
vars == <<status, assignee, history, lock, pc, req, seen, at, now, served, aborts>>

Table == {"tickets", "ticket_assignments"}
Ticket == [status: Status, assignee: Users \cup {Nobody}]
NewTicket == [status |-> "created", assignee |-> Nobody]
EventType == {"status_changed", "ticket_resolved", "ticket_reopened",
              "ticket_claimed", "ticket_assigned", "ticket_transferred", "none"}

\* at is created_at; seen is what the operation was checked against, of which
\* the payload of the event keeps a part.
Entry == [type: EventType, by: Users, status: Status \cup {"none"},
          assignee: Users \cup {Nobody}, message: BOOLEAN, seen: Ticket, at: Nat]

TypeOK ==
    /\ status \in Status
    /\ assignee \in Users \cup {Nobody}
    /\ history \in Seq(Entry)
    /\ lock \in [Table -> Workers \cup {None}]
    /\ pc \in [Workers -> {"idle", "stamp", "write", "insert", "commit"}]
    /\ req \in [Workers -> Requests \cup {NoRequest}]
    /\ \A w \in Workers : pc[w] # "idle" => req[w] \in Requests
    /\ seen \in [Workers -> Ticket]
    /\ at \in [Workers -> Nat]
    /\ now \in Nat
    /\ served \in Nat
    /\ aborts \in Nat

\* A ticket as createTicket leaves it.
Init ==
    /\ status = "created"
    /\ assignee = Nobody
    /\ history = <<>>
    /\ lock = [t \in Table |-> None]
    /\ pc = [w \in Workers |-> "idle"]
    /\ req = [w \in Workers |-> NoRequest]
    /\ seen = [w \in Workers |-> NewTicket]
    /\ at = [w \in Workers |-> 0]
    /\ now = 0
    /\ served = 0
    /\ aborts = 0

----------------------------------------------------------------------------
Staff(u) == Role[u] \in {"agent", "manager"}
Customer(u) == Role[u] = "customer"

\* Mutant: a ticket at work may be closed without a resolution.
AllowedTransitions_Shortcut(from) ==
    CASE from = "created" -> {"in_progress", "waiting_user"}
      [] from \in {"in_progress", "waiting_user"} -> Status \ {from}
      [] from = "resolved" -> {"closed"}
      [] from = "closed" -> {}

AllowedTransitions(from) ==
    CASE from = "created" -> {"in_progress", "waiting_user"}
      [] from = "in_progress" -> {"waiting_user", "resolved"}
      [] from = "waiting_user" -> {"in_progress", "resolved"}
      [] from = "resolved" -> {"closed"}
      [] from = "closed" -> {}

CustomerReplyAllowed == {"created", "in_progress", "waiting_user"}

MayAssign(r, ticket) ==
    /\ Staff(r.assignee)
    /\ \/ Role[r.user] = "manager"
       \/ ticket.assignee = r.user
       \/ ticket.assignee = Nobody /\ r.assignee = r.user

\* requireStaff, requireCustomer, requireVisibleTicket and the checks of each
\* operation on the ticket that was read.
Permitted(r, ticket) ==
    /\ Customer(r.user) => r.user = Requester
    /\ r.op \in {"status", "resolve", "claim", "assign"} => Staff(r.user)
    /\ r.op = "status" => r.target \in AllowedTransitions(ticket.status)
    /\ r.op = "resolve" => "resolved" \in AllowedTransitions(ticket.status)
    /\ r.op = "reopen" => Customer(r.user) /\ ticket.status = "resolved"
    /\ r.op = "message" /\ Customer(r.user) => ticket.status \in CustomerReplyAllowed
    /\ r.op = "claim" => ticket.assignee = Nobody
    /\ r.op = "assign" => MayAssign(r, ticket)

\* A customer's answer puts a ticket that waits for it back to work.
Resumes(r, ticket) ==
    /\ r.op = "message"
    /\ Customer(r.user)
    /\ ticket.status = "waiting_user"

\* What the operation sets the status to; "none" if it leaves it alone.
NewStatus(r, ticket) ==
    IF r.op = "status" THEN r.target
    ELSE IF r.op = "resolve" THEN "resolved"
    ELSE IF r.op = "reopen" \/ Resumes(r, ticket) THEN "in_progress"
    ELSE "none"

NewAssignee(r) == IF r.op = "claim" THEN r.user
                  ELSE IF r.op = "assign" THEN r.assignee
                  ELSE Nobody

EventTypeOf(r, ticket) ==
    IF r.op = "status" \/ Resumes(r, ticket) THEN "status_changed"
    ELSE IF r.op = "resolve" THEN "ticket_resolved"
    ELSE IF r.op = "reopen" THEN "ticket_reopened"
    ELSE IF r.op = "claim" THEN "ticket_claimed"
    ELSE IF r.op = "assign" /\ ticket.assignee = Nobody THEN "ticket_assigned"
    ELSE IF r.op = "assign" THEN "ticket_transferred"
    ELSE "none"

EntryOf(r, ticket, time) ==
    [type |-> EventTypeOf(r, ticket), by |-> r.user,
     status |-> NewStatus(r, ticket), assignee |-> NewAssignee(r),
     message |-> r.op \in {"resolve", "reopen", "message"},
     seen |-> ticket, at |-> time]

Written(r) == IF r.op \in {"claim", "assign"} THEN "ticket_assignments"
                                              ELSE "tickets"

----------------------------------------------------------------------------
Goto(w, stage) == pc' = [pc EXCEPT ![w] = stage]

\* Mutant: the connection goes back to the pool with its transaction open.
Released_Nothing(w) == lock

Released(w) == [t \in Table |-> IF lock[t] = w THEN None ELSE lock[t]]

\* The transaction of w ends and its thread is free.
End(w) ==
    /\ Goto(w, "idle")
    /\ lock' = Released(w)
    /\ req' = [req EXCEPT ![w] = NoRequest]
    /\ seen' = [seen EXCEPT ![w] = NewTicket]
    /\ at' = [at EXCEPT ![w] = 0]
    /\ UNCHANGED <<now, served>>

Rollback(w) ==
    /\ End(w)
    /\ UNCHANGED tables

\* A request arrives: requireVisibleTicket and the checks.  One that is refused
\* changes nothing.
Read(w, r) ==
    /\ pc[w] = "idle"
    /\ served < MaxRequests
    /\ LET ticket == [status |-> status, assignee |-> assignee]
       IN /\ Permitted(r, ticket)
          /\ seen' = [seen EXCEPT ![w] = ticket]
    /\ req' = [req EXCEPT ![w] = r]
    /\ served' = served + 1
    /\ Goto(w, "stamp")
    /\ UNCHANGED <<tables, lock, at, now, aborts>>

\* Instant.now(): later than the last time taken, or within the same
\* microsecond.
TakeTime(w) ==
    /\ pc[w] = "stamp"
    /\ now' \in {now, now + 1}
    /\ at' = [at EXCEPT ![w] = now']
    /\ Goto(w, "write")
    /\ UNCHANGED <<tables, lock, req, seen, served, aborts>>

\* updateTicketStatus, touchTicketUpdatedAt or updateTicketAssignment: waits
\* for the row and keeps it locked; an assignment without a row is inserted.
Write(w) ==
    /\ pc[w] = "write"
    /\ lock[Written(req[w])] = None
    /\ IF Written(req[w]) = "ticket_assignments" /\ assignee = Nobody
       THEN /\ Goto(w, "insert")
            /\ UNCHANGED lock
       ELSE /\ Goto(w, "commit")
            /\ lock' = [lock EXCEPT ![Written(req[w])] = w]
    /\ UNCHANGED <<tables, req, seen, at, now, served, aborts>>

\* insertTicketAssignment.  It fails on the row another transaction inserted,
\* or as the victim of the deadlock between two that found none.
InsertAssignment(w) ==
    /\ pc[w] = "insert"
    /\ \/ /\ assignee = Nobody
          /\ lock["ticket_assignments"] = None
          /\ lock' = [lock EXCEPT !["ticket_assignments"] = w]
          /\ Goto(w, "commit")
          /\ UNCHANGED <<tables, req, seen, at, now, served>>
       \/ /\ \/ assignee # Nobody
             \/ lock["ticket_assignments"] # None
             \/ \E v \in Workers \ {w} : pc[v] = "insert"
          /\ Rollback(w)
    /\ UNCHANGED aborts

Commit(w) ==
    /\ pc[w] = "commit"
    /\ LET new == EntryOf(req[w], seen[w], at[w])
       IN /\ status' = IF new.status # "none" THEN new.status ELSE status
          /\ assignee' = IF new.assignee # Nobody THEN new.assignee ELSE assignee
          /\ history' = Append(history, new)
    /\ End(w)
    /\ UNCHANGED aborts

\* The thread or its connection fails before the commit.
Abort(w) ==
    /\ pc[w] # "idle"
    /\ aborts < MaxAborts
    /\ aborts' = aborts + 1
    /\ Rollback(w)

Proceed(w) == TakeTime(w) \/ Write(w) \/ InsertAssignment(w) \/ Commit(w)

Next ==
    \/ \E w \in Workers, r \in Requests : Read(w, r)
    \/ \E w \in Workers : Proceed(w)
    \/ \E w \in Workers : Abort(w)

Spec == Init /\ [][Next]_vars

\* Threads run and MySQL grants a lock that has become free.
FairSpec == Spec /\ \A w \in Workers : WF_vars(Proceed(w))

----------------------------------------------------------------------------
\* The timeline: the rows of ticket_events ORDER BY created_at, id.
Events == {i \in DOMAIN history : history[i].type # "none"}

\* Mutant: the timeline is ordered by created_at alone.
Above_NoId(i, j) == history[i].at < history[j].at

\* Ids grow with commits: writers of one table hold its lock from before they
\* take an id, and others take theirs after whatever they have read.
Above(i, j) ==
    \/ history[i].at < history[j].at
    \/ history[i].at = history[j].at /\ i < j

\* Nothing in the timeline stands before its cause: what an operation was
\* checked against, the status it left and the assignee it took the ticket
\* from, was set by an event further up.  Times are taken before the row is
\* waited for, so events of racing operations may change places; but never with
\* one whose outcome the operation had read (TicketQueryServiceImpl 87 to 245).
CausesStandAbove ==
    \A i \in Events :
        LET from == history[i].seen
        IN /\ from.status # "created"
                => \E j \in Events : Above(j, i) /\ history[j].status = from.status
           /\ from.assignee # Nobody
                => \E j \in Events : Above(j, i) /\ history[j].assignee = from.assignee

\* A ticket is shown as closed only below its resolution by staff, with an
\* answer the customer can read (ALLOWED_TRANSITIONS, resolveTicket), even when
\* the transition was checked against a status that had changed since.
ClosedAfterResolved ==
    \A i \in Events :
        history[i].status = "closed"
          => \E j \in Events : /\ Above(j, i)
                              /\ history[j].type = "ticket_resolved"
                              /\ history[j].message
                              /\ Staff(history[j].by)

\* The timeline ends with the status the ticket has, as docs/java-business-
\* database-design.md 356 has it: tickets keep the current state, ticket_events
\* how it came about.  Refuted: of two racing operations the one that took its
\* time first may be the one that writes last.
TimelineEndsInStatus ==
    \A i \in Events :
        /\ history[i].status # "none"
        /\ \A j \in Events \ {i} : history[j].status # "none" => Above(j, i)
        => history[i].status = status

\* A ticket is reopened by its customer only while it is resolved
\* (BusinessErrorCode.java 32).
OnlyResolvedReopened ==
    [][\A i \in DOMAIN history' \ DOMAIN history :
          history'[i].type = "ticket_reopened" => status = "resolved"]_vars

\* Every request is answered: the two that race to insert the assignment do
\* not wait for each other.
EveryRequestAnswered ==
    \A w \in Workers : pc[w] # "idle" ~> pc[w] = "idle"
=============================================================================
