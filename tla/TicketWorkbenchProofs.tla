----------------------- MODULE TicketWorkbenchProofs -----------------------
(***************************************************************************)
(* Proofs about TicketWorkbench, for any users, roles, threads, requests   *)
(* and bounds.                                                             *)
(***************************************************************************)
EXTENDS TicketWorkbench, TLAPS

----------------------------------------------------------------------------
(* Types.                                                                  *)

LEMMA InitType == Init => TypeOK
BY WorkbenchAssumption DEF Init, TypeOK, Status, Table, Ticket, NewTicket, Entry

LEMMA EntryType ==
    ASSUME NEW r \in Requests, NEW ticket \in Ticket, NEW time \in Nat
    PROVE  EntryOf(r, ticket, time) \in Entry
<1>1. r \in Request
  BY WorkbenchAssumption
<1>2. /\ EventTypeOf(r, ticket) \in EventType
      /\ NewStatus(r, ticket) \in Status \cup {"none"}
      /\ NewAssignee(r) \in Users \cup {Nobody}
  BY <1>1 DEF EventTypeOf, EventType, NewStatus, NewAssignee, Request, Operation, Status
<1>3. QED
  BY <1>1, <1>2 DEF EntryOf, Entry, Request

LEMMA EndType ==
    ASSUME TypeOK, NEW w \in Workers, End(w), aborts' \in Nat,
           status' \in Status, assignee' \in Users \cup {Nobody}, history' \in Seq(Entry)
    PROVE  TypeOK'
<1>1. NewTicket \in Ticket
  BY DEF NewTicket, Ticket, Status
<1>2. QED
  BY <1>1 DEF TypeOK, End, Goto, Released

LEMMA NextType == TypeOK /\ [Next]_vars => TypeOK'
<1> SUFFICES ASSUME TypeOK, [Next]_vars PROVE TypeOK'
  OBVIOUS
<1> USE WorkbenchAssumption
<1>1. ASSUME NEW w \in Workers, NEW r \in Requests, Read(w, r) PROVE TypeOK'
  <2>1. [status |-> status, assignee |-> assignee] \in Ticket
    BY DEF TypeOK, Ticket
  <2>2. QED
    BY <1>1, <2>1 DEF TypeOK, Read, Goto, tables
<1>2. ASSUME NEW w \in Workers, Rollback(w), aborts' \in Nat PROVE TypeOK'
  BY <1>2, EndType DEF TypeOK, Rollback, tables
<1>3. ASSUME NEW w \in Workers, TakeTime(w) PROVE TypeOK'
  BY <1>3 DEF TypeOK, TakeTime, Goto, tables
<1>4. ASSUME NEW w \in Workers, Write(w) PROVE TypeOK'
  <2>1. \A r : Written(r) \in Table
    BY DEF Written, Table
  <2>2. PICK stage \in {"insert", "commit"} : Goto(w, stage)
    BY <1>4 DEF Write
  <2>3. lock' \in [Table -> Workers \cup {None}]
    BY <1>4, <2>1 DEF TypeOK, Write
  <2>4. pc[w] = "write" /\ UNCHANGED <<status, assignee, history, req, seen, at, now, served, aborts>>
    BY <1>4 DEF Write, tables
  <2>5. QED
    BY <2>2, <2>3, <2>4 DEF TypeOK, Goto
<1>5. ASSUME NEW w \in Workers, InsertAssignment(w) PROVE TypeOK'
  <2>1. CASE Rollback(w)
    BY <1>2, <1>5, <2>1 DEF TypeOK, InsertAssignment
  <2>2. CASE ~Rollback(w)
    <3>1. /\ pc[w] = "insert" /\ Goto(w, "commit")
          /\ lock' = [lock EXCEPT !["ticket_assignments"] = w]
          /\ UNCHANGED <<status, assignee, history, req, seen, at, now, served, aborts>>
      BY <1>5, <2>2 DEF InsertAssignment, tables
    <3>2. QED
      BY <3>1 DEF TypeOK, Goto, Table
  <2>3. QED
    BY <2>1, <2>2
<1>6. ASSUME NEW w \in Workers, Commit(w) PROVE TypeOK'
  <2>1. EntryOf(req[w], seen[w], at[w]) \in Entry
    BY <1>6, EntryType DEF TypeOK, Commit
  <2>2. /\ status' \in Status /\ assignee' \in Users \cup {Nobody}
        /\ history' \in Seq(Entry)
    BY <1>6, <2>1 DEF TypeOK, Commit, Entry
  <2>3. QED
    BY <1>6, <2>2, EndType DEF TypeOK, Commit
<1>7. ASSUME NEW w \in Workers, Abort(w) PROVE TypeOK'
  BY <1>2, <1>7 DEF TypeOK, Abort
<1>8. CASE UNCHANGED vars
  BY <1>8 DEF TypeOK, vars, tables
<1>9. QED
  BY <1>1, <1>3, <1>4, <1>5, <1>6, <1>7, <1>8 DEF Next, Proceed

\* Every variable keeps its type: the ticket has one of the five statuses.
THEOREM TypeCorrect == Spec => []TypeOK
BY InitType, NextType, PTL DEF Spec

\* What a commit does to the history: one entry more.
LEMMA CommitAppends ==
    ASSUME TypeOK, NEW w \in Workers, Commit(w)
    PROVE  /\ req[w] \in Request
           /\ EntryOf(req[w], seen[w], at[w]) \in Entry
           /\ Len(history) \in Nat
           /\ DOMAIN history = 1 .. Len(history)
           /\ DOMAIN history' = 1 .. Len(history) + 1
           /\ \A i \in 1 .. Len(history) : history'[i] = history[i] /\ history[i] \in Entry
           /\ history'[Len(history) + 1] = EntryOf(req[w], seen[w], at[w])
<1>1. req[w] \in Requests
  BY DEF TypeOK, Commit
<1>2. EntryOf(req[w], seen[w], at[w]) \in Entry
  BY <1>1, EntryType DEF TypeOK
<1>3. history' = Append(history, EntryOf(req[w], seen[w], at[w]))
  BY DEF Commit
<1>4. QED
  BY <1>1, <1>2, <1>3, WorkbenchAssumption DEF TypeOK

----------------------------------------------------------------------------
(* Causes stand above. What a thread has read was set by a committed event, *)
(* and when the thread has taken its time, by one that is no later: a clock *)
(* read after the row was read is not behind any that was read before the   *)
(* row was written.                                                         *)

SetStatus(i, s) == i \in Events /\ history[i].status = s
SetAssignee(i, u) == i \in Events /\ history[i].assignee = u

\* An event no later than time explains the ticket.
Explained(ticket, time) ==
    /\ ticket.status # "created"
          => \E i \in DOMAIN history : SetStatus(i, ticket.status) /\ history[i].at <= time
    /\ ticket.assignee # Nobody
          => \E i \in DOMAIN history : SetAssignee(i, ticket.assignee) /\ history[i].at <= time

Stamped == {"write", "insert", "commit"}
Checked == {"stamp"} \cup Stamped

CauseInv ==
    /\ Explained([status |-> status, assignee |-> assignee], now)
    /\ \A i \in DOMAIN history : history[i].at <= now
    /\ \A w \in Workers : pc[w] \in Checked => Explained(seen[w], now)
    /\ \A w \in Workers : pc[w] \in Stamped =>
          /\ at[w] <= now
          /\ Explained(seen[w], at[w])
    /\ CausesStandAbove

LEMMA InitCauseInv == Init => CauseInv
BY DEF Init, CauseInv, Explained, CausesStandAbove, Events, Checked, Stamped

LEMMA TimesAreNumbers == TypeOK => \A i \in DOMAIN history : history[i].at \in Nat
<1>1. \A e \in Entry : e.at \in Nat
  BY DEF Entry
<1>2. TypeOK => \A i \in DOMAIN history : history[i] \in Entry
  BY DEF TypeOK
<1>3. QED
  BY <1>1, <1>2

\* A later time explains as much.
LEMMA ExplainedLater ==
    ASSUME TypeOK, NEW ticket, NEW t1 \in Nat, NEW t2 \in Nat, t1 <= t2,
           Explained(ticket, t1)
    PROVE  Explained(ticket, t2)
<1>1. \A i \in DOMAIN history : history[i].at \in Nat
  BY TimesAreNumbers
<1>2. QED
  BY <1>1 DEF Explained

\* An operation that changes what it sets has an event.
LEMMA SettersAreEvents ==
    ASSUME NEW r \in Request, NEW ticket, NEW time
    PROVE  LET new == EntryOf(r, ticket, time)
           IN new.status # "none" \/ new.assignee # Nobody => new.type # "none"
BY DEF EntryOf, NewStatus, NewAssignee, EventTypeOf, Request, Operation

LEMMA NextCauseInv == TypeOK /\ CauseInv /\ [Next]_vars => CauseInv'
<1> SUFFICES ASSUME TypeOK, CauseInv, [Next]_vars PROVE CauseInv'
  OBVIOUS
<1> USE WorkbenchAssumption
\* A step that writes no table: only the threads and the clock may move.
<1>1. ASSUME UNCHANGED tables, now' \in Nat, now <= now',
             \A w \in Workers : pc'[w] \in Checked => Explained(seen'[w], now'),
             \A w \in Workers : pc'[w] \in Stamped =>
                at'[w] <= now' /\ Explained(seen'[w], at'[w])
      PROVE  CauseInv'
  <2>1. history' = history /\ status' = status /\ assignee' = assignee
    BY <1>1 DEF tables
  <2>2. \A ticket, time : Explained(ticket, time)' <=> Explained(ticket', time')
    BY <2>1 DEF Explained, SetStatus, SetAssignee, Events
  <2>3. Explained([status |-> status, assignee |-> assignee], now')
    BY <1>1, ExplainedLater DEF CauseInv, TypeOK
  <2>4. \A i \in DOMAIN history : history[i].at <= now'
    <3>1. \A i \in DOMAIN history : history[i].at \in Nat
      BY TimesAreNumbers
    <3>2. QED
      BY <1>1, <3>1 DEF CauseInv, TypeOK
  <2>5. CausesStandAbove'
    BY <2>1 DEF CauseInv, CausesStandAbove, Events, Above
  <2>6. QED
    BY <1>1, <2>1, <2>3, <2>4, <2>5
       DEF CauseInv, Explained, SetStatus, SetAssignee, Events
\* A step after which no thread has read more, nor taken another time.
<1>2. ASSUME UNCHANGED <<tables, now>>,
             \A w \in Workers : pc'[w] \in Checked =>
                /\ pc[w] \in Checked /\ seen'[w] = seen[w] /\ at'[w] = at[w]
                /\ pc'[w] \in Stamped => pc[w] \in Stamped
      PROVE  CauseInv'
  BY <1>1, <1>2 DEF CauseInv, TypeOK, Stamped, Checked
<1>3. ASSUME NEW w \in Workers, NEW r \in Requests, Read(w, r) PROVE CauseInv'
  <2>1. /\ seen'[w] = [status |-> status, assignee |-> assignee]
        /\ pc'[w] = "stamp"
        /\ UNCHANGED <<tables, now, at>>
        /\ \A v \in Workers \ {w} : pc'[v] = pc[v] /\ seen'[v] = seen[v]
    BY <1>3 DEF TypeOK, Read, Goto
  <2>2. QED
    BY <1>1, <2>1 DEF CauseInv, TypeOK, Checked, Stamped
<1>4. ASSUME NEW w \in Workers, TakeTime(w) PROVE CauseInv'
  <2>1. /\ now' \in Nat /\ now <= now' /\ at'[w] = now'
        /\ UNCHANGED <<tables, seen>>
        /\ pc[w] = "stamp" /\ pc'[w] = "write"
        /\ \A v \in Workers \ {w} : pc'[v] = pc[v] /\ at'[v] = at[v]
    BY <1>4 DEF TypeOK, TakeTime, Goto
  <2>2. \A v \in Workers : pc[v] \in Checked => Explained(seen[v], now')
    BY <2>1, ExplainedLater DEF CauseInv, TypeOK
  <2>3. \A v \in Workers : pc'[v] \in Checked => Explained(seen'[v], now')
    BY <2>1, <2>2 DEF Checked, Stamped
  <2>4. ASSUME NEW v \in Workers, pc'[v] \in Stamped
        PROVE  at'[v] <= now' /\ Explained(seen'[v], at'[v])
    <3>1. CASE v = w
      BY <2>1, <2>3, <2>4, <3>1 DEF Checked, Stamped
    <3>2. CASE v # w
      BY <2>1, <2>4, <3>2 DEF CauseInv, TypeOK
    <3>3. QED
      BY <3>1, <3>2
  <2>5. QED
    BY <1>1, <2>1, <2>3, <2>4
<1>5. ASSUME NEW w \in Workers, Rollback(w) PROVE CauseInv'
  BY <1>2, <1>5 DEF TypeOK, Rollback, End, Goto, Checked, Stamped
<1>6. ASSUME NEW w \in Workers, Write(w) \/ InsertAssignment(w) PROVE CauseInv'
  <2>1. CASE Rollback(w)
    BY <1>5, <2>1
  <2>2. CASE /\ pc[w] \in Stamped /\ \E stage \in Stamped : Goto(w, stage)
             /\ UNCHANGED <<tables, seen, at, now>>
    BY <1>2, <2>2 DEF TypeOK, Goto, Checked
  <2>3. QED
    BY <1>6, <2>1, <2>2 DEF Write, InsertAssignment, Stamped
<1>7. ASSUME NEW w \in Workers, Commit(w) PROVE CauseInv'
  <2> DEFINE new == EntryOf(req[w], seen[w], at[w])
             n == Len(history)
  <2>1. /\ n \in Nat /\ DOMAIN history = 1 .. n /\ DOMAIN history' = 1 .. n + 1
        /\ \A i \in 1 .. n : history'[i] = history[i] /\ history[i] \in Entry
        /\ history'[n + 1] = new
        /\ new \in Entry
        /\ req[w] \in Request
    BY <1>7, CommitAppends
  <2>2. /\ status' = IF new.status # "none" THEN new.status ELSE status
        /\ assignee' = IF new.assignee # Nobody THEN new.assignee ELSE assignee
        /\ now' = now
    BY <1>7 DEF Commit, End
  <2>3. new.seen = seen[w] /\ new.at = at[w]
    BY DEF EntryOf
  <2>4. new.status # "none" \/ new.assignee # Nobody => new.type # "none"
    BY <2>1, SettersAreEvents
  <2>5. Explained(new.seen, new.at) /\ new.at <= now
    BY <1>7, <2>3 DEF CauseInv, Commit, Stamped
  <2> HIDE DEF new, n
  <2>6. \A i \in 1 .. n : (i \in Events) <=> (i \in Events')
    BY <2>1 DEF Events
  <2>7. n + 1 \in Events' <=> new.type # "none"
    BY <2>1 DEF Events
  <2>8. Events' \subseteq 1 .. n + 1 /\ Events \subseteq 1 .. n
    BY <2>1 DEF Events
  <2>9. \A ticket, time : Explained(ticket, time) =>
            /\ ticket.status # "created"
                  => \E i \in 1 .. n : /\ i \in Events'
                                       /\ history'[i].status = ticket.status
                                       /\ history'[i].at <= time
            /\ ticket.assignee # Nobody
                  => \E i \in 1 .. n : /\ i \in Events'
                                       /\ history'[i].assignee = ticket.assignee
                                       /\ history'[i].at <= time
    BY <2>1, <2>6 DEF Explained, SetStatus, SetAssignee
  <2> DEFINE ExplainedNow(ticket, time) ==
        /\ ticket.status # "created"
              => \E i \in 1 .. n + 1 : /\ i \in Events'
                                       /\ history'[i].status = ticket.status
                                       /\ history'[i].at <= time
        /\ ticket.assignee # Nobody
              => \E i \in 1 .. n + 1 : /\ i \in Events'
                                       /\ history'[i].assignee = ticket.assignee
                                       /\ history'[i].at <= time
  <2>10. \A ticket, time : Explained(ticket, time) => ExplainedNow(ticket, time)
    <3>1. 1 .. n \subseteq 1 .. n + 1
      BY <2>1
    <3>2. QED
      BY <2>9, <3>1
  <2>11. ExplainedNow([status |-> status', assignee |-> assignee'], now)
    <3>1. ExplainedNow([status |-> status, assignee |-> assignee], now)
      BY <2>10 DEF CauseInv
    <3>2. n + 1 \in 1 .. n + 1
      BY <2>1
    <3>3. status' # status => /\ n + 1 \in Events' /\ history'[n + 1].status = status'
                              /\ history'[n + 1].at <= now
      BY <2>1, <2>2, <2>4, <2>5, <2>7
    <3>4. assignee' # assignee => /\ n + 1 \in Events' /\ history'[n + 1].assignee = assignee'
                                  /\ history'[n + 1].at <= now
      BY <2>1, <2>2, <2>4, <2>5, <2>7
    <3>5. QED
      BY <3>1, <3>2, <3>3, <3>4
  <2>12. \A i \in 1 .. n + 1 : history'[i].at <= now
    BY <2>1, <2>5 DEF CauseInv
  <2>13. \A v \in Workers : pc'[v] \in Checked =>
            /\ pc[v] = pc'[v] /\ seen'[v] = seen[v] /\ at'[v] = at[v]
    BY <1>7 DEF TypeOK, Commit, End, Goto, Checked, Stamped
  <2>14. \A v \in Workers : pc'[v] \in Checked => ExplainedNow(seen'[v], now)
    BY <2>10, <2>13 DEF CauseInv
  <2>15. \A v \in Workers : pc'[v] \in Stamped =>
            at'[v] <= now /\ ExplainedNow(seen'[v], at'[v])
    BY <2>10, <2>13 DEF CauseInv, Checked
  <2>16. \A i, j \in 1 .. n : Above(i, j)' <=> Above(i, j)
    BY <2>1 DEF Above
  <2>17. CausesStandAbove'
    <3>1. SUFFICES ASSUME NEW i \in Events'
                   PROVE  LET from == history'[i].seen
                          IN /\ from.status # "created"
                                  => \E j \in Events' : /\ Above(j, i)'
                                                        /\ history'[j].status = from.status
                             /\ from.assignee # Nobody
                                  => \E j \in Events' : /\ Above(j, i)'
                                                        /\ history'[j].assignee = from.assignee
      BY DEF CausesStandAbove
    <3>2. CASE i \in 1 .. n
      BY <2>1, <2>6, <2>8, <2>16, <3>2 DEF CauseInv, CausesStandAbove
    <3>3. CASE i = n + 1
      <4>1. \A j \in 1 .. n : history'[j].at <= new.at => Above(j, i)'
        BY <2>1, <3>3 DEF Above, Entry
      <4>2. QED
        BY <2>1, <2>5, <2>9, <3>3, <4>1
    <3>4. QED
      BY <2>1, <2>8, <3>2, <3>3
  <2>18. QED
    BY <2>1, <2>2, <2>11, <2>12, <2>14, <2>15, <2>17
       DEF CauseInv, Explained, SetStatus, SetAssignee
<1>8. ASSUME NEW w \in Workers, Abort(w) PROVE CauseInv'
  BY <1>5, <1>8 DEF Abort
<1>9. CASE UNCHANGED vars
  BY <1>2, <1>9 DEF vars, tables
<1>10. QED
  BY <1>3, <1>4, <1>6, <1>7, <1>8, <1>9 DEF Next, Proceed

\* The timeline never shows an event above the one it follows from, although
\* racing operations take their times in another order than they write.
THEOREM TimelineIsCausal == Spec => []CausesStandAbove
<1>1. CauseInv => CausesStandAbove
  BY DEF CauseInv
<1>2. QED
  BY InitType, NextType, InitCauseInv, NextCauseInv, <1>1, PTL DEF Spec

----------------------------------------------------------------------------
(* No way to closed but through resolved. An event that sets "resolved" is  *)
(* a resolution; one that closes was checked against "resolved"; and causes *)
(* stand above.                                                             *)

OpenEntry(e) ==
    /\ e.status = "resolved" => e.type = "ticket_resolved" /\ e.message /\ Staff(e.by)
    /\ e.status = "closed" => e.seen.status = "resolved"

ClosedInv ==
    /\ \A i \in DOMAIN history : OpenEntry(history[i])
    /\ \A w \in Workers : pc[w] \in Checked => Permitted(req[w], seen[w])

LEMMA InitClosedInv == Init => ClosedInv
BY DEF Init, ClosedInv, Checked, Stamped

LEMMA PermittedEntry ==
    ASSUME NEW r \in Request, NEW ticket \in Ticket, NEW time, Permitted(r, ticket)
    PROVE  OpenEntry(EntryOf(r, ticket, time))
<1>1. NewStatus(r, ticket) = "closed" => r.op = "status" /\ r.target = "closed"
  BY DEF NewStatus, Request
<1>2. "closed" \in AllowedTransitions(ticket.status) => ticket.status = "resolved"
  BY DEF AllowedTransitions, Ticket, Status
<1>3. NewStatus(r, ticket) = "resolved" => r.op = "resolve"
  BY DEF NewStatus, Request
<1>4. QED
  BY <1>1, <1>2, <1>3 DEF OpenEntry, EntryOf, EventTypeOf, Permitted, Resumes

LEMMA NextClosedInv == TypeOK /\ ClosedInv /\ [Next]_vars => ClosedInv'
<1> SUFFICES ASSUME TypeOK, ClosedInv, [Next]_vars PROVE ClosedInv'
  OBVIOUS
\* A step that writes no table and checks nothing.
<1>1. ASSUME UNCHANGED tables,
             \A w \in Workers : pc'[w] \in Checked =>
                pc[w] \in Checked /\ req'[w] = req[w] /\ seen'[w] = seen[w]
      PROVE  ClosedInv'
  BY <1>1 DEF ClosedInv, OpenEntry, Permitted, tables
<1>2. ASSUME NEW w \in Workers, NEW r \in Requests, Read(w, r) PROVE ClosedInv'
  <2>1. /\ Permitted(r, [status |-> status, assignee |-> assignee])
        /\ seen'[w] = [status |-> status, assignee |-> assignee]
        /\ req'[w] = r
        /\ UNCHANGED tables
        /\ \A v \in Workers \ {w} : pc'[v] = pc[v] /\ req'[v] = req[v] /\ seen'[v] = seen[v]
    BY <1>2 DEF TypeOK, Read, Goto
  <2>2. QED
    BY <2>1 DEF ClosedInv, OpenEntry, Permitted, tables
<1>3. ASSUME NEW w \in Workers, Rollback(w) PROVE ClosedInv'
  BY <1>1, <1>3 DEF TypeOK, Rollback, End, Goto, Checked, Stamped
<1>4. ASSUME NEW w \in Workers, TakeTime(w) \/ Write(w) \/ InsertAssignment(w)
      PROVE  ClosedInv'
  <2>1. CASE Rollback(w)
    BY <1>3, <2>1
  <2>2. CASE /\ pc[w] \in Checked /\ \E stage : Goto(w, stage)
             /\ UNCHANGED <<tables, req, seen>>
    BY <1>1, <2>2 DEF TypeOK, Goto
  <2>3. QED
    BY <1>4, <2>1, <2>2 DEF TakeTime, Write, InsertAssignment, Checked, Stamped
<1>5. ASSUME NEW w \in Workers, Commit(w) PROVE ClosedInv'
  <2> DEFINE new == EntryOf(req[w], seen[w], at[w])
             n == Len(history)
  <2>1. /\ n \in Nat /\ DOMAIN history = 1 .. n /\ DOMAIN history' = 1 .. n + 1
        /\ \A i \in 1 .. n : history'[i] = history[i]
        /\ history'[n + 1] = new
        /\ req[w] \in Request
    BY <1>5, CommitAppends
  <2>2. OpenEntry(new)
    BY <1>5, <2>1, PermittedEntry DEF ClosedInv, TypeOK, Commit, Checked, Stamped
  <2> HIDE DEF new, n
  <2>3. \A i \in DOMAIN history' : OpenEntry(history'[i])
    BY <2>1, <2>2 DEF ClosedInv
  <2>4. \A v \in Workers : pc'[v] \in Checked =>
            pc[v] \in Checked /\ req'[v] = req[v] /\ seen'[v] = seen[v]
    BY <1>5 DEF TypeOK, Commit, End, Goto, Checked, Stamped
  <2>5. QED
    BY <2>3, <2>4 DEF ClosedInv, Permitted, OpenEntry
<1>6. ASSUME NEW w \in Workers, Abort(w) PROVE ClosedInv'
  BY <1>3, <1>6 DEF Abort
<1>7. CASE UNCHANGED vars
  BY <1>1, <1>7 DEF vars, tables
<1>8. QED
  BY <1>2, <1>4, <1>5, <1>6, <1>7 DEF Next, Proceed

\* A closed ticket is shown below its resolution by staff, with an answer its
\* customer can read, although every transition is checked against a status
\* that may be gone when it is made, and events are shown by earlier times.
THEOREM NeverClosedUnresolved == Spec => []ClosedAfterResolved
<1>1. CauseInv /\ ClosedInv => ClosedAfterResolved
  <2> SUFFICES ASSUME CauseInv, ClosedInv, NEW i \in Events, history[i].status = "closed"
               PROVE  \E j \in Events : /\ Above(j, i)
                                        /\ history[j].type = "ticket_resolved"
                                        /\ history[j].message
                                        /\ Staff(history[j].by)
    BY DEF ClosedAfterResolved
  <2>1. history[i].seen.status = "resolved"
    BY DEF ClosedInv, OpenEntry, Events
  <2>2. PICK j \in Events : Above(j, i) /\ history[j].status = "resolved"
    BY <2>1 DEF CauseInv, CausesStandAbove
  <2>3. QED
    BY <2>2 DEF ClosedInv, OpenEntry, Events
<1>2. QED
  BY InitType, NextType, InitCauseInv, NextCauseInv, InitClosedInv, NextClosedInv,
     <1>1, PTL DEF Spec
=============================================================================
