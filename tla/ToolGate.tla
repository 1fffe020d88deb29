------------------------------ MODULE ToolGate ------------------------------
(***************************************************************************)
(* The way of a confirmed write from the user to the business service.     *)
(*                                                                         *)
(* The ticket workflow ("ai" process): a plan is kept in memory under a    *)
(* fresh id, confirmed, then executed with the arguments it was planned    *)
(* with.  The console agent: an approval is registered in Redis under the  *)
(* digest of its draft, and the tool is called through the MCP client,     *)
(* which retries, and the MCP server ("mcp" process), which checks the     *)
(* approval again.  Both executors run the tool under run_idempotent_tool, *)
(* whose lock is held during the HTTP call and whose results are lost in a *)
(* restart, and send the confirmation id to Java as the Idempotency-Key.   *)
(***************************************************************************)
EXTENDS Naturals, FiniteSets

CONSTANTS
    Actors,
    Drafts,        \* contents of a write; the digest of one is the draft itself
    Tokens,        \* uuid4().hex
    Tools,
    Ticket,        \* the tool create_ticket
    None,
    MaxRetries,    \* mcp_product_retry_count
    MaxJobs,       \* bound: tool requests that reach an executor
    MaxCrashes     \* bound: restarts of a process

Ids == Drafts \cup Tokens
Procs == {"ai", "mcp"}
Writes == [actor : Actors, id : Ids, draft : Drafts, tool : Tools]
Records == [write : Writes, status : {"pending", "confirmed"}, live : BOOLEAN]

ASSUME ToolGateAssumption ==
    /\ Ticket \in Tools
    /\ Drafts \cap Tokens = {}
    /\ None \notin Actors \cup Ids \cup Tools \cup Writes \cup Records
    /\ {MaxRetries, MaxJobs, MaxCrashes} \subseteq Nat

VARIABLES
    plans,      \* token -> record of the in-memory confirmation store
    shared,     \* draft -> record of the Redis confirmation store
    call,       \* actor -> the client call in progress
    jobs,       \* executions in the two processes
    lock,       \* process -> number of the job that holds _STORE_LOCK
    memo,       \* process -> id -> write whose result is remembered
    flight,     \* requests on their way to Java
    sent,       \* jobs so far
    crashes,
    approved,   \* history: writes a user approved
    effects     \* writes Java carried out

vars == <<plans, shared, call, jobs, lock, memo, flight, sent, crashes,
          approved, effects>>

NoCall == [pc |-> "idle", write |-> None, proc |-> None, tries |-> 0, job |-> 0]

Init ==
    /\ plans = [u \in Tokens |-> None]
    /\ shared = [d \in Drafts |-> None]
    /\ call = [a \in Actors |-> NoCall]
    /\ jobs = {}
    /\ lock = [p \in Procs |-> 0]
    /\ memo = [p \in Procs |-> [i \in Ids |-> None]]
    /\ flight = {}
    /\ sent = 0 /\ crashes = 0
    /\ approved = {} /\ effects = {}

-----------------------------------------------------------------------------
(* The confirmation stores.                                                *)

Plan(a) ==
    /\ sent < MaxJobs
    /\ \E u \in Tokens, d \in Drafts, t \in Tools :
          /\ plans[u] = None
          /\ plans' = [plans EXCEPT ![u] =
                 [write |-> [actor |-> a, id |-> u, draft |-> d, tool |-> t],
                  status |-> "pending", live |-> TRUE]]
    /\ UNCHANGED <<shared, call, jobs, lock, memo, flight, sent, crashes,
                   approved, effects>>

\* Every read of a record: 404, 403, then 409 once it has expired.
Usable(record, a) ==
    record # None /\ record.write.actor = a /\ record.live

Confirm(a) ==
    /\ \E u \in Tokens :
          /\ Usable(plans[u], a)
          /\ plans' = [plans EXCEPT ![u].status = "confirmed"]
          /\ approved' = approved \cup {plans[u].write}
    /\ UNCHANGED <<shared, call, jobs, lock, memo, flight, sent, crashes, effects>>

Confirmed(record, a) == Usable(record, a) /\ record.status = "confirmed"

\* register_confirmed replaces any record but another actor's.
Register(w) ==
    /\ shared[w.id] # None => shared[w.id].write.actor = w.actor
    /\ shared' = [shared EXCEPT ![w.id] =
                     [write |-> w, status |-> "confirmed", live |-> TRUE]]
    /\ approved' = approved \cup {w}

\* A record that is refused from now on; its id is never drawn again.
Gone(record) == IF record = None THEN None ELSE [record EXCEPT !.live = FALSE]

ExpirePlan ==
    /\ \E u \in Tokens : plans' = [plans EXCEPT ![u] = Gone(@)]
    /\ UNCHANGED <<shared, call, jobs, lock, memo, flight, sent, crashes,
                   approved, effects>>

\* Past expires_at, or dropped by Redis: a TTL, an eviction or a restart.
ExpireShared ==
    /\ \E d \in Drafts :
          /\ shared[d] # None
          /\ \E after \in {Gone(shared[d]), None} : shared' = [shared EXCEPT ![d] = after]
    /\ UNCHANGED <<plans, call, jobs, lock, memo, flight, sent, crashes,
                   approved, effects>>

-----------------------------------------------------------------------------
(* The clients.                                                            *)

\* decide_ticket_confirmation with agent_mcp_tools_enabled.
Approve(a) ==
    /\ call[a].pc = "idle" /\ sent < MaxJobs
    /\ \E d \in Drafts, t \in Tools :
          LET w == [actor |-> a, id |-> d, draft |-> d, tool |-> t] IN
          /\ Register(w)
          /\ call' = [call EXCEPT ![a] = [pc |-> "send", write |-> w, proc |-> "mcp",
                                          tries |-> MaxRetries, job |-> 0]]
    /\ UNCHANGED <<plans, jobs, lock, memo, flight, sent, crashes, effects>>

\* POST /tickets/confirmations/{id}/execute: any id, confirmed or not.
Execute(a) ==
    /\ call[a].pc = "idle" /\ sent < MaxJobs
    /\ \E u \in Tokens :
          /\ plans[u] # None
          /\ call' = [call EXCEPT ![a] =
                 [pc |-> "send", write |-> [plans[u].write EXCEPT !.actor = a],
                  proc |-> "ai", tries |-> 0, job |-> 0]]
    /\ UNCHANGED <<plans, shared, jobs, lock, memo, flight, sent, crashes,
                   approved, effects>>

Send(a) ==
    /\ call[a].pc = "send"
    /\ sent < MaxJobs
    /\ sent' = sent + 1
    /\ jobs' = jobs \cup {[n |-> sent + 1, proc |-> call[a].proc, write |-> call[a].write,
                           pc |-> "check", ok |-> FALSE]}
    /\ call' = [call EXCEPT ![a].pc = "wait", ![a].job = sent + 1]
    /\ UNCHANGED <<plans, shared, lock, memo, flight, crashes, approved, effects>>

\* A connection error, before or after the request arrived: retried up to
\* retry_count times, then MCP_SERVER_UNREACHABLE.
ConnectionFails(a) ==
    /\ call[a].pc \in {"send", "wait"}
    /\ call' = [call EXCEPT ![a] =
                   IF call[a].tries = 0 THEN NoCall
                   ELSE [call[a] EXCEPT !.pc = "send", !.tries = call[a].tries - 1, !.job = 0]]
    /\ UNCHANGED <<plans, shared, jobs, lock, memo, flight, sent, crashes,
                   approved, effects>>

\* MCP_SERVER_TIMEOUT is not retried; the job goes on.
CallTimesOut(a) ==
    /\ call[a].pc = "wait"
    /\ call' = [call EXCEPT ![a] = NoCall]
    /\ UNCHANGED <<plans, shared, jobs, lock, memo, flight, sent, crashes,
                   approved, effects>>

Hears(a, j) == call[a].pc = "wait" /\ call[a].job = j.n

Deliver(j) ==
    /\ j.pc = "reply"
    /\ jobs' = jobs \ {j}
    /\ call' = [a \in Actors |-> IF Hears(a, j) THEN NoCall ELSE call[a]]
    /\ UNCHANGED <<plans, shared, lock, memo, flight, sent, crashes, approved, effects>>

-----------------------------------------------------------------------------
(* The executors: require_confirmed, authorize_tool_call, then             *)
(* run_idempotent_tool around the call of the Java client.                 *)

Becomes(j, next) == jobs' = (jobs \ {j}) \cup {next}

Admit(j, ok) ==
    /\ j.pc = "check"
    /\ Becomes(j, [j EXCEPT !.pc = IF ok THEN "queue" ELSE "reply"])
    /\ UNCHANGED <<plans, shared, call, lock, memo, flight, sent, crashes,
                   approved, effects>>

\* Mutant: the confirmation of the plan is not required.
CheckWorkflow_Unconfirmed(j) ==
    /\ j.proc = "ai"
    /\ Admit(j, /\ Usable(plans[j.write.id], j.write.actor)
                /\ plans[j.write.id].write.tool = Ticket)

\* The ticket workflow runs the plan of the record, only create_ticket.
CheckWorkflow(j) ==
    /\ j.proc = "ai"
    /\ Admit(j, /\ Confirmed(plans[j.write.id], j.write.actor)
                /\ plans[j.write.id].write.tool = Ticket)

\* The MCP server runs the arguments of the call; the store may be down.
CheckServer(j) ==
    /\ j.proc = "mcp"
    /\ \E up \in BOOLEAN : Admit(j, up /\ Confirmed(shared[j.write.id], j.write.actor))

\* Mutant: a remembered key answers whatever the request.
Recall_AnyRequest(j) ==
    /\ j.pc = "queue" /\ lock[j.proc] = 0
    /\ memo[j.proc][j.write.id] # None
    /\ Becomes(j, [j EXCEPT !.pc = "reply", !.ok = TRUE])
    /\ UNCHANGED <<plans, shared, call, lock, memo, flight, sent, crashes,
                   approved, effects>>

\* A key that is remembered: its result, or IDEMPOTENCY_KEY_CONFLICT.
Recall(j) ==
    /\ j.pc = "queue" /\ lock[j.proc] = 0
    /\ memo[j.proc][j.write.id] # None
    /\ Becomes(j, [j EXCEPT !.pc = "reply", !.ok = memo[j.proc][j.write.id] = j.write])
    /\ UNCHANGED <<plans, shared, call, lock, memo, flight, sent, crashes,
                   approved, effects>>

Request(j) == [n |-> j.n, write |-> j.write]

CallJava(j) ==
    /\ j.pc = "queue" /\ lock[j.proc] = 0
    /\ memo[j.proc][j.write.id] = None
    /\ lock' = [lock EXCEPT ![j.proc] = j.n]
    /\ flight' = flight \cup {Request(j)}
    /\ Becomes(j, [j EXCEPT !.pc = "java"])
    /\ UNCHANGED <<plans, shared, call, memo, sent, crashes, approved, effects>>

\* Mutant: the lock is not released when the executor raises.
Return_LeaksTheLock(j, ok) ==
    /\ Becomes(j, [j EXCEPT !.pc = "reply", !.ok = ok])
    /\ lock' = IF ok THEN [lock EXCEPT ![j.proc] = 0] ELSE lock
    /\ memo' = IF ok THEN [memo EXCEPT ![j.proc][j.write.id] = j.write] ELSE memo

\* The executor returned or raised: only a result is remembered.
Return(j, ok) ==
    /\ Becomes(j, [j EXCEPT !.pc = "reply", !.ok = ok])
    /\ lock' = [lock EXCEPT ![j.proc] = 0]
    /\ memo' = IF ok THEN [memo EXCEPT ![j.proc][j.write.id] = j.write] ELSE memo

JavaTimesOut(j) ==
    /\ j.pc = "java"
    /\ Return(j, FALSE)
    /\ UNCHANGED <<plans, shared, call, flight, sent, crashes, approved, effects>>

Slot(w) == {e \in effects : e.id = w.id /\ e.tool = w.tool}

\* Java: one effect per key and table; the same request again is answered
\* with it, another one is a conflict, and the business rules may refuse.
Answered(r, ok) ==
    LET listening == {j \in jobs : j.n = r.n /\ j.pc = "java"} IN
    IF listening = {} THEN UNCHANGED <<jobs, lock, memo>>
    ELSE \A j \in listening : Return(j, ok)

JavaRuns(r) ==
    /\ flight' = flight \ {r}
    /\ \/ /\ Slot(r.write) = {}
          /\ effects' = effects \cup {r.write}
          /\ Answered(r, TRUE)
       \/ /\ Slot(r.write) # {}
          /\ Answered(r, r.write \in effects)
          /\ UNCHANGED effects
    /\ UNCHANGED <<plans, shared, call, sent, crashes, approved>>

\* Refused by Java, or the request never got there.
JavaRefuses(r) ==
    /\ flight' = flight \ {r}
    /\ Answered(r, FALSE)
    /\ UNCHANGED <<plans, shared, call, sent, crashes, approved, effects>>

\* A restart: the in-memory records, results and running jobs are gone.  The
\* process "ai" is also the MCP client.
Crash(p) ==
    /\ crashes < MaxCrashes
    /\ crashes' = crashes + 1
    /\ jobs' = {j \in jobs : j.proc # p}
    /\ lock' = [lock EXCEPT ![p] = 0]
    /\ memo' = [memo EXCEPT ![p] = [i \in Ids |-> None]]
    /\ plans' = IF p = "ai" THEN [u \in Tokens |-> Gone(plans[u])] ELSE plans
    /\ call' = IF p = "ai" THEN [a \in Actors |-> NoCall] ELSE call
    /\ UNCHANGED <<shared, flight, sent, approved, effects>>

JobStep(j) == CheckWorkflow(j) \/ CheckServer(j) \/ Recall(j) \/ CallJava(j) \/ Deliver(j)

JavaEnds == \/ \E r \in flight : JavaRuns(r) \/ JavaRefuses(r)
            \/ \E j \in jobs : JavaTimesOut(j)

Next ==
    \/ \E a \in Actors : \/ Plan(a) \/ Confirm(a) \/ Approve(a) \/ Execute(a) \/ Send(a)
                         \/ ConnectionFails(a) \/ CallTimesOut(a)
    \/ \E j \in jobs : JobStep(j)
    \/ JavaEnds
    \/ ExpirePlan \/ ExpireShared
    \/ \E p \in Procs : Crash(p)

Spec == Init /\ [][Next]_vars

-----------------------------------------------------------------------------
Promise ==
    INSTANCE ApprovedWrites WITH
        Writes <- Writes, approved <- approved, effects <- effects

(***************************************************************************)
(* The gate implements the promise: whatever expires, is retried, is lost  *)
(* or restarts, Java carries out only writes that their actor approved     *)
(* with that content, and each once (require_confirmed, the arguments of   *)
(* the record, the fingerprints, the Idempotency-Key).                     *)
(***************************************************************************)
CarriesOutApprovals == Promise!Spec

(***************************************************************************)
(* A digest of the draft is the same for two actors and for two tools, and *)
(* replies come late.  A job that reports success reports a write of its   *)
(* own actor, content and tool that Java carried out, never a result       *)
(* remembered for another one.                                             *)
(***************************************************************************)
SuccessIsOwn == \A j \in jobs : j.ok => j.write \in effects

(***************************************************************************)
(* _STORE_LOCK is held during an HTTP call and every other tool call of    *)
(* the process waits for it.  While it is held there is a running call of  *)
(* Java, whose answer, refusal or timeout releases it: no failure, lost    *)
(* reply or restart leaves it taken.                                       *)
(***************************************************************************)
LockHasACall ==
    \A p \in Procs : lock[p] # 0 =>
        \E j \in jobs : j.proc = p /\ j.n = lock[p] /\ j.pc = "java"
=============================================================================
