--------------------------- MODULE ToolGateProofs ---------------------------
(***************************************************************************)
(* Proofs about ToolGate, for any actors, drafts, plans and tools, any     *)
(* number of retries, jobs and restarts.                                   *)
(***************************************************************************)
EXTENDS ToolGate, TLAPS

----------------------------------------------------------------------------
(* Types.                                                                  *)

Calls == [pc : {"idle", "send", "wait"}, write : Writes \cup {None},
          proc : Procs \cup {None}, tries : 0 .. MaxRetries, job : Nat]
Jobs == [n : Nat \ {0}, proc : Procs, write : Writes,
         pc : {"check", "queue", "java", "reply"}, ok : BOOLEAN]
Requests == [n : Nat \ {0}, write : Writes]

StoreTypes ==
    /\ plans \in [Tokens -> Records \cup {None}]
    /\ shared \in [Drafts -> Records \cup {None}]
    /\ approved \in SUBSET Writes
    /\ effects \in SUBSET Writes

CallTypes ==
    /\ call \in [Actors -> Calls]
    /\ \A a \in Actors : call[a].pc # "idle" => call[a].write \in Writes /\ call[a].proc \in Procs
    /\ sent \in Nat

JobTypes ==
    /\ jobs \in SUBSET Jobs
    /\ lock \in [Procs -> Nat]
    /\ memo \in [Procs -> [Ids -> Writes \cup {None}]]
    /\ flight \in SUBSET Requests

TypeOK == StoreTypes /\ CallTypes /\ JobTypes

LEMMA WriteFields ==
    ASSUME NEW w \in Writes
    PROVE  w.actor \in Actors /\ w.id \in Ids /\ w.draft \in Drafts /\ w.tool \in Tools
BY DEF Writes

\* A record stays one when it is refused from now on.
LEMMA GoneType ==
    ASSUME NEW record \in Records \cup {None}
    PROVE  /\ Gone(record) \in Records \cup {None}
           /\ Gone(record) # None => record # None
           /\ record # None =>
                /\ Gone(record) # None
                /\ Gone(record).write = record.write
                /\ Gone(record).status = record.status
BY ToolGateAssumption DEF Gone, Records

\* A call that is sent, or tried again, is still one.
LEMMA CallMoves ==
    ASSUME NEW c \in Calls, NEW m \in Nat
    PROVE  /\ [c EXCEPT !.pc = "wait", !.job = m] \in Calls
           /\ c.tries # 0 => [c EXCEPT !.pc = "send", !.tries = c.tries - 1, !.job = 0] \in Calls
<1>1. [c EXCEPT !.pc = "wait", !.job = m] \in Calls
  BY DEF Calls
<1>2. ASSUME c.tries # 0
      PROVE  [c EXCEPT !.pc = "send", !.tries = c.tries - 1, !.job = 0] \in Calls
  <2>1. c.tries - 1 \in 0 .. MaxRetries
    BY <1>2, ToolGateAssumption DEF Calls
  <2>2. QED
    BY <2>1 DEF Calls
<1>3. QED
  BY <1>1, <1>2

LEMMA InitTypeOK == Init => TypeOK
BY ToolGateAssumption
   DEF Init, TypeOK, StoreTypes, CallTypes, JobTypes, Calls, NoCall, Procs

\* A job goes on: its number, process and write stay what they are.
LEMMA BecomesType ==
    ASSUME TypeOK, NEW j \in jobs, NEW next \in Jobs, Becomes(j, next)
    PROVE  jobs' \in SUBSET Jobs
BY DEF TypeOK, JobTypes, Becomes

LEMMA ReturnType ==
    ASSUME TypeOK, NEW j \in jobs, NEW ok \in BOOLEAN, Return(j, ok)
    PROVE  /\ jobs' \in SUBSET Jobs
           /\ lock' \in [Procs -> Nat]
           /\ memo' \in [Procs -> [Ids -> Writes \cup {None}]]
<1>1. j \in Jobs /\ [j EXCEPT !.pc = "reply", !.ok = ok] \in Jobs
  BY DEF TypeOK, JobTypes, Jobs
<1>2. jobs' \in SUBSET Jobs
  BY <1>1, BecomesType DEF Return
<1>3. lock' \in [Procs -> Nat]
  BY DEF TypeOK, JobTypes, Return
<1>4. j.proc \in Procs /\ j.write \in Writes /\ j.write.id \in Ids
  BY <1>1, WriteFields DEF Jobs
<1>5. memo' \in [Procs -> [Ids -> Writes \cup {None}]]
  <2>1. memo \in [Procs -> [Ids -> Writes \cup {None}]]
    BY DEF TypeOK, JobTypes
  <2>2. memo' = memo \/ memo' = [memo EXCEPT ![j.proc][j.write.id] = j.write]
    BY DEF Return
  <2>3. QED
    BY <1>4, <2>1, <2>2
<1>6. QED
  BY <1>2, <1>3, <1>5

\* Java's answer is heard by nobody, or it is the return of a waiting job.
LEMMA AnsweredCases ==
    ASSUME NEW r, NEW ok, Answered(r, ok)
    PROVE  \/ UNCHANGED <<jobs, lock, memo>>
           \/ \E j \in jobs : j.n = r.n /\ j.pc = "java" /\ Return(j, ok)
BY DEF Answered

LEMMA AnsweredType ==
    ASSUME TypeOK, NEW r, NEW ok \in BOOLEAN, Answered(r, ok)
    PROVE  /\ jobs' \in SUBSET Jobs
           /\ lock' \in [Procs -> Nat]
           /\ memo' \in [Procs -> [Ids -> Writes \cup {None}]]
BY AnsweredCases, ReturnType DEF TypeOK, JobTypes

\* The steps that leave the stores alone, those that leave the calls alone
\* and those that leave the executors alone keep their part of the types.
LEMMA FrameTypes ==
    ASSUME TypeOK
    PROVE  /\ UNCHANGED <<plans, shared, approved, effects>> => StoreTypes'
           /\ UNCHANGED <<call, sent>> => CallTypes'
           /\ UNCHANGED <<jobs, lock, memo, flight>> => JobTypes'
BY DEF TypeOK, StoreTypes, CallTypes, JobTypes

LEMMA NextTypeOK == TypeOK /\ [Next]_vars => TypeOK'
<1> SUFFICES ASSUME TypeOK, [Next]_vars PROVE TypeOK'
  OBVIOUS
<1> USE ToolGateAssumption
<1>0. StoreTypes /\ CallTypes /\ JobTypes
  BY DEF TypeOK
<1>f. /\ UNCHANGED <<plans, shared, approved, effects>> => StoreTypes'
      /\ UNCHANGED <<call, sent>> => CallTypes'
      /\ UNCHANGED <<jobs, lock, memo, flight>> => JobTypes'
  BY FrameTypes
<1>1. ASSUME NEW a \in Actors, Plan(a) PROVE TypeOK'
  <2>1. PICK u \in Tokens, d \in Drafts, t \in Tools :
          plans' = [plans EXCEPT ![u] =
              [write |-> [actor |-> a, id |-> u, draft |-> d, tool |-> t],
               status |-> "pending", live |-> TRUE]]
    BY <1>1 DEF Plan
  <2>2. [write |-> [actor |-> a, id |-> u, draft |-> d, tool |-> t],
         status |-> "pending", live |-> TRUE] \in Records
    BY DEF Records, Writes, Ids
  <2>3. StoreTypes'
    BY <1>0, <1>1, <2>1, <2>2 DEF StoreTypes, Plan
  <2>4. QED
    BY <1>1, <1>f, <2>3 DEF TypeOK, Plan
<1>2. ASSUME NEW a \in Actors, Confirm(a) PROVE TypeOK'
  <2>1. PICK u \in Tokens :
          /\ plans[u] # None
          /\ plans' = [plans EXCEPT ![u].status = "confirmed"]
          /\ approved' = approved \cup {plans[u].write}
    BY <1>2 DEF Confirm, Usable
  <2>2. plans[u] \in Records
    BY <1>0, <2>1 DEF StoreTypes
  <2>3. [plans[u] EXCEPT !.status = "confirmed"] \in Records /\ plans[u].write \in Writes
    BY <2>2 DEF Records
  <2>4. StoreTypes'
    BY <1>0, <1>2, <2>1, <2>3 DEF StoreTypes, Confirm
  <2>5. QED
    BY <1>2, <1>f, <2>4 DEF TypeOK, Confirm
<1>3. ASSUME NEW a \in Actors, Approve(a) PROVE TypeOK'
  <2>1. PICK w \in Writes :
          /\ Register(w)
          /\ w.id \in Drafts
          /\ call' = [call EXCEPT ![a] = [pc |-> "send", write |-> w, proc |-> "mcp",
                                          tries |-> MaxRetries, job |-> 0]]
    BY <1>3 DEF Approve, Writes, Ids
  <2>2. [write |-> w, status |-> "confirmed", live |-> TRUE] \in Records
    BY DEF Records
  <2>3. StoreTypes'
    BY <1>0, <1>3, <2>1, <2>2 DEF StoreTypes, Approve, Register
  <2>4. CallTypes'
    BY <1>0, <1>3, <2>1 DEF CallTypes, Calls, Approve, Procs
  <2>5. QED
    BY <1>3, <1>f, <2>3, <2>4 DEF TypeOK, Approve
<1>4. ASSUME NEW a \in Actors, Execute(a) PROVE TypeOK'
  <2>1. PICK u \in Tokens :
          /\ plans[u] # None
          /\ call' = [call EXCEPT ![a] =
                 [pc |-> "send", write |-> [plans[u].write EXCEPT !.actor = a],
                  proc |-> "ai", tries |-> 0, job |-> 0]]
    BY <1>4 DEF Execute
  <2>2. plans[u].write \in Writes
    BY <1>0, <2>1 DEF StoreTypes, Records
  <2>3. [plans[u].write EXCEPT !.actor = a] \in Writes
    BY <2>2 DEF Writes
  <2>4. CallTypes'
    BY <1>0, <1>4, <2>1, <2>3 DEF CallTypes, Calls, Execute, Procs
  <2>5. QED
    BY <1>4, <1>f, <2>4 DEF TypeOK, Execute
<1>5. ASSUME NEW a \in Actors, Send(a) PROVE TypeOK'
  <2>1. call[a] \in Calls /\ call[a].write \in Writes /\ call[a].proc \in Procs /\ sent \in Nat
    BY <1>0, <1>5 DEF CallTypes, Send
  <2>2. [n |-> sent + 1, proc |-> call[a].proc, write |-> call[a].write,
         pc |-> "check", ok |-> FALSE] \in Jobs
    BY <2>1 DEF Jobs
  <2>3. JobTypes'
    BY <1>0, <1>5, <2>2 DEF JobTypes, Send
  <2>4. CallTypes'
    <3>1. /\ call' = [call EXCEPT ![a] = [@ EXCEPT !.pc = "wait", !.job = sent + 1]]
          /\ sent' = sent + 1
      BY <1>0, <1>5, <2>1 DEF CallTypes, Calls, Send
    <3>2. [call[a] EXCEPT !.pc = "wait", !.job = sent + 1] \in Calls
      <4>1. sent + 1 \in Nat
        BY <2>1
      <4>2. QED
        BY <2>1, <4>1, CallMoves
    <3>3. QED
      BY <1>0, <2>1, <3>1, <3>2 DEF CallTypes, Calls
  <2>5. QED
    BY <1>5, <1>f, <2>3, <2>4 DEF TypeOK, Send
<1>6. ASSUME NEW a \in Actors, ConnectionFails(a) PROVE TypeOK'
  <2>1. call[a] \in Calls /\ call[a].write \in Writes /\ call[a].proc \in Procs
    BY <1>0, <1>6 DEF CallTypes, ConnectionFails
  <2>2. NoCall \in Calls
    BY DEF NoCall, Calls
  <2>3. call[a].tries # 0 =>
          [call[a] EXCEPT !.pc = "send", !.tries = call[a].tries - 1, !.job = 0] \in Calls
    BY <2>1, CallMoves
  <2>4. CallTypes'
    <3>1. CASE call[a].tries = 0
      <4>1. call' = [call EXCEPT ![a] = NoCall] /\ UNCHANGED sent
        BY <1>6, <3>1 DEF ConnectionFails
      <4>2. QED
        BY <1>0, <2>2, <4>1 DEF CallTypes, NoCall
    <3>2. CASE call[a].tries # 0
      <4>1. /\ call' = [call EXCEPT ![a] =
                  [call[a] EXCEPT !.pc = "send", !.tries = call[a].tries - 1, !.job = 0]]
            /\ UNCHANGED sent
        BY <1>6, <3>2 DEF ConnectionFails
      <4>2. QED
        BY <1>0, <2>1, <2>3, <3>2, <4>1 DEF CallTypes, Calls
    <3>3. QED
      BY <3>1, <3>2
  <2>5. QED
    BY <1>6, <1>f, <2>4 DEF TypeOK, ConnectionFails
<1>7. ASSUME NEW a \in Actors, CallTimesOut(a) PROVE TypeOK'
  <2>1. CallTypes'
    BY <1>0, <1>7 DEF CallTypes, Calls, CallTimesOut, NoCall
  <2>2. QED
    BY <1>7, <1>f, <2>1 DEF TypeOK, CallTimesOut
<1>8. ASSUME NEW j \in jobs, NEW ok \in BOOLEAN, Admit(j, ok) PROVE TypeOK'
  <2>1. [j EXCEPT !.pc = IF ok THEN "queue" ELSE "reply"] \in Jobs
    BY <1>0 DEF JobTypes, Jobs
  <2>2. JobTypes'
    BY <1>0, <1>8, <2>1, BecomesType DEF JobTypes, Admit
  <2>3. QED
    BY <1>8, <1>f, <2>2 DEF TypeOK, Admit
<1>9. ASSUME NEW j \in jobs, CheckWorkflow(j) \/ CheckServer(j) PROVE TypeOK'
  <2>1. CASE CheckWorkflow(j)
    <3>1. PICK ok \in BOOLEAN : Admit(j, ok)
      BY <2>1 DEF CheckWorkflow, Confirmed, Usable
    <3>2. QED
      BY <1>8, <3>1
  <2>2. CASE CheckServer(j)
    <3>1. PICK ok \in BOOLEAN : Admit(j, ok)
      BY <2>2 DEF CheckServer, Confirmed, Usable
    <3>2. QED
      BY <1>8, <3>1
  <2>3. QED
    BY <1>9, <2>1, <2>2
<1>10. ASSUME NEW j \in jobs, Recall(j) PROVE TypeOK'
  <2>1. PICK ok \in BOOLEAN : ok <=> memo[j.proc][j.write.id] = j.write
    OBVIOUS
  <2>2. Becomes(j, [j EXCEPT !.pc = "reply", !.ok = ok])
    BY <1>10, <2>1, Zenon DEF Recall
  <2>3. j \in Jobs
    BY <1>0 DEF JobTypes
  <2>4. [j EXCEPT !.pc = "reply", !.ok = ok] \in Jobs
    BY <2>3 DEF Jobs
  <2>5. JobTypes'
    BY <1>0, <1>10, <2>2, <2>4, BecomesType DEF JobTypes, Recall
  <2>6. QED
    BY <1>10, <1>f, <2>5 DEF TypeOK, Recall
<1>11. ASSUME NEW j \in jobs, CallJava(j) PROVE TypeOK'
  <2>1. j \in Jobs /\ [j EXCEPT !.pc = "java"] \in Jobs
    BY <1>0 DEF JobTypes, Jobs
  <2>2. Request(j) \in Requests /\ j.n \in Nat
    BY <2>1 DEF Request, Requests, Jobs
  <2>3. JobTypes'
    BY <1>0, <1>11, <2>1, <2>2, BecomesType DEF JobTypes, CallJava
  <2>4. QED
    BY <1>11, <1>f, <2>3 DEF TypeOK, CallJava
<1>12. ASSUME NEW j \in jobs, Deliver(j) PROVE TypeOK'
  <2>1. JobTypes'
    BY <1>0, <1>12 DEF JobTypes, Deliver
  <2>2. CallTypes'
    BY <1>0, <1>12 DEF CallTypes, Calls, Deliver, NoCall
  <2>3. QED
    BY <1>12, <1>f, <2>1, <2>2 DEF TypeOK, Deliver
<1>13. ASSUME NEW j \in jobs, JavaTimesOut(j) PROVE TypeOK'
  <2>1. JobTypes'
    BY <1>0, <1>13, ReturnType DEF JobTypes, JavaTimesOut
  <2>2. QED
    BY <1>13, <1>f, <2>1 DEF TypeOK, JavaTimesOut
<1>14. ASSUME NEW r \in flight, JavaRuns(r) PROVE TypeOK'
  <2>1. r.write \in Writes /\ (r.write \in effects) \in BOOLEAN
    BY <1>0 DEF JobTypes, Requests
  <2>2. PICK ok \in BOOLEAN : Answered(r, ok)
    <3>1. Answered(r, TRUE) \/ Answered(r, r.write \in effects)
      BY <1>14 DEF JavaRuns
    <3>2. QED
      BY <2>1, <3>1
  <2>3. effects' \in SUBSET Writes
    BY <1>0, <1>14, <2>1 DEF StoreTypes, JavaRuns
  <2>4. StoreTypes'
    BY <1>0, <1>14, <2>3 DEF StoreTypes, JavaRuns
  <2>5. JobTypes'
    BY <1>0, <1>14, <2>2, AnsweredType DEF JobTypes, JavaRuns
  <2>6. QED
    BY <1>14, <1>f, <2>4, <2>5 DEF TypeOK, JavaRuns
<1>15. ASSUME NEW r \in flight, JavaRefuses(r) PROVE TypeOK'
  <2>1. JobTypes'
    BY <1>0, <1>15, AnsweredType DEF JobTypes, JavaRefuses
  <2>2. QED
    BY <1>15, <1>f, <2>1 DEF TypeOK, JavaRefuses
<1>16. CASE ExpirePlan
  <2>1. PICK u \in Tokens : plans' = [plans EXCEPT ![u] = Gone(plans[u])]
    BY <1>0, <1>16 DEF StoreTypes, ExpirePlan
  <2>2. Gone(plans[u]) \in Records \cup {None}
    BY <1>0, GoneType DEF StoreTypes
  <2>3. StoreTypes'
    BY <1>0, <1>16, <2>1, <2>2 DEF StoreTypes, ExpirePlan
  <2>4. QED
    BY <1>16, <1>f, <2>3 DEF TypeOK, ExpirePlan
<1>17. CASE ExpireShared
  <2>1. PICK d \in Drafts : \E after \in {Gone(shared[d]), None} :
                               shared' = [shared EXCEPT ![d] = after]
    BY <1>17 DEF ExpireShared
  <2>2. Gone(shared[d]) \in Records \cup {None}
    BY <1>0, GoneType DEF StoreTypes
  <2>3. StoreTypes'
    BY <1>0, <1>17, <2>1, <2>2 DEF StoreTypes, ExpireShared
  <2>4. QED
    BY <1>17, <1>f, <2>3 DEF TypeOK, ExpireShared
<1>18. ASSUME NEW p \in Procs, Crash(p) PROVE TypeOK'
  <2>1. \A u \in Tokens : Gone(plans[u]) \in Records \cup {None}
    BY <1>0, GoneType DEF StoreTypes
  <2>2. StoreTypes'
    BY <1>0, <1>18, <2>1 DEF StoreTypes, Crash
  <2>3. CallTypes'
    BY <1>0, <1>18 DEF CallTypes, Calls, Crash, NoCall
  <2>4. JobTypes'
    BY <1>0, <1>18 DEF JobTypes, Crash
  <2>5. QED
    BY <2>2, <2>3, <2>4 DEF TypeOK
<1>19. CASE UNCHANGED vars
  BY <1>f, <1>19 DEF TypeOK, vars
<1>20. QED
  BY <1>1, <1>2, <1>3, <1>4, <1>5, <1>6, <1>7, <1>9, <1>10, <1>11, <1>12, <1>13,
     <1>14, <1>15, <1>16, <1>17, <1>18, <1>19
     DEF Next, JobStep, JavaEnds

\* Every variable keeps its type, whatever expires, is retried or restarts.
THEOREM TypeCorrect == Spec => []TypeOK
BY InitTypeOK, NextTypeOK, PTL DEF Spec

----------------------------------------------------------------------------
(* The invariant behind the promise.                                       *)

\* A plan keeps its id, and is confirmed only by a user's approval of it.
PlansInv ==
    \A u \in Tokens : plans[u] # None =>
        /\ plans[u].write.id = u
        /\ plans[u].status = "confirmed" => plans[u].write \in approved

\* What is asked of an executor: of the MCP server an approved write; of the
\* ticket workflow the content of a plan, by an actor who need not own it.
Asked(proc, w) ==
    IF proc = "mcp" THEN w \in approved /\ w.id \in Drafts
    ELSE /\ w.id \in Tokens /\ plans[w.id] # None
         /\ w = [plans[w.id].write EXCEPT !.actor = w.actor]

CallsInv == \A a \in Actors : call[a].pc # "idle" => Asked(call[a].proc, call[a].write)

JobsInv ==
    \A j \in jobs :
        /\ Asked(j.proc, j.write)
        /\ j.pc \in {"queue", "java"} => j.write \in approved
        /\ j.ok => j.write \in effects

\* A job and its request have a number of their own.
NumbersInv ==
    /\ \A j \in jobs : j.n <= sent
    /\ \A r \in flight : r.n <= sent
    /\ \A j, k \in jobs : j.n = k.n => j = k
    /\ \A j \in jobs, r \in flight : j.n = r.n => j.write = r.write

FlightInv == \A r \in flight : r.write \in approved

\* Only what Java carried out is remembered as a result.
MemoInv ==
    \A p \in Procs, i \in Ids : memo[p][i] # None => memo[p][i] \in effects

GateInv ==
    /\ PlansInv /\ CallsInv /\ JobsInv /\ NumbersInv
    /\ FlightInv /\ MemoInv /\ LockHasACall

\* What no step takes back.
Keeps ==
    /\ approved \subseteq approved' /\ effects \subseteq effects'
    /\ \A u \in Tokens : plans[u] # None =>
          plans'[u] # None /\ plans'[u].write = plans[u].write

LEMMA AskedKept ==
    ASSUME Keeps, NEW proc, NEW w, Asked(proc, w)
    PROVE  Asked(proc, w)'
BY DEF Keeps, Asked

LEMMA InitGateInv == Init => GateInv
BY ToolGateAssumption
   DEF Init, GateInv, PlansInv, CallsInv, JobsInv, NumbersInv, FlightInv, MemoInv,
       LockHasACall, NoCall

\* The part of the invariant a step cannot disturb by what it leaves alone.
LEMMA FrameInv ==
    ASSUME GateInv, Keeps
    PROVE  /\ UNCHANGED <<plans, approved>> => PlansInv'
           /\ UNCHANGED call => CallsInv'
           /\ UNCHANGED jobs => JobsInv'
           /\ UNCHANGED <<jobs, flight, sent>> => NumbersInv'
           /\ flight' \subseteq flight => FlightInv'
           /\ UNCHANGED memo => MemoInv'
           /\ UNCHANGED <<jobs, lock>> => LockHasACall'
<1>1. UNCHANGED <<plans, approved>> => PlansInv'
  BY DEF GateInv, PlansInv
<1>2. UNCHANGED call => CallsInv'
  BY AskedKept DEF GateInv, CallsInv
<1>3. UNCHANGED jobs => JobsInv'
  BY AskedKept DEF GateInv, JobsInv, Keeps
<1>4. UNCHANGED <<jobs, flight, sent>> => NumbersInv'
  BY DEF GateInv, NumbersInv
<1>5. flight' \subseteq flight => FlightInv'
  BY DEF GateInv, FlightInv, Keeps
<1>6. UNCHANGED memo => MemoInv'
  BY DEF GateInv, MemoInv, Keeps
<1>7. UNCHANGED <<jobs, lock>> => LockHasACall'
  BY DEF GateInv, LockHasACall
<1>8. QED
  BY <1>1, <1>2, <1>3, <1>4, <1>5, <1>6, <1>7

\* A job that goes on and is not the one the lock was taken for.
LEMMA BecomesInv ==
    ASSUME TypeOK, GateInv, Keeps, NEW j \in jobs, NEW next \in Jobs, Becomes(j, next),
           next.n = j.n, next.proc = j.proc, next.write = j.write
    PROVE  /\ (/\ next.pc \in {"queue", "java"} => next.write \in approved'
               /\ next.ok => next.write \in effects')
                 => JobsInv'
           /\ flight' \subseteq flight /\ sent' = sent => NumbersInv'
           /\ j.pc # "java" /\ UNCHANGED lock => LockHasACall'
<1>1. ASSUME /\ next.pc \in {"queue", "java"} => next.write \in approved'
             /\ next.ok => next.write \in effects'
      PROVE  JobsInv'
  <2>1. Asked(next.proc, next.write)'
    BY AskedKept DEF GateInv, JobsInv
  <2>2. ASSUME NEW k \in jobs
        PROVE  /\ Asked(k.proc, k.write)'
               /\ k.pc \in {"queue", "java"} => k.write \in approved'
               /\ k.ok => k.write \in effects'
    BY AskedKept DEF GateInv, JobsInv, Keeps
  <2>3. QED
    BY <1>1, <2>1, <2>2 DEF JobsInv, Becomes
<1>2. ASSUME flight' \subseteq flight, sent' = sent PROVE NumbersInv'
  BY <1>2 DEF GateInv, NumbersInv, Becomes
<1>3. ASSUME j.pc # "java", UNCHANGED lock PROVE LockHasACall'
  BY <1>3 DEF GateInv, LockHasACall, Becomes
<1>4. QED
  BY <1>1, <1>2, <1>3

\* The call of Java is over: the lock is free, and a result is remembered
\* only if Java carried the write out.
LEMMA ReturnInv ==
    ASSUME TypeOK, GateInv, Keeps, NEW j \in jobs, j.pc = "java",
           NEW ok \in BOOLEAN, Return(j, ok), ok => j.write \in effects',
           flight' \subseteq flight, sent' = sent
    PROVE  JobsInv' /\ NumbersInv' /\ MemoInv' /\ LockHasACall'
<1> DEFINE next == [j EXCEPT !.pc = "reply", !.ok = ok]
<1>1. j \in Jobs
  BY DEF TypeOK, JobTypes
<1>2. /\ next \in Jobs
      /\ next.n = j.n /\ next.proc = j.proc /\ next.write = j.write
      /\ next.pc = "reply" /\ next.ok = ok
  BY <1>1 DEF Jobs
<1>3. Becomes(j, next)
  BY DEF Return
<1>4. JobsInv' /\ NumbersInv'
  BY <1>2, <1>3, BecomesInv
<1>5. j.proc \in Procs /\ j.write.id \in Ids
  BY <1>1, WriteFields DEF Jobs
<1>6. MemoInv'
  <2>1. memo \in [Procs -> [Ids -> Writes \cup {None}]]
    BY DEF TypeOK, JobTypes
  <2>2. CASE ok
    <3>1. memo' = [memo EXCEPT ![j.proc][j.write.id] = j.write]
      BY <2>2 DEF Return
    <3>2. ASSUME NEW p \in Procs, NEW i \in Ids, memo'[p][i] # None
          PROVE  memo'[p][i] \in effects'
      <4>1. CASE p = j.proc /\ i = j.write.id
        BY <2>1, <2>2, <3>1, <4>1
      <4>2. CASE ~(p = j.proc /\ i = j.write.id)
        BY <2>1, <3>1, <3>2, <4>2 DEF GateInv, MemoInv, Keeps
      <4>3. QED
        BY <4>1, <4>2
    <3>3. QED
      BY <3>2 DEF MemoInv
  <2>3. CASE ~ok
    BY <2>3, FrameInv DEF Return
  <2>4. QED
    BY <2>2, <2>3
<1>7. LockHasACall'
  <2>1. lock' = [lock EXCEPT ![j.proc] = 0] /\ lock \in [Procs -> Nat]
    BY DEF Return, TypeOK, JobTypes
  <2>2. ASSUME NEW p \in Procs, lock'[p] # 0
        PROVE  \E k \in jobs' : k.proc = p /\ k.n = lock'[p] /\ k.pc = "java"
    <3>1. p # j.proc /\ lock'[p] = lock[p]
      BY <1>5, <2>1, <2>2
    <3>2. PICK k \in jobs : k.proc = p /\ k.n = lock[p] /\ k.pc = "java"
      BY <2>2, <3>1 DEF GateInv, LockHasACall
    <3>3. k \in jobs'
      BY <1>3, <3>1, <3>2 DEF Becomes
    <3>4. QED
      BY <3>1, <3>2, <3>3
  <2>3. QED
    BY <2>2 DEF LockHasACall
<1>8. QED
  BY <1>4, <1>6, <1>7

LEMMA AnsweredInv ==
    ASSUME TypeOK, GateInv, Keeps, NEW r \in flight, NEW ok \in BOOLEAN, Answered(r, ok),
           ok => r.write \in effects', flight' \subseteq flight, sent' = sent
    PROVE  JobsInv' /\ NumbersInv' /\ MemoInv' /\ LockHasACall'
<1>1. CASE UNCHANGED <<jobs, lock, memo>>
  BY <1>1, FrameInv DEF GateInv, NumbersInv
<1>2. ASSUME NEW j \in jobs, j.n = r.n, j.pc = "java", Return(j, ok)
      PROVE  JobsInv' /\ NumbersInv' /\ MemoInv' /\ LockHasACall'
  <2>1. j.write = r.write
    BY <1>2 DEF GateInv, NumbersInv
  <2>2. QED
    BY <1>2, <2>1, ReturnInv
<1>3. QED
  BY <1>1, <1>2, AnsweredCases

\* A call or a job asks for the write it was made for.
LEMMA StartsInv ==
    ASSUME GateInv, Keeps, NEW a \in Actors, NEW c,
           call \in [Actors -> Calls], call' = [call EXCEPT ![a] = c],
           c.pc # "idle" => Asked(c.proc, c.write)'
    PROVE  CallsInv'
BY AskedKept DEF GateInv, CallsInv

LEMMA NextGateInv == TypeOK /\ GateInv /\ [Next]_vars => GateInv'
<1> SUFFICES ASSUME TypeOK, GateInv, [Next]_vars PROVE GateInv'
  OBVIOUS
<1> USE ToolGateAssumption
<1>0. StoreTypes /\ CallTypes /\ JobTypes
  BY DEF TypeOK
<1>j. \A j \in jobs : j \in Jobs
  BY <1>0 DEF JobTypes
<1>k. UNCHANGED <<plans, approved>> /\ effects \subseteq effects' => Keeps
  BY DEF Keeps
<1>1. ASSUME NEW a \in Actors, Plan(a) PROVE GateInv'
  <2>1. PICK u \in Tokens, d \in Drafts, t \in Tools :
          /\ plans[u] = None
          /\ plans' = [plans EXCEPT ![u] =
              [write |-> [actor |-> a, id |-> u, draft |-> d, tool |-> t],
               status |-> "pending", live |-> TRUE]]
    BY <1>1 DEF Plan
  <2>2. Keeps
    BY <1>0, <1>1, <2>1 DEF Keeps, Plan, StoreTypes
  <2>3. PlansInv'
    BY <1>0, <1>1, <2>1 DEF GateInv, PlansInv, StoreTypes, Plan
  <2>4. QED
    BY <1>1, <2>2, <2>3, FrameInv DEF GateInv, Plan
<1>2. ASSUME NEW a \in Actors, Confirm(a) PROVE GateInv'
  <2>1. PICK u \in Tokens :
          /\ plans[u] # None
          /\ plans' = [plans EXCEPT ![u].status = "confirmed"]
          /\ approved' = approved \cup {plans[u].write}
    BY <1>2 DEF Confirm, Usable
  <2>2. plans[u] \in Records
    BY <1>0, <2>1 DEF StoreTypes
  <2>3. /\ [plans[u] EXCEPT !.status = "confirmed"] \in Records
        /\ [plans[u] EXCEPT !.status = "confirmed"].write = plans[u].write
    BY <2>2 DEF Records
  <2>4. plans' = [plans EXCEPT ![u] = [plans[u] EXCEPT !.status = "confirmed"]]
    BY <1>0, <2>1 DEF StoreTypes
  <2>5. Keeps
    BY <1>0, <1>2, <2>1, <2>3, <2>4 DEF Keeps, Confirm, StoreTypes
  <2>6. PlansInv'
    BY <1>0, <2>1, <2>3, <2>4 DEF GateInv, PlansInv, StoreTypes
  <2>7. QED
    BY <1>2, <2>5, <2>6, FrameInv DEF GateInv, Confirm
<1>3. ASSUME NEW a \in Actors, Approve(a) PROVE GateInv'
  <2>1. PICK w \in Writes :
          /\ Register(w)
          /\ w.id \in Drafts
          /\ call' = [call EXCEPT ![a] = [pc |-> "send", write |-> w, proc |-> "mcp",
                                          tries |-> MaxRetries, job |-> 0]]
    BY <1>3 DEF Approve, Writes, Ids
  <2>2. Keeps
    BY <1>3, <2>1 DEF Keeps, Approve, Register
  <2>3. PlansInv'
    BY <1>3, <2>1 DEF GateInv, PlansInv, Approve, Register
  <2>4. Asked("mcp", w)'
    BY <2>1 DEF Asked, Register
  <2>5. CallsInv'
    BY <1>0, <2>1, <2>2, <2>4, StartsInv DEF CallTypes
  <2>6. QED
    BY <1>3, <2>2, <2>3, <2>5, FrameInv DEF GateInv, Approve
<1>4. ASSUME NEW a \in Actors, Execute(a) PROVE GateInv'
  <2>1. PICK u \in Tokens :
          /\ plans[u] # None
          /\ call' = [call EXCEPT ![a] =
                 [pc |-> "send", write |-> [plans[u].write EXCEPT !.actor = a],
                  proc |-> "ai", tries |-> 0, job |-> 0]]
    BY <1>4 DEF Execute
  <2>2. Keeps
    BY <1>4, <1>k DEF Execute
  <2>3. plans[u].write \in Writes /\ plans[u].write.id = u
    BY <1>0, <2>1 DEF StoreTypes, Records, GateInv, PlansInv
  <2>4. PICK w \in Writes : w = [plans[u].write EXCEPT !.actor = a]
    BY <2>3 DEF Writes
  <2>5. CallsInv'
    <3>1. w.id = u /\ w.actor = a
      BY <2>3, <2>4 DEF Writes
    <3>2. Asked("ai", w)'
      BY <1>4, <2>1, <2>4, <3>1 DEF Asked, Execute
    <3>3. QED
      BY <1>0, <2>1, <2>2, <2>4, <3>2, StartsInv DEF CallTypes
  <2>6. QED
    BY <1>4, <2>2, <2>5, FrameInv DEF GateInv, Execute
<1>5. ASSUME NEW a \in Actors, Send(a) PROVE GateInv'
  <2>1. Keeps
    BY <1>5, <1>k DEF Send
  <2>2. PICK w \in Writes, proc \in Procs : w = call[a].write /\ proc = call[a].proc
    BY <1>0, <1>5 DEF Send, CallTypes
  <2>3. Asked(proc, w)'
    BY <1>5, <2>1, <2>2, AskedKept DEF GateInv, CallsInv, Send
  <2>4. CallsInv'
    <3>1. call' = [call EXCEPT ![a] = [@ EXCEPT !.pc = "wait", !.job = sent + 1]]
      BY <1>0, <1>5 DEF CallTypes, Calls, Send
    <3>2. PICK c : c = [call[a] EXCEPT !.pc = "wait", !.job = sent + 1]
      OBVIOUS
    <3>3. c.proc = proc /\ c.write = w
      BY <1>0, <2>2, <3>2 DEF CallTypes, Calls
    <3>4. QED
      BY <1>0, <2>1, <2>3, <3>1, <3>2, <3>3, StartsInv DEF CallTypes
  <2>5. PICK job \in Jobs : /\ jobs' = jobs \cup {job}
                            /\ job.n = sent + 1 /\ job.proc = proc /\ job.write = w
                            /\ job.pc = "check" /\ job.ok = FALSE
    <3>1. [n |-> sent + 1, proc |-> proc, write |-> w, pc |-> "check", ok |-> FALSE] \in Jobs
      BY <1>0 DEF Jobs, CallTypes
    <3>2. QED
      BY <1>5, <2>2, <3>1 DEF Send
  <2>6. JobsInv' /\ NumbersInv'
    <3>1. ASSUME NEW k \in jobs
          PROVE  /\ Asked(k.proc, k.write)'
                 /\ k.pc \in {"queue", "java"} => k.write \in approved'
                 /\ k.ok => k.write \in effects'
      BY <2>1, AskedKept DEF GateInv, JobsInv, Keeps
    <3>2. JobsInv'
      BY <2>3, <2>5, <3>1 DEF JobsInv
    <3>3. \A k \in jobs \cup flight : k.n \in Nat /\ k.n <= sent
      BY <1>0 DEF GateInv, NumbersInv, JobTypes, Jobs, Requests
    <3>4. flight' = flight /\ sent' = sent + 1 /\ sent \in Nat
      BY <1>0, <1>5 DEF Send, CallTypes
    <3>5. NumbersInv'
      BY <2>5, <3>3, <3>4 DEF GateInv, NumbersInv
    <3>6. QED
      BY <3>2, <3>5
  <2>7. LockHasACall'
    BY <1>5, <2>5 DEF GateInv, LockHasACall, Send
  <2>8. QED
    BY <1>5, <2>1, <2>4, <2>6, <2>7, FrameInv DEF GateInv, Send
<1>6. ASSUME NEW a \in Actors, ConnectionFails(a) PROVE GateInv'
  <2>1. Keeps
    BY <1>6, <1>k DEF ConnectionFails
  <2>2. CallsInv'
    <3>1. CASE call[a].tries = 0
      <4>1. call' = [call EXCEPT ![a] = NoCall]
        BY <1>6, <3>1 DEF ConnectionFails
      <4>2. QED
        BY <1>0, <2>1, <4>1, StartsInv DEF CallTypes, NoCall
    <3>2. CASE call[a].tries # 0
      <4>1. PICK c : /\ c = [call[a] EXCEPT !.pc = "send", !.tries = call[a].tries - 1, !.job = 0]
                     /\ call' = [call EXCEPT ![a] = c]
        BY <1>6, <3>2 DEF ConnectionFails
      <4>2. c.proc = call[a].proc /\ c.write = call[a].write
        BY <1>0, <4>1 DEF CallTypes, Calls
      <4>3. Asked(c.proc, c.write)'
        BY <1>6, <2>1, <4>2, AskedKept DEF GateInv, CallsInv, ConnectionFails
      <4>4. QED
        BY <1>0, <2>1, <4>1, <4>2, <4>3, StartsInv DEF CallTypes
    <3>3. QED
      BY <3>1, <3>2
  <2>3. QED
    BY <1>6, <2>1, <2>2, FrameInv DEF GateInv, ConnectionFails
<1>7. ASSUME NEW a \in Actors, CallTimesOut(a) PROVE GateInv'
  <2>1. Keeps
    BY <1>7, <1>k DEF CallTimesOut
  <2>2. CallsInv'
    BY <1>0, <1>7, <2>1, StartsInv DEF CallTypes, CallTimesOut, NoCall
  <2>3. QED
    BY <1>7, <2>1, <2>2, FrameInv DEF GateInv, CallTimesOut
\* What the checks let through was approved.
<1>8. ASSUME NEW j \in jobs, NEW ok \in BOOLEAN, Admit(j, ok), ok => j.write \in approved
      PROVE  GateInv'
  <2> DEFINE next == [j EXCEPT !.pc = IF ok THEN "queue" ELSE "reply"]
  <2>1. Keeps
    BY <1>8, <1>k DEF Admit
  <2>2. /\ next \in Jobs /\ next.n = j.n /\ next.proc = j.proc /\ next.write = j.write
        /\ next.pc = (IF ok THEN "queue" ELSE "reply") /\ next.ok = j.ok
    BY <1>j DEF Jobs
  <2>3. Becomes(j, next) /\ j.pc = "check"
    BY <1>8 DEF Admit
  <2>4. next.ok => next.write \in effects'
    BY <1>8, <2>2 DEF GateInv, JobsInv, Admit
  <2>5. next.pc \in {"queue", "java"} => next.write \in approved'
    BY <1>8, <2>2 DEF Admit
  <2>6. JobsInv' /\ NumbersInv' /\ LockHasACall'
    BY <1>8, <2>1, <2>2, <2>3, <2>4, <2>5, BecomesInv DEF Admit
  <2>7. QED
    BY <1>8, <2>1, <2>6, FrameInv DEF GateInv, Admit
<1>9. ASSUME NEW j \in jobs, CheckWorkflow(j) PROVE GateInv'
  <2> DEFINE ok == /\ Confirmed(plans[j.write.id], j.write.actor)
                   /\ plans[j.write.id].write.tool = Ticket
  <2>1. Admit(j, ok) /\ j.proc = "ai"
    BY <1>9 DEF CheckWorkflow
  <2>2. ok => j.write \in approved
    <3>1. ASSUME ok PROVE j.write \in approved
      <4>1. j.write.id \in Tokens /\ j.write = [plans[j.write.id].write EXCEPT !.actor = j.write.actor]
        BY <2>1 DEF GateInv, JobsInv, Asked
      <4>2. /\ plans[j.write.id] # None /\ plans[j.write.id].status = "confirmed"
            /\ plans[j.write.id].write.actor = j.write.actor
        BY <3>1 DEF Confirmed, Usable
      <4>3. plans[j.write.id].write \in approved
        BY <4>1, <4>2 DEF GateInv, PlansInv
      <4>4. plans[j.write.id].write \in Writes
        BY <1>0, <4>3 DEF StoreTypes
      <4>5. j.write = plans[j.write.id].write
        BY <4>1, <4>2, <4>4 DEF Writes
      <4>6. QED
        BY <4>3, <4>5
    <3>2. QED
      BY <3>1
  <2>3. ok \in BOOLEAN
    BY DEF Confirmed, Usable
  <2>4. QED
    BY <1>8, <2>1, <2>2, <2>3
<1>10. ASSUME NEW j \in jobs, CheckServer(j) PROVE GateInv'
  <2>1. PICK ok \in BOOLEAN : Admit(j, ok)
    BY <1>10 DEF CheckServer, Confirmed, Usable
  <2>2. j.write \in approved
    BY <1>10 DEF CheckServer, GateInv, JobsInv, Asked
  <2>3. QED
    BY <1>8, <2>1, <2>2
<1>11. ASSUME NEW j \in jobs, Recall(j) PROVE GateInv'
  <2>1. Keeps
    BY <1>11, <1>k DEF Recall
  <2>2. PICK next \in Jobs :
          /\ Becomes(j, next)
          /\ next.n = j.n /\ next.proc = j.proc /\ next.write = j.write
          /\ next.pc = "reply" /\ (next.ok => memo[j.proc][j.write.id] = j.write)
    <3>1. PICK ok \in BOOLEAN : ok <=> memo[j.proc][j.write.id] = j.write
      OBVIOUS
    <3>2. Becomes(j, [j EXCEPT !.pc = "reply", !.ok = ok])
      BY <1>11, <3>1, Zenon DEF Recall
    <3>3. j \in Jobs
      BY <1>j
    <3>4. [j EXCEPT !.pc = "reply", !.ok = ok] \in Jobs
      BY <3>3 DEF Jobs
    <3>5. QED
      BY <3>1, <3>2, <3>3, <3>4 DEF Jobs
  <2>3. j.pc = "queue" /\ memo[j.proc][j.write.id] # None
    BY <1>11 DEF Recall
  <2>4. next.ok => next.write \in effects'
    <3>1. j.proc \in Procs /\ j.write.id \in Ids
      BY <1>j, WriteFields DEF Jobs
    <3>2. QED
      BY <1>11, <2>2, <2>3, <3>1 DEF GateInv, MemoInv, Recall
  <2>5. JobsInv' /\ NumbersInv' /\ LockHasACall'
    BY <1>11, <2>1, <2>2, <2>3, <2>4, BecomesInv DEF Recall
  <2>6. QED
    BY <1>11, <2>1, <2>5, FrameInv DEF GateInv, Recall
<1>12. ASSUME NEW j \in jobs, CallJava(j) PROVE GateInv'
  <2>1. Keeps
    BY <1>12, <1>k DEF CallJava
  <2>2. PICK next \in Jobs :
          /\ Becomes(j, next)
          /\ next.n = j.n /\ next.proc = j.proc /\ next.write = j.write
          /\ next.pc = "java" /\ next.ok = j.ok
    <3>1. j \in Jobs /\ Becomes(j, [j EXCEPT !.pc = "java"])
      BY <1>j, <1>12 DEF CallJava
    <3>2. [j EXCEPT !.pc = "java"] \in Jobs
      BY <3>1 DEF Jobs
    <3>3. QED
      BY <3>1, <3>2 DEF Jobs
  <2>3. j.pc = "queue"
    BY <1>12 DEF CallJava
  <2>4. next.write \in approved' /\ (next.ok => next.write \in effects')
    BY <1>12, <2>2, <2>3 DEF GateInv, JobsInv, CallJava
  <2>5. JobsInv'
    BY <2>1, <2>2, <2>3, <2>4, BecomesInv
  <2>6. flight' = flight \cup {[n |-> j.n, write |-> j.write]} /\ sent' = sent
    BY <1>12 DEF CallJava, Request
  <2>7. NumbersInv'
    <3>1. jobs' = (jobs \ {j}) \cup {next}
      BY <2>2 DEF Becomes
    <3>2. QED
      BY <2>2, <2>6, <3>1 DEF GateInv, NumbersInv
  <2>8. FlightInv'
    BY <2>1, <2>2, <2>4, <2>6 DEF GateInv, FlightInv, Keeps
  <2>9. LockHasACall'
    <3>1. lock' = [lock EXCEPT ![j.proc] = j.n] /\ lock[j.proc] = 0 /\ lock \in [Procs -> Nat]
      BY <1>0, <1>12 DEF CallJava, JobTypes
    <3>2. next \in jobs' /\ \A k \in jobs : k.pc = "java" => k \in jobs'
      BY <2>2, <2>3 DEF Becomes
    <3>3. QED
      BY <2>2, <3>1, <3>2 DEF GateInv, LockHasACall
  <2>10. QED
    BY <1>12, <2>1, <2>5, <2>7, <2>8, <2>9, FrameInv DEF GateInv, CallJava
<1>13. ASSUME NEW j \in jobs, Deliver(j) PROVE GateInv'
  <2>1. Keeps
    BY <1>13, <1>k DEF Deliver
  <2>2. jobs' = jobs \ {j} /\ j.pc = "reply" /\ lock' = lock /\ sent' = sent /\ flight' = flight
    BY <1>13 DEF Deliver
  <2>3. CallsInv'
    BY <1>13, <2>1, AskedKept DEF GateInv, CallsInv, Deliver, NoCall
  <2>4. JobsInv'
    BY <2>1, <2>2, AskedKept DEF GateInv, JobsInv, Keeps
  <2>5. NumbersInv'
    BY <2>2 DEF GateInv, NumbersInv
  <2>6. LockHasACall'
    BY <2>2 DEF GateInv, LockHasACall
  <2>7. QED
    BY <1>13, <2>1, <2>3, <2>4, <2>5, <2>6, FrameInv DEF GateInv, Deliver
<1>14. ASSUME NEW j \in jobs, JavaTimesOut(j) PROVE GateInv'
  <2>1. Keeps
    BY <1>14, <1>k DEF JavaTimesOut
  <2>2. JobsInv' /\ NumbersInv' /\ MemoInv' /\ LockHasACall'
    BY <1>14, <2>1, ReturnInv DEF JavaTimesOut
  <2>3. QED
    BY <1>14, <2>1, <2>2, FrameInv DEF GateInv, JavaTimesOut
<1>15. ASSUME NEW r \in flight, JavaRuns(r) PROVE GateInv'
  <2>1. Keeps
    BY <1>15, <1>k DEF JavaRuns
  <2>2. PICK ok \in BOOLEAN : Answered(r, ok) /\ (ok => r.write \in effects')
    <3>1. (r.write \in effects) \in BOOLEAN
      OBVIOUS
    <3>2. \/ Answered(r, TRUE) /\ effects' = effects \cup {r.write}
          \/ Answered(r, r.write \in effects) /\ effects' = effects
      BY <1>15 DEF JavaRuns
    <3>3. QED
      BY <3>1, <3>2
  <2>3. flight' \subseteq flight /\ sent' = sent
    BY <1>15 DEF JavaRuns
  <2>4. JobsInv' /\ NumbersInv' /\ MemoInv' /\ LockHasACall'
    BY <2>1, <2>2, <2>3, AnsweredInv
  <2>5. QED
    BY <1>15, <2>1, <2>3, <2>4, FrameInv DEF GateInv, JavaRuns
<1>16. ASSUME NEW r \in flight, JavaRefuses(r) PROVE GateInv'
  <2>1. Keeps
    BY <1>16, <1>k DEF JavaRefuses
  <2>2. JobsInv' /\ NumbersInv' /\ MemoInv' /\ LockHasACall'
    BY <1>16, <2>1, AnsweredInv DEF JavaRefuses
  <2>3. QED
    BY <1>16, <2>1, <2>2, FrameInv DEF GateInv, JavaRefuses
<1>17. ASSUME NEW P \in SUBSET Tokens,
              plans' = [u \in Tokens |-> IF u \in P THEN Gone(plans[u]) ELSE plans[u]],
              approved' = approved, effects' = effects
       PROVE  Keeps /\ PlansInv'
  <2>1. \A u \in Tokens : plans[u] \in Records \cup {None}
    BY <1>0 DEF StoreTypes
  <2>2. \A u \in Tokens :
          /\ plans'[u] # None => plans[u] # None
          /\ plans[u] # None =>
                /\ plans'[u] # None
                /\ plans'[u].write = plans[u].write
                /\ plans'[u].status = plans[u].status
    BY <1>17, <2>1, GoneType
  <2>3. QED
    BY <1>17, <2>2 DEF Keeps, GateInv, PlansInv
<1>18. CASE ExpirePlan
  <2>1. PICK u \in Tokens : plans' = [plans EXCEPT ![u] = Gone(plans[u])]
    BY <1>0, <1>18 DEF StoreTypes, ExpirePlan
  <2>2. plans' = [v \in Tokens |-> IF v \in {u} THEN Gone(plans[v]) ELSE plans[v]]
    BY <1>0, <2>1 DEF StoreTypes
  <2>3. Keeps /\ PlansInv'
    BY <1>17, <1>18, <2>2 DEF ExpirePlan
  <2>4. QED
    BY <1>18, <2>3, FrameInv DEF GateInv, ExpirePlan
<1>19. CASE ExpireShared
  BY <1>19, <1>k, FrameInv DEF GateInv, ExpireShared
<1>20. ASSUME NEW p \in Procs, Crash(p) PROVE GateInv'
  <2>1. Keeps /\ PlansInv'
    <3>1. plans' = [u \in Tokens |-> IF u \in (IF p = "ai" THEN Tokens ELSE {})
                                     THEN Gone(plans[u]) ELSE plans[u]]
      BY <1>0, <1>20 DEF Crash, StoreTypes
    <3>2. QED
      BY <1>17, <1>20, <3>1 DEF Crash
  <2>2. /\ jobs' = {j \in jobs : j.proc # p} /\ lock' = [lock EXCEPT ![p] = 0]
        /\ memo' = [memo EXCEPT ![p] = [i \in Ids |-> None]]
        /\ sent' = sent /\ flight' = flight
    BY <1>20 DEF Crash
  <2>3. CallsInv'
    BY <1>20, <2>1, AskedKept DEF GateInv, CallsInv, Crash, NoCall
  <2>4. JobsInv'
    BY <2>1, <2>2, AskedKept DEF GateInv, JobsInv, Keeps
  <2>5. NumbersInv'
    BY <2>2 DEF GateInv, NumbersInv
  <2>6. MemoInv'
    BY <1>0, <2>1, <2>2 DEF GateInv, MemoInv, Keeps, JobTypes
  <2>7. LockHasACall'
    BY <1>0, <2>2 DEF GateInv, LockHasACall, JobTypes
  <2>8. QED
    BY <2>1, <2>2, <2>3, <2>4, <2>5, <2>6, <2>7, FrameInv DEF GateInv
<1>21. CASE UNCHANGED vars
  BY <1>21, <1>k, FrameInv DEF GateInv, vars
<1>22. QED
  BY <1>1, <1>2, <1>3, <1>4, <1>5, <1>6, <1>7, <1>9, <1>10, <1>11, <1>12, <1>13,
     <1>14, <1>15, <1>16, <1>18, <1>19, <1>20, <1>21
     DEF Next, JobStep, JavaEnds

LEMMA GateInvariance == Spec => [](TypeOK /\ GateInv)
BY InitTypeOK, NextTypeOK, InitGateInv, NextGateInv, PTL DEF Spec

\* A job that reports success reports a write Java carried out, that very one,
\* though two actors and two tools share the digest of a draft (the
\* fingerprints of run_idempotent_tool and of the Idempotency-Key).
THEOREM OwnSuccess == Spec => []SuccessIsOwn
<1>1. GateInv => SuccessIsOwn
  BY DEF GateInv, JobsInv, SuccessIsOwn
<1>2. QED
  BY <1>1, GateInvariance, PTL

\* _STORE_LOCK is never left taken: whenever a process holds it, a call of Java
\* is running there whose end releases it.
THEOREM LockIsReleased == Spec => []LockHasACall
<1>1. GateInv => LockHasACall
  BY DEF GateInv
<1>2. QED
  BY <1>1, GateInvariance, PTL

----------------------------------------------------------------------------
(* The refinement of ApprovedWrites.                                       *)

\* Every step approves a write, carries out an approved one whose slot is
\* free, or is none of the promise's business.
LEMMA StepKeepsPromise ==
    TypeOK /\ GateInv /\ [Next]_vars => [Promise!Next]_<<approved, effects>>
<1> SUFFICES ASSUME TypeOK, GateInv, [Next]_vars,
                    ~ UNCHANGED <<approved, effects>>
             PROVE  Promise!Next
  OBVIOUS
<1>1. ASSUME NEW a \in Actors, Confirm(a) PROVE Promise!Next
  <2>1. PICK u \in Tokens : plans[u] # None /\ approved' = approved \cup {plans[u].write}
    BY <1>1 DEF Confirm, Usable
  <2>2. plans[u].write \in Writes
    BY <2>1 DEF TypeOK, StoreTypes, Records
  <2>3. Promise!Approve(plans[u].write)
    BY <1>1, <2>1 DEF Promise!Approve, Confirm
  <2>4. QED
    BY <2>2, <2>3 DEF Promise!Next
<1>2. ASSUME NEW a \in Actors, Approve(a) PROVE Promise!Next
  <2>1. PICK w \in Writes : approved' = approved \cup {w}
    BY <1>2 DEF Approve, Register, Writes, Ids
  <2>2. Promise!Approve(w)
    BY <1>2, <2>1 DEF Promise!Approve, Approve
  <2>3. QED
    BY <2>2 DEF Promise!Next
<1>3. ASSUME NEW r \in flight, JavaRuns(r) PROVE Promise!Next
  <2>1. r.write \in Writes /\ r.write \in approved
    BY DEF TypeOK, JobTypes, Requests, GateInv, FlightInv
  <2>2. Slot(r.write) = {} /\ effects' = effects \cup {r.write} /\ approved' = approved
    BY <1>3 DEF JavaRuns
  <2>3. Promise!CarryOut(r.write)
    BY <2>1, <2>2 DEF Promise!CarryOut, Promise!SameSlot, Slot
  <2>4. QED
    BY <2>1, <2>3 DEF Promise!Next
<1>4. ASSUME NEW j \in jobs, JobStep(j) PROVE FALSE
  BY <1>4 DEF JobStep, CheckWorkflow, CheckServer, Admit, Recall, CallJava, Deliver
<1>5. ASSUME NEW a \in Actors, \/ Plan(a) \/ Execute(a) \/ Send(a)
                               \/ ConnectionFails(a) \/ CallTimesOut(a)
      PROVE  FALSE
  BY <1>5 DEF Plan, Execute, Send, ConnectionFails, CallTimesOut
<1>6. ASSUME NEW r \in flight, JavaRefuses(r) PROVE FALSE
  BY <1>6 DEF JavaRefuses
<1>7. ASSUME NEW j \in jobs, JavaTimesOut(j) PROVE FALSE
  BY <1>7 DEF JavaTimesOut
<1>8. ASSUME NEW p \in Procs, Crash(p) PROVE FALSE
  BY <1>8 DEF Crash
<1>9. ~ ExpirePlan /\ ~ ExpireShared /\ ~ UNCHANGED vars
  BY DEF ExpirePlan, ExpireShared, vars
<1>10. QED
  BY <1>1, <1>2, <1>3, <1>4, <1>5, <1>6, <1>7, <1>8, <1>9 DEF Next, JavaEnds

\* The gate keeps its promise: whatever expires, is retried, is lost or
\* restarts, Java carries out only writes their actor approved with that
\* content, and each once.
THEOREM KeepsItsPromise == Spec => CarriesOutApprovals
<1>1. Init => Promise!Init
  BY DEF Init, Promise!Init
<1>2. TypeOK /\ GateInv /\ [Next]_vars => [Promise!Next]_(Promise!vars)
  BY StepKeepsPromise DEF Promise!vars
<1>3. QED
  BY <1>1, <1>2, GateInvariance, PTL DEF Spec, CarriesOutApprovals, Promise!Spec

\* What a client gains from the promise: every write that was carried out had
\* been approved, and no two have the same key and table.
ApprovedOnce ==
    /\ effects \subseteq approved
    /\ \A v, w \in effects : Promise!SameSlot(v, w) => v = w

\* Every effect has an approval of its own, from the promise alone.
THEOREM EffectsAreApprovedOnce == Spec => []ApprovedOnce
<1>1. Promise!Init => ApprovedOnce
  BY DEF Promise!Init, ApprovedOnce
<1>2. ApprovedOnce /\ [Promise!Next]_(Promise!vars) => ApprovedOnce'
  BY DEF ApprovedOnce, Promise!Next, Promise!Approve, Promise!CarryOut, Promise!SameSlot,
         Promise!vars
<1>3. Promise!Spec => []ApprovedOnce
  BY <1>1, <1>2, PTL DEF Promise!Spec
<1>4. QED
  BY <1>3, KeepsItsPromise, PTL DEF CarriesOutApprovals
=============================================================================
