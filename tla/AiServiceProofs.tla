---------------------------- MODULE AiServiceProofs ----------------------------
(***************************************************************************)
(* Proofs about the parts of ai-service that have no module of proofs of   *)
(* their own: Resilience, for any number of callers and calls, any         *)
(* failures and any setting of the policies; the decisions taken from a    *)
(* snapshot (the cleanup of threads and their snapshot files, rollouts,    *)
(* the updates of a knowledge base, access scopes, service levels and the  *)
(* readiness of a release, evaluation runs, the citations of an answer);   *)
(* and, last and longest, KnowledgeBase and RagAnswers, for any documents, *)
(* requests, questions and settings of the stages.                         *)
(***************************************************************************)
EXTENDS Resilience, RagAnswers, TicketThreads, Releases, KnowledgeUpdates, AccessScopes,
        ServiceLevels, EvalGates, CitationChecks, FiniteSetTheorems, SequenceTheorems, TLAPS

-----------------------------------------------------------------------------
(* Resilience.                                                             *)

(***************************************************************************)
(* The retry and the timeout strategies are written down in two tables;    *)
(* for every operation they give one answer to the question whether a      *)
(* first attempt that timed out may be repeated.                           *)
(***************************************************************************)
THEOREM TimeoutAdviceAgrees ==
    ASSUME NEW op \in Operations, NEW keyed \in BOOLEAN
    PROVE  TimeoutRetryAllowed(op, keyed)
             <=> DecideRetry(op, 1, Failure(0, "timeout", 0), keyed).again
<1> DEFINE f == Failure(0, "timeout", 0)
<1>1. f.category = "timeout" /\ f.status = 0
  BY DEF Failure
<1>2. RetryPolicies[op].retries = TimeoutPolicies[op].retries
  BY DEF RetryPolicies, TimeoutPolicies
<1>3. RetryPolicies[op].needsKey = TimeoutPolicies[op].needsKey
  <2>1. CASE op \in LlmOperations
    <3>1. op # "java.create_ticket"
      BY <2>1 DEF LlmOperations
    <3>2. TimeoutPolicies[op].needsKey = FALSE
      BY <3>1, Zenon DEF TimeoutPolicies
    <3>3. RetryPolicies[op].needsKey = FALSE
      BY <2>1 DEF RetryPolicies
    <3> QED
      BY <3>2, <3>3
  <2>2. CASE op \notin LlmOperations
    BY <2>2 DEF RetryPolicies, TimeoutPolicies
  <2> QED
    BY <2>1, <2>2
<1>4. "timeout" \in RetryPolicies[op].on
  BY DEF RetryPolicies, Transient
<1>5. TimeoutPolicies[op].retries \in Nat
  BY PolicyAssumption DEF TimeoutPolicies
<1>6. DecideRetry(op, 1, f, keyed).again
        <=> /\ RetryPolicies[op].retries # 0
            /\ f.category \in RetryPolicies[op].on
            /\ f.status # 0 => StatusRetryable(RetryPolicies[op], f.status)
            /\ RetryPolicies[op].needsKey => keyed
            /\ 1 < RetryPolicies[op].retries + 1
  BY DEF DecideRetry
<1> QED
  BY <1>1, <1>2, <1>3, <1>4, <1>5, <1>6 DEF TimeoutRetryAllowed

-----------------------------------------------------------------------------
(***************************************************************************)
(* WrittenAtMostOnce is not inductive: a call that waits for its retry may *)
(* have been carried out.  The invariant says that a call without a key    *)
(* that is still going on was never carried out, because one that failed   *)
(* is not repeated.                                                        *)
(***************************************************************************)
Answer == {"none", "result", "failed", "return_safe_fallback", "retry_later",
           "require_manual_review", "use_cache_or_return_no_context", "return_no_context"}
Call == [pc : {"idle", "ask", "out"}, keyed : BOOLEAN, attempt : Nat,
         before : BOOLEAN, answer : Answer]

WriteInv ==
    /\ operation \in Operations
    /\ carriedOut \in [Callers -> Nat]
    /\ call \in [Callers -> Call]
    /\ operation = "java.create_ticket" =>
          \A c \in Callers :
             /\ carriedOut[c] <= 1
             /\ call[c].pc # "idle" /\ ~call[c].keyed => carriedOut[c] = 0

LEMMA NoCallIsCall == NoCall \in Call /\ NoCall.pc = "idle"
  BY DEF NoCall, Call, Answer

LEMMA PlanIsAnswer ==
    ASSUME operation \in Operations, NEW cached \in BOOLEAN
    PROVE  Plan(operation, cached) \in Answer
  BY DEF Plan, DegradationOf, Operations, LlmOperations, Answer

\* Relabelling the calls that are out changes neither pc nor keyed.
LEMMA MovedKeeps ==
    ASSUME NEW calling \in [Callers -> Call]
    PROVE  /\ Moved(calling) \in [Callers -> Call]
           /\ \A c \in Callers : /\ Moved(calling)[c].pc = calling[c].pc
                                  /\ Moved(calling)[c].keyed = calling[c].keyed
  BY DEF Moved, Call

\* c gets the call "next", and others may be relabelled.
Given(c, next) ==
    /\ call' \in [Callers -> Call]
    /\ \A k \in Callers :
          /\ call'[k].pc = IF k = c THEN next.pc ELSE call[k].pc
          /\ call'[k].keyed = IF k = c THEN next.keyed ELSE call[k].keyed

LEMMA SetOrMoved ==
    ASSUME NEW c \in Callers, NEW next \in Call, call \in [Callers -> Call],
           \/ call' = [call EXCEPT ![c] = next]
           \/ call' = Moved([call EXCEPT ![c] = next])
    PROVE  Given(c, next)
<1> DEFINE calling == [call EXCEPT ![c] = next]
<1>1. /\ calling \in [Callers -> Call]
      /\ \A k \in Callers : calling[k] = IF k = c THEN next ELSE call[k]
  OBVIOUS
<1>2. CASE call' = calling
  BY <1>1, <1>2 DEF Given
<1>3. CASE call' = Moved(calling)
  <2> HIDE DEF calling
  <2>1. call' \in [Callers -> Call]
    BY <1>1, <1>3, MovedKeeps
  <2>2. \A k \in Callers : call'[k].pc = calling[k].pc /\ call'[k].keyed = calling[k].keyed
    BY <1>1, <1>3, MovedKeeps
  <2> QED
    BY <1>1, <2>1, <2>2 DEF Given
<1> QED
  BY <1>2, <1>3

\* A step that changes what WriteInv speaks of for the caller c only.
LEMMA StepOfOne ==
    ASSUME WriteInv, NEW c \in Callers, NEW next \in Call, Given(c, next),
           operation' = operation,
           carriedOut' \in [Callers -> Nat],
           \A k \in Callers : k # c => carriedOut'[k] = carriedOut[k],
           operation = "java.create_ticket" =>
              /\ carriedOut'[c] <= 1
              /\ next.pc # "idle" /\ ~next.keyed => carriedOut'[c] = 0
    PROVE  WriteInv'
<1>1. ASSUME operation' = "java.create_ticket", NEW k \in Callers
      PROVE  /\ carriedOut'[k] <= 1
             /\ call'[k].pc # "idle" /\ ~call'[k].keyed => carriedOut'[k] = 0
  <2>1. CASE k = c
    BY <1>1, <2>1 DEF Given
  <2>2. CASE k # c
    BY <1>1, <2>2 DEF WriteInv, Given
  <2> QED
    BY <2>1, <2>2
<1> QED
  BY <1>1 DEF WriteInv, Given

LEMMA WriteInit == Init => WriteInv
<1> SUFFICES ASSUME Init PROVE WriteInv
  OBVIOUS
<1>1. \A c \in Callers : call[c] \in Call /\ call[c].pc = "idle"
  BY NoCallIsCall DEF Init
<1> QED
  BY <1>1, ProtectedAssumption DEF Init, WriteInv

\* An unkeyed write that failed is over.
LEMMA UnkeyedWriteEnds ==
    ASSUME NEW attempt, NEW failure
    PROVE  ~DecideRetry("java.create_ticket", attempt, failure, FALSE).again
  BY DEF DecideRetry, RetryPolicies, Operations, LlmOperations

LEMMA WriteStep == WriteInv /\ [Next]_vars => WriteInv'
<1> SUFFICES ASSUME WriteInv, [Next]_vars PROVE WriteInv'
  OBVIOUS
<1>0. call \in [Callers -> Call] /\ carriedOut \in [Callers -> Nat] /\ operation \in Operations
  BY DEF WriteInv
<1>1. ASSUME NEW c \in Callers, Begin(c) PROVE WriteInv'
  <2>1. PICK keyed \in BOOLEAN :
           call' = [call EXCEPT ![c] = [NoCall EXCEPT !.pc = "ask", !.keyed = keyed]]
    BY <1>1 DEF Begin
  <2> DEFINE next == [NoCall EXCEPT !.pc = "ask", !.keyed = keyed]
  <2>2. next \in Call
    BY NoCallIsCall DEF Call
  <2>3. Given(c, next)
    BY <1>0, <2>1, <2>2, SetOrMoved
  <2>4. carriedOut' = [carriedOut EXCEPT ![c] = 0] /\ operation' = operation
    BY <1>1 DEF Begin
  <2> HIDE DEF next
  <2> QED
    BY <1>0, <2>2, <2>3, <2>4, StepOfOne
<1>2. ASSUME NEW c \in Callers, Refused(c) PROVE WriteInv'
  <2>1. carriedOut' = carriedOut /\ operation' = operation
    BY <1>2 DEF Refused
  <2>2. PICK cached \in BOOLEAN :
           LET told == [NoCall EXCEPT !.answer = Plan(operation, cached)]
               calling == [call EXCEPT ![c] = told]
           IN  call' = calling \/ call' = Moved(calling)
    BY <1>2 DEF Refused
  <2> DEFINE told == [NoCall EXCEPT !.answer = Plan(operation, cached)]
  <2>3. told \in Call /\ told.pc = "idle"
    BY <1>0, NoCallIsCall, PlanIsAnswer DEF Call
  <2>4. Given(c, told)
    BY <1>0, <2>2, <2>3, SetOrMoved
  <2> HIDE DEF told
  <2>5. operation = "java.create_ticket" => carriedOut'[c] <= 1
    BY <2>1 DEF WriteInv
  <2> QED
    BY <1>0, <2>1, <2>3, <2>4, <2>5, StepOfOne
<1>3. ASSUME NEW c \in Callers, Admitted(c) PROVE WriteInv'
  <2> DEFINE next == [call[c] EXCEPT !.pc = "out", !.before = FALSE]
  <2>1. /\ call[c].pc = "ask"
        /\ call' = [call EXCEPT ![c] = next]
        /\ carriedOut' = carriedOut /\ operation' = operation
    BY <1>3 DEF Admitted
  <2>2. next \in Call /\ next.keyed = call[c].keyed
    BY <1>0 DEF Call
  <2>3. Given(c, next)
    BY <1>0, <2>1, <2>2, SetOrMoved
  <2> HIDE DEF next
  <2>4. operation = "java.create_ticket" =>
           carriedOut'[c] <= 1 /\ (~next.keyed => carriedOut'[c] = 0)
    BY <2>1, <2>2 DEF WriteInv
  <2> QED
    BY <1>0, <2>1, <2>2, <2>3, <2>4, StepOfOne
<1>4. ASSUME NEW c \in Callers, Succeeds(c) PROVE WriteInv'
  <2> DEFINE next == [NoCall EXCEPT !.answer = "result"]
  <2>1. next \in Call /\ next.pc = "idle"
    BY NoCallIsCall DEF Call, Answer
  <2>2. Recorded(c, TRUE, next) /\ Executed(c) /\ operation' = operation /\ call[c].pc = "out"
    BY <1>4 DEF Succeeds
  <2>3. Given(c, next)
    BY <1>0, <2>1, <2>2, SetOrMoved DEF Recorded
  <2> HIDE DEF next
  <2>4. /\ carriedOut' \in [Callers -> Nat]
        /\ \A k \in Callers : k # c => carriedOut'[k] = carriedOut[k]
        /\ operation = "java.create_ticket" => carriedOut'[c] <= 1
    BY <1>0, <2>2 DEF WriteInv, Executed
  <2> QED
    BY <2>1, <2>2, <2>3, <2>4, StepOfOne
<1>5. ASSUME NEW c \in Callers, Fails(c) PROVE WriteInv'
  <2>1. /\ call[c].pc = "out" /\ operation' = operation
        /\ carriedOut' = carriedOut \/ Executed(c)
    BY <1>5 DEF Fails
  <2> DEFINE D(f) == DecideRetry(operation, call[c].attempt, f, call[c].keyed)
             retried == [call[c] EXCEPT !.pc = "ask", !.attempt = @ + 1, !.before = FALSE]
             ended == [NoCall EXCEPT !.answer = "failed"]
  <2>2. PICK f \in Failures : Recorded(c, FALSE, IF D(f).again THEN retried ELSE ended)
    BY <1>5 DEF Fails
  <2> DEFINE d == D(f)
             next == IF d.again THEN retried ELSE ended
  <2>3. Recorded(c, FALSE, next)
    BY <2>2
  <2>4. retried \in Call /\ retried.keyed = call[c].keyed
    <3>1. call[c] \in Call
      BY <1>0
    <3>2. call[c].attempt + 1 \in Nat
      BY <3>1 DEF Call
    <3> QED
      BY <3>1, <3>2 DEF Call
  <2>5. ended \in Call /\ ended.pc = "idle"
    BY NoCallIsCall DEF Call, Answer
  <2>6. operation = "java.create_ticket" /\ d.again => call[c].keyed # FALSE
    BY UnkeyedWriteEnds
  <2> HIDE DEF D, d, retried, ended
  <2>7. next \in Call
    BY <2>4, <2>5
  <2>8. Given(c, next)
    BY <1>0, <2>3, <2>7, SetOrMoved DEF Recorded
  <2>9. operation = "java.create_ticket" /\ next.pc # "idle" => next.keyed
    BY <1>0, <2>4, <2>5, <2>6 DEF Call
  <2> HIDE DEF next
  <2>10. operation = "java.create_ticket" =>
            carriedOut[c] <= 1 /\ (~call[c].keyed => carriedOut[c] = 0)
    BY <2>1 DEF WriteInv
  <2>11. carriedOut' = carriedOut
           \/ carriedOut' = [carriedOut EXCEPT ![c] = IF call[c].keyed THEN 1
                                                     ELSE carriedOut[c] + 1]
    BY <2>1 DEF Executed
  <2>12. /\ carriedOut' \in [Callers -> Nat]
         /\ \A k \in Callers : k # c => carriedOut'[k] = carriedOut[k]
    BY <1>0, <2>11
  <2>13. operation = "java.create_ticket" => carriedOut'[c] <= 1
    BY <1>0, <2>10, <2>11
  <2> QED
    BY <2>1, <2>7, <2>8, <2>9, <2>12, <2>13, StepOfOne
<1>6. ASSUME NEW c \in Callers, Lost(c) PROVE WriteInv'
  <2>1. call' = [call EXCEPT ![c] = NoCall] /\ carriedOut' = carriedOut /\ operation' = operation
    BY <1>6 DEF Lost
  <2>2. Given(c, NoCall)
    BY <1>0, <2>1, NoCallIsCall, SetOrMoved
  <2>3. operation = "java.create_ticket" => carriedOut'[c] <= 1
    BY <2>1 DEF WriteInv
  <2> QED
    BY <1>0, <2>1, <2>2, <2>3, NoCallIsCall, StepOfOne
<1>7. ASSUME Tick PROVE WriteInv'
  BY <1>7 DEF Tick, WriteInv
<1>8. CASE UNCHANGED vars
  BY <1>8 DEF vars, WriteInv
<1> QED
  BY <1>1, <1>2, <1>3, <1>4, <1>5, <1>6, <1>7, <1>8 DEF Next, Answered

(***************************************************************************)
(* A ticket of one call is created once, whatever fails and however often  *)
(* the call is repeated.                                                   *)
(***************************************************************************)
THEOREM NoTicketTwice == Spec => []WrittenAtMostOnce
<1>1. WriteInv => WrittenAtMostOnce
  BY DEF WriteInv, WrittenAtMostOnce
<1> QED
  BY WriteInit, WriteStep, <1>1, PTL DEF Spec

-----------------------------------------------------------------------------
(***************************************************************************)
(* The probes of a half-open breaker.  The snapshot counts the calls it    *)
(* has let through, and it forgets them all when one of them succeeds: the *)
(* count is right as long as no other probe is out then (one probe at a    *)
(* time, which is the default) or the success closes the breaker.          *)
(***************************************************************************)
Fresh == {c \in Callers : call[c].pc = "out" /\ ~call[c].before}

Circuit == [state : {"closed", "open", "half_open"}, requests : Nat, failures : Nat,
            successes : Nat, elapsed : Nat, probes : Nat]

ProbeInv ==
    /\ circuit \in Circuit
    /\ late \in BOOLEAN
    /\ circuit.probes <= MaxProbes
    /\ circuit.state = "open" => circuit.probes = 0
    /\ circuit.state = "open" /\ ~late => Fresh = {}
    /\ circuit.state = "half_open" /\ ~late =>
          IsFiniteSet(Fresh) /\ Cardinality(Fresh) <= circuit.probes

LEMMA PolicyNumbers ==
    /\ MaxProbes \in Nat /\ MaxProbes >= 1
    /\ SuccessThreshold \in Nat /\ SuccessThreshold >= 1
    /\ OpenTicks \in Nat
<1>1. {MaxProbes, SuccessThreshold, OpenTicks} \subseteq Nat \ {0}
  BY PolicyAssumption
<1>2. QED
  BY <1>1

LEMMA SnapshotIsCircuit ==
    ASSUME NEW state \in {"closed", "open", "half_open"}, NEW requests \in Nat,
           NEW failures \in Nat, NEW successes \in Nat
    PROVE  /\ Snapshot(state, requests, failures, successes) \in Circuit
           /\ Snapshot(state, requests, failures, successes).state = state
           /\ Snapshot(state, requests, failures, successes).probes = 0
  BY DEF Snapshot, Circuit

LEMMA ProbeInit == Init => ProbeInv
<1>1. /\ Snapshot("closed", 0, 0, 0) \in Circuit
      /\ Snapshot("closed", 0, 0, 0).state = "closed"
      /\ Snapshot("closed", 0, 0, 0).probes = 0
  BY SnapshotIsCircuit
<1> SUFFICES ASSUME Init PROVE ProbeInv
  OBVIOUS
<1>2. circuit \in Circuit
  BY <1>1 DEF Init
<1>3. late \in BOOLEAN
  BY DEF Init
<1>4. circuit.probes <= MaxProbes
  BY <1>1, PolicyNumbers DEF Init
<1>5. circuit.state = "closed"
  BY <1>1 DEF Init
<1>6. QED
  BY <1>2, <1>3, <1>4, <1>5 DEF ProbeInv

\* What is known of the probes survives a step that lets no call through.
LEMMA FewerFresh ==
    ASSUME ProbeInv, circuit' = circuit, late' \in BOOLEAN, ~late' => ~late,
           Fresh' \subseteq Fresh
    PROVE  ProbeInv'
<1>1. CASE circuit.state = "half_open" /\ ~late
  <2>1. IsFiniteSet(Fresh) /\ Cardinality(Fresh) <= circuit.probes
    BY <1>1 DEF ProbeInv
  <2>2. IsFiniteSet(Fresh') /\ Cardinality(Fresh') <= Cardinality(Fresh)
    BY <2>1, FS_Subset
  <2>3. Cardinality(Fresh') \in Nat /\ Cardinality(Fresh) \in Nat /\ circuit.probes \in Nat
    BY <2>1, <2>2, FS_CardinalityType DEF ProbeInv, Circuit
  <2>4. Cardinality(Fresh') <= circuit.probes
    BY <2>1, <2>2, <2>3
  <2>5. QED
    BY <1>1, <2>2, <2>4 DEF ProbeInv
<1>2. CASE ~(circuit.state = "half_open" /\ ~late)
  BY <1>2 DEF ProbeInv
<1>3. QED
  BY <1>1, <1>2

\* A breaker that has just opened or closed knows of no call.
LEMMA MovedProbes ==
    ASSUME NEW s \in Circuit, s.state \in {"open", "closed"}, s.probes = 0,
           circuit' = s, late' = FALSE,
           NEW calling \in [Callers -> Call], call' = Moved(calling)
    PROVE  ProbeInv'
<1>1. Fresh' = {}
  BY DEF Fresh, Moved, Call
<1>2. circuit' \in Circuit /\ circuit'.probes = 0 /\ circuit'.state # "half_open"
  OBVIOUS
<1>3. circuit'.probes <= MaxProbes
  BY <1>2, PolicyNumbers
<1>4. late' \in BOOLEAN
  OBVIOUS
<1>5. QED
  BY <1>1, <1>2, <1>3, <1>4 DEF ProbeInv

\* The snapshots RecordResult gives.
LEMMA ResultIsCircuit ==
    ASSUME NEW s \in Circuit, NEW ok \in BOOLEAN
    PROVE  /\ RecordResult(s, ok) \in Circuit
           /\ RecordResult(s, ok).probes = 0
           /\ s.state = "closed" => RecordResult(s, ok).state \in {"closed", "open"}
           /\ RecordResult(s, ok).state = "half_open" /\ s.state = "half_open" =>
                 SuccessThreshold # 1
<1> DEFINE result == RecordResult(s, ok)
<1>0. /\ s.requests + 1 \in Nat /\ s.failures + 1 \in Nat /\ s.failures + 0 \in Nat
      /\ s.successes + 1 \in Nat /\ s.successes + 1 >= 1
      /\ s.state \in {"closed", "open", "half_open"}
  BY DEF Circuit
<1>1. CASE s.state = "closed"
  <2> DEFINE open == Snapshot("open", 0, 0, 0)
             n == s.requests + 1
             f == s.failures + (IF ok THEN 0 ELSE 1)
             k == IF ok THEN s.successes + 1 ELSE 0
             next == Snapshot("closed", n, f, k)
  <2>1. result = IF ~ok /\ ShouldOpen(next) THEN open ELSE next
    BY <1>1 DEF RecordResult
  <2>2. open \in Circuit /\ open.state = "open" /\ open.probes = 0
    BY SnapshotIsCircuit
  <2>3. next \in Circuit /\ next.state = "closed" /\ next.probes = 0
    <3>1. n \in Nat /\ f \in Nat /\ k \in Nat
      BY <1>0
    <3> HIDE DEF n, f, k
    <3>2. QED
      BY <3>1, SnapshotIsCircuit
  <2> HIDE DEF open, next
  <2>4. result = open \/ result = next
    BY <2>1
  <2>5. QED
    BY <1>1, <2>2, <2>3, <2>4
<1>2. CASE s.state = "half_open" /\ ok
  <2> DEFINE closed == Snapshot("closed", 0, 0, 0)
             k == s.successes + 1
             next == Snapshot("half_open", 0, 0, k)
  <2>1. result = IF s.successes + 1 >= SuccessThreshold THEN closed ELSE next
    BY <1>2 DEF RecordResult
  <2>2. closed \in Circuit /\ closed.state = "closed" /\ closed.probes = 0
    BY SnapshotIsCircuit
  <2>3. next \in Circuit /\ next.state = "half_open" /\ next.probes = 0
    <3>1. k \in Nat
      BY <1>0
    <3> HIDE DEF k
    <3>2. QED
      BY <3>1, SnapshotIsCircuit
  <2> HIDE DEF closed, next
  <2>4. result = closed \/ (result = next /\ SuccessThreshold # 1)
    BY <1>0, <2>1
  <2>5. QED
    BY <1>2, <2>2, <2>3, <2>4
<1>3. CASE s.state = "open" /\ ok
  <2> DEFINE next == Snapshot("half_open", 0, 0, 1)
  <2>1. result = next
    BY <1>3 DEF RecordResult
  <2>2. next \in Circuit /\ next.state = "half_open" /\ next.probes = 0
    BY SnapshotIsCircuit
  <2> HIDE DEF next
  <2>3. QED
    BY <1>3, <2>1, <2>2
<1>4. CASE s.state # "closed" /\ ~ok
  <2> DEFINE open == Snapshot("open", 0, 0, 0)
  <2>1. result = open
    BY <1>4 DEF RecordResult
  <2>2. open \in Circuit /\ open.state = "open" /\ open.probes = 0
    BY SnapshotIsCircuit
  <2> HIDE DEF open
  <2>3. QED
    BY <1>4, <2>1, <2>2
<1>5. QED
  BY <1>0, <1>1, <1>2, <1>3, <1>4

\* The result of a call that is out: the only count that matters afterwards is
\* that of a half-open breaker, and then no probe is out any more.
LEMMA RecordedProbes ==
    ASSUME MaxProbes = 1 \/ SuccessThreshold = 1, WriteInv, ProbeInv,
           NEW c \in Callers, NEW ok \in BOOLEAN, NEW next \in Call, next.pc # "out",
           call[c].pc = "out", Recorded(c, ok, next)
    PROVE  ProbeInv'
<1> DEFINE s == RecordResult(circuit, ok)
           moved == s.state \in {"open", "closed"} /\ s.state # circuit.state
           calling == [call EXCEPT ![c] = next]
<1>0. /\ circuit \in Circuit /\ call \in [Callers -> Call]
      /\ late \in BOOLEAN /\ call[c].before \in BOOLEAN
  BY DEF ProbeInv, WriteInv, Call
<1>1. /\ s \in Circuit /\ s.probes = 0
      /\ circuit.state = "closed" => s.state \in {"closed", "open"}
      /\ s.state = "half_open" /\ circuit.state = "half_open" => SuccessThreshold # 1
  BY <1>0, ResultIsCircuit
<1>2. /\ circuit' = s
      /\ late' = IF moved THEN FALSE ELSE late \/ call[c].before
      /\ call' = IF moved THEN Moved(calling) ELSE calling
  BY DEF Recorded
<1>3. calling \in [Callers -> Call]
  BY <1>0
<1> HIDE DEF s, calling
<1>4. CASE moved
  BY <1>1, <1>2, <1>3, <1>4, MovedProbes
<1>5. CASE ~moved
  <2>1. late' = (late \/ call[c].before) /\ call' = calling
    BY <1>2, <1>5
  <2>2. Fresh' = Fresh \ {c}
    BY <1>0, <2>1 DEF Fresh, calling
  <2>3. /\ circuit' \in Circuit /\ circuit'.probes = 0
        /\ circuit'.probes <= MaxProbes /\ late' \in BOOLEAN
    <3>1. circuit' \in Circuit /\ circuit'.probes = 0
      BY <1>1, <1>2
    <3>2. circuit'.probes <= MaxProbes
      BY <3>1, PolicyNumbers
    <3>3. late' \in BOOLEAN
      BY <1>0, <2>1
    <3>4. QED
      BY <3>1, <3>2, <3>3
  <2>4. CASE s.state = "closed"
    BY <1>2, <2>3, <2>4 DEF ProbeInv
  <2>5. CASE late'
    BY <2>3, <2>5 DEF ProbeInv
  <2>6. CASE s.state # "closed" /\ ~late'
    <3>1. ~late /\ ~call[c].before /\ c \in Fresh
      BY <1>0, <2>1, <2>6 DEF Fresh
    <3>2. circuit.state # "open"
      BY <3>1 DEF ProbeInv
    <3>3. s.state = "half_open"
      BY <1>0, <1>1, <1>5, <2>6, <3>2 DEF Circuit
    <3>4. circuit.state = "half_open" /\ MaxProbes = 1
      BY <1>0, <1>1, <3>2, <3>3 DEF Circuit
    <3>5. IsFiniteSet(Fresh) /\ Cardinality(Fresh) <= 1 /\ Cardinality(Fresh) \in Nat
      BY <1>0, <3>1, <3>4, FS_CardinalityType DEF ProbeInv, Circuit
    <3>6. IsFiniteSet(Fresh') /\ Cardinality(Fresh') = Cardinality(Fresh) - 1
      BY <2>2, <3>1, <3>5, FS_RemoveElement
    <3>7. QED
      BY <1>2, <2>3, <3>3, <3>5, <3>6 DEF ProbeInv
  <2>7. QED
    BY <1>0, <2>1, <2>4, <2>5, <2>6
<1>6. QED
  BY <1>4, <1>5

LEMMA AdmittedProbes ==
    ASSUME WriteInv, ProbeInv, NEW c \in Callers, Admitted(c)
    PROVE  ProbeInv'
<1> DEFINE d == Protection(circuit, inWindow)
<1>0. circuit \in Circuit /\ call \in [Callers -> Call] /\ late \in BOOLEAN
  BY DEF ProbeInv, WriteInv
<1>1. /\ call[c].pc = "ask" /\ d.allow
      /\ circuit' = [circuit EXCEPT !.state = d.next,
                                    !.probes = IF d.probe THEN @ + 1 ELSE @]
      /\ call' = [call EXCEPT ![c].pc = "out", ![c].before = FALSE]
      /\ late' = late
  BY DEF Admitted
<1>2. Fresh' = Fresh \cup {c} /\ c \notin Fresh
  BY <1>0, <1>1 DEF Fresh, Call
<1>3. d = DecideCircuit(circuit)
  BY <1>1 DEF Protection
<1> HIDE DEF d
<1>5. CASE circuit.state = "closed"
  <2>1. d.next = "closed" /\ ~d.probe
    BY <1>1, <1>3, <1>5 DEF DecideCircuit
  <2>2. circuit' = [circuit EXCEPT !.state = "closed", !.probes = circuit.probes]
    BY <1>1, <2>1
  <2>3. circuit' \in Circuit /\ circuit'.state = "closed" /\ circuit'.probes = circuit.probes
    BY <1>0, <2>2 DEF Circuit
  <2>4. QED
    BY <1>0, <1>1, <2>3 DEF ProbeInv
<1>6. CASE circuit.state \in {"open", "half_open"}
  <2>1. d.next = "half_open" /\ d.probe /\ circuit.probes + 1 <= MaxProbes
    <3>1. CASE circuit.state = "open"
      <4>1. d.next = "half_open" /\ d.probe
        BY <1>1, <1>3, <3>1 DEF DecideCircuit
      <4>2. QED
        BY <3>1, <4>1, PolicyNumbers DEF ProbeInv
    <3>2. CASE circuit.state = "half_open"
      <4>1. d.next = "half_open" /\ d.probe /\ circuit.probes < MaxProbes
        BY <1>1, <1>3, <3>2 DEF DecideCircuit
      <4>2. circuit.probes \in Nat
        BY <1>0 DEF Circuit
      <4>3. QED
        BY <4>1, <4>2, PolicyNumbers
    <3>3. QED
      BY <1>6, <3>1, <3>2
  <2>2. ~late => IsFiniteSet(Fresh) /\ Cardinality(Fresh) <= circuit.probes
    <3>1. CASE circuit.state = "open"
      BY <1>0, <3>1, FS_EmptySet DEF ProbeInv, Circuit
    <3>2. CASE circuit.state = "half_open"
      BY <3>2 DEF ProbeInv
    <3>3. QED
      BY <1>6, <3>1, <3>2
  <2>3. ASSUME ~late PROVE IsFiniteSet(Fresh') /\ Cardinality(Fresh') <= circuit.probes + 1
    <3>1. IsFiniteSet(Fresh) /\ Cardinality(Fresh) <= circuit.probes
      BY <2>2, <2>3
    <3>2. IsFiniteSet(Fresh') /\ Cardinality(Fresh') = Cardinality(Fresh) + 1
      BY <1>2, <3>1, FS_AddElement
    <3>3. Cardinality(Fresh) \in Nat /\ circuit.probes \in Nat
      BY <1>0, <3>1, FS_CardinalityType DEF Circuit
    <3>4. QED
      BY <3>1, <3>2, <3>3
  <2>4. circuit' \in Circuit /\ circuit'.state = "half_open" /\ circuit'.probes = circuit.probes + 1
    <3>1. circuit' = [circuit EXCEPT !.state = "half_open", !.probes = circuit.probes + 1]
      BY <1>1, <2>1
    <3>2. circuit.probes + 1 \in Nat
      BY <1>0 DEF Circuit
    <3>3. QED
      BY <1>0, <3>1, <3>2 DEF Circuit
  <2>5. QED
    BY <1>0, <1>1, <2>1, <2>3, <2>4 DEF ProbeInv
<1>7. QED
  BY <1>0, <1>5, <1>6 DEF Circuit

LEMMA ProbeStep ==
    ASSUME MaxProbes = 1 \/ SuccessThreshold = 1
    PROVE  WriteInv /\ ProbeInv /\ [Next]_vars => ProbeInv'
<1> SUFFICES ASSUME WriteInv, ProbeInv, [Next]_vars PROVE ProbeInv'
  OBVIOUS
<1>0. circuit \in Circuit /\ call \in [Callers -> Call] /\ late \in BOOLEAN
  BY DEF ProbeInv, WriteInv
<1>1. ASSUME NEW c \in Callers, Begin(c) PROVE ProbeInv'
  <2>1. PICK keyed \in BOOLEAN :
           call' = [call EXCEPT ![c] = [NoCall EXCEPT !.pc = "ask", !.keyed = keyed]]
    BY <1>1 DEF Begin
  <2>2. Fresh' \subseteq Fresh
    BY <1>0, <2>1 DEF Fresh, NoCall
  <2>3. QED
    BY <1>0, <1>1, <2>2, FewerFresh DEF Begin
<1>2. ASSUME NEW c \in Callers, Refused(c) PROVE ProbeInv'
  <2> DEFINE d == Protection(circuit, inWindow)
  <2>1. PICK cached \in BOOLEAN :
           LET told == [NoCall EXCEPT !.answer = Plan(operation, cached)]
               calling == [call EXCEPT ![c] = told]
           IN  call' = IF d.next = circuit.state THEN calling ELSE Moved(calling)
    BY <1>2 DEF Refused
  <2> DEFINE told == [NoCall EXCEPT !.answer = Plan(operation, cached)]
             calling == [call EXCEPT ![c] = told]
  <2>2. told \in Call /\ told.pc = "idle"
    BY NoCallIsCall, PlanIsAnswer DEF Call, WriteInv
  <2>3. calling \in [Callers -> Call]
    BY <1>0, <2>2
  <2>4. /\ ~d.allow
        /\ circuit' = IF d.next = circuit.state THEN circuit ELSE Snapshot(d.next, 0, 0, 0)
        /\ late' = (late /\ d.next = circuit.state)
    BY <1>2 DEF Refused
  <2>5. CASE d.next = circuit.state
    <3>1. Fresh' \subseteq Fresh
      BY <1>0, <2>1, <2>2, <2>5 DEF Fresh
    <3>2. QED
      BY <1>0, <2>4, <2>5, <3>1, FewerFresh
  <2>6. CASE d.next # circuit.state
    <3>1. d.next = "open"
      BY <1>0, <2>4, <2>6 DEF Protection, DecideCircuit, Circuit
    <3>2. Snapshot("open", 0, 0, 0) \in Circuit /\ Snapshot("open", 0, 0, 0).state = "open"
            /\ Snapshot("open", 0, 0, 0).probes = 0
      BY DEF Snapshot, Circuit
    <3>3. /\ circuit' = Snapshot("open", 0, 0, 0)
          /\ late' = FALSE
          /\ call' = Moved(calling)
      BY <2>1, <2>4, <2>6, <3>1
    <3> HIDE DEF calling
    <3>4. QED
      BY <2>3, <3>2, <3>3, MovedProbes
  <2>7. QED
    BY <2>5, <2>6
<1>3. ASSUME NEW c \in Callers, Admitted(c) PROVE ProbeInv'
  BY <1>3, AdmittedProbes
<1>4. ASSUME NEW c \in Callers, Succeeds(c) PROVE ProbeInv'
  <2> DEFINE next == [NoCall EXCEPT !.answer = "result"]
  <2>1. next \in Call /\ next.pc = "idle"
    BY NoCallIsCall DEF Call, Answer
  <2>2. Recorded(c, TRUE, next) /\ call[c].pc = "out"
    BY <1>4 DEF Succeeds
  <2> HIDE DEF next
  <2>3. QED
    BY <2>1, <2>2, RecordedProbes
<1>5. ASSUME NEW c \in Callers, Fails(c) PROVE ProbeInv'
  <2> DEFINE D(f) == DecideRetry(operation, call[c].attempt, f, call[c].keyed)
             retried == [call[c] EXCEPT !.pc = "ask", !.attempt = @ + 1, !.before = FALSE]
             ended == [NoCall EXCEPT !.answer = "failed"]
  <2>1. PICK f \in Failures : Recorded(c, FALSE, IF D(f).again THEN retried ELSE ended)
    BY <1>5 DEF Fails
  <2>2. retried \in Call /\ retried.pc = "ask"
    <3>1. call[c] \in Call
      BY <1>0
    <3>2. call[c].attempt + 1 \in Nat
      BY <3>1 DEF Call
    <3>3. QED
      BY <3>1, <3>2 DEF Call
  <2>3. ended \in Call /\ ended.pc = "idle"
    BY NoCallIsCall DEF Call, Answer
  <2>4. call[c].pc = "out"
    BY <1>5 DEF Fails
  <2> HIDE DEF D, retried, ended
  <2> DEFINE next == IF D(f).again THEN retried ELSE ended
  <2>5. next \in Call /\ next.pc # "out" /\ Recorded(c, FALSE, next)
    BY <2>1, <2>2, <2>3
  <2> HIDE DEF next
  <2>6. QED
    BY <2>4, <2>5, RecordedProbes
<1>6. ASSUME NEW c \in Callers, Lost(c) PROVE ProbeInv'
  <2>1. call' = [call EXCEPT ![c] = NoCall] /\ UNCHANGED <<circuit, late>>
    BY <1>6 DEF Lost
  <2>2. Fresh' \subseteq Fresh
    BY <1>0, <2>1, NoCallIsCall DEF Fresh
  <2>3. QED
    BY <1>0, <2>1, <2>2, FewerFresh
<1>7. ASSUME Tick PROVE ProbeInv'
  <2>1. call' = call /\ late' = late /\ Fresh' = Fresh
    BY <1>7 DEF Tick, Fresh
  <2>2. CASE circuit.state = "open"
    <3>1. circuit' = [circuit EXCEPT !.elapsed = Min({circuit.elapsed + 1, OpenTicks})]
      BY <1>7, <2>2 DEF Tick
    <3>2. Min({circuit.elapsed + 1, OpenTicks}) \in Nat
      <4>1. circuit.elapsed + 1 \in Nat /\ OpenTicks \in Nat
        BY <1>0, PolicyNumbers DEF Circuit
      <4>2. QED
        BY <4>1 DEF Min
    <3> DEFINE m == Min({circuit.elapsed + 1, OpenTicks})
    <3> HIDE DEF m
    <3>3. circuit' = [circuit EXCEPT !.elapsed = m] /\ m \in Nat
      BY <3>1, <3>2 DEF m
    <3>4. circuit' \in Circuit /\ circuit'.state = "open" /\ circuit'.probes = circuit.probes
      BY <1>0, <2>2, <3>3 DEF Circuit
    <3>5. QED
      BY <2>1, <2>2, <3>4 DEF ProbeInv
  <2>3. CASE circuit.state = "closed"
    <3>1. circuit' \in {circuit, Snapshot("closed", 0, 0, 0)}
      BY <1>7, <2>3 DEF Tick
    <3>2. QED
      BY <1>0, <2>1, <2>3, <3>1, PolicyNumbers DEF Snapshot, Circuit, ProbeInv
  <2>4. CASE circuit.state = "half_open"
    <3>1. circuit' = circuit
      BY <1>7, <2>4 DEF Tick
    <3>2. QED
      BY <1>0, <2>1, <3>1, FewerFresh
  <2>5. QED
    BY <1>0, <2>2, <2>3, <2>4 DEF Circuit
<1>8. CASE UNCHANGED vars
  <2>1. UNCHANGED <<circuit, late, call>> /\ Fresh' = Fresh
    BY <1>8 DEF vars, Fresh
  <2>2. QED
    BY <1>0, <2>1, FewerFresh
<1>9. QED
  BY <1>1, <1>2, <1>3, <1>4, <1>5, <1>6, <1>7, <1>8 DEF Next, Answered

(***************************************************************************)
(* A dependency that is being probed is spared, with one probe at a time   *)
(* (the default) or a breaker that closes on the first success.            *)
(***************************************************************************)
THEOREM ProbesAreSpared ==
    ASSUME MaxProbes = 1 \/ SuccessThreshold = 1
    PROVE  Spec => []ProbesAreFew
<1>1. ProbeInv => ProbesAreFew
  <2> SUFFICES ASSUME ProbeInv, circuit.state \in {"open", "half_open"}, ~late
               PROVE  Cardinality(Fresh) <= MaxProbes
    BY DEF ProbesAreFew, Fresh
  <2>1. MaxProbes \in Nat /\ circuit.probes \in Nat /\ circuit.probes <= MaxProbes
    BY PolicyNumbers DEF ProbeInv, Circuit
  <2>2. CASE circuit.state = "open"
    BY <2>1, <2>2, FS_EmptySet DEF ProbeInv
  <2>3. CASE circuit.state = "half_open"
    <3>1. IsFiniteSet(Fresh) /\ Cardinality(Fresh) <= circuit.probes
      BY <2>3 DEF ProbeInv
    <3>2. Cardinality(Fresh) \in Nat
      BY <3>1, FS_CardinalityType
    <3>3. QED
      BY <2>1, <3>1, <3>2
  <2>4. QED
    BY <2>2, <2>3
<1>2. WriteInv /\ ProbeInv /\ [Next]_vars => ProbeInv'
  BY ProbeStep
<1>3. QED
  BY WriteInit, WriteStep, ProbeInit, <1>1, <1>2, PTL DEF Spec

-----------------------------------------------------------------------------
(* TicketThreads.                                                          *)

(***************************************************************************)
(* A plan deletes the checkpoint of a thread only if nobody may resume the *)
(* thread, neither when the plan is made nor when it is carried out later  *)
(* (evaluate_ticket_agent_thread_cleanup against                           *)
(* evaluate_ticket_agent_thread_resume).                                   *)
(***************************************************************************)
THEOREM DeletedIsNeverResumed ==
    ASSUME NEW bindings, NEW id \in DOMAIN bindings,
           bindings[id] \in Binding,
           NEW policy \in Retention, NEW now \in Time, NEW later \in Time,
           NEW actor \in Actors,
           now <= later, Absent \notin Time,
           id \in Deleted(CleanupPlan(bindings, policy, now))
    PROVE  ~Resumable(bindings[id], actor, later)
<1> DEFINE b == bindings[id]
<1>1. Cleanup(b, policy, now).delete
  BY DEF Deleted, CleanupPlan
<1>2. CASE b.status \in {"completed", "closed"}
  <2>1. Resume(b, actor, later) # "ok"
    BY <1>2 DEF Resume, Binding
  <2> QED
    BY <2>1 DEF Resumable
<1>3. CASE b.status \in {"active", "waiting_confirmation"}
  <2>1. Expired(b, now)
    BY <1>1, <1>3 DEF Cleanup, Keep, Expire
  <2>2. b.expires \in Time
    BY <2>1 DEF Expired, Binding
  <2>3. Expired(b, later)
    BY <2>1, <2>2 DEF Expired, Time
  <2>4. Resume(b, actor, later) # "ok"
    BY <1>3, <2>3 DEF Resume
  <2> QED
    BY <2>4 DEF Resumable
<1> QED
  BY <1>2, <1>3 DEF Binding, ThreadStatus

(***************************************************************************)
(* No checkpoint is deleted unarchived, and a thread that still wait for  *)
(* a confirmation is archived as soon as it can no longer be resumed       *)
(* (archive_required_thread_ids, checkpoint_delete_thread_ids).            *)
(***************************************************************************)
THEOREM ArchivedBeforeDeleted ==
    ASSUME NEW bindings, NEW policy \in Retention, NEW now \in Time,
           \A id \in DOMAIN bindings : bindings[id] \in Binding
    PROVE  LET plan == CleanupPlan(bindings, policy, now) IN
           /\ Deleted(plan) \subseteq Archived(plan)
           /\ \A id \in DOMAIN bindings :
                 /\ bindings[id].status = "waiting_confirmation"
                 /\ ~Resumable(bindings[id], bindings[id].actor, now)
                 => id \in Archived(plan)
<1> DEFINE plan == CleanupPlan(bindings, policy, now)
<1>1. \A id \in DOMAIN bindings : plan[id] = Cleanup(bindings[id], policy, now)
  BY DEF CleanupPlan
<1>2. DOMAIN plan = DOMAIN bindings
  BY DEF CleanupPlan
<1>3. ASSUME NEW id \in DOMAIN bindings, plan[id].delete
      PROVE  plan[id].archive
  <2>1. ~Keep.delete /\ ~Expire(bindings[id]).delete /\ Archive.archive
    BY DEF Keep, Expire, Archive
  <2>2. plan[id] \in {Keep, Expire(bindings[id]), Archive}
    BY <1>1 DEF Cleanup
  <2> QED
    BY <1>3, <2>1, <2>2
<1>4. ASSUME NEW id \in DOMAIN bindings,
             bindings[id].status = "waiting_confirmation",
             ~Resumable(bindings[id], bindings[id].actor, now)
      PROVE  plan[id].archive
  <2>1. Expired(bindings[id], now)
    BY <1>4 DEF Resumable, Resume
  <2>2. Archive.archive /\ Expire(bindings[id]).archive
    BY <1>4 DEF Archive, Expire
  <2>3. plan[id] \in {Archive, Expire(bindings[id])}
    BY <1>1, <1>4, <2>1 DEF Cleanup
  <2> QED
    BY <2>2, <2>3
<1> QED
  BY <1>2, <1>3, <1>4 DEF Deleted, Archived

(***************************************************************************)
(* Whatever files have the same name, a snapshot that was saved is the one *)
(* that is loaded, and no thread is answered with the state of another     *)
(* one (FileTicketAgentCheckpointStore.load).                              *)
(***************************************************************************)
THEOREM LoadsItsOwn ==
    ASSUME NEW snapshots \in Files, NEW raw \in RawIds, NEW other \in RawIds,
           NEW values \in Values,
           NormalOf \in [RawIds -> Ids \cup {Absent}], NameOf \in [Ids -> FileNames],
           NormalOf[raw] # Absent, NormalOf[other] # Absent,
           Absent \notin Ids, Absent \notin ThreadSnapshot, Broken \notin ThreadSnapshot,
           Absent \notin Values, "error" \notin Values
    PROVE  /\ Load(Save(snapshots, raw, values), raw) = values
           /\ NormalOf[other] # NormalOf[raw] =>
                 \/ Load(Save(snapshots, raw, values), other) = Load(snapshots, other)
                 \/ Load(Save(snapshots, raw, values), other) = "error"
<1> DEFINE id == NormalOf[raw]
           snapshot == [thread |-> id, values |-> values]
           saved == [snapshots EXCEPT ![NameOf[id]] = snapshot]
<1>1. Save(snapshots, raw, values) = saved
  BY DEF Save
<1>2. id \in Ids /\ NormalOf[other] \in Ids
  OBVIOUS
<1>3. NameOf[id] \in FileNames /\ DOMAIN snapshots = FileNames
  BY <1>2 DEF Files
<1>4. saved[NameOf[id]] = snapshot /\ snapshot \in ThreadSnapshot
  BY <1>2, <1>3 DEF ThreadSnapshot
<1>5. snapshot # Absent /\ snapshot # Broken
  BY <1>4
<1>6. Load(saved, raw) = values
  BY <1>4, <1>5 DEF Load
<1>7. CASE NameOf[NormalOf[other]] = NameOf[id] /\ NormalOf[other] # id
  <2>1. Load(saved, other) = "error"
    BY <1>4, <1>5, <1>7 DEF Load
  <2> QED
    BY <1>1, <1>6, <2>1
<1>8. CASE NameOf[NormalOf[other]] # NameOf[id] \/ NormalOf[other] = id
  <2>1. NormalOf[other] # id => saved[NameOf[NormalOf[other]]] = snapshots[NameOf[NormalOf[other]]]
    BY <1>8, <1>3
  <2>2. NormalOf[other] # id => Load(saved, other) = Load(snapshots, other)
    BY <2>1 DEF Load
  <2> QED
    BY <1>1, <1>6, <2>2
<1> QED
  BY <1>7, <1>8

-----------------------------------------------------------------------------
(* Releases.                                                               *)

LEMMA Through ==
    ASSUME NEW a \in 0..99, NEW b \in 0..100, NEW c \in 0..100, a < b, b <= c
    PROVE  a < c
  OBVIOUS

(***************************************************************************)
(* Nobody who has the candidate loses it while it is rolled out further:   *)
(* the bucket of a subject does not depend on the percentage               *)
(* (assign_rollout_version, stable_percentage_bucket).                     *)
(***************************************************************************)
THEOREM WideningKeepsCandidates ==
    ASSUME NEW p \in RolloutPolicy, NEW q \in RolloutPolicy, NEW subject \in Subjects, NEW tier,
           Bucket \in Buckets,
           Widens(p, q), Selected(p, subject, tier)
    PROVE  /\ Selected(q, subject, tier)
           /\ Version(q, subject, tier) = Version(p, subject, tier)
<1>1. EnabledFor(q, tier)
  BY DEF Widens, Selected, EnabledFor
<1>2. InCanary(p, subject)
  BY DEF Widens, Selected
<1>3. Bucket[p.name][subject] \in 0..99
  BY DEF RolloutPolicy, Buckets
<1>4. InCanary(q, subject)
  <2>1. p.percentage \in 0..100 /\ q.percentage \in 0..100
    BY DEF RolloutPolicy
  <2>2. Bucket[p.name][subject] < p.percentage
    BY <1>2 DEF InCanary
  <2>3. p.percentage <= q.percentage /\ q.name = p.name
    BY DEF Widens
  <2>4. Bucket[p.name][subject] < q.percentage
    BY <1>3, <2>1, <2>2, <2>3, Through
  <2> QED
    BY <2>3, <2>4 DEF InCanary
<1>5. Selected(q, subject, tier)
  BY <1>1, <1>4 DEF Selected, Widens
<1> QED
  BY <1>5 DEF Version, Widens

(***************************************************************************)
(* A policy that is full serves the candidate to exactly those its tiers   *)
(* name, and a canary of 100 percent to the same: the step from one to the *)
(* other changes nothing for anybody (assign_rollout_version).             *)
(***************************************************************************)
THEOREM FullIsTheLastCanary ==
    ASSUME NEW p \in RolloutPolicy, NEW q \in RolloutPolicy, NEW subject \in Subjects, NEW tier,
           Bucket \in Buckets,
           q.name = p.name, q.tiers = p.tiers,
           p.status \in {"canary", "expanded"}, p.percentage = 100, q.status = "full"
    PROVE  Selected(p, subject, tier) <=> Selected(q, subject, tier)
<1>1. Bucket[p.name][subject] \in 0..99
  BY DEF RolloutPolicy, Buckets
<1>2. InCanary(p, subject)
  BY <1>1 DEF InCanary
<1>3. EnabledFor(p, tier) <=> EnabledFor(q, tier)
  BY DEF EnabledFor
<1> QED
  BY <1>2, <1>3 DEF Selected

(***************************************************************************)
(* No further signal makes the advice milder, however many come and in     *)
(* whatever order (build_rollback_decision).                               *)
(***************************************************************************)
THEOREM SignalsNeverSoften ==
    ASSUME NEW signals \in Seq(Severities), NEW more \in Seq(Severities)
    PROVE  /\ Harshness[Decision(signals)] <= Harshness[Decision(signals \o more)]
           /\ Harshness[Decision(more)] <= Harshness[Decision(signals \o more)]
<1> DEFINE all == signals \o more
<1>1. \A severity : Has(signals, severity) \/ Has(more, severity) => Has(all, severity)
  <2> SUFFICES ASSUME NEW severity, Has(signals, severity) \/ Has(more, severity)
               PROVE  Has(all, severity)
    OBVIOUS
  <2>1. CASE Has(signals, severity)
    <3>1. PICK i \in DOMAIN signals : signals[i] = severity
      BY <2>1 DEF Has
    <3>2. i \in DOMAIN all /\ all[i] = severity
      BY <3>1
    <3> QED
      BY <3>2 DEF Has
  <2>2. CASE Has(more, severity)
    <3>1. PICK i \in DOMAIN more : more[i] = severity
      BY <2>2 DEF Has
    <3>2. Len(signals) + i \in DOMAIN all /\ all[Len(signals) + i] = severity
      BY <3>1
    <3> QED
      BY <3>2 DEF Has
  <2> QED
    BY <2>1, <2>2
<1>2. Harshness["continue"] = 0 /\ Harshness["hold"] = 1 /\ Harshness["rollback"] = 2
  BY DEF Harshness
<1>3. CASE Has(all, "critical")
  <2>1. Decision(all) = "rollback"
    BY <1>3 DEF Decision
  <2>2. Decision(signals) \in {"continue", "hold", "rollback"}
        /\ Decision(more) \in {"continue", "hold", "rollback"}
    BY DEF Decision
  <2> QED
    BY <1>2, <2>1, <2>2
<1>4. CASE ~Has(all, "critical") /\ Has(all, "warning")
  <2>1. Decision(all) = "hold"
    BY <1>4 DEF Decision
  <2>2. Decision(signals) \in {"continue", "hold"} /\ Decision(more) \in {"continue", "hold"}
    BY <1>1, <1>4 DEF Decision
  <2> QED
    BY <1>2, <2>1, <2>2
<1>5. CASE ~Has(all, "critical") /\ ~Has(all, "warning")
  <2>1. Decision(signals) = "continue" /\ Decision(more) = "continue" /\ Decision(all) = "continue"
    BY <1>1, <1>5 DEF Decision
  <2> QED
    BY <1>2, <2>1
<1> QED
  BY <1>3, <1>4, <1>5

-----------------------------------------------------------------------------
(* KnowledgeUpdates.                                                       *)

LEMMA EntryOfNone ==
    ASSUME NEW document \in Document, NoDocument \notin [content: Contents, summary: Summaries]
    PROVE  Entry(document) # NoDocument \/ document = NoDocument
  BY DEF Entry, Document

(***************************************************************************)
(* A store that is up to date with the old folder is up to date with the   *)
(* new one once the plan from the one manifest to the other is carried     *)
(* out, forced or not: nothing deleted is left, nothing stale is kept and  *)
(* no source has the chunks of two versions (build_rag_data_update_plan).  *)
(***************************************************************************)
THEOREM PlanBringsUpToDate ==
    ASSUME NEW old \in Folder, NEW new \in Folder, NEW store, NEW force \in BOOLEAN,
           NoDocument \notin Document, NoDocument \notin [content: Contents, summary: Summaries],
           UpToDate(store, old)
    PROVE  UpToDate(Applied(store, UpdatePlan(Manifest(old), Manifest(new), force), new), new)
<1> DEFINE plan == UpdatePlan(Manifest(old), Manifest(new), force)
           after == Applied(store, plan, new)
<1> SUFFICES ASSUME NEW s \in Sources
             PROVE  IF new[s] = NoDocument THEN after[s] = {}
                    ELSE \E document \in Document :
                            after[s] = {document} /\ Entry(document) = Entry(new[s])
  BY DEF UpToDate
<1> DEFINE change == Change(Entry(old[s]), Entry(new[s]))
<1>1. plan[s] = IF force /\ change # "absent"
                THEN Item("reindex_collection", TRUE, TRUE) ELSE ItemFor(change)
  BY DEF UpdatePlan, Changes, Manifest
<1>2. after[s] = Stored(store[s], plan[s], new[s])
  BY DEF Applied
<1>3. old[s] \in Document \cup {NoDocument} /\ new[s] \in Document \cup {NoDocument}
  BY DEF Folder
<1>4. /\ old[s] = NoDocument <=> Entry(old[s]) = NoDocument
      /\ new[s] = NoDocument <=> Entry(new[s]) = NoDocument
  BY <1>3, EntryOfNone DEF Entry
<1>5. IF old[s] = NoDocument THEN store[s] = {}
      ELSE \E document \in Document : store[s] = {document} /\ Entry(document) = Entry(old[s])
  BY DEF UpToDate
<1>6. CASE old[s] = NoDocument /\ new[s] = NoDocument
  <2>1. plan[s].action = "skip"
    BY <1>1, <1>4, <1>6 DEF Change, ItemFor, Item
  <2>2. after[s] = {}
    BY <1>2, <1>5, <1>6, <2>1 DEF Stored
  <2> QED
    BY <1>6, <2>2
<1>7. CASE old[s] = NoDocument /\ new[s] # NoDocument
  <2>1. plan[s].action \in {"ingest_new", "reindex_collection"}
    BY <1>1, <1>4, <1>7 DEF Change, ItemFor, Item
  <2>2. after[s] = {new[s]}
    BY <1>2, <1>5, <1>7, <2>1 DEF Stored
  <2> QED
    BY <1>3, <1>7, <2>2
<1>8. CASE old[s] # NoDocument /\ new[s] = NoDocument
  <2>1. \/ plan[s].action = "delete_source"
        \/ plan[s].action = "reindex_collection" /\ plan[s].delete
    BY <1>1, <1>4, <1>8 DEF Change, ItemFor, Item
  <2>2. after[s] = {}
    BY <1>2, <1>8, <2>1 DEF Stored
  <2> QED
    BY <1>8, <2>2
<1>9. CASE old[s] # NoDocument /\ new[s] # NoDocument
  <2>1. CASE plan[s].action \in {"refresh_source", "reindex_collection"}
    <3>1. plan[s].delete
      BY <1>1, <1>4, <1>9, <2>1 DEF Change, ItemFor, Item
    <3>2. after[s] = {new[s]}
      BY <1>2, <1>9, <2>1, <3>1 DEF Stored
    <3> QED
      BY <1>3, <1>9, <3>2
  <2>2. CASE plan[s].action \notin {"refresh_source", "reindex_collection"}
    <3>1. plan[s].action = "skip" /\ Entry(old[s]) = Entry(new[s])
      BY <1>1, <1>4, <1>9, <2>2 DEF Change, ItemFor, Item
    <3>2. after[s] = store[s]
      BY <1>2, <3>1 DEF Stored
    <3> QED
      BY <1>5, <1>9, <3>1, <3>2
  <2> QED
    BY <2>1, <2>2
<1> QED
  BY <1>6, <1>7, <1>8, <1>9

(***************************************************************************)
(* Cached answers are not read after the chunks they were built from are   *)
(* gone: a source whose chunks the plan changes is among those whose       *)
(* cached answers it invalidates (cache_invalidation_sources).             *)
(***************************************************************************)
THEOREM ChangedIsInvalidated ==
    ASSUME NEW old, NEW new, NEW store, NEW force \in BOOLEAN, NEW s \in Sources,
           Applied(store, UpdatePlan(Manifest(old), Manifest(new), force), new)[s] # store[s]
    PROVE  s \in Invalidated(UpdatePlan(Manifest(old), Manifest(new), force))
<1> DEFINE plan == UpdatePlan(Manifest(old), Manifest(new), force)
           change == Change(Entry(old[s]), Entry(new[s]))
<1>1. Applied(store, plan, new)[s] = Stored(store[s], plan[s], new[s])
  BY DEF Applied
<1>2. plan[s].action # "skip"
  BY <1>1 DEF Stored
<1>3. plan[s] = IF force /\ change # "absent"
                THEN Item("reindex_collection", TRUE, TRUE) ELSE ItemFor(change)
  BY DEF UpdatePlan, Changes, Manifest
<1>4. plan[s].invalidate
  BY <1>2, <1>3 DEF ItemFor, Item
<1> QED
  BY <1>2, <1>4 DEF Invalidated

-----------------------------------------------------------------------------
(* AccessScopes.                                                           *)

LEMMA SingleHolds ==
    ASSUME NEW payload, NEW key, NEW text
    PROVE  (\A c \in Single(key, text) : Holds(c, payload))
             <=> text = NotGiven \/ payload[key] = text
<1> DEFINE c == [key |-> key, any |-> {text}]
<1>1. Holds(c, payload) <=> payload[key] = text
  BY DEF Holds
<1> HIDE DEF c
<1>2. Single(key, text) = IF text = NotGiven THEN {} ELSE {c}
  BY DEF Single, c
<1> QED
  BY <1>1, <1>2

LEMMA AnyHolds ==
    ASSUME NEW payload, NEW key, NEW texts
    PROVE  (\A c \in AnyOf(key, texts) : Holds(c, payload))
             <=> texts = {} \/ payload[key] \in texts
<1> DEFINE c == [key |-> key, any |-> texts]
<1>1. Holds(c, payload) <=> payload[key] \in texts
  BY DEF Holds
<1> HIDE DEF c
<1>2. AnyOf(key, texts) = IF texts = {} THEN {} ELSE {c}
  BY DEF AnyOf, c
<1> QED
  BY <1>1, <1>2

LEMMA NoneHolds ==
    ASSUME NEW payload, NEW key, NEW texts
    PROVE  (\A c \in AnyOf(key, texts) : ~Holds(c, payload))
             <=> payload[key] \notin texts
<1> DEFINE c == [key |-> key, any |-> texts]
<1>1. Holds(c, payload) <=> payload[key] \in texts
  BY DEF Holds
<1> HIDE DEF c
<1>2. AnyOf(key, texts) = IF texts = {} THEN {} ELSE {c}
  BY DEF AnyOf, c
<1> QED
  BY <1>1, <1>2

\* What is stored answers a condition as the metadata itself would.
LEMMA EntityHasTheText ==
    ASSUME NEW metadata \in Metadata, NEW key \in Keys, NEW texts \in SUBSET Texts,
           Blank \notin Texts, NotGiven \notin Texts
    PROVE  Entity(metadata)[key] \in texts <=> metadata[key] \in texts
  BY DEF Metadata, Entity

(***************************************************************************)
(* The filter a store is searched with lets through exactly the chunks     *)
(* whose metadata the scope admits: build_access_scope_filter and          *)
(* metadata_matches_access_scope, written apart, agree, also where a value *)
(* is missing and Milvus stores a blank text.                              *)
(***************************************************************************)
THEOREM FilterIsTheScope ==
    ASSUME NEW scope \in Scope, NEW metadata \in Metadata,
           Blank \notin Texts, NotGiven \notin Texts
    PROVE  Passes(FilterOf(scope), Entity(metadata)) <=> InScope(metadata, scope)
<1> DEFINE entity == Entity(metadata)
           singles == UNION {Single(k, scope.one[k]) : k \in SingleKeys}
           lists == UNION {AnyOf(k, scope.any[k]) : k \in ListKeys}
<1>1. Passes(FilterOf(scope), entity)
        <=> /\ \A c \in singles : Holds(c, entity)
            /\ \A c \in lists : Holds(c, entity)
            /\ \A c \in AnyOf("status", scope.excluded) : ~Holds(c, entity)
  <2>1. /\ FilterOf(scope).must = singles \cup lists
        /\ FilterOf(scope).should = {}
        /\ FilterOf(scope).mustNot = AnyOf("status", scope.excluded)
    BY DEF FilterOf
  <2> HIDE DEF entity, singles, lists
  <2> QED
    BY <2>1, Zenon DEF Passes
<1>2. (\A c \in singles : Holds(c, entity))
        <=> \A k \in SingleKeys : scope.one[k] \in {NotGiven, metadata[k]}
  <2>1. (\A c \in singles : Holds(c, entity))
          <=> \A k \in SingleKeys : \A c \in Single(k, scope.one[k]) : Holds(c, entity)
    <3> HIDE DEF entity
    <3> QED
      BY Zenon
  <2>2. ASSUME NEW k \in SingleKeys
        PROVE  (\A c \in Single(k, scope.one[k]) : Holds(c, entity))
                 <=> scope.one[k] \in {NotGiven, metadata[k]}
    <3>1. scope.one[k] \in Texts \cup {NotGiven} /\ k \in Keys
      BY DEF Scope, Keys
    <3>2. scope.one[k] \in Texts => (entity[k] = scope.one[k] <=> metadata[k] = scope.one[k])
      BY <3>1 DEF Entity, Metadata
    <3> HIDE DEF entity
    <3>3. (\A c \in Single(k, scope.one[k]) : Holds(c, entity))
            <=> scope.one[k] = NotGiven \/ entity[k] = scope.one[k]
      BY SingleHolds
    <3> QED
      BY <3>1, <3>2, <3>3
  <2> QED
    BY <2>1, <2>2
<1>3. (\A c \in lists : Holds(c, entity))
        <=> \A k \in ListKeys : scope.any[k] = {} \/ metadata[k] \in scope.any[k]
  <2>1. (\A c \in lists : Holds(c, entity))
          <=> \A k \in ListKeys : \A c \in AnyOf(k, scope.any[k]) : Holds(c, entity)
    <3> HIDE DEF entity
    <3> QED
      BY Zenon
  <2>2. ASSUME NEW k \in ListKeys
        PROVE  (\A c \in AnyOf(k, scope.any[k]) : Holds(c, entity))
                 <=> scope.any[k] = {} \/ metadata[k] \in scope.any[k]
    <3>1. scope.any[k] \in SUBSET Texts /\ k \in Keys
      BY DEF Scope, Keys
    <3> QED
      BY <3>1, AnyHolds, EntityHasTheText
  <2> QED
    BY <2>1, <2>2
<1>4. (\A c \in AnyOf("status", scope.excluded) : ~Holds(c, entity))
        <=> metadata["status"] \notin scope.excluded
  <2>1. scope.excluded \in SUBSET Texts /\ "status" \in Keys
    BY DEF Scope, Keys, ListKeys
  <2> QED
    BY <2>1, NoneHolds, EntityHasTheText
<1> HIDE DEF entity, singles, lists
<1> QED
  BY <1>1, <1>2, <1>3, <1>4 DEF entity, InScope

(***************************************************************************)
(* Whatever filter is combined with that of a scope, it only narrows the   *)
(* search (combine_payload_filters; build_payload_filter adds a caller's   *)
(* conditions the same way): a scope's filter has no "should" group for    *)
(* the other one to widen.                                                 *)
(***************************************************************************)
THEOREM ScopeAlwaysApplies ==
    ASSUME NEW scope \in Scope, NEW f \in PayloadFilter, NEW metadata \in Metadata,
           Blank \notin Texts, NotGiven \notin Texts
    PROVE  Passes(Combined(FilterOf(scope), f), Entity(metadata))
             <=> InScope(metadata, scope) /\ Passes(f, Entity(metadata))
<1>1. Passes(Combined(FilterOf(scope), f), Entity(metadata))
        <=> Passes(FilterOf(scope), Entity(metadata)) /\ Passes(f, Entity(metadata))
  BY DEF Passes, Combined, FilterOf
<1> QED
  BY <1>1, FilterIsTheScope

(***************************************************************************)
(* A route never reaches beyond the caller's scope: what the scope of a    *)
(* selected knowledge base admits, the caller's own scope admits too, as   *)
(* long as the base names its groups, domains and types (an empty list of  *)
(* a base would stand for "any", and with it the caller's restriction of   *)
(* that key would be gone).                                                *)
(***************************************************************************)
THEOREM RoutesNarrow ==
    ASSUME NEW bases \in SUBSET KnowledgeBase, NEW intent, NEW words,
           NEW scope \in Scope, NEW metadata \in Metadata, NotGiven \notin Scope,
           NEW base \in Candidates(bases, intent, words, scope), NamesItsLists(base),
           InScope(metadata, RouteScope(base, scope))
    PROVE  InScope(metadata, scope)
<1> DEFINE lists == [k \in RoutedKeys |-> Narrowed(base.lists[k], scope.any[k])]
           any == [k \in ListKeys |-> IF k \in RoutedKeys THEN lists[k] ELSE scope.any[k]]
<1>1. /\ RouteScope(base, scope) = [scope EXCEPT !.any = any]
      /\ \A k \in RoutedKeys : lists[k] # {}
  <2>1. RouteScope(base, scope) # NotGiven
    BY DEF Candidates
  <2> QED
    BY <2>1 DEF RouteScope, NamesItsLists
<1>2. [scope EXCEPT !.any = any] = [one |-> scope.one, any |-> any, excluded |-> scope.excluded]
  BY DEF Scope
<1>3. /\ \A k \in SingleKeys : scope.one[k] \in {NotGiven, metadata[k]}
      /\ metadata["status"] \notin scope.excluded
      /\ \A k \in ListKeys : any[k] = {} \/ metadata[k] \in any[k]
  BY <1>1, <1>2 DEF InScope
<1>4. ASSUME NEW k \in ListKeys
      PROVE  scope.any[k] = {} \/ metadata[k] \in scope.any[k]
  <2>1. CASE k \in RoutedKeys
    BY <1>1, <1>3, <2>1 DEF Narrowed
  <2>2. CASE k \notin RoutedKeys
    BY <1>3, <2>2
  <2> QED
    BY <2>1, <2>2
<1> QED
  BY <1>3, <1>4 DEF InScope

-----------------------------------------------------------------------------
(* Service levels.                                                         *)

\* Of several signals one has the highest severity.
LEMMA HighestIsHeld ==
    ASSUME NEW B, B \subseteq IncidentSignal, B # {}
    PROVE  /\ Highest(B) \in IncidentSeverity
           /\ \E s \in B : s.severity = Highest(B)
           /\ \A s \in B : SeverityRank[Highest(B)] <= SeverityRank[s.severity]
<1> DEFINE P == {s.severity : s \in B}
<1> DEFINE Top(p) == \A s \in B : SeverityRank[p] <= SeverityRank[s.severity]
<1>1. \A s \in B : s.severity \in IncidentSeverity
  BY DEF IncidentSignal
<1>2. \E p \in P : Top(p)
  <2>1. CASE \E s \in B : s.severity = "p0"
    <3>1. \A s \in B : SeverityRank["p0"] <= SeverityRank[s.severity]
      BY <1>1 DEF IncidentSeverity, SeverityRank
    <3> QED
      BY <2>1, <3>1
  <2>2. CASE (\A s \in B : s.severity # "p0") /\ \E s \in B : s.severity = "p1"
    <3>1. \A s \in B : SeverityRank["p1"] <= SeverityRank[s.severity]
      BY <1>1, <2>2 DEF IncidentSeverity, SeverityRank
    <3> QED
      BY <2>2, <3>1
  <2>3. CASE (\A s \in B : s.severity \notin {"p0", "p1"}) /\ \E s \in B : s.severity = "p2"
    <3>1. \A s \in B : SeverityRank["p2"] <= SeverityRank[s.severity]
      BY <1>1, <2>3 DEF IncidentSeverity, SeverityRank
    <3> QED
      BY <2>3, <3>1
  <2>4. CASE \A s \in B : s.severity \notin {"p0", "p1", "p2"}
    <3>1. \A s \in B : s.severity = "p3"
      BY <1>1, <2>4 DEF IncidentSeverity
    <3>2. \A s \in B : SeverityRank["p3"] <= SeverityRank[s.severity]
      BY <3>1 DEF SeverityRank
    <3> QED
      BY <3>1, <3>2
  <2> QED
    BY <2>1, <2>2, <2>3, <2>4
<1>3. Highest(B) = CHOOSE p \in P : Top(p)
  BY DEF Highest
<1>4. Highest(B) \in P /\ Top(Highest(B))
  <2> HIDE DEF P, Top
  <2> QED
    BY <1>2, <1>3
<1> QED
  BY <1>1, <1>4

(***************************************************************************)
(* classify_incident never calls for less when a signal is added to the    *)
(* others: neither a milder severity nor a calm signal hides a grave one.  *)
(***************************************************************************)
THEOREM MoreSignalsNeverCalm ==
    ASSUME NEW S, NEW T, T \subseteq IncidentSignal, S \subseteq T
    PROVE  Urgency[Incident(S)] <= Urgency[Incident(T)]
<1> DEFINE A == BreachedAmong(S)
           B == BreachedAmong(T)
<1>1. A \subseteq B /\ B \subseteq IncidentSignal
  BY DEF BreachedAmong
<1>2. Incident(S) = IF A = {} THEN "monitor" ELSE ActionFor(Highest(A))
  BY DEF Incident
<1>3. Incident(T) = IF B = {} THEN "monitor" ELSE ActionFor(Highest(B))
  BY DEF Incident
<1> HIDE DEF A, B
<1>4. \A p \in IncidentSeverity :
         ActionFor(p) \in DOMAIN Urgency /\ Urgency[ActionFor(p)] = 4 - SeverityRank[p]
  BY DEF IncidentSeverity, ActionFor, Urgency, SeverityRank
<1>5. Urgency["monitor"] = 0 /\ \A p \in IncidentSeverity : SeverityRank[p] \in 0..3
  BY DEF Urgency, SeverityRank, IncidentSeverity
<1>6. CASE A = {}
  <2>1. CASE B = {}
    BY <1>2, <1>3, <1>5, <1>6, <2>1
  <2>2. CASE B # {}
    <3>1. Highest(B) \in IncidentSeverity
      BY <1>1, <2>2, HighestIsHeld
    <3> QED
      BY <1>2, <1>3, <1>4, <1>5, <1>6, <2>2, <3>1
  <2> QED
    BY <2>1, <2>2
<1>7. CASE A # {}
  <2>1. B # {}
    BY <1>1, <1>7
  <2>2. Highest(B) \in IncidentSeverity
        /\ \A s \in B : SeverityRank[Highest(B)] <= SeverityRank[s.severity]
    BY <1>1, <2>1, HighestIsHeld
  <2>3. Highest(A) \in IncidentSeverity /\ \E s \in A : s.severity = Highest(A)
    BY <1>1, <1>7, HighestIsHeld
  <2>4. SeverityRank[Highest(B)] <= SeverityRank[Highest(A)]
    BY <1>1, <2>2, <2>3
  <2> QED
    BY <1>2, <1>3, <1>4, <1>5, <1>7, <2>1, <2>2, <2>3, <2>4
<1> QED
  BY <1>6, <1>7

(***************************************************************************)
(* build_ratio_error_budget_snapshot: an objective that is missed has      *)
(* spent its budget.  The converse holds up to equality, except for a      *)
(* target of one, whose budget counts as spent when nothing went wrong.    *)
(***************************************************************************)
THEOREM MissedMeansSpent ==
    ASSUME NEW o, NEW actual, o.target \in Nat, ValidObjective(o), Budgeted(o, actual)
    PROVE  /\ ~Meets(actual, o.comparator, o.target) => ErrorBudget(o, actual).exhausted
           /\ ErrorBudget(o, actual).exhausted /\ o.target < Whole => actual <= o.target
<1> DEFINE t == o.target
<1>a. actual \in 0..Whole /\ o.unit = "ratio"
  BY DEF Budgeted
<1>b. Whole = 1000
  BY DEF Whole
<1>c. t \in Nat /\ t <= Whole
  BY <1>a DEF ValidObjective
<1>d. o.comparator = ">="
  BY DEF Budgeted
<1>1. t \in 0..Whole /\ actual \in 0..Whole /\ Whole = 1000
  <2> HIDE DEF t
  <2> QED
    BY <1>a, <1>b, <1>c, SMT
<1>2. Meets(actual, o.comparator, o.target) <=> actual >= t
  BY <1>d DEF Meets
<1>3. ErrorBudget(o, actual).exhausted
        <=> (IF Whole - t > 0 THEN (Whole - actual) * 100 >= (Whole - t) * 100 ELSE TRUE)
  BY DEF ErrorBudget
<1> HIDE DEF t
<1> QED
  BY <1>1, <1>2, <1>3 DEF t

(***************************************************************************)
(* A check that is left unanswered never makes a release look better than  *)
(* an answer to it would, whatever the answer.                             *)
(***************************************************************************)
THEOREM SilenceNeverHelps ==
    ASSUME NEW checklist, NEW a \in Answers(checklist), NEW given \in SUBSET DOMAIN a
    PROVE  LET b == [c \in given |-> a[c]]
           IN  Readiness[ReleaseStatus(checklist, b)] <= Readiness[ReleaseStatus(checklist, a)]
<1> DEFINE b == [c \in given |-> a[c]]
<1>1. \A c : StatusOf(b, c) = StatusOf(a, c) \/ StatusOf(b, c) = "not_checked"
  BY DEF StatusOf
<1>2. ReleaseBlockers(checklist, a) \subseteq ReleaseBlockers(checklist, b)
  BY <1>1 DEF ReleaseBlockers
<1>3. ReadinessFindings(checklist, a) \subseteq ReadinessFindings(checklist, b)
  <2>1. \A c : StatusOf(a, c) # "passed" => StatusOf(b, c) # "passed"
    BY <1>1
  <2> QED
    BY <2>1 DEF ReadinessFindings
<1> HIDE DEF b
<1>4. Readiness[ReleaseStatus(checklist, b)] <= Readiness[ReleaseStatus(checklist, a)]
  BY <1>2, <1>3 DEF ReleaseStatus, Readiness
<1> QED
  BY <1>4 DEF b

(***************************************************************************)
(* A release is ready exactly when every check of the list has been        *)
(* answered with "passed", the ones that do not block included.            *)
(***************************************************************************)
THEOREM ReadyMeansAllPassed ==
    ASSUME NEW checklist, NEW a \in Answers(checklist)
    PROVE  ReleaseStatus(checklist, a) = "ready"
             <=> a = [c \in DOMAIN checklist |-> "passed"]
<1>1. PICK some \in SUBSET DOMAIN checklist : a \in [some -> AnswerStatus]
  BY DEF Answers
<1>2. ReleaseBlockers(checklist, a) \subseteq ReadinessFindings(checklist, a)
  BY DEF ReleaseBlockers, ReadinessFindings
<1>3. ReleaseStatus(checklist, a) = "ready" <=> ReadinessFindings(checklist, a) = {}
  BY <1>2 DEF ReleaseStatus
<1>4. ReadinessFindings(checklist, a) = {} <=> \A c \in DOMAIN checklist : StatusOf(a, c) = "passed"
  BY DEF ReadinessFindings
<1>5. ASSUME \A c \in DOMAIN checklist : StatusOf(a, c) = "passed"
      PROVE  a = [c \in DOMAIN checklist |-> "passed"]
  <2>1. \A c \in DOMAIN checklist : c \in DOMAIN a /\ a[c] = "passed"
    BY <1>5 DEF StatusOf
  <2>2. some = DOMAIN checklist
    BY <1>1, <2>1
  <2> QED
    BY <1>1, <2>1, <2>2
<1>6. ASSUME a = [c \in DOMAIN checklist |-> "passed"]
      PROVE  \A c \in DOMAIN checklist : StatusOf(a, c) = "passed"
  BY <1>6 DEF StatusOf
<1> QED
  BY <1>3, <1>4, <1>5, <1>6

-----------------------------------------------------------------------------
(* Evaluation runs and their snapshots.                                    *)

(***************************************************************************)
(* A run that is compared with its equal is not blocked, so a regression   *)
(* is reported against the run it came after and never again.              *)
(***************************************************************************)
THEOREM SameRunPasses ==
    ASSUME NEW s, IsSnapshot(s), NEW tolerance \in Nat
    PROVE  ~Blocks(s, s, tolerance)
<1>1. \A m \in CommonMetrics(s, s) : ~Regressed(s.metrics[m], s.metrics[m], tolerance)
  <2> TAKE m \in CommonMetrics(s, s)
  <2> DEFINE v == s.metrics[m].value
  <2>1. v \in Int
    BY DEF CommonMetrics, IsSnapshot
  <2>2. Regressed(s.metrics[m], s.metrics[m], tolerance)
          => v < v - tolerance \/ v > v + tolerance
    BY DEF Regressed
  <2> HIDE DEF v
  <2> QED
    BY <2>1, <2>2
<1>2. ~(s.failed > s.failed)
  BY DEF IsSnapshot
<1> QED
  BY <1>1, <1>2 DEF Blocks, RegressedMetrics

(***************************************************************************)
(* With the tolerance of zero that the overview uses, nothing is lost by   *)
(* comparing each run only with the one before it: a chain of runs that    *)
(* pass one by one also passes from its first run to its last.             *)
(***************************************************************************)
THEOREM NothingIsLostBetween ==
    ASSUME NEW a, NEW b, NEW c, IsSnapshot(a), IsSnapshot(b), IsSnapshot(c),
           Comparable(a, b, 0), Comparable(b, c, 0),
           DOMAIN a.metrics = DOMAIN b.metrics, DOMAIN b.metrics = DOMAIN c.metrics,
           ~Blocks(a, b, 0), ~Blocks(b, c, 0)
    PROVE  ~Blocks(a, c, 0)
<1>1. \A m \in CommonMetrics(a, c) : ~Regressed(a.metrics[m], c.metrics[m], 0)
  <2> TAKE m \in CommonMetrics(a, c)
  <2> DEFINE x == a.metrics[m]
             y == b.metrics[m]
             z == c.metrics[m]
  <2>1. m \in CommonMetrics(a, b) /\ m \in CommonMetrics(b, c)
    BY DEF CommonMetrics
  <2>2. x.value \in Int /\ y.value \in Int /\ z.value \in Int
    BY <2>1 DEF CommonMetrics, IsSnapshot
  <2>3. x.direction = y.direction /\ y.direction = z.direction
    BY <2>1 DEF Comparable
  <2>4. ~Regressed(x, y, 0) /\ ~Regressed(y, z, 0)
    BY <2>1 DEF Blocks, RegressedMetrics
  <2> HIDE DEF x, y, z
  <2>5. ~Regressed(x, z, 0)
    BY <2>2, <2>3, <2>4 DEF Regressed
  <2> QED
    BY <2>5 DEF x, z
<1>2. ~(c.failed > a.failed)
  <2>1. ~(b.failed > a.failed) /\ ~(c.failed > b.failed)
    BY DEF Blocks
  <2> QED
    BY <2>1 DEF IsSnapshot
<1>3. ~(a.passed /\ ~c.passed)
  BY DEF Blocks
<1> QED
  BY <1>1, <1>2, <1>3 DEF Blocks, RegressedMetrics

\* All the proofs below need of the scale of ratios.
LEMMA MillionIsPositive == Million \in Nat /\ Million > 0
BY SMT DEF Million

\* A ratio that is rounded is still at most one.
LEMMA RatioIsBounded ==
    ASSUME NEW part \in Nat, NEW all \in Nat, all > 0, part <= all
    PROVE  Ratio(part, all) \in 0..Million
<1> DEFINE n == 2 * part * Million + all
           d == 2 * all
           q == n \div d
<1>1. n \in Nat /\ d \in Nat /\ d > 0 /\ Million \in Nat
  BY SMT, MillionIsPositive
<1>2. n < d * Million + d
  BY SMT DEF Million
<1>3. q \in Nat /\ d * q <= n
  <2> HIDE DEF n, d
  <2> QED
    BY <1>1
<1>4. q <= Million
  <2> HIDE DEF n, d
  <2>1. d * q < d * (Million + 1)
    <3> HIDE DEF q
    <3> QED
      BY <1>1, <1>2, <1>3
  <2> HIDE DEF q
  <2> QED
    BY <1>1, <1>3, <2>1
<1>5. Ratio(part, all) = q
  BY DEF Ratio
<1> HIDE DEF q
<1> QED
  BY <1>1, <1>3, <1>4, <1>5

\* Rounding does not take anything from a ratio of one.
LEMMA WholeRatio ==
    ASSUME NEW all \in Nat, all > 0
    PROVE  Ratio(all, all) = Million
<1> DEFINE n == 2 * all * Million + all
           d == 2 * all
           q == n \div d
<1>1. n \in Nat /\ d \in Nat /\ d > 0 /\ Million \in Nat /\ n = d * Million + all /\ all < d
  BY SMT DEF Million
<1>2. q \in Nat /\ d * q <= n /\ n < d * q + d
  <2> HIDE DEF n, d
  <2> QED
    BY <1>1
<1>3. q = Million
  <2> HIDE DEF n, d, q
  <2>1. d * q < d * (Million + 1) /\ d * Million < d * (q + 1)
    BY <1>1, <1>2
  <2>2. q < Million + 1 /\ Million < q + 1
    BY <1>1, <1>2, <2>1
  <2> QED
    BY <1>1, <1>2, <2>2
<1> QED
  BY <1>3 DEF Ratio

(***************************************************************************)
(* A run of the agent suites in which no case failed is never blocked,     *)
(* whatever other run of them it is compared with: also when it evaluated  *)
(* fewer cases or fewer suites than the run before, of which the gate      *)
(* keeps no count.                                                         *)
(***************************************************************************)
THEOREM PassedRunPasses ==
    ASSUME NEW r \in Reports, NEW s \in Reports, NEW d, NEW e, NEW tolerance \in Nat,
           s.failing = 0
    PROVE  ~Blocks(RunSnapshot(r, d), RunSnapshot(s, e), tolerance)
<1> DEFINE a == RunSnapshot(r, d)
           b == RunSnapshot(s, e)
           names == {"suite_pass_rate", "check_pass_rate", "failed_suites", "failed_checks"}
<1>1. /\ s.failed = 0
      /\ r.suites \in Nat /\ r.suites > 0 /\ r.failing \in Nat /\ r.failing <= r.suites
      /\ r.evaluated \in Nat /\ r.evaluated > 0 /\ r.failed \in Nat /\ r.failed <= r.evaluated
      /\ s.suites \in Nat /\ s.suites > 0 /\ s.evaluated \in Nat /\ s.evaluated > 0
  BY DEF Reports
<1>2. Ratio(r.suites - r.failing, r.suites) \in 0..Million
  BY <1>1, RatioIsBounded
<1>3. Ratio(r.evaluated - r.failed, r.evaluated) \in 0..Million
  BY <1>1, RatioIsBounded
<1>4. Ratio(s.suites - s.failing, s.suites) = Million
  BY <1>1, WholeRatio
<1>5. Ratio(s.evaluated - s.failed, s.evaluated) = Million
  BY <1>1, WholeRatio
<1>6. CommonMetrics(a, b) = names
  BY DEF RunSnapshot, CommonMetrics
<1>7. ~Regressed(a.metrics["suite_pass_rate"], b.metrics["suite_pass_rate"], tolerance)
  BY <1>2, <1>4, MillionIsPositive DEF RunSnapshot, Regressed, RunMetric
<1>8. ~Regressed(a.metrics["check_pass_rate"], b.metrics["check_pass_rate"], tolerance)
  BY <1>3, <1>5, MillionIsPositive DEF RunSnapshot, Regressed, RunMetric
<1>9. ~Regressed(a.metrics["failed_suites"], b.metrics["failed_suites"], tolerance)
  BY <1>1, MillionIsPositive DEF RunSnapshot, Regressed, RunMetric
<1>10. ~Regressed(a.metrics["failed_checks"], b.metrics["failed_checks"], tolerance)
  BY <1>1, MillionIsPositive DEF RunSnapshot, Regressed, RunMetric
<1>11. RegressedMetrics(a, b, tolerance) = {}
  <2> HIDE DEF a, b
  <2> QED
    BY <1>6, <1>7, <1>8, <1>9, <1>10 DEF RegressedMetrics
<1>12. b.passed /\ b.failed = 0 /\ a.failed \in Nat
  BY <1>1 DEF RunSnapshot
<1> HIDE DEF a, b
<1>13. ~Blocks(a, b, tolerance)
  BY <1>11, <1>12 DEF Blocks
<1> QED
  BY <1>13 DEF a, b

(***************************************************************************)
(* SnapshotStore.save keeps at most its maximum, and the new snapshot is   *)
(* the latest one, which is all the next comparison reads.                 *)
(***************************************************************************)
THEOREM LatestIsKept ==
    ASSUME NEW Snapshots, NEW file \in SnapshotFile(Snapshots), file.readable,
           NEW new \in Snapshots, NEW max \in Nat, max > 0
    PROVE  LET after == SavedSnapshots(file, new, max) IN
           /\ after \in SnapshotFile(Snapshots) /\ after.readable
           /\ Len(after.list) \in 1..max
           /\ after.list[Len(after.list)] = new
<1> DEFINE long == Append(file.list, new)
           kept == Trimmed(long, max)
<1>1. file.list \in Seq(Snapshots) /\ file.readable = TRUE
  BY DEF SnapshotFile
<1>2. long \in Seq(Snapshots) /\ Len(long) \in Nat /\ Len(long) > 0 /\ long[Len(long)] = new
  BY <1>1
<1> HIDE DEF long
<1>3. kept \in Seq(Snapshots) /\ Len(kept) \in 1..max /\ kept[Len(kept)] = new
  <2>1. CASE Len(long) <= max
    BY <1>2, <2>1 DEF Trimmed
  <2>2. CASE Len(long) > max
    <3>0. ~(max = 0 \/ Len(long) <= max)
      BY <1>2, <2>2
    <3>1. kept = SubSeq(long, Len(long) - max + 1, Len(long))
      BY <3>0, Zenon DEF Trimmed
    <3>2. Len(kept) = max /\ kept \in Seq(Snapshots)
      BY <1>2, <2>2, <3>1
    <3>3. kept[max] = long[Len(long)]
      BY <1>2, <2>2, <3>1
    <3> QED
      BY <1>2, <3>2, <3>3
  <2> QED
    BY <1>2, <2>1, <2>2
<1> HIDE DEF kept
<1>4. SavedSnapshots(file, new, max) = [readable |-> TRUE, list |-> kept]
  BY DEF SavedSnapshots, kept, long
<1> QED
  BY <1>3, <1>4 DEF SnapshotFile

(***************************************************************************)
(* Each look at the overview saves what it shows, so a regression that was *)
(* shown is gone for the next look at the same run.                        *)
(***************************************************************************)
THEOREM ShownOnlyOnce ==
    ASSUME NEW Snapshots, NEW file \in SnapshotFile(Snapshots), NEW run \in Snapshots,
           IsSnapshot(run), NEW max \in Nat, max > 0
    PROVE  ~RegressionShown(SavedSnapshots(file, run, max), run)
<1> DEFINE after == SavedSnapshots(file, run, max)
<1>1. ~Blocks(run, run, 0)
  BY SameRunPasses
<1>2. CASE file.readable
  <2>1. after.list[Len(after.list)] = run
    BY <1>2, LatestIsKept
  <2> HIDE DEF after
  <2>2. ComparedWith(after, run) \subseteq {run}
    BY <2>1 DEF ComparedWith
  <2>3. ~RegressionShown(after, run)
    BY <1>1, <2>2 DEF RegressionShown
  <2> QED
    BY <2>3 DEF after
<1>3. CASE ~file.readable
  BY <1>3 DEF SavedSnapshots, RegressionShown, ComparedWith
<1> QED
  BY <1>2, <1>3

-----------------------------------------------------------------------------
(* Citations.                                                              *)

(***************************************************************************)
(* For an answer with citations to distinct chunks, the verification finds *)
(* nothing that blocks exactly when every citation leads to its chunk by   *)
(* its number, its id and its source.                                      *)
(***************************************************************************)
THEOREM ValidMeansTraceable ==
    ASSUME NEW C, NEW chunks \in Seq(C), DistinctChunks(chunks), chunks # << >>,
           NEW answer, answer.status = "answered", answer.citations # << >>, NEW policy
    PROVE  IsValidAnswer(answer, chunks, policy)
             <=> \A k \in DOMAIN answer.citations : LeadsToItsChunk(answer.citations[k], chunks)
<1> DEFINE found(k) == CitationFindings(k, answer, chunks, policy)
<1>1. AnsweredFindings(answer, chunks, policy) = {}
  BY DEF AnsweredFindings, Noted
<1>2. SupportFindings(answer, chunks, policy) \cap BlockingCodes = {}
  <2>1. SupportFindings(answer, chunks, policy) \subseteq {"RAG_ANSWER_LOW_TEXT_OVERLAP"}
    BY DEF SupportFindings, Noted
  <2> QED
    BY <2>1 DEF BlockingCodes
<1>3. IsValidAnswer(answer, chunks, policy)
        <=> \A k \in DOMAIN answer.citations : found(k) \cap BlockingCodes = {}
  <2>1. VerificationFindings(answer, chunks, policy)
          = AllCitationFindings(answer, chunks, policy) \cup SupportFindings(answer, chunks, policy)
    BY <1>1 DEF VerificationFindings
  <2>2. IsValidAnswer(answer, chunks, policy)
          <=> AllCitationFindings(answer, chunks, policy) \cap BlockingCodes = {}
    BY <1>2, <2>1 DEF IsValidAnswer
  <2> QED
    BY <2>2, Zenon DEF AllCitationFindings
<1>4. ASSUME NEW k \in DOMAIN answer.citations
      PROVE  found(k) \cap BlockingCodes = {} <=> LeadsToItsChunk(answer.citations[k], chunks)
  <2> DEFINE c == answer.citations[k]
             byId == ChunkById(c.id, chunks)
             meta == MetadataFindings(c, byId, answer.terms, policy)
  <2>1. found(k) \cap BlockingCodes = {}
          <=> /\ c.index \in DOMAIN chunks
              /\ Retrieved(c.id, chunks)
              /\ chunks[c.index].id = c.id
              /\ meta \cap BlockingCodes = {}
    <3>1. Noted("RAG_CITATION_DUPLICATE_CHUNK",
                policy.warnTwice /\ \E m \in DOMAIN answer.citations :
                                       m # k /\ answer.citations[m].id = c.id)
            \cap BlockingCodes = {}
      BY DEF Noted, BlockingCodes
    <3> HIDE DEF c, meta, byId
    <3>2. found(k) = Noted("RAG_CITATION_SOURCE_INDEX_OUT_OF_RANGE", c.index \notin DOMAIN chunks)
                      \cup Noted("RAG_CITATION_CHUNK_NOT_RETRIEVED", ~Retrieved(c.id, chunks))
                      \cup Noted("RAG_CITATION_SOURCE_INDEX_MISMATCH",
                                 IF c.index \in DOMAIN chunks THEN chunks[c.index].id # c.id ELSE FALSE)
                      \cup (IF Retrieved(c.id, chunks) THEN meta ELSE {})
                      \cup Noted("RAG_CITATION_DUPLICATE_CHUNK",
                                 policy.warnTwice /\ \E m \in DOMAIN answer.citations :
                                                        m # k /\ answer.citations[m].id = c.id)
      BY DEF CitationFindings, c, meta, byId
    <3> QED
      BY <3>1, <3>2 DEF Noted, BlockingCodes
  <2>2. meta \cap BlockingCodes = {} <=> c.source = SourceOf(byId)
    <3> HIDE DEF c, byId
    <3> QED
      BY DEF MetadataFindings, Noted, BlockingCodes
  <2>3. ASSUME c.index \in DOMAIN chunks, chunks[c.index].id = c.id
        PROVE  Retrieved(c.id, chunks) /\ byId = chunks[c.index]
    <3> HIDE DEF c
    <3>1. \A i \in DOMAIN chunks : chunks[i].id = c.id => i = c.index
      BY <2>3 DEF DistinctChunks
    <3>2. c.index <= c.index
      BY <2>3
    <3> QED
      BY <2>3, <3>1, <3>2 DEF Retrieved, ChunkById
  <2> QED
    BY <2>1, <2>2, <2>3 DEF LeadsToItsChunk
<1> QED
  BY <1>3, <1>4

(***************************************************************************)
(* The citations that ai-service builds itself always pass: all that the   *)
(* check at the end of enhanced_rag_answer can ever find is a low overlap  *)
(* of words.                                                               *)
(***************************************************************************)
THEOREM BuiltCitationsAreValid ==
    ASSUME NEW C, NEW chunks \in Seq(C), DistinctChunks(chunks), NEW terms, NEW policy
    PROVE  IsValidAnswer(AnswerFor(terms, chunks), chunks, policy)
<1>1. CASE chunks = << >>
  BY <1>1 DEF IsValidAnswer, VerificationFindings, AnswerFor, NoContextAnswer, NoContextFindings, Noted
<1>2. CASE chunks # << >>
  <2> DEFINE answer == GroundedAnswer(terms, chunks)
  <2>1. answer.status = "answered" /\ DOMAIN answer.citations = DOMAIN chunks
    BY DEF GroundedAnswer
  <2>2. answer.citations # << >>
    <3>1. 1 \in DOMAIN answer.citations
      BY <1>2, <2>1
    <3> QED
      BY <3>1
  <2>3. \A k \in DOMAIN answer.citations : LeadsToItsChunk(answer.citations[k], chunks)
    BY DEF GroundedAnswer, Citation, LeadsToItsChunk
  <2> HIDE DEF answer
  <2>4. IsValidAnswer(answer, chunks, policy)
    BY <1>2, <2>1, <2>2, <2>3, ValidMeansTraceable
  <2> QED
    BY <1>2, <2>4 DEF AnswerFor, answer
<1> QED
  BY <1>1, <1>2

-----------------------------------------------------------------------------
(* KnowledgeBase: the invariant.                                           *)

JobKinds == {"create", "update", "ingest", "delete", "add", "refresh"}

JobStages ==
    {"new", "write", "purge", "replace", "load", "sweep", "upsert", "unlink", "row", "ok", "failed"}

ChunkPoint == [doc : Docs, version : DocVersions]

Job ==
    [pc : JobStages, kind : JobKinds \cup {None}, version : DocVersions \cup {None},
     loaded : [Docs -> DocVersions \cup {None}], wait : BOOLEAN, targets : SUBSET Docs,
     todo : SUBSET Docs, purged : BOOLEAN, alone : SUBSET Docs]

Collections == [Slots -> ChunkPoint \cup {None}]

\* Nothing but chunks, files, rows and counts in their places.
PlacesOK ==
    /\ files \in [Docs -> DocVersions \cup {None}]
    /\ points \in Collections /\ behind \in Seq(Collections)
    /\ rows \in [Docs -> [group : Groups, chunks : Nat] \cup {None}]
    /\ faults \in Nat

\* Requests that end with the document as their own file has it.
Filing == {"create", "update", "ingest"}

\* What a stage says of its own request.
Ended == {"new", "ok", "failed"}

JobOK(j) ==
    /\ j.alone \subseteq j.targets /\ j.todo \subseteq j.targets
    /\ \A d \in Docs : j.loaded[d] # None => d \in j.targets
    /\ j.pc \in Ended => j.targets = {}
    /\ j.pc \notin Ended =>
          /\ j.pc \in {"write", "purge", "replace", "load", "unlink", "row"} =>
                j.kind \in Filing \cup {"delete"}
          /\ j.kind \in Filing \cup {"delete"} =>
                j.wait = TRUE /\ \E d \in Docs : j.targets = {d}
          /\ j.kind \in Filing =>
                /\ j.version \in DocVersions
                /\ j.pc \in {"write", "purge", "replace", "load", "upsert", "row"}
          /\ j.kind = "delete" => j.pc \in {"purge", "unlink", "row"}
          /\ j.kind = "add" => j.purged = FALSE
          /\ j.pc \in {"write", "purge"} => j.purged = FALSE
          /\ j.pc = "write" => j.kind = "update"
          /\ j.pc = "sweep" => j.kind = "refresh"
          /\ j.pc = "upsert" => j.kind \in Filing \cup {"add", "refresh"}
          /\ j.kind = "refresh" /\ j.pc = "upsert" => j.todo = {}
          /\ j.pc \in {"upsert", "row"} /\ j.kind \in Filing =>
                \A d \in j.targets : j.loaded[d] # None

\* What one request has alone no other one works on.
Exclusive == \A r, k \in Requests : r # k => jobs[r].alone \cap jobs[k].targets = {}

\* A chunk is where its version puts it.
WellPlaced(ps) == \A s \in Slots : ps[s] # None => s \in ChunkIds(ps[s].doc, ps[s].version)
PlaceInv == \A ps \in Shown : WellPlaced(ps)

KnowledgeTypes ==
    /\ PlacesOK
    /\ jobs \in [Requests -> Job]
    /\ \A r \in Requests : JobOK(jobs[r])
    /\ Exclusive
    /\ PlaceInv

\* No chunk of d is among ps; none is of another version than its file is
\* read as; every chunk of that version is in its place.
CleanIn(ps, d) == \A s \in Slots : ps[s] = None \/ ps[s].doc # d
CurrentIn(ps, d) == \A s \in Slots : ps[s] # None /\ ps[s].doc = d => ps[s].version = Loaded(d)
CompleteIn(ps, d) ==
    \A s \in Slots :
        files[d] # None /\ s \in ChunkIds(d, Loaded(d)) => ps[s] = Point(d, Loaded(d))

\* The same of all that searches may be answered from.
Clean(d) == \A ps \in Shown : CleanIn(ps, d)
Current(d) == \A ps \in Shown : CurrentIn(ps, d)
Complete(d) == \A ps \in Shown : CompleteIn(ps, d)

\* No two documents have names that make the same chunk ids.
BasesDiffer == \A d, e \in Docs : Base[d] = Base[e] => d = e

\* How far a request that has its document alone has brought the places into
\* agreement.
FiledOne(j, d) ==
    /\ j.kind \in {"create", "update"} /\ j.pc # "write" => files[d] = j.version
    /\ j.kind = "ingest" => files[d] # None /\ Loaded(d) = j.version
    /\ j.kind \in Filing /\ j.pc \in {"load", "upsert"} => Clean(d)
    /\ j.kind \in Filing /\ j.pc \in {"upsert", "row"} =>
          files[d] # None /\ j.loaded[d] = Loaded(d)
    /\ j.kind \in Filing /\ j.pc = "row" => Current(d) /\ (BasesDiffer => Complete(d))
    /\ j.kind = "delete" /\ j.pc \in {"unlink", "row"} /\ j.purged => Clean(d)
    /\ j.kind = "delete" /\ j.pc = "row" => files[d] = None
    /\ j.kind = "refresh" =>
          /\ files[d] # None /\ j.loaded[d] = Loaded(d)
          /\ d \notin j.todo => CleanIn(points, d) /\ (j.wait = TRUE => Clean(d))

FiledJob(j) == \A d \in j.alone : FiledOne(j, d)

FiledInv == \A r \in Requests : FiledJob(jobs[r])

\* Nobody works on a trusted document, and none of its chunks is of another
\* version than its file.
TrustInv ==
    /\ trusted \subseteq Docs
    /\ \A d \in trusted : Current(d) /\ \A r \in Requests : d \notin jobs[r].targets

-----------------------------------------------------------------------------
(* RagAnswers: the invariant.                                              *)

Hit == [id : Slots, point : ChunkPoint]

AnswerStages == {"new", "scroll", "search", "rerank", "compress", "generate", "answered", "failed"}

RagAnswer ==
    [pc : AnswerStages, route : {"ask", "policy", None}, group : Groups \cup {None},
     queries : Nat, index : SUBSET Hit, merged : SUBSET Hit, chunks : Seq(Hit),
     citations : Seq(Hit), quiet : SUBSET Docs]

DistinctIds(hits) == \A h, k \in hits : h.id = k.id => h = k
Injective(s) == \A i, j \in DOMAIN s : s[i].id = s[j].id => i = j
InGroup(hits, group) == \A h \in hits : Matches(h.point, group)

\* What is at hand for an answer names a chunk id once, and is what its
\* caller asked for.
AnswerOK(a) ==
    /\ IsFiniteSet(a.index) /\ DistinctIds(a.index)
    /\ IsFiniteSet(a.merged) /\ DistinctIds(a.merged)
    /\ Injective(a.chunks) /\ Injective(a.citations)
    /\ InGroup(a.merged, a.group)
    /\ InGroup(Chunks(a.chunks), a.group) /\ InGroup(Chunks(a.citations), a.group)
    /\ a.pc \in {"scroll", "search"} => a.queries # 0
    /\ a.pc # "answered" /\ a.route = "policy" => a.group = None

AsFiled(hits, quiet) ==
    \A h \in hits : h.point.doc \in quiet => h.point.version = Loaded(h.point.doc)

\* What is at hand for an answer of the documents nobody has worked on since
\* the question came is as their files have it.
QuietAnswer(a) ==
    /\ a.quiet \subseteq trusted
    /\ AsFiled(a.index, a.quiet) /\ AsFiled(a.merged, a.quiet)
    /\ AsFiled(Chunks(a.chunks), a.quiet)

AnswersInv ==
    /\ answers \in [Questions -> RagAnswer]
    /\ \A q \in Questions : AnswerOK(answers[q]) /\ QuietAnswer(answers[q])

-----------------------------------------------------------------------------
(* Types of the knowledge base.                                            *)

LEMMA NoJobIsOK ==
    /\ NoJob \in Job
    /\ \A pc \in {"new", "ok", "failed"} :
          [NoJob EXCEPT !.pc = pc] \in Job /\ JobOK([NoJob EXCEPT !.pc = pc])
<1> DEFINE NoneLoaded == [d \in Docs |-> None]
<1>1. NoneLoaded \in [Docs -> DocVersions \cup {None}]
  OBVIOUS
<1>2. \A d \in Docs : NoneLoaded[d] = None
  OBVIOUS
<1> HIDE DEF NoneLoaded
<1>3. NoJob = [pc |-> "new", kind |-> None, version |-> None, loaded |-> NoneLoaded,
               wait |-> TRUE, targets |-> {}, todo |-> {}, purged |-> FALSE, alone |-> {}]
  BY DEF NoJob, NoneLoaded
<1>4. NoJob \in Job
  BY <1>1, <1>3 DEF Job, JobStages
<1>5. ASSUME NEW pc \in {"new", "ok", "failed"}
      PROVE  [NoJob EXCEPT !.pc = pc] \in Job
  BY <1>3, <1>4 DEF Job, JobStages
<1>6. ASSUME NEW pc \in {"new", "ok", "failed"}
      PROVE  JobOK([NoJob EXCEPT !.pc = pc])
  BY <1>2, <1>3 DEF JobOK, Ended
<1> QED
  BY <1>4, <1>5, <1>6

\* A request goes from one stage to the next, or ends.
LEMMA ToMoves ==
    ASSUME NEW r \in Requests, NEW pc \in JobStages, jobs \in [Requests -> Job], To(r, pc)
    PROVE  /\ jobs' \in [Requests -> Job]
           /\ jobs'[r] = IF pc \in {"ok", "failed"} THEN [NoJob EXCEPT !.pc = pc]
                                                    ELSE [jobs[r] EXCEPT !.pc = pc]
           /\ jobs'[r].pc = pc
           /\ \A k \in Requests \ {r} : jobs'[k] = jobs[k]
<1> DEFINE next == IF pc \in {"ok", "failed"} THEN [NoJob EXCEPT !.pc = pc]
                                              ELSE [jobs[r] EXCEPT !.pc = pc]
<1>1. next \in Job /\ next.pc = pc
  <2>1. CASE pc \in {"ok", "failed"}
    BY <2>1, NoJobIsOK DEF Job
  <2>2. CASE pc \notin {"ok", "failed"}
    BY <2>2 DEF Job
  <2> QED
    BY <2>1, <2>2
<1>2. jobs' = [jobs EXCEPT ![r] = next]
  BY DEF To
<1> HIDE DEF next
<1>3. /\ jobs' \in [Requests -> Job] /\ jobs'[r] = next
      /\ \A k \in Requests \ {r} : jobs'[k] = jobs[k]
  BY <1>1, <1>2
<1> QED
  BY <1>1, <1>3 DEF next

\* What running requests work on.
Busy == UNION {jobs[k].targets : k \in Running}

BegunJob(j, pc, kind, waits, targets, version, loaded) ==
    /\ j.pc = pc /\ j.kind = kind /\ j.wait = waits /\ j.targets = targets
    /\ j.version = version /\ j.loaded = loaded /\ j.todo = targets /\ j.purged = FALSE

Begun(r) ==
    /\ jobs'[r].alone = jobs'[r].targets \ Busy
    /\ \A k \in Requests \ {r} : jobs'[k] = [jobs[k] EXCEPT !.alone = @ \ jobs'[r].targets]

\* A request begins, and from now on no other has its documents alone.
LEMMA BeginsMoves ==
    ASSUME KnowledgeTypes, NEW r \in Requests, NEW pc \in JobStages, NEW kind \in JobKinds,
           NEW waits \in BOOLEAN,
           NEW targets \in SUBSET Docs, NEW version \in DocVersions \cup {None},
           NEW loaded \in [Docs -> DocVersions \cup {None}],
           Begins(r, pc, kind, waits, targets, version, loaded)
    PROVE  /\ jobs' \in [Requests -> Job] /\ Begun(r)
           /\ BegunJob(jobs'[r], pc, kind, waits, targets, version, loaded)
           /\ jobs'[r].alone \subseteq targets
<1> DEFINE rest == targets \ Busy
           mine == [NoJob EXCEPT !.pc = pc, !.kind = kind, !.wait = waits, !.targets = targets,
                                 !.version = version, !.loaded = loaded, !.todo = targets,
                                 !.alone = rest]
<1>1. jobs' = [k \in Requests |-> IF k = r THEN mine
                                 ELSE [jobs[k] EXCEPT !.alone = @ \ targets]]
  BY DEF Begins, Busy
<1>2. rest \in SUBSET Docs
  OBVIOUS
<1> HIDE DEF rest
<1>3. mine \in Job /\ BegunJob(mine, pc, kind, waits, targets, version, loaded) /\ mine.alone = rest
  <2> USE NoJobIsOK DEF Job
  <2> DEFINE a == [NoJob EXCEPT !.pc = pc, !.kind = kind, !.wait = waits, !.targets = targets]
             b == [a EXCEPT !.version = version, !.loaded = loaded]
  <2>1. a \in Job /\ a.pc = pc /\ a.kind = kind /\ a.wait = waits /\ a.targets = targets /\ a.purged = FALSE
    <3>1. NoJob.purged = FALSE
      BY DEF NoJob
    <3> QED
      BY <3>1
  <2> HIDE DEF a
  <2>2. /\ b \in Job /\ b.pc = pc /\ b.kind = kind /\ b.wait = waits /\ b.targets = targets
        /\ b.purged = FALSE /\ b.version = version /\ b.loaded = loaded
    BY <2>1
  <2> HIDE DEF b
  <2>3. mine = [b EXCEPT !.todo = targets, !.alone = rest]
    BY DEF a, b
  <2> HIDE DEF mine
  <2> QED
    BY <1>2, <2>2, <2>3 DEF BegunJob
<1>4. ASSUME NEW k \in Requests
      PROVE  [jobs[k] EXCEPT !.alone = @ \ targets] \in Job
  <2>1. jobs[k] \in Job
    BY DEF KnowledgeTypes
  <2> QED
    BY <2>1 DEF Job
<1> HIDE DEF mine
<1>5. /\ jobs' \in [Requests -> Job] /\ jobs'[r] = mine
      /\ \A k \in Requests \ {r} : jobs'[k] = [jobs[k] EXCEPT !.alone = @ \ targets]
  BY <1>1, <1>3, <1>4
<1>6. mine.targets = targets
  BY <1>3 DEF BegunJob
<1>7. Begun(r) /\ jobs'[r].alone \subseteq targets
  BY <1>3, <1>5, <1>6 DEF Begun, rest
<1> QED
  BY <1>3, <1>5, <1>7

LEMMA TheOnly ==
    ASSUME NEW r \in Requests, NEW d, jobs[r].targets = {d}
    PROVE  Only(r) = d
BY DEF Only

LEMMA WithoutPoints ==
    ASSUME NEW ps \in Collections, NEW d
    PROVE  /\ Without(ps, d) \in Collections
           /\ \A s \in Slots : Without(ps, d)[s] = IF ps[s] # None /\ ps[s].doc = d
                                                  THEN None ELSE ps[s]
BY DEF Without, Collections

\* What an upsert puts into a chunk id is a chunk of a loaded document.
LEMMA PlacedPoints ==
    ASSUME NEW ps \in Collections,
           NEW loaded \in [Docs -> DocVersions \cup {None}]
    PROVE  /\ Placed(ps, loaded) \in Collections
           /\ \A s \in Slots :
                 LET owners == {d \in Docs : loaded[d] # None /\ s \in ChunkIds(d, loaded[d])}
                 IN  IF owners = {} THEN Placed(ps, loaded)[s] = ps[s]
                     ELSE \E d \in owners : Placed(ps, loaded)[s] = Point(d, loaded[d])
<1> DEFINE owners(s) == {d \in Docs : loaded[d] # None /\ s \in ChunkIds(d, loaded[d])}
           put(s) == IF owners(s) = {} THEN ps[s]
                     ELSE LET d == CHOOSE d \in owners(s) : TRUE IN Point(d, loaded[d])
<1>1. Placed(ps, loaded) = [s \in Slots |-> put(s)]
  BY DEF Placed
<1>2. ASSUME NEW s \in Slots
      PROVE  /\ IF owners(s) = {} THEN put(s) = ps[s]
                ELSE \E d \in owners(s) : put(s) = Point(d, loaded[d])
             /\ put(s) \in ChunkPoint \cup {None}
  <2>1. CASE owners(s) = {}
    BY <2>1 DEF Collections
  <2>2. CASE owners(s) # {}
    <3> DEFINE d == CHOOSE d \in owners(s) : TRUE
    <3>1. d \in owners(s)
      BY <2>2
    <3>2. put(s) = Point(d, loaded[d])
      BY <2>2
    <3> HIDE DEF d
    <3>3. Point(d, loaded[d]) \in ChunkPoint
      BY <3>1 DEF Point, ChunkPoint
    <3> QED
      BY <2>2, <3>1, <3>2, <3>3
  <2> QED
    BY <2>1, <2>2 DEF Collections
<1> HIDE DEF put
<1>3. \A s \in Slots : Placed(ps, loaded)[s] = put(s)
  BY <1>1
<1> QED
  BY <1>1, <1>2, <1>3 DEF Collections

-----------------------------------------------------------------------------
(* What a step of a request does.                                          *)

\* The file of d stays as it is, no chunk of d is added, and none is lost
\* unless another document makes the same chunk ids.
Untouched(d) ==
    /\ files'[d] = files[d]
    /\ \A s \in Slots : points'[s] # None /\ points'[s].doc = d => points'[s] = points[s]
    /\ BasesDiffer =>
          \A s \in Slots : points[s] # None /\ points[s].doc = d => points'[s] = points[s]

\* Qdrant takes an operation up, with or without its caller waiting.
Queues == behind' \in {<<>>, behind, Append(behind, points)}

Continues(r) ==
    /\ jobs'[r].targets \subseteq jobs[r].targets
    /\ jobs'[r].alone \subseteq jobs[r].alone
    /\ \A k \in Requests \ {r} : jobs'[k] = jobs[k]

\* Only the places and documents of the request itself are changed.
Does(r) ==
    /\ PlacesOK' /\ PlaceInv' /\ Queues
    /\ jobs' \in [Requests -> Job] /\ JobOK(jobs'[r])
    /\ Continues(r) \/ Begun(r)
    /\ \A d \in Docs : d \notin jobs[r].targets \cup jobs'[r].targets => Untouched(d)
    /\ FiledJob(jobs[r]) => FiledJob(jobs[r])'

\* What searches may be answered from is what it was, or what the operation
\* has made of it; and that alone once a caller has waited.
LEMMA ShownMoves ==
    ASSUME PlacesOK, points' \in Collections, Queues
    PROVE  /\ behind' \in Seq(Collections)
           /\ points \in Shown /\ points' \in Shown'
           /\ Shown' \subseteq Shown \cup {points'}
           /\ behind' = <<>> => Shown' = {points'}
<1>1. points \in Collections /\ behind \in Seq(Collections)
  BY DEF PlacesOK
<1>2. CASE behind' = <<>>
  BY <1>2 DEF Shown
<1>3. CASE behind' = behind
  BY <1>1, <1>3 DEF Shown
<1>4. CASE behind' = Append(behind, points)
  <2>1. /\ behind' \in Seq(Collections) /\ behind' # <<>>
        /\ \A i \in DOMAIN behind' :
              behind'[i] = points \/ (i \in DOMAIN behind /\ behind'[i] = behind[i])
    BY <1>1, <1>4
  <2> QED
    BY <2>1 DEF Shown
<1> QED
  BY <1>2, <1>3, <1>4 DEF Queues, Shown

LEMMA SamePlaces ==
    ASSUME PlacesOK, PlaceInv, UNCHANGED <<points, behind>>
    PROVE  /\ PlaceInv' /\ Queues /\ Shown' = Shown
           /\ \A d \in Docs : files'[d] = files[d] => Untouched(d)
<1>1. Shown' = Shown
  BY DEF Shown
<1>2. PlaceInv'
  BY <1>1 DEF PlaceInv, WellPlaced
<1> QED
  BY <1>1, <1>2 DEF Untouched, Queues

LEMMA StillWellPlaced ==
    ASSUME PlacesOK, PlaceInv, points' \in Collections, Queues, WellPlaced(points')
    PROVE  PlaceInv'
<1>1. \A ps \in Shown' : WellPlaced(ps)
  BY ShownMoves DEF PlaceInv
<1>2. \A ps : WellPlaced(ps)' = WellPlaced(ps)
  BY DEF WellPlaced
<1> QED
  BY <1>1, <1>2 DEF PlaceInv

\* A deletion of the chunks of d.
LEMMA WithoutKeeps ==
    ASSUME PlacesOK, PlaceInv, NEW d, points' \in {points, Without(points, d)}, Queues
    PROVE  /\ points' \in Collections
           /\ PlaceInv'
           /\ \A s \in Slots : points'[s] # None => points'[s] = points[s]
           /\ \A s \in Slots : points[s] # None /\ points[s].doc # d => points'[s] = points[s]
           /\ points' = Without(points, d) => CleanIn(points', d)
<1>1. points \in Collections /\ WellPlaced(points)
  BY DEF PlacesOK, PlaceInv, Shown
<1>2. CASE points' = points
  <2>1. Without(points, d) = points => CleanIn(points, d)
    BY <1>1, WithoutPoints DEF CleanIn
  <2> QED
    BY <1>1, <1>2, <2>1, StillWellPlaced
<1>3. CASE points' = Without(points, d)
  <2>1. /\ points' \in Collections
        /\ \A s \in Slots : points'[s] = IF points[s] # None /\ points[s].doc = d
                                         THEN None ELSE points[s]
    BY <1>1, <1>3, WithoutPoints
  <2>2. WellPlaced(points') /\ CleanIn(points', d)
    BY <1>1, <2>1 DEF WellPlaced, CleanIn
  <2> QED
    BY <2>1, <2>2, StillWellPlaced
<1> QED
  BY <1>2, <1>3

\* An upsert of what was loaded.
LEMMA PlacedKeeps ==
    ASSUME PlacesOK, PlaceInv, NEW loaded \in [Docs -> DocVersions \cup {None}],
           points' \in {points, Placed(points, loaded)}, Queues
    PROVE  /\ points' \in Collections
           /\ PlaceInv'
           /\ \A s \in Slots :
                 points'[s] # None =>
                     \/ points'[s] = points[s]
                     \/ /\ loaded[points'[s].doc] # None
                        /\ points'[s].version = loaded[points'[s].doc]
           /\ BasesDiffer =>
                 \A e \in Docs, s \in Slots :
                     loaded[e] = None /\ points[s] # None /\ points[s].doc = e =>
                         points'[s] = points[s]
<1>1. points \in Collections /\ WellPlaced(points)
  BY DEF PlacesOK, PlaceInv, Shown
<1>2. CASE points' = points
  BY <1>1, <1>2, StillWellPlaced
<1>3. CASE points' = Placed(points, loaded)
  <2>1. points' \in Collections
    BY <1>1, <1>3, PlacedPoints
  <2>2. ASSUME NEW s \in Slots, points'[s] # points[s]
        PROVE  \E d \in Docs : /\ loaded[d] # None /\ s \in ChunkIds(d, loaded[d])
                               /\ points'[s] = Point(d, loaded[d])
    BY <1>1, <1>3, <2>2, PlacedPoints
  <2>3. ASSUME NEW s \in Slots, points'[s] # points[s]
        PROVE  /\ loaded[points'[s].doc] # None
               /\ points'[s].version = loaded[points'[s].doc]
               /\ s \in ChunkIds(points'[s].doc, points'[s].version)
    <3>1. PICK d \in Docs : /\ loaded[d] # None /\ s \in ChunkIds(d, loaded[d])
                            /\ points'[s] = Point(d, loaded[d])
      BY <2>2, <2>3
    <3>2. points'[s].doc = d /\ points'[s].version = loaded[d]
      BY <3>1 DEF Point
    <3> QED
      BY <3>1, <3>2
  <2>4. ASSUME BasesDiffer, NEW e \in Docs, NEW s \in Slots,
               loaded[e] = None, points[s] # None, points[s].doc = e
        PROVE  points'[s] = points[s]
    <3>1. SUFFICES ASSUME points'[s] # points[s]
                   PROVE  FALSE
      OBVIOUS
    <3>2. PICK d \in Docs : loaded[d] # None /\ s \in ChunkIds(d, loaded[d])
      BY <2>2, <3>1
    <3>3. s[1] = Base[d]
      BY <3>2 DEF ChunkIds
    <3>4. s[1] = Base[e]
      BY <1>1, <2>4 DEF WellPlaced, ChunkIds
    <3> QED
      BY <2>4, <3>2, <3>3, <3>4 DEF BasesDiffer
  <2>5. WellPlaced(points')
    BY <1>1, <2>3 DEF WellPlaced
  <2> QED
    BY <2>1, <2>3, <2>4, <2>5, StillWellPlaced
<1> QED
  BY <1>2, <1>3

LEMMA CreateDoes ==
    ASSUME KnowledgeTypes, NEW r \in Requests, NEW d \in Docs, NEW v \in DocVersions,
           Create(r, d, v)
    PROVE  Does(r)
<1>1. NoJob.loaded = [e \in Docs |-> None] /\ NoJob.loaded \in [Docs -> DocVersions \cup {None}]
  BY DEF NoJob
<1>2. Begins(r, "purge", "create", TRUE, {d}, v, NoJob.loaded)
  BY DEF Create
<1>3. /\ jobs' \in [Requests -> Job] /\ Begun(r)
      /\ BegunJob(jobs'[r], "purge", "create", TRUE, {d}, v, NoJob.loaded)
      /\ jobs'[r].alone \subseteq {d}
  <2>1. "purge" \in JobStages /\ "create" \in JobKinds
    BY DEF JobStages, JobKinds
  <2>2. {d} \in SUBSET Docs /\ v \in DocVersions \cup {None}
    OBVIOUS
  <2> QED
    BY <1>1, <1>2, <2>1, <2>2, BeginsMoves
<1>4. /\ PlacesOK' /\ files'[d] = v
      /\ \A e \in Docs \ {d} : files'[e] = files[e]
  BY DEF Create, KnowledgeTypes, PlacesOK
<1>5. PlaceInv' /\ Queues /\ \A e \in Docs \ {d} : Untouched(e)
  BY <1>4, SamePlaces DEF Create, KnowledgeTypes
<1>6. JobOK(jobs'[r])
  BY <1>1, <1>3 DEF BegunJob, JobOK, Filing, Ended
<1>7. FiledJob(jobs[r])'
  BY <1>3, <1>4 DEF BegunJob, FiledJob, FiledOne, Filing
<1> QED
  BY <1>3, <1>4, <1>5, <1>6, <1>7 DEF Does, BegunJob

LEMMA ReadIsVersion ==
    /\ \A v \in DocVersions : Read(v) \in DocVersions
    /\ PlacesOK => \A d \in Docs : /\ Loaded(d) \in DocVersions \cup {None}
                                  /\ files[d] # None <=> Loaded(d) # None
<1>1. ASSUME NEW v \in DocVersions
      PROVE  Read(v) \in DocVersions
  <2>1. v.body \in Bodies /\ v.group \in Groups /\ Named[v.body] \in Groups \cup {None}
    BY KnowledgeBaseAssumption DEF DocVersions
  <2> QED
    BY <2>1 DEF Read, DocVersions
<1> QED
  BY <1>1, KnowledgeBaseAssumption DEF Loaded, PlacesOK

LEMMA MergedIsVersion ==
    ASSUME NEW old \in DocVersions, NEW body \in Bodies \cup {None},
           NEW group \in Groups \cup {None}
    PROVE  Merged(old, body, group) \in DocVersions
<1>1. (IF body = None THEN Stripped[old.body] ELSE body) \in Bodies
  BY KnowledgeBaseAssumption DEF DocVersions
<1>2. (IF group = None THEN old.group ELSE group) \in Groups
  BY DEF DocVersions
<1> QED
  BY <1>1, <1>2 DEF Merged, DocVersions

\* A request that begins without changing a place.
LEMMA QuietBeginDoes ==
    ASSUME KnowledgeTypes, NEW r \in Requests, NEW pc \in JobStages, NEW kind \in JobKinds,
           NEW waits \in BOOLEAN,
           NEW targets \in SUBSET Docs, NEW version \in DocVersions \cup {None},
           NEW loaded \in [Docs -> DocVersions \cup {None}],
           Begins(r, pc, kind, waits, targets, version, loaded),
           UNCHANGED <<files, points, behind, rows, faults>>
    PROVE  /\ JobOK(jobs'[r]) /\ (FiledJob(jobs[r]) => FiledJob(jobs[r])') => Does(r)
           /\ BegunJob(jobs'[r], pc, kind, waits, targets, version, loaded)
           /\ jobs'[r].alone \subseteq targets
<1>1. /\ jobs' \in [Requests -> Job] /\ Begun(r)
      /\ BegunJob(jobs'[r], pc, kind, waits, targets, version, loaded)
      /\ jobs'[r].alone \subseteq targets
  BY BeginsMoves
<1>2. PlacesOK'
  BY DEF KnowledgeTypes, PlacesOK
<1>3. PlaceInv' /\ Queues /\ \A e \in Docs : Untouched(e)
  BY SamePlaces DEF KnowledgeTypes
<1> QED
  BY <1>1, <1>2, <1>3 DEF Does

LEMMA UpdateDoes ==
    ASSUME KnowledgeTypes, NEW r \in Requests, NEW d \in Docs,
           NEW body \in Bodies \cup {None}, NEW group \in Groups \cup {None},
           Update(r, d, body, group)
    PROVE  Does(r)
<1> DEFINE v == Merged(Read(files[d]), body, group)
<1>1. NoJob.loaded = [e \in Docs |-> None] /\ NoJob.loaded \in [Docs -> DocVersions \cup {None}]
  BY DEF NoJob
<1>2. v \in DocVersions
  <2>1. files[d] \in DocVersions
    BY DEF Update, KnowledgeTypes, PlacesOK
  <2> QED
    BY <2>1, ReadIsVersion, MergedIsVersion
<1>3. Begins(r, "write", "update", TRUE, {d}, v, NoJob.loaded) /\ UNCHANGED <<files, points, behind, rows, faults>>
  BY DEF Update
<1> HIDE DEF v
<1>4. "write" \in JobStages /\ "update" \in JobKinds
  BY DEF JobStages, JobKinds
<1>8. {d} \in SUBSET Docs /\ v \in DocVersions \cup {None}
  BY <1>2
<1>5. /\ JobOK(jobs'[r]) /\ (FiledJob(jobs[r]) => FiledJob(jobs[r])') => Does(r)
      /\ BegunJob(jobs'[r], "write", "update", TRUE, {d}, v, NoJob.loaded)
      /\ jobs'[r].alone \subseteq {d}
  BY <1>1, <1>3, <1>4, <1>8, QuietBeginDoes
<1>6. JobOK(jobs'[r])
  BY <1>1, <1>2, <1>5 DEF BegunJob, JobOK, Filing, Ended
<1>7. FiledJob(jobs[r])'
  BY <1>5 DEF BegunJob, FiledJob, FiledOne, Filing
<1> QED
  BY <1>5, <1>6, <1>7

LEMMA IngestDoes ==
    ASSUME KnowledgeTypes, NEW r \in Requests, NEW d \in Docs, Ingest(r, d)
    PROVE  Does(r)
<1>1. NoJob.loaded = [e \in Docs |-> None] /\ NoJob.loaded \in [Docs -> DocVersions \cup {None}]
  BY DEF NoJob
<1> DEFINE v == Read(files[d])
<1>2. v \in DocVersions /\ files[d] # None /\ v = Loaded(d)
  BY ReadIsVersion DEF Ingest, KnowledgeTypes, PlacesOK, Loaded
<1>3. /\ Begins(r, "purge", "ingest", TRUE, {d}, v, NoJob.loaded)
      /\ UNCHANGED <<files, points, behind, rows, faults>>
  BY DEF Ingest
<1> HIDE DEF v
<1>4. "purge" \in JobStages /\ "ingest" \in JobKinds
  BY DEF JobStages, JobKinds
<1>8. {d} \in SUBSET Docs /\ v \in DocVersions \cup {None}
  BY <1>2
<1>5. /\ JobOK(jobs'[r]) /\ (FiledJob(jobs[r]) => FiledJob(jobs[r])') => Does(r)
      /\ BegunJob(jobs'[r], "purge", "ingest", TRUE, {d}, v, NoJob.loaded)
      /\ jobs'[r].alone \subseteq {d}
  BY <1>1, <1>3, <1>4, <1>8, QuietBeginDoes
<1>6. JobOK(jobs'[r])
  BY <1>1, <1>2, <1>5 DEF BegunJob, JobOK, Filing, Ended
<1>7. FiledJob(jobs[r])'
  BY <1>2, <1>3, <1>5 DEF BegunJob, FiledJob, FiledOne, Filing, Loaded
<1> QED
  BY <1>5, <1>6, <1>7

LEMMA DeleteDoes ==
    ASSUME KnowledgeTypes, NEW r \in Requests, NEW d \in Docs, Delete(r, d)
    PROVE  Does(r)
<1> DEFINE pc == IF files[d] = None THEN "row" ELSE "purge"
<1>1. NoJob.loaded = [e \in Docs |-> None] /\ NoJob.loaded \in [Docs -> DocVersions \cup {None}]
  BY DEF NoJob
<1>2. Begins(r, pc, "delete", TRUE, {d}, None, NoJob.loaded) /\ UNCHANGED <<files, points, behind, rows, faults>>
  BY DEF Delete
<1>3. pc \in JobStages /\ "delete" \in JobKinds
  BY DEF JobStages, JobKinds
<1>8. {d} \in SUBSET Docs /\ None \in DocVersions \cup {None}
  OBVIOUS
<1>4. pc \in {"row", "purge"} /\ (pc = "row" => files[d] = None)
  OBVIOUS
<1> HIDE DEF pc
<1>5. /\ JobOK(jobs'[r]) /\ (FiledJob(jobs[r]) => FiledJob(jobs[r])') => Does(r)
      /\ BegunJob(jobs'[r], pc, "delete", TRUE, {d}, None, NoJob.loaded)
      /\ jobs'[r].alone \subseteq {d}
  BY <1>1, <1>2, <1>3, <1>8, QuietBeginDoes
<1>6. JobOK(jobs'[r])
  BY <1>1, <1>4, <1>5 DEF BegunJob, JobOK, Filing, Ended
<1>7. FiledJob(jobs[r])'
  BY <1>2, <1>4, <1>5 DEF BegunJob, FiledJob, FiledOne, Filing
<1> QED
  BY <1>5, <1>6, <1>7

LEMMA DirectoryDoes ==
    ASSUME KnowledgeTypes, NEW r \in Requests, NEW kind \in {"add", "refresh"},
           NEW waits \in BOOLEAN, Directory(r, kind, waits)
    PROVE  Does(r)
<1> DEFINE present == {d \in Docs : files[d] # None}
           pc == IF kind = "refresh" THEN "sweep" ELSE "upsert"
           loaded == [d \in Docs |-> Loaded(d)]
<1>1. /\ loaded \in [Docs -> DocVersions \cup {None}]
      /\ \A d \in Docs : loaded[d] = Loaded(d) /\ (loaded[d] # None <=> files[d] # None)
  BY ReadIsVersion DEF KnowledgeTypes
<1>2. Begins(r, pc, kind, waits, present, None, loaded) /\ UNCHANGED <<files, points, behind, rows, faults>>
  BY DEF Directory
<1>3. pc \in JobStages /\ kind \in JobKinds
  BY DEF JobStages, JobKinds
<1>4. present \in SUBSET Docs /\ \A d \in Docs : files[d] # None <=> d \in present
  OBVIOUS
<1> HIDE DEF present, loaded
<1>5. (kind = "refresh" /\ pc = "sweep") \/ (kind = "add" /\ pc = "upsert")
  <2>1. kind = "refresh" => pc = "sweep"
    OBVIOUS
  <2>2. kind = "add" => pc = "upsert"
    OBVIOUS
  <2> QED
    BY <2>1, <2>2
<1> HIDE DEF pc
<1>6. /\ JobOK(jobs'[r]) /\ (FiledJob(jobs[r]) => FiledJob(jobs[r])') => Does(r)
      /\ BegunJob(jobs'[r], pc, kind, waits, present, None, loaded)
      /\ jobs'[r].alone \subseteq present
  BY <1>1, <1>2, <1>3, <1>4, QuietBeginDoes
<1>7. JobOK(jobs'[r])
  BY <1>1, <1>4, <1>5, <1>6 DEF BegunJob, JobOK, Filing, Ended
<1>8. FiledJob(jobs[r])'
  BY <1>1, <1>2, <1>4, <1>5, <1>6 DEF BegunJob, FiledJob, FiledOne, Filing, Loaded
<1> QED
  BY <1>6, <1>7, <1>8

\* A request that goes on, or ends, without changing a place.
LEMMA ContinuingDoes ==
    ASSUME KnowledgeTypes, NEW r \in Requests, NEW pc \in JobStages, To(r, pc)
    PROVE  /\ jobs' \in [Requests -> Job] /\ Continues(r)
           /\ jobs'[r] = IF pc \in {"ok", "failed"} THEN [NoJob EXCEPT !.pc = pc]
                                                    ELSE [jobs[r] EXCEPT !.pc = pc]
<1>1. jobs \in [Requests -> Job]
  BY DEF KnowledgeTypes
<1>2. /\ jobs' \in [Requests -> Job]
      /\ jobs'[r] = IF pc \in {"ok", "failed"} THEN [NoJob EXCEPT !.pc = pc]
                                               ELSE [jobs[r] EXCEPT !.pc = pc]
      /\ \A k \in Requests \ {r} : jobs'[k] = jobs[k]
  BY <1>1, ToMoves
<1>3. jobs'[r].targets \subseteq jobs[r].targets /\ jobs'[r].alone \subseteq jobs[r].alone
  <2>1. CASE pc \in {"ok", "failed"}
    BY <1>2, <2>1 DEF NoJob
  <2>2. CASE pc \notin {"ok", "failed"}
    BY <1>1, <1>2, <2>2 DEF Job
  <2> QED
    BY <2>1, <2>2
<1> QED
  BY <1>2, <1>3 DEF Continues

LEMMA StageReached ==
    ASSUME KnowledgeTypes, NEW r \in Requests, NEW pc \in JobStages, To(r, pc)
    PROVE  jobs'[r].pc = pc
<1>1. jobs \in [Requests -> Job]
  BY DEF KnowledgeTypes
<1> QED
  BY <1>1, ToMoves

LEMMA EndedJob ==
    ASSUME NEW r \in Requests, NEW pc \in {"ok", "failed"},
           jobs'[r] = [NoJob EXCEPT !.pc = pc]
    PROVE  /\ JobOK(jobs'[r]) /\ FiledJob(jobs[r])'
           /\ jobs'[r].targets = {} /\ jobs'[r].alone = {} /\ jobs'[r].pc = pc
<1>1. JobOK([NoJob EXCEPT !.pc = pc])
  BY NoJobIsOK
<1>2. jobs'[r].targets = {} /\ jobs'[r].alone = {} /\ jobs'[r].pc = pc
  BY DEF NoJob
<1> QED
  BY <1>1, <1>2 DEF FiledJob, FiledOne

\* A request that ends.
LEMMA EndingDoes ==
    ASSUME KnowledgeTypes, NEW r \in Requests, NEW pc \in {"ok", "failed"}, To(r, pc),
           PlacesOK', PlaceInv', Queues, \A d \in Docs \ jobs[r].targets : Untouched(d)
    PROVE  Does(r)
<1>1. pc \in JobStages
  BY DEF JobStages
<1>2. /\ jobs' \in [Requests -> Job] /\ Continues(r)
      /\ jobs'[r] = [NoJob EXCEPT !.pc = pc]
  BY <1>1, ContinuingDoes
<1>3. JobOK(jobs'[r]) /\ FiledJob(jobs[r])'
  BY <1>2, EndedJob
<1> QED
  BY <1>2, <1>3 DEF Does

LEMMA UnchangedDoes ==
    ASSUME KnowledgeTypes, UNCHANGED <<files, points, behind, rows>>, faults' \in Nat
    PROVE  PlacesOK' /\ PlaceInv' /\ Queues /\ Shown' = Shown /\ \A d \in Docs : Untouched(d)
<1>1. PlacesOK'
  BY DEF KnowledgeTypes, PlacesOK
<1>2. PlaceInv' /\ Queues /\ Shown' = Shown /\ \A d \in Docs : Untouched(d)
  BY SamePlaces DEF KnowledgeTypes
<1> QED
  BY <1>1, <1>2

LEMMA CountedFaults ==
    ASSUME KnowledgeTypes, faults' \in {faults, faults + 1}
    PROVE  faults' \in Nat
BY DEF KnowledgeTypes, PlacesOK

LEMMA QuietEndDoes ==
    ASSUME KnowledgeTypes, NEW r \in Requests, To(r, "failed"),
           UNCHANGED <<files, points, behind, rows>>, faults' \in {faults, faults + 1}
    PROVE  Does(r)
<1>1. PlacesOK' /\ PlaceInv' /\ Queues /\ \A d \in Docs : Untouched(d)
  BY CountedFaults, UnchangedDoes
<1> QED
  BY <1>1, EndingDoes

LEMMA NotFoundDoes ==
    ASSUME KnowledgeTypes, NEW r \in Requests, NotFound(r) \/ NoEmbeddingModel(r)
    PROVE  Does(r)
<1>1. To(r, "failed") /\ UNCHANGED <<files, points, behind, rows>> /\ faults' \in {faults, faults + 1}
  BY DEF NotFound, NoEmbeddingModel, CallFails
<1> QED
  BY <1>1, QuietEndDoes

\* What is known of the request that takes a step.
LEMMA OwnJob ==
    ASSUME KnowledgeTypes, NEW r \in Requests
    PROVE  jobs[r] \in Job /\ JobOK(jobs[r])
BY DEF KnowledgeTypes

LEMMA OnlyTarget ==
    ASSUME KnowledgeTypes, NEW r \in Requests,
           jobs[r].pc \in {"write", "purge", "replace", "load", "unlink", "row"}
    PROVE  Only(r) \in Docs /\ jobs[r].targets = {Only(r)}
<1>1. \E d \in Docs : jobs[r].targets = {d}
  BY OwnJob DEF JobOK, Ended
<1> QED
  BY <1>1, TheOnly

LEMMA WriteDoes ==
    ASSUME KnowledgeTypes, NEW r \in Requests, Write(r)
    PROVE  Does(r)
<1> DEFINE d == Only(r)
           j == jobs[r]
           n == jobs'[r]
<1>1. j.pc = "write" /\ d \in Docs /\ j.targets = {d}
  BY OnlyTarget DEF Write, At
<1>2. j \in Job /\ JobOK(j)
  BY OwnJob
<1>3. j.kind \in Filing /\ j.version \in DocVersions
  BY <1>1, <1>2 DEF JobOK, Ended, Filing
<1>4. jobs' \in [Requests -> Job] /\ Continues(r) /\ n = [j EXCEPT !.pc = "purge"]
  <2>1. To(r, "purge") /\ "purge" \in JobStages
    BY DEF Write, JobStages
  <2> QED
    BY <2>1, ContinuingDoes
<1>5. /\ PlacesOK' /\ files'[d] = j.version /\ \A e \in Docs \ {d} : files'[e] = files[e]
  <2> HIDE DEF d
  <2>1. files' = [files EXCEPT ![d] = j.version] /\ UNCHANGED <<points, behind, rows, faults>>
    BY DEF Write, d
  <2> QED
    BY <1>1, <1>3, <2>1 DEF KnowledgeTypes, PlacesOK
<1>6. PlaceInv' /\ Queues /\ \A e \in Docs \ {d} : Untouched(e)
  BY <1>5, SamePlaces DEF Write, KnowledgeTypes
<1> HIDE DEF d
<1>7. /\ n.pc = "purge" /\ n.purged = j.purged /\ n.kind = j.kind /\ n.wait = j.wait
      /\ n.version = j.version /\ n.targets = j.targets
      /\ n.alone = j.alone /\ n.loaded = j.loaded /\ n.todo = j.todo
  BY <1>2, <1>4 DEF Job
<1> HIDE DEF n, j
<1>8. JobOK(n)
  <2>1. n.kind \notin {"delete", "add", "refresh"} /\ n.kind \in Filing
    BY <1>3, <1>7 DEF Filing
  <2>3. n.purged = FALSE /\ n.wait = TRUE
    BY <1>1, <1>2, <1>7 DEF JobOK, Ended
  <2>2. n.pc = "purge" /\ n.alone \subseteq n.targets /\ n.targets = {d}
        /\ n.todo \subseteq n.targets
        /\ \A e \in Docs : n.loaded[e] # None => e \in n.targets
    BY <1>1, <1>2, <1>7 DEF JobOK
  <2> QED
    BY <1>1, <1>3, <1>7, <2>1, <2>2, <2>3 DEF JobOK, Ended
<1>9. FiledJob(j)'
  <2>1. n.kind = "update" /\ n.alone \subseteq {d}
    BY <1>1, <1>2, <1>3, <1>7 DEF Filing, JobOK, Ended
  <2> QED
    BY <1>5, <1>7, <2>1 DEF FiledJob, FiledOne, n, j
<1> QED
  BY <1>1, <1>4, <1>5, <1>6, <1>7, <1>8, <1>9 DEF Does, n, j

\* What a step keeps of its request when only the stage is another.
SameJob(j, n) ==
    /\ n.kind = j.kind /\ n.version = j.version /\ n.targets = j.targets
    /\ n.alone = j.alone /\ n.loaded = j.loaded /\ n.todo = j.todo /\ n.wait = j.wait

LEMMA StagedJob ==
    ASSUME KnowledgeTypes, NEW r \in Requests, NEW pc \in JobStages \ {"ok", "failed"}, To(r, pc)
    PROVE  /\ jobs' \in [Requests -> Job] /\ Continues(r)
           /\ jobs'[r].pc = pc /\ SameJob(jobs[r], jobs'[r])
           /\ jobs'[r].purged = jobs[r].purged
<1>1. jobs' \in [Requests -> Job] /\ Continues(r) /\ jobs'[r] = [jobs[r] EXCEPT !.pc = pc]
  BY ContinuingDoes
<1>2. jobs[r] \in Job
  BY OwnJob
<1> QED
  BY <1>1, <1>2 DEF Job, SameJob

\* A deletion of the chunks of the request's document.
LEMMA PurgedPlaces ==
    ASSUME KnowledgeTypes, NEW d, points' \in {points, Without(points, d)}, Queues,
           UNCHANGED <<files, rows>>, faults' \in {faults, faults + 1}
    PROVE  /\ PlacesOK' /\ PlaceInv'
           /\ \A e \in Docs \ {d} : Untouched(e)
           /\ \A e \in Docs : Clean(e) => Clean(e)'
           /\ \A e \in Docs : CleanIn(points, e) => CleanIn(points, e)'
           /\ points' = Without(points, d) => CleanIn(points, d)'
           /\ points' = Without(points, d) /\ behind' = <<>> => Clean(d)'
<1>1. /\ points' \in Collections /\ PlaceInv'
      /\ \A s \in Slots : points'[s] # None => points'[s] = points[s]
      /\ \A s \in Slots : points[s] # None /\ points[s].doc # d => points'[s] = points[s]
      /\ points' = Without(points, d) => CleanIn(points', d)
  BY WithoutKeeps DEF KnowledgeTypes
<1>2. /\ behind' \in Seq(Collections) /\ points \in Shown
      /\ Shown' \subseteq Shown \cup {points'}
      /\ behind' = <<>> => Shown' = {points'}
  BY <1>1, ShownMoves DEF KnowledgeTypes
<1>3. PlacesOK'
  BY <1>1, <1>2, CountedFaults DEF KnowledgeTypes, PlacesOK
<1>4. \A e \in Docs \ {d} : Untouched(e)
  BY <1>1 DEF Untouched
<1>5. \A e \in Docs : CleanIn(points, e) => CleanIn(points', e)
  BY <1>1 DEF CleanIn
<1>6. \A ps, e : CleanIn(ps, e)' = CleanIn(ps, e)
  BY DEF CleanIn
<1>7. \A e : CleanIn(points, e)' = CleanIn(points', e)
  BY DEF CleanIn
<1>8. \A e \in Docs : Clean(e) => Clean(e)'
  BY <1>2, <1>5, <1>6 DEF Clean
<1>9. points' = Without(points, d) /\ behind' = <<>> => Clean(d)'
  BY <1>1, <1>2, <1>6 DEF Clean
<1> QED
  BY <1>1, <1>3, <1>4, <1>5, <1>7, <1>8, <1>9

\* A deletion that the request waited for, or one that failed.
LEMMA StoredOrNot ==
    ASSUME NEW ps, NEW waited \in BOOLEAN,
           Accepts(ps, waited) \/ Accepts(ps, FALSE) \/ UNCHANGED <<points, behind>>
    PROVE  points' \in {points, ps} /\ Queues /\ (Accepts(ps, TRUE) => behind' = <<>>)
BY DEF Accepts, Queues

LEMMA PurgeDoes ==
    ASSUME KnowledgeTypes, NEW r \in Requests, Purge(r)
    PROVE  Does(r)
<1> DEFINE next == IF jobs[r].kind = "delete" THEN "unlink" ELSE "replace"
           n == jobs'[r]
           j == jobs[r]
<1>1. PICK d \in Docs : j.pc = "purge" /\ d = Only(r) /\ j.targets = {d}
  BY OnlyTarget DEF Purge, At
<1>2. j \in Job /\ JobOK(j) /\ jobs \in [Requests -> Job]
  BY OwnJob DEF KnowledgeTypes
<1>3. next \in JobStages \ {"ok", "failed"} /\ next \in {"unlink", "replace"}
  BY DEF JobStages
<1>4. /\ jobs' \in [Requests -> Job] /\ Continues(r)
      /\ n.pc = next /\ SameJob(j, n)
      /\ n.purged # FALSE =>
            j.purged # FALSE \/ (points' = Without(points, d) /\ behind' = <<>>)
  <2>1. CASE /\ Accepts(Without(points, d), TRUE)
             /\ jobs' = [jobs EXCEPT ![r].pc = next, ![r].purged = TRUE]
    <3>1. jobs' = [jobs EXCEPT ![r] = [j EXCEPT !.pc = next, !.purged = TRUE]]
      BY <2>1
    <3> DEFINE m == [j EXCEPT !.pc = next, !.purged = TRUE]
    <3> HIDE DEF next
    <3>2. m \in Job /\ m.pc = next /\ SameJob(j, m)
      BY <1>2, <1>3 DEF Job, SameJob
    <3> HIDE DEF m
    <3>3. jobs' \in [Requests -> Job] /\ n = m /\ \A k \in Requests \ {r} : jobs'[k] = jobs[k]
      BY <1>2, <3>1, <3>2 DEF m
    <3> QED
      BY <2>1, <3>2, <3>3 DEF Continues, SameJob, Accepts
  <2>2. CASE To(r, next)
    <3> HIDE DEF next
    <3>1. n.purged = j.purged
      BY <1>3, <2>2, StagedJob
    <3> QED
      BY <1>3, <2>2, <3>1, StagedJob
  <2> QED
    BY <1>1, <2>1, <2>2 DEF Purge, FailsToStore, CallFails
<1>5. /\ points' \in {points, Without(points, d)} /\ Queues /\ UNCHANGED <<files, rows>>
      /\ faults' \in {faults, faults + 1}
  BY <1>1, StoredOrNot DEF Purge, FailsToStore, CallFails
<1>6. /\ PlacesOK' /\ PlaceInv'
      /\ \A e \in Docs \ {d} : Untouched(e)
      /\ \A e \in Docs : Clean(e) => Clean(e)'
      /\ points' = Without(points, d) /\ behind' = <<>> => Clean(d)'
  BY <1>5, PurgedPlaces
<1>7. /\ j.kind \in Filing \cup {"delete"}
      /\ j.kind = "delete" => next = "unlink"
      /\ j.kind # "delete" => next = "replace"
  BY <1>1, <1>2 DEF JobOK, Ended
<1> HIDE DEF next
<1>8. JobOK(n)
  BY <1>1, <1>2, <1>3, <1>4, <1>7 DEF JobOK, Ended, SameJob, Filing
<1>9. ASSUME FiledJob(j)
      PROVE  FiledJob(j)'
  <2>1. j.alone \subseteq {d} /\ j.alone \subseteq Docs
    BY <1>1, <1>2 DEF JobOK
  <2>2. CASE j.kind = "delete"
    <3>1. \A e \in j.alone : n.purged => Clean(e)'
      <4>1. j.purged = FALSE
        BY <1>1, <1>2 DEF JobOK, Ended
      <4> QED
        BY <1>4, <1>6, <2>1, <4>1
    <3> QED
      BY <1>4, <1>7, <2>2, <3>1 DEF FiledJob, FiledOne, SameJob, Filing
  <2>3. CASE j.kind \in Filing
    BY <1>1, <1>4, <1>5, <1>7, <1>9, <2>1, <2>3
       DEF FiledJob, FiledOne, SameJob, Filing, Loaded
  <2> QED
    BY <1>7, <2>2, <2>3
<1> QED
  BY <1>1, <1>4, <1>5, <1>6, <1>8, <1>9 DEF Does, SameJob

LEMMA ReplaceDoes ==
    ASSUME KnowledgeTypes, NEW r \in Requests, Replace(r)
    PROVE  Does(r)
<1> DEFINE j == jobs[r]
<1>1. PICK d \in Docs : j.pc = "replace" /\ d = Only(r) /\ j.targets = {d}
  BY OnlyTarget DEF Replace, At
<1>2. j \in Job /\ JobOK(j) /\ jobs \in [Requests -> Job]
  BY OwnJob DEF KnowledgeTypes
<1>3. /\ points' \in {points, Without(points, d)} /\ Queues /\ UNCHANGED <<files, rows>>
      /\ faults' \in {faults, faults + 1}
      /\ \/ To(r, "load") /\ points' = Without(points, d) /\ behind' = <<>>
         \/ To(r, "failed")
  BY <1>1, StoredOrNot DEF Replace, FailsToStore, CallFails, Accepts
<1>4. /\ PlacesOK' /\ PlaceInv'
      /\ \A e \in Docs \ {d} : Untouched(e)
      /\ \A e \in Docs : Clean(e) => Clean(e)'
      /\ points' = Without(points, d) /\ behind' = <<>> => Clean(d)'
  BY <1>3, PurgedPlaces
<1>5. CASE To(r, "failed")
  BY <1>1, <1>3, <1>4, <1>5, EndingDoes
<1>6. CASE To(r, "load") /\ points' = Without(points, d) /\ behind' = <<>>
  <2>1. /\ jobs' \in [Requests -> Job] /\ Continues(r)
        /\ jobs'[r].pc = "load" /\ SameJob(j, jobs'[r])
    BY <1>6, StagedJob DEF JobStages
  <2>2. j.kind \in Filing
    BY <1>1, <1>2 DEF JobOK, Ended
  <2>3. JobOK(jobs'[r])
    BY <1>1, <1>2, <2>1, <2>2 DEF JobOK, SameJob, Ended, Filing
  <2>4. ASSUME FiledJob(j)
        PROVE  FiledJob(j)'
    <3>1. j.alone \subseteq {d} /\ j.alone \subseteq Docs
      BY <1>1, <1>2 DEF JobOK
    <3> QED
      BY <1>1, <1>3, <1>4, <1>6, <2>1, <2>2, <2>4, <3>1
         DEF FiledJob, FiledOne, SameJob, Filing, Loaded
  <2> QED
    BY <1>1, <1>3, <1>4, <2>1, <2>3, <2>4 DEF Does, SameJob
<1> QED
  BY <1>3, <1>5, <1>6

LEMMA LoadDoes ==
    ASSUME KnowledgeTypes, NEW r \in Requests, LoadFile(r)
    PROVE  Does(r)
<1> DEFINE j == jobs[r]
           n == jobs'[r]
<1>1. PICK d \in Docs : j.pc = "load" /\ d = Only(r) /\ j.targets = {d}
  BY OnlyTarget DEF LoadFile, At
<1>2. j \in Job /\ JobOK(j) /\ jobs \in [Requests -> Job]
  BY OwnJob DEF KnowledgeTypes
<1>3. UNCHANGED <<files, points, behind, rows>> /\ faults' \in {faults, faults + 1}
  BY DEF LoadFile, CallFails
<1>4. PlacesOK' /\ PlaceInv' /\ Queues /\ Shown' = Shown /\ \A e \in Docs : Untouched(e)
  BY <1>3, CountedFaults, UnchangedDoes
<1>5. CASE To(r, "failed")
  BY <1>4, <1>5, EndingDoes
<1>6. CASE /\ files[d] # None
           /\ jobs' = [jobs EXCEPT ![r].loaded = [@ EXCEPT ![d] = Loaded(d)], ![r].pc = "upsert"]
  <2> DEFINE loaded == [j.loaded EXCEPT ![d] = Loaded(d)]
             m == [j EXCEPT !.loaded = loaded, !.pc = "upsert"]
  <2>1. jobs' = [jobs EXCEPT ![r] = m]
    BY <1>6
  <2>2. Loaded(d) \in DocVersions /\ Loaded(d) # None
    BY <1>6, ReadIsVersion DEF KnowledgeTypes
  <2>3. /\ loaded \in [Docs -> DocVersions \cup {None}]
        /\ loaded[d] = Loaded(d) /\ \A e \in Docs \ {d} : loaded[e] = j.loaded[e]
    BY <1>1, <1>2, <2>2 DEF Job
  <2> HIDE DEF loaded
  <2>4. /\ m \in Job /\ m.pc = "upsert" /\ m.kind = j.kind /\ m.version = j.version
        /\ m.targets = j.targets /\ m.alone = j.alone /\ m.loaded = loaded
        /\ m.todo = j.todo /\ m.wait = j.wait
    BY <1>2, <2>3 DEF Job, JobStages
  <2> HIDE DEF m
  <2>5. jobs' \in [Requests -> Job] /\ n = m /\ \A k \in Requests \ {r} : jobs'[k] = jobs[k]
    BY <1>2, <2>1, <2>4
  <2>6. j.kind \in Filing
    BY <1>1, <1>2 DEF JobOK, Ended
  <2>7. JobOK(n)
    <3>1. \A e \in Docs : loaded[e] # None => e = d
      BY <1>1, <1>2, <2>3 DEF JobOK
    <3>2. /\ n.version \in DocVersions /\ n.alone \subseteq n.targets
          /\ n.todo \subseteq n.targets /\ n.wait = TRUE
      <4>1. j.version \in DocVersions /\ j.wait = TRUE
        BY <1>1, <1>2, <2>6 DEF JobOK, Ended
      <4>2. j.alone \subseteq j.targets /\ j.todo \subseteq j.targets
        BY <1>2 DEF JobOK
      <4>3. /\ n.version = j.version /\ n.alone = j.alone /\ n.todo = j.todo
            /\ n.targets = j.targets /\ n.wait = j.wait
        BY <2>4, <2>5
      <4> QED
        BY <4>1, <4>2, <4>3
    <3>3. /\ n.pc = "upsert" /\ n.kind \in Filing /\ n.targets = {d} /\ n.loaded = loaded
          /\ n.kind \notin {"delete", "add", "refresh"}
      BY <1>1, <2>4, <2>5, <2>6 DEF Filing
    <3>4. \A e \in n.targets : n.loaded[e] # None
      BY <2>2, <2>3, <3>3
    <3> HIDE DEF n
    <3> QED
      BY <1>1, <3>1, <3>2, <3>3, <3>4 DEF JobOK, Ended
  <2>8. ASSUME FiledJob(j)
        PROVE  FiledJob(j)'
    <3>1. j.alone \subseteq {d} /\ j.alone \subseteq Docs
      BY <1>1, <1>2 DEF JobOK
    <3>2. \A e : Clean(e) => Clean(e)'
      BY <1>3, <1>4 DEF Clean, CleanIn
    <3>3. files' = files /\ \A e : Loaded(e)' = Loaded(e)
      BY <1>3 DEF Loaded
    <3>4. \A e \in j.alone : /\ j.kind \in {"create", "update"} => files[e] = j.version
                             /\ j.kind = "ingest" => Loaded(e) = j.version
                             /\ Clean(e)
      BY <1>1, <2>6, <2>8 DEF FiledJob, FiledOne
    <3>5. \A e \in j.alone : /\ files'[e] # None /\ loaded[e] = Loaded(e)'
                             /\ j.kind \in {"create", "update"} => files'[e] = j.version
                             /\ j.kind = "ingest" => Loaded(e)' = j.version
                             /\ Clean(e)'
      BY <1>6, <2>3, <3>1, <3>2, <3>3, <3>4
    <3>6. /\ n.pc = "upsert" /\ n.kind = j.kind /\ n.version = j.version /\ n.alone = j.alone
          /\ n.loaded = loaded /\ j.kind \notin {"delete", "refresh"}
      BY <2>4, <2>5, <2>6 DEF Filing
    <3>7. \A e \in n.alone : FiledOne(j, e)'
      BY <3>5, <3>6 DEF FiledOne
    <3> QED
      BY <3>7 DEF FiledJob
  <2> QED
    BY <1>4, <2>4, <2>5, <2>7, <2>8 DEF Does, Continues
<1> QED
  BY <1>1, <1>5, <1>6 DEF LoadFile, CallFails

LEMMA UnlinkDoes ==
    ASSUME KnowledgeTypes, NEW r \in Requests, Unlink(r)
    PROVE  Does(r)
<1> DEFINE j == jobs[r]
           next == IF files[Only(r)] = None THEN "failed" ELSE "row"
<1>1. PICK d \in Docs : j.pc = "unlink" /\ d = Only(r) /\ j.targets = {d}
  BY OnlyTarget DEF Unlink, At
<1>2. j \in Job /\ JobOK(j) /\ jobs \in [Requests -> Job]
  BY OwnJob DEF KnowledgeTypes
<1>3. files' = [files EXCEPT ![d] = None] /\ To(r, next) /\ UNCHANGED <<points, behind, rows, faults>>
  BY <1>1 DEF Unlink
<1>4. /\ PlacesOK' /\ files'[d] = None /\ \A e \in Docs \ {d} : files'[e] = files[e]
  BY <1>3 DEF KnowledgeTypes, PlacesOK
<1>5. PlaceInv' /\ Queues /\ Shown' = Shown /\ \A e \in Docs \ {d} : Untouched(e)
  BY <1>3, <1>4, SamePlaces DEF KnowledgeTypes
<1>6. CASE next = "failed"
  BY <1>1, <1>3, <1>4, <1>5, <1>6, EndingDoes
<1>7. CASE next = "row"
  <2>1. /\ jobs' \in [Requests -> Job] /\ Continues(r)
        /\ jobs'[r].pc = "row" /\ SameJob(j, jobs'[r]) /\ jobs'[r].purged = j.purged
    <3> HIDE DEF next
    <3> QED
      BY <1>3, <1>7, StagedJob DEF JobStages
  <2>2. j.kind = "delete"
    BY <1>1, <1>2 DEF JobOK, Ended, Filing
  <2>3. JobOK(jobs'[r])
    BY <1>1, <1>2, <2>1, <2>2 DEF JobOK, SameJob, Ended, Filing
  <2>4. ASSUME FiledJob(j)
        PROVE  FiledJob(j)'
    <3>1. j.alone \subseteq {d} /\ j.alone \subseteq Docs
      BY <1>1, <1>2 DEF JobOK
    <3>2. \A e : Clean(e) => Clean(e)'
      BY <1>3, <1>5 DEF Clean, CleanIn
    <3> QED
      BY <1>1, <1>4, <2>1, <2>2, <2>4, <3>1, <3>2 DEF FiledJob, FiledOne, SameJob, Filing
  <2> QED
    BY <1>1, <1>4, <1>5, <2>1, <2>3, <2>4 DEF Does, SameJob
<1> QED
  BY <1>6, <1>7

LEMMA WriteRowDoes ==
    ASSUME KnowledgeTypes, NEW r \in Requests, WriteRow(r)
    PROVE  Does(r)
<1> DEFINE j == jobs[r]
<1>1. PICK d \in Docs : j.pc = "row" /\ d = Only(r) /\ j.targets = {d}
  BY OnlyTarget DEF WriteRow, At
<1>2. j \in Job /\ JobOK(j)
  BY OwnJob
<1> DEFINE row == IF j.kind = "delete" THEN None ELSE Row(j.version, j.loaded[d])
<1>3. /\ To(r, "ok") \/ To(r, "failed")
      /\ rows' \in {rows, [rows EXCEPT ![d] = row]}
      /\ UNCHANGED <<files, points, behind>> /\ faults' \in {faults, faults + 1}
  BY <1>1 DEF WriteRow, CallFails
<1>4. row \in [group : Groups, chunks : Nat] \cup {None}
  <2>1. CASE j.kind = "delete"
    BY <2>1
  <2>2. CASE j.kind # "delete"
    <3>1. j.version \in DocVersions /\ j.loaded[d] \in DocVersions
      BY <1>1, <1>2, <2>2 DEF JobOK, Ended, Job
    <3>2. j.version.group \in Groups /\ j.loaded[d].body \in Bodies
      BY <3>1 DEF DocVersions
    <3>3. ChunksOf[j.loaded[d].body] \in Nat
      BY <3>2, KnowledgeBaseAssumption
    <3> QED
      BY <2>2, <3>2, <3>3 DEF Row
  <2> QED
    BY <2>1, <2>2
<1> HIDE DEF row
<1>5. PlacesOK'
  BY <1>3, <1>4, CountedFaults DEF KnowledgeTypes, PlacesOK
<1>6. PlaceInv' /\ Queues /\ \A e \in Docs : Untouched(e)
  BY <1>3, SamePlaces DEF KnowledgeTypes
<1> QED
  BY <1>3, <1>5, <1>6, EndingDoes

LEMMA SweepDoes ==
    ASSUME KnowledgeTypes, NEW r \in Requests, Sweep(r)
    PROVE  Does(r)
<1> DEFINE j == jobs[r]
           n == jobs'[r]
<1>1. /\ j.pc = "sweep" /\ j.kind = "refresh"
      /\ j \in Job /\ JobOK(j) /\ jobs \in [Requests -> Job]
  BY OwnJob DEF Sweep, At, JobOK, Ended, KnowledgeTypes
<1>2. PICK d \in j.todo :
         \/ /\ Accepts(Without(points, d), j.wait)
            /\ jobs' = [jobs EXCEPT ![r].todo = @ \ {d},
                                    ![r].pc = IF j.todo = {d} THEN "upsert" ELSE "sweep"]
            /\ UNCHANGED faults
         \/ FailsToStore(r, Without(points, d), "failed")
  BY DEF Sweep
<1>3. /\ points' \in {points, Without(points, d)} /\ Queues /\ UNCHANGED <<files, rows>>
      /\ faults' \in {faults, faults + 1}
  <2>1. j.wait \in BOOLEAN
    BY <1>1 DEF Job
  <2> QED
    BY <1>2, <2>1, StoredOrNot DEF Sweep, FailsToStore, CallFails
<1>0. d \in j.targets
  BY <1>1 DEF JobOK
<1>4. /\ PlacesOK' /\ PlaceInv'
      /\ \A e \in Docs \ {d} : Untouched(e)
      /\ \A e \in Docs : Clean(e) => Clean(e)'
      /\ \A e \in Docs : CleanIn(points, e) => CleanIn(points, e)'
      /\ points' = Without(points, d) => CleanIn(points, d)'
      /\ points' = Without(points, d) /\ behind' = <<>> => Clean(d)'
  BY <1>3, PurgedPlaces
<1>5. CASE To(r, "failed")
  BY <1>0, <1>3, <1>4, <1>5, EndingDoes
<1>6. CASE /\ Accepts(Without(points, d), j.wait)
           /\ jobs' = [jobs EXCEPT ![r].todo = @ \ {d},
                                   ![r].pc = IF j.todo = {d} THEN "upsert" ELSE "sweep"]
  <2> DEFINE pc == IF j.todo = {d} THEN "upsert" ELSE "sweep"
             m == [j EXCEPT !.todo = j.todo \ {d}, !.pc = pc]
  <2>1. jobs' = [jobs EXCEPT ![r] = m]
    BY <1>6
  <2>2. pc \in {"upsert", "sweep"} /\ (pc = "upsert" => j.todo \ {d} = {})
    OBVIOUS
  <2> HIDE DEF pc
  <2>3. /\ m \in Job /\ m.pc = pc /\ m.todo = j.todo \ {d} /\ m.kind = "refresh"
        /\ m.targets = j.targets /\ m.alone = j.alone /\ m.loaded = j.loaded
        /\ m.wait = j.wait
    BY <1>1, <2>2 DEF Job, JobStages
  <2> HIDE DEF m
  <2>4. jobs' \in [Requests -> Job] /\ n = m /\ \A k \in Requests \ {r} : jobs'[k] = jobs[k]
    BY <1>1, <2>1, <2>3
  <2>5. JobOK(n)
    BY <1>1, <2>2, <2>3, <2>4 DEF JobOK, Ended, Filing
  <2>6. ASSUME FiledJob(j)
        PROVE  FiledJob(j)'
    <3>1. j.alone \subseteq Docs
      BY <1>1 DEF Job
    <3>2. points' = Without(points, d) /\ (j.wait = TRUE => behind' = <<>>)
      BY <1>6 DEF Accepts
    <3>3. files' = files /\ \A e : Loaded(e)' = Loaded(e)
      BY <1>3 DEF Loaded
    <3>4. \A e \in j.alone : /\ files[e] # None /\ n.loaded[e] = Loaded(e)
                             /\ e \notin n.todo =>
                                  CleanIn(points, e)' /\ (j.wait = TRUE => Clean(e)')
      BY <1>1, <1>4, <2>3, <2>4, <2>6, <3>1, <3>2 DEF FiledJob, FiledOne
    <3> QED
      BY <2>2, <2>3, <2>4, <3>3, <3>4 DEF FiledJob, FiledOne, Filing
  <2> QED
    BY <1>0, <1>3, <1>4, <2>3, <2>4, <2>5, <2>6 DEF Does, Continues
<1> QED
  BY <1>2, <1>5, <1>6 DEF FailsToStore, CallFails

\* An upsert puts every chunk of a loaded document in its place.
LEMMA PlacedCompletes ==
    ASSUME BasesDiffer, NEW ps \in Collections,
           NEW loaded \in [Docs -> DocVersions \cup {None}],
           NEW d \in Docs, loaded[d] # None, NEW s \in Slots, s \in ChunkIds(d, loaded[d])
    PROVE  Placed(ps, loaded)[s] = Point(d, loaded[d])
<1>1. PICK e \in Docs : /\ s \in ChunkIds(e, loaded[e])
                        /\ Placed(ps, loaded)[s] = Point(e, loaded[e])
  BY PlacedPoints
<1>2. s[1] = Base[d] /\ s[1] = Base[e]
  BY <1>1 DEF ChunkIds
<1> QED
  BY <1>1, <1>2 DEF BasesDiffer

\* The chunks an upsert adds are those of the request's documents, as loaded.
LEMMA UpsertedPlaces ==
    ASSUME KnowledgeTypes, NEW r \in Requests, Upsert(r)
    PROVE  /\ PlacesOK' /\ PlaceInv' /\ Queues
           /\ \A e \in Docs \ jobs[r].targets : Untouched(e)
           /\ \A s \in Slots :
                 points'[s] # None =>
                     \/ points'[s] = points[s]
                     \/ points'[s].version = jobs[r].loaded[points'[s].doc]
           /\ \/ To(r, "failed")
              \/ /\ points' = Placed(points, jobs[r].loaded)
                 /\ jobs[r].wait = TRUE => Shown' = {points'}
<1>1. jobs[r] \in Job /\ JobOK(jobs[r])
  BY OwnJob
<1>2. jobs[r].loaded \in [Docs -> DocVersions \cup {None}] /\ jobs[r].wait \in BOOLEAN
  BY <1>1 DEF Job
<1>3. /\ points' \in {points, Placed(points, jobs[r].loaded)} /\ Queues
      /\ UNCHANGED <<files, rows>> /\ faults' \in {faults, faults + 1}
  BY <1>2, StoredOrNot DEF Upsert, FailsToStore, CallFails
<1>4. /\ points' \in Collections /\ PlaceInv'
      /\ \A s \in Slots :
            points'[s] # None =>
                \/ points'[s] = points[s]
                \/ /\ jobs[r].loaded[points'[s].doc] # None
                   /\ points'[s].version = jobs[r].loaded[points'[s].doc]
      /\ BasesDiffer =>
            \A e \in Docs, s \in Slots :
                jobs[r].loaded[e] = None /\ points[s] # None /\ points[s].doc = e =>
                    points'[s] = points[s]
  BY <1>2, <1>3, PlacedKeeps DEF KnowledgeTypes
<1>5. behind' \in Seq(Collections) /\ (behind' = <<>> => Shown' = {points'})
  BY <1>3, <1>4, ShownMoves DEF KnowledgeTypes
<1>6. PlacesOK'
  BY <1>3, <1>4, <1>5, CountedFaults DEF KnowledgeTypes, PlacesOK
<1>7. \A e \in Docs \ jobs[r].targets : Untouched(e)
  BY <1>1, <1>3, <1>4 DEF Untouched, JobOK
<1>8. \/ To(r, "failed")
      \/ /\ points' = Placed(points, jobs[r].loaded)
         /\ jobs[r].wait = TRUE => behind' = <<>>
  BY DEF Upsert, FailsToStore, CallFails, Accepts
<1> QED
  BY <1>3, <1>4, <1>5, <1>6, <1>7, <1>8

\* After an upsert of a document that was clean, its chunks are the loaded
\* ones, and searches see no others once the request has waited.
LEMMA UpsertFreshens ==
    ASSUME KnowledgeTypes, NEW r \in Requests, Upsert(r), ~ To(r, "failed"), FiledJob(jobs[r]),
           jobs[r].kind \in Filing \cup {"refresh"}, NEW d \in jobs[r].alone
    PROVE  /\ jobs[r].loaded[d] = Loaded(d) /\ files'[d] = files[d] /\ files[d] # None
           /\ CurrentIn(points, d)' /\ (BasesDiffer => CompleteIn(points, d)')
           /\ jobs[r].wait = TRUE => Current(d)' /\ (BasesDiffer => Complete(d)')
<1>1. jobs[r] \in Job /\ JobOK(jobs[r]) /\ jobs[r].pc = "upsert" /\ d \in Docs
  BY OwnJob DEF Upsert, At, Job
<1>2. /\ jobs[r].loaded[d] = Loaded(d) /\ files[d] # None /\ CleanIn(points, d)
  <2>1. Clean(d) => CleanIn(points, d)
    BY DEF Clean, Shown
  <2> QED
    BY <1>1, <2>1 DEF FiledJob, FiledOne, JobOK, Ended, Filing
<1>3. files'[d] = files[d] /\ Loaded(d)' = Loaded(d)
  BY DEF Upsert, Loaded
<1>4. CurrentIn(points, d)'
  <2>1. \A s \in Slots : points'[s] # None /\ points'[s].doc = d =>
                            points'[s].version = jobs[r].loaded[d]
    BY <1>2, UpsertedPlaces DEF CleanIn
  <2> QED
    BY <1>2, <1>3, <2>1 DEF CurrentIn
<1>5. ASSUME BasesDiffer
      PROVE  CompleteIn(points, d)'
  <2>1. points \in Collections /\ jobs[r].loaded \in [Docs -> DocVersions \cup {None}]
    BY <1>1 DEF KnowledgeTypes, PlacesOK, Job
  <2>2. jobs[r].loaded[d] # None
    BY <1>1, <1>2, ReadIsVersion DEF KnowledgeTypes
  <2>3. points' = Placed(points, jobs[r].loaded)
    BY UpsertedPlaces
  <2>4. \A s \in Slots : s \in ChunkIds(d, jobs[r].loaded[d]) =>
                            points'[s] = Point(d, jobs[r].loaded[d])
    BY <1>1, <1>5, <2>1, <2>2, <2>3, PlacedCompletes
  <2> QED
    BY <1>2, <1>3, <2>4 DEF CompleteIn
<1>6. ASSUME jobs[r].wait = TRUE
      PROVE  Current(d)' /\ (BasesDiffer => Complete(d)')
  <2>1. Shown' = {points'}
    BY <1>6, UpsertedPlaces
  <2>2. \A ps : ps = points' =>
           /\ CurrentIn(points, d)' => CurrentIn(ps, d)'
           /\ CompleteIn(points, d)' => CompleteIn(ps, d)'
    BY DEF CurrentIn, CompleteIn
  <2> QED
    BY <1>4, <1>5, <2>1, <2>2 DEF Current, Complete
<1> QED
  BY <1>2, <1>3, <1>4, <1>5, <1>6

LEMMA UpsertDoes ==
    ASSUME KnowledgeTypes, NEW r \in Requests, Upsert(r)
    PROVE  Does(r)
<1> DEFINE j == jobs[r]
           next == IF j.kind \in {"add", "refresh"} THEN "ok" ELSE "row"
<1>1. j \in Job /\ JobOK(j) /\ j.pc = "upsert"
  BY OwnJob DEF Upsert, At
<1>2. PlacesOK' /\ PlaceInv' /\ Queues /\ \A e \in Docs \ j.targets : Untouched(e)
  BY UpsertedPlaces
<1>3. To(r, next) \/ To(r, "failed")
  BY DEF Upsert, FailsToStore, CallFails
<1>4. CASE To(r, "failed")
  BY <1>2, <1>4, EndingDoes
<1>5. CASE To(r, next) /\ j.kind \in {"add", "refresh"}
  BY <1>2, <1>5, EndingDoes
<1>6. CASE To(r, next) /\ j.kind \notin {"add", "refresh"}
  <2>1. To(r, "row") /\ j.kind \in Filing /\ j.wait = TRUE
    BY <1>1, <1>6 DEF JobOK, Ended
  <2>2. /\ jobs' \in [Requests -> Job] /\ Continues(r)
        /\ jobs'[r].pc = "row" /\ SameJob(j, jobs'[r])
    BY <2>1, StagedJob DEF JobStages
  <2>3. JobOK(jobs'[r])
    <3>1. \A d \in j.targets : j.loaded[d] # None
      BY <1>1, <2>1 DEF JobOK, Ended, Filing
    <3> QED
      BY <1>1, <2>1, <2>2, <3>1 DEF JobOK, SameJob, Ended, Filing
  <2>4. ASSUME FiledJob(j)
        PROVE  FiledJob(j)'
    <3>1. \A d \in j.alone : /\ j.loaded[d] = Loaded(d) /\ files[d] # None
                             /\ Current(d)' /\ (BasesDiffer => Complete(d)')
      <4>1. ~ To(r, "failed")
        BY <2>2, StageReached DEF JobStages
      <4> QED
        BY <2>1, <2>4, <4>1, UpsertFreshens
    <3>2. files' = files /\ \A d : Loaded(d)' = Loaded(d)
      BY DEF Upsert, Loaded
    <3>3. \A d \in j.alone : /\ j.kind \in {"create", "update"} => files[d] = j.version
                             /\ j.kind = "ingest" => Loaded(d) = j.version
      BY <1>1, <2>1, <2>4 DEF FiledJob, FiledOne
    <3> QED
      BY <2>1, <2>2, <3>1, <3>2, <3>3 DEF FiledJob, FiledOne, SameJob, Filing
  <2> QED
    BY <1>2, <2>2, <2>3, <2>4 DEF Does, SameJob
<1> QED
  BY <1>3, <1>4, <1>5, <1>6

LEMMA StepDoes ==
    ASSUME KnowledgeTypes, NEW r \in Requests, KnowledgeStep(r)
    PROVE  Does(r)
<1>1. CASE \E d \in Docs, v \in DocVersions : Create(r, d, v)
  BY <1>1, CreateDoes
<1>2. CASE \E d \in Docs, b \in Bodies \cup {None}, g \in Groups \cup {None} : Update(r, d, b, g)
  BY <1>2, UpdateDoes
<1>3. CASE \E d \in Docs : Ingest(r, d) \/ Delete(r, d)
  BY <1>3, IngestDoes, DeleteDoes
<1>4. CASE \E kind \in {"add", "refresh"}, waits \in BOOLEAN : Directory(r, kind, waits)
  BY <1>4, DirectoryDoes
<1>5. CASE NotFound(r) \/ NoEmbeddingModel(r)
  BY <1>5, NotFoundDoes
<1>6. CASE Write(r) \/ Purge(r) \/ Replace(r) \/ LoadFile(r)
  BY <1>6, WriteDoes, PurgeDoes, ReplaceDoes, LoadDoes
<1>7. CASE Sweep(r) \/ Upsert(r) \/ Unlink(r) \/ WriteRow(r)
  BY <1>7, SweepDoes, UpsertDoes, UnlinkDoes, WriteRowDoes
<1> QED
  BY <1>1, <1>2, <1>3, <1>4, <1>5, <1>6, <1>7 DEF KnowledgeStep

-----------------------------------------------------------------------------
(* The invariant of the knowledge base.                                    *)

LEMMA KnowledgeTypesInit == RagInit => KnowledgeTypes /\ FiledInv /\ TrustInv
<1> SUFFICES ASSUME RagInit
             PROVE  KnowledgeTypes /\ FiledInv /\ TrustInv
  OBVIOUS
<1>1. /\ files = InitialFiles /\ points = [s \in Slots |-> None] /\ behind = <<>>
      /\ rows = [d \in Docs |-> None] /\ faults = 0 /\ trusted = {}
      /\ jobs = [r \in Requests |-> NoJob]
  BY DEF RagInit, KnowledgeInit
<1>2. PlacesOK
  BY <1>1, KnowledgeBaseAssumption DEF PlacesOK, Collections
<1>3. PlaceInv
  BY <1>1 DEF PlaceInv, WellPlaced, Shown
<1>4. jobs \in [Requests -> Job] /\ \A r \in Requests : jobs[r] = NoJob
  BY <1>1, NoJobIsOK
<1>5. NoJob.targets = {} /\ NoJob.alone = {} /\ NoJob.pc = "new"
      /\ \A d \in Docs : NoJob.loaded[d] = None
  BY DEF NoJob
<1>6. \A r \in Requests : JobOK(jobs[r])
  BY <1>4, <1>5 DEF JobOK, Ended, NoJob
<1>7. Exclusive /\ FiledInv
  BY <1>4, <1>5 DEF Exclusive, FiledInv, FiledJob
<1>8. TrustInv
  BY <1>1 DEF TrustInv
<1> QED
  BY <1>2, <1>3, <1>4, <1>6, <1>7, <1>8 DEF KnowledgeTypes

SameButAlone(i, j) ==
    /\ j.pc = i.pc /\ j.kind = i.kind /\ j.version = i.version /\ j.loaded = i.loaded
    /\ j.targets = i.targets /\ j.todo = i.todo /\ j.purged = i.purged /\ j.wait = i.wait

\* The other requests keep what they are, and lose documents at most.
LEMMA OthersKeep ==
    ASSUME KnowledgeTypes, NEW r \in Requests, Does(r), NEW k \in Requests \ {r}
    PROVE  /\ jobs'[k].alone \subseteq jobs[k].alone /\ SameButAlone(jobs[k], jobs'[k])
           /\ jobs'[k].alone \cap (jobs[r].targets \cup jobs'[r].targets) = {}
<1>1. jobs[k] \in Job /\ jobs[k].alone \cap jobs[r].targets = {}
  BY DEF KnowledgeTypes, Exclusive
<1>2. CASE Continues(r)
  BY <1>1, <1>2 DEF Continues, SameButAlone
<1>3. CASE Begun(r)
  <2> DEFINE targets == jobs'[r].targets
  <2>1. jobs'[k] = [jobs[k] EXCEPT !.alone = @ \ targets]
    BY <1>3 DEF Begun
  <2> HIDE DEF targets
  <2>2. SameButAlone(jobs[k], jobs'[k]) /\ jobs'[k].alone = jobs[k].alone \ targets
    BY <1>1, <2>1 DEF SameButAlone, Job
  <2> QED
    BY <1>1, <2>2 DEF targets
<1> QED
  BY <1>2, <1>3 DEF Does

\* A document that a request has alone is nobody else's target afterwards.
LEMMA StillExclusive ==
    ASSUME KnowledgeTypes, NEW r \in Requests, Does(r)
    PROVE  Exclusive'
<1>1. ASSUME NEW i \in Requests, NEW k \in Requests, i # k
      PROVE  jobs'[i].alone \cap jobs'[k].targets = {}
  <2>1. jobs[i].alone \cap jobs[k].targets = {}
    BY <1>1 DEF KnowledgeTypes, Exclusive
  <2>2. CASE i # r /\ k # r
    BY <2>1, <2>2, OthersKeep DEF SameButAlone
  <2>3. CASE i # r /\ k = r
    BY <2>3, OthersKeep
  <2>4. CASE i = r
    <3>1. jobs'[k].targets = jobs[k].targets
      BY <1>1, <2>4, OthersKeep DEF SameButAlone
    <3>2. CASE Continues(r)
      BY <2>1, <2>4, <3>1, <3>2 DEF Continues
    <3>3. CASE Begun(r)
      <4>1. jobs'[r].alone \cap Busy = {}
        BY <3>3 DEF Begun
      <4>2. jobs[k].targets \subseteq Busy
        <5>1. CASE jobs[k].pc \in Ended
          BY <5>1, OwnJob DEF JobOK
        <5>2. CASE jobs[k].pc \notin Ended
          <6>1. k \in Running
            BY <5>2 DEF Running, Ended
          <6> QED
            BY <6>1 DEF Busy
        <5> QED
          BY <5>1, <5>2
      <4> QED
        BY <2>4, <3>1, <4>1, <4>2
    <3> QED
      BY <3>2, <3>3 DEF Does
  <2> QED
    BY <2>2, <2>3, <2>4
<1> QED
  BY <1>1 DEF Exclusive

LEMMA OthersOK ==
    ASSUME NEW i \in Job, NEW j \in Job, SameButAlone(i, j), j.alone \subseteq i.alone, JobOK(i)
    PROVE  JobOK(j)
BY DEF SameButAlone, JobOK

LEMMA DoesKeepsTypes ==
    ASSUME KnowledgeTypes, NEW r \in Requests, Does(r)
    PROVE  KnowledgeTypes'
<1>1. PlacesOK' /\ PlaceInv' /\ jobs' \in [Requests -> Job]
  BY DEF Does
<1>2. ASSUME NEW k \in Requests
      PROVE  JobOK(jobs'[k])
  <2>1. CASE k = r
    BY <2>1 DEF Does
  <2>2. CASE k # r
    <3>1. jobs[k] \in Job /\ jobs'[k] \in Job /\ JobOK(jobs[k])
      BY <1>1, OwnJob
    <3> QED
      BY <2>2, <3>1, OthersKeep, OthersOK
  <2> QED
    BY <2>1, <2>2
<1> QED
  BY <1>1, <1>2, StillExclusive DEF KnowledgeTypes

\* What nobody touches stays as clean, as fresh and as complete as it is.
LEMMA UntouchedKeeps ==
    ASSUME PlacesOK, PlacesOK', Queues, NEW d \in Docs, Untouched(d)
    PROVE  /\ files'[d] = files[d] /\ Loaded(d)' = Loaded(d)
           /\ CleanIn(points, d) => CleanIn(points, d)'
           /\ Clean(d) => Clean(d)'
           /\ Current(d) => Current(d)'
           /\ BasesDiffer /\ Complete(d) => Complete(d)'
<1>1. files'[d] = files[d] /\ Loaded(d)' = Loaded(d)
  BY DEF Untouched, Loaded
<1>2. points \in Shown /\ Shown' \subseteq Shown \cup {points'}
  BY ShownMoves DEF PlacesOK
<1>3. CleanIn(points, d) => CleanIn(points', d)
  BY DEF Untouched, CleanIn
<1>4. CurrentIn(points, d) => CurrentIn(points', d)
  BY DEF Untouched, CurrentIn
<1>5. ASSUME BasesDiffer, CompleteIn(points, d)
      PROVE  CompleteIn(points', d)
  <2>1. SUFFICES ASSUME NEW s \in Slots, files[d] # None, s \in ChunkIds(d, Loaded(d))
                 PROVE  points'[s] = Point(d, Loaded(d))
    BY DEF CompleteIn
  <2>2. points[s] = Point(d, Loaded(d))
    BY <1>5, <2>1 DEF CompleteIn
  <2>3. Loaded(d) \in DocVersions
    BY <2>1, ReadIsVersion
  <2>4. Point(d, Loaded(d)) # None /\ Point(d, Loaded(d)).doc = d
    BY <2>3, KnowledgeBaseAssumption DEF Point
  <2> QED
    BY <1>5, <2>2, <2>4 DEF Untouched
<1>6. \A ps : /\ CleanIn(ps, d)' = CleanIn(ps, d) /\ CurrentIn(ps, d)' = CurrentIn(ps, d)
              /\ CompleteIn(ps, d)' = CompleteIn(ps, d)
  BY <1>1 DEF CleanIn, CurrentIn, CompleteIn
<1>7. CleanIn(points, d)' = CleanIn(points', d)
  BY DEF CleanIn
<1> QED
  BY <1>1, <1>2, <1>3, <1>4, <1>5, <1>6, <1>7 DEF Clean, Current, Complete

LEMMA DoesKeepsFiled ==
    ASSUME KnowledgeTypes, FiledInv, NEW r \in Requests, Does(r)
    PROVE  FiledInv'
<1>1. ASSUME NEW k \in Requests
      PROVE  FiledJob(jobs[k])'
  <2>1. CASE k = r
    BY <2>1 DEF Does, FiledInv
  <2>2. CASE k # r
    <3>1. jobs[k] \in Job /\ FiledJob(jobs[k])
      BY OwnJob DEF FiledInv
    <3>2. /\ jobs'[k].alone \subseteq jobs[k].alone /\ SameButAlone(jobs[k], jobs'[k])
          /\ jobs'[k].alone \cap (jobs[r].targets \cup jobs'[r].targets) = {}
      BY <2>2, OthersKeep
    <3>3. ASSUME NEW d \in jobs'[k].alone
          PROVE  /\ d \in Docs /\ files'[d] = files[d] /\ Loaded(d)' = Loaded(d)
                 /\ CleanIn(points, d) => CleanIn(points, d)'
                 /\ Clean(d) => Clean(d)'
                 /\ Current(d) => Current(d)'
                 /\ BasesDiffer /\ Complete(d) => Complete(d)'
      <4>1. d \in Docs
        BY <3>1, <3>2 DEF Job
      <4>2. Untouched(d)
        BY <3>2, <4>1 DEF Does
      <4> QED
        BY <4>1, <4>2, UntouchedKeeps DEF KnowledgeTypes, Does
    <3>4. ASSUME NEW d \in jobs'[k].alone
          PROVE  FiledOne(jobs[k], d)'
      <4>1. FiledOne(jobs[k], d)
        BY <3>1, <3>2 DEF FiledJob
      <4> QED
        BY <3>2, <3>3, <4>1 DEF FiledOne, SameButAlone
    <3> QED
      BY <3>4 DEF FiledJob
  <2> QED
    BY <2>1, <2>2
<1> QED
  BY <1>1 DEF FiledInv

-----------------------------------------------------------------------------
(* Requests that end with success.                                         *)

LEMMA BegunStage ==
    ASSUME KnowledgeTypes, NEW r \in Requests, NEW pc, NEW kind, NEW waits, NEW targets,
           NEW version, NEW loaded, Begins(r, pc, kind, waits, targets, version, loaded)
    PROVE  jobs'[r].pc = pc
<1> DEFINE rest == targets \ UNION {jobs[k].targets : k \in Running}
           mine == [NoJob EXCEPT !.pc = pc, !.kind = kind, !.wait = waits, !.targets = targets,
                                 !.version = version, !.loaded = loaded, !.todo = targets,
                                 !.alone = rest]
<1>1. jobs'[r] = mine
  BY DEF Begins
<1> HIDE DEF rest
<1>2. mine.pc = pc
  BY DEF NoJob
<1> QED
  BY <1>1, <1>2

\* Only the last call of a request makes it a success.
LEMMA SuccessIsLast ==
    ASSUME KnowledgeTypes, NEW r \in Requests, KnowledgeStep(r), jobs'[r].pc = "ok"
    PROVE  Upsert(r) \/ WriteRow(r)
<1> USE DEF JobStages
<1>1. ASSUME NEW d \in Docs, NEW v \in DocVersions, Create(r, d, v)
      PROVE  FALSE
  BY <1>1, BegunStage DEF Create
<1>2. ASSUME NEW d \in Docs, NEW b \in Bodies \cup {None}, NEW g \in Groups \cup {None},
             Update(r, d, b, g)
      PROVE  FALSE
  BY <1>2, BegunStage DEF Update
<1>3. ASSUME NEW d \in Docs, Ingest(r, d) \/ Delete(r, d)
      PROVE  FALSE
  <2>1. CASE Ingest(r, d)
    BY <2>1, BegunStage DEF Ingest
  <2>2. CASE Delete(r, d)
    <3> DEFINE pc == IF files[d] = None THEN "row" ELSE "purge"
    <3>1. PICK c : c = pc
      OBVIOUS
    <3>2. Begins(r, c, "delete", TRUE, {d}, None, NoJob.loaded)
      BY <2>2, <3>1 DEF Delete
    <3>3. jobs'[r].pc = c
      BY <3>2, BegunStage
    <3> QED
      BY <3>1, <3>3
  <2> QED
    BY <1>3, <2>1, <2>2
<1>4. ASSUME NEW kind \in {"add", "refresh"}, NEW waits \in BOOLEAN, Directory(r, kind, waits)
      PROVE  FALSE
  <2> DEFINE pc == IF kind = "refresh" THEN "sweep" ELSE "upsert"
  <2>1. PICK c, present, loaded : c = pc /\ Begins(r, c, kind, waits, present, None, loaded)
    BY <1>4 DEF Directory
  <2>2. jobs'[r].pc = c
    BY <2>1, BegunStage
  <2> QED
    BY <2>1, <2>2
<1>5. CASE NotFound(r) \/ NoEmbeddingModel(r)
  BY <1>5, StageReached DEF NotFound, NoEmbeddingModel, CallFails
<1>6. CASE Write(r) \/ Replace(r)
  BY <1>6, StageReached DEF Write, Replace, FailsToStore, CallFails
<1>7. CASE LoadFile(r)
  <2>1. jobs \in [Requests -> Job]
    BY DEF KnowledgeTypes
  <2>2. CASE To(r, "failed")
    BY <2>2, StageReached
  <2>3. CASE jobs' = [jobs EXCEPT ![r].loaded = [@ EXCEPT ![Only(r)] = Loaded(Only(r))],
                                  ![r].pc = "upsert"]
    <3> DEFINE m == [jobs[r] EXCEPT !.loaded = [@ EXCEPT ![Only(r)] = Loaded(Only(r))],
                                    !.pc = "upsert"]
    <3>1. m.pc = "upsert"
      BY <2>1 DEF Job
    <3>2. jobs'[r] = m
      BY <2>1, <2>3
    <3> QED
      BY <3>1, <3>2
  <2> QED
    BY <1>7, <2>2, <2>3 DEF LoadFile, CallFails
<1>8. CASE Purge(r)
  <2>1. PICK c : c = IF jobs[r].kind = "delete" THEN "unlink" ELSE "replace"
    OBVIOUS
  <2>2. jobs \in [Requests -> Job] /\ c \in {"unlink", "replace"}
    BY <2>1 DEF KnowledgeTypes
  <2>3. CASE To(r, c)
    BY <2>2, <2>3, StageReached
  <2>4. CASE jobs' = [jobs EXCEPT ![r].pc = c, ![r].purged = TRUE]
    <3> DEFINE m == [jobs[r] EXCEPT !.pc = c, !.purged = TRUE]
    <3>1. m.pc = c
      BY <2>2 DEF Job
    <3>2. jobs'[r] = m
      BY <2>2, <2>4
    <3> QED
      BY <2>2, <3>1, <3>2
  <2> QED
    BY <1>8, <2>1, <2>3, <2>4 DEF Purge, FailsToStore, CallFails
<1>9. CASE Sweep(r)
  <2>1. jobs \in [Requests -> Job]
    BY DEF KnowledgeTypes
  <2>2. CASE To(r, "failed")
    BY <2>2, StageReached
  <2>3. ASSUME NEW d, jobs' = [jobs EXCEPT ![r].todo = @ \ {d},
                                   ![r].pc = IF jobs[r].todo = {d} THEN "upsert" ELSE "sweep"]
        PROVE  FALSE
    <3> DEFINE m == [jobs[r] EXCEPT !.todo = @ \ {d},
                                    !.pc = IF jobs[r].todo = {d} THEN "upsert" ELSE "sweep"]
    <3>1. m.pc \in {"upsert", "sweep"}
      BY <2>1 DEF Job
    <3>2. jobs'[r] = m
      BY <2>1, <2>3
    <3> QED
      BY <3>1, <3>2
  <2> QED
    BY <1>9, <2>2, <2>3 DEF Sweep, FailsToStore, CallFails
<1>10. CASE Unlink(r)
  <2>1. PICK c : c = IF files[Only(r)] = None THEN "failed" ELSE "row"
    OBVIOUS
  <2> QED
    BY <1>10, <2>1, StageReached DEF Unlink
<1> QED
  BY <1>1, <1>2, <1>3, <1>4, <1>5, <1>6, <1>7, <1>8, <1>9, <1>10 DEF KnowledgeStep

\* A success leaves no chunk of another version than the file is read as, for
\* any search if the request has waited.
LEMMA SuccessFreshens ==
    ASSUME KnowledgeTypes, FiledInv, NEW r \in Requests, KnowledgeStep(r), jobs'[r].pc = "ok",
           jobs[r].kind \in Filing \cup {"refresh"} \/ jobs[r].purged,
           NEW d \in jobs[r].alone
    PROVE  /\ d \in Docs /\ files'[d] = files[d] /\ Loaded(d)' = Loaded(d)
           /\ CurrentIn(points, d)' /\ (jobs[r].wait = TRUE => Current(d)')
           /\ jobs[r].kind = "delete" /\ jobs[r].purged => Clean(d)'
           /\ jobs[r].kind \in Filing \cup {"refresh"} /\ BasesDiffer =>
                 CompleteIn(points, d)' /\ (jobs[r].wait = TRUE => Complete(d)')
<1>1. /\ jobs[r] \in Job /\ JobOK(jobs[r]) /\ FiledOne(jobs[r], d) /\ FiledJob(jobs[r])
      /\ d \in Docs /\ jobs[r].pc \notin Ended
  BY OwnJob DEF FiledInv, FiledJob, JobOK, Job
<1>2. CASE Upsert(r)
  <2>1. CASE jobs[r].kind = "add"
    BY <1>1, <2>1 DEF JobOK, Filing
  <2>2. CASE jobs[r].kind \in Filing \cup {"refresh"}
    <3>1. "failed" \in JobStages /\ ~ To(r, "failed")
      BY StageReached DEF JobStages
    <3>2. jobs[r].kind # "delete"
      BY <2>2 DEF Filing
    <3>3. Loaded(d)' = Loaded(d)
      BY <1>2 DEF Upsert, Loaded
    <3> QED
      BY <1>1, <1>2, <2>2, <3>1, <3>2, <3>3, UpsertFreshens
  <2> QED
    BY <1>1, <1>2, <2>1, <2>2 DEF JobOK, Upsert, At
<1>3. CASE WriteRow(r)
  <2>1. jobs[r].pc = "row" /\ UNCHANGED <<files, points, behind>>
    BY <1>3 DEF WriteRow, At
  <2>2. Current(d) \/ Clean(d)
    BY <1>1, <2>1 DEF FiledOne, JobOK
  <2>3. Current(d)
    BY <2>2 DEF Current, Clean, CurrentIn, CleanIn
  <2>4. jobs[r].kind = "delete" /\ jobs[r].purged => Clean(d)
    BY <1>1, <2>1 DEF FiledOne
  <2>5. jobs[r].kind \in Filing \cup {"refresh"} /\ BasesDiffer => Complete(d)
    BY <1>1, <2>1 DEF FiledOne, JobOK, Filing, Ended
  <2>6. Shown' = Shown /\ points' \in Shown /\ Loaded(d)' = Loaded(d)
    BY <2>1 DEF Shown, Loaded
  <2>7. /\ Current(d)' = Current(d) /\ Clean(d)' = Clean(d) /\ Complete(d)' = Complete(d)
        /\ Current(d) => CurrentIn(points, d)'
        /\ Complete(d) => CompleteIn(points, d)'
    BY <2>1, <2>6 DEF Current, Clean, Complete, CurrentIn, CleanIn, CompleteIn
  <2> QED
    BY <1>1, <2>1, <2>3, <2>4, <2>5, <2>6, <2>7
<1> QED
  BY <1>2, <1>3, SuccessIsLast

LEMMA OkIsEnded ==
    ASSUME KnowledgeTypes, NEW r \in Requests, KnowledgeStep(r), jobs'[r].pc = "ok"
    PROVE  jobs'[r].targets = {}
BY StepDoes DEF Does, JobOK, Ended

\* What is trusted is fresh, and nobody works on it.
LEMMA WorkKeepsTrust ==
    ASSUME KnowledgeTypes, FiledInv, TrustInv, NEW r \in Requests, WorkStep(r)
    PROVE  TrustInv'
<1> DEFINE settles == /\ jobs[r].wait
                      /\ jobs[r].kind \in {"create", "update", "ingest", "refresh"} \/ jobs[r].purged
           added == IF jobs'[r].pc = "ok" /\ settles THEN jobs[r].alone ELSE {}
<1>1. KnowledgeStep(r) /\ trusted' = (trusted \ jobs'[r].targets) \cup added
  BY DEF WorkStep
<1>2. Does(r)
  BY <1>1, StepDoes
<1>3. ASSUME NEW d \in trusted \ jobs'[r].targets
      PROVE  d \in Docs /\ Current(d)' /\ \A k \in Requests : d \notin jobs'[k].targets
  <2>1. d \in Docs /\ Current(d) /\ \A k \in Requests : d \notin jobs[k].targets
    BY DEF TrustInv
  <2>2. Current(d)'
    <3>1. Untouched(d)
      BY <1>2, <2>1 DEF Does
    <3> QED
      BY <1>2, <2>1, <3>1, UntouchedKeeps DEF KnowledgeTypes, Does
  <2>3. \A k \in Requests : d \notin jobs'[k].targets
    BY <1>2, <2>1, OthersKeep DEF SameButAlone
  <2> QED
    BY <2>1, <2>2, <2>3
<1>4. ASSUME jobs'[r].pc = "ok", settles, NEW d \in jobs[r].alone
      PROVE  d \in Docs /\ Current(d)' /\ \A k \in Requests : d \notin jobs'[k].targets
  <2>1. d \in Docs /\ Current(d)'
    <3>1. jobs[r].kind \in Filing \cup {"refresh"} \/ jobs[r].purged
      BY <1>4 DEF Filing
    <3> QED
      BY <1>1, <1>4, <3>1, SuccessFreshens
  <2>2. d \notin jobs'[r].targets
    BY <1>1, <1>4, OkIsEnded
  <2>3. ASSUME NEW k \in Requests \ {r}
        PROVE  d \notin jobs'[k].targets
    <3>1. d \notin jobs[k].targets
      BY DEF KnowledgeTypes, Exclusive
    <3> QED
      BY <1>2, <3>1, OthersKeep DEF SameButAlone
  <2> QED
    BY <2>1, <2>2, <2>3
<1>5. \A d \in trusted' : d \in Docs /\ Current(d)' /\ \A k \in Requests : d \notin jobs'[k].targets
  BY <1>1, <1>3, <1>4
<1> QED
  BY <1>5 DEF TrustInv

KnowledgeInv == KnowledgeTypes /\ FiledInv /\ TrustInv

\* A step that leaves every place and request, and what is trusted, alone.
LEMMA StillKnowledge ==
    ASSUME KnowledgeInv, UNCHANGED <<kbVars, trusted>>
    PROVE  KnowledgeInv'
<1>1. UNCHANGED <<files, points, behind, rows, jobs, faults, trusted>> /\ Shown' = Shown
  BY DEF kbVars, Shown
<1>2. PlacesOK' /\ PlaceInv'
  BY <1>1 DEF KnowledgeInv, KnowledgeTypes, PlacesOK, PlaceInv, WellPlaced
<1>3. jobs' \in [Requests -> Job] /\ (\A r \in Requests : JobOK(jobs'[r])) /\ Exclusive'
  BY <1>1 DEF KnowledgeInv, KnowledgeTypes, Exclusive
<1>4. \A d : /\ Current(d)' = Current(d) /\ Clean(d)' = Clean(d) /\ Complete(d)' = Complete(d)
             /\ Loaded(d)' = Loaded(d) /\ CleanIn(points, d)' = CleanIn(points, d)
  BY <1>1 DEF Current, Clean, Complete, CurrentIn, CleanIn, CompleteIn, Loaded
<1>5. FiledInv'
  BY <1>1, <1>4 DEF KnowledgeInv, FiledInv, FiledJob, FiledOne
<1>6. TrustInv'
  BY <1>1, <1>4 DEF KnowledgeInv, TrustInv
<1> QED
  BY <1>2, <1>3, <1>5, <1>6 DEF KnowledgeInv, KnowledgeTypes

\* An operation carried out leaves fewer states to be answered from.
LEMMA ApplyKeepsKnowledge ==
    ASSUME KnowledgeInv, QdrantStep
    PROVE  KnowledgeInv'
<1>1. UNCHANGED <<files, points, rows, jobs, faults, trusted>>
  BY DEF QdrantStep, Apply
<1>2. behind \in Seq(Collections) /\ behind # <<>> /\ behind' = Tail(behind)
  BY DEF KnowledgeInv, KnowledgeTypes, PlacesOK, QdrantStep, Apply
<1>3. behind' \in Seq(Collections) /\ Shown' \subseteq Shown
  <2>1. \A i \in DOMAIN behind' : i + 1 \in DOMAIN behind /\ behind'[i] = behind[i + 1]
    BY <1>2
  <2> QED
    BY <1>1, <1>2, <2>1 DEF Shown
<1>4. PlacesOK' /\ PlaceInv'
  BY <1>1, <1>3 DEF KnowledgeInv, KnowledgeTypes, PlacesOK, PlaceInv, WellPlaced
<1>5. jobs' \in [Requests -> Job] /\ (\A r \in Requests : JobOK(jobs'[r])) /\ Exclusive'
  BY <1>1 DEF KnowledgeInv, KnowledgeTypes, Exclusive
<1>6. \A d : /\ Loaded(d)' = Loaded(d) /\ CleanIn(points, d)' = CleanIn(points, d)
             /\ Current(d) => Current(d)'
             /\ Clean(d) => Clean(d)'
             /\ Complete(d) => Complete(d)'
  BY <1>1, <1>3 DEF Current, Clean, Complete, CurrentIn, CleanIn, CompleteIn, Loaded
<1>7. FiledInv'
  <2>1. ASSUME NEW r \in Requests, NEW d \in jobs[r].alone
        PROVE  FiledOne(jobs[r], d)'
    <3>1. FiledOne(jobs[r], d)
      BY DEF KnowledgeInv, FiledInv, FiledJob
    <3> QED
      BY <1>1, <1>6, <3>1 DEF FiledOne
  <2> QED
    BY <1>1, <2>1 DEF FiledInv, FiledJob
<1>8. TrustInv'
  BY <1>1, <1>6 DEF KnowledgeInv, TrustInv
<1> QED
  BY <1>4, <1>5, <1>7, <1>8 DEF KnowledgeInv, KnowledgeTypes

LEMMA AnswersLeaveKnowledge ==
    ASSUME NEW q \in Questions, AnswerStep(q)
    PROVE  UNCHANGED <<kbVars, trusted>>
BY DEF AnswerStep, Ask, AskPolicy, Asks, Scroll, Search, Rerank, Compress, Generate,
       NoAnswerGiven

LEMMA WorkKeepsKnowledge ==
    ASSUME KnowledgeInv, NEW r \in Requests, WorkStep(r)
    PROVE  KnowledgeInv'
<1>1. Does(r)
  BY StepDoes DEF WorkStep, KnowledgeInv
<1> QED
  BY <1>1, DoesKeepsTypes, DoesKeepsFiled, WorkKeepsTrust DEF KnowledgeInv

LEMMA NextKeepsKnowledge == KnowledgeInv /\ [RagNext]_ragVars => KnowledgeInv'
<1> SUFFICES ASSUME KnowledgeInv, [RagNext]_ragVars
             PROVE  KnowledgeInv'
  OBVIOUS
<1>1. ASSUME NEW r \in Requests, WorkStep(r)
      PROVE  KnowledgeInv'
  BY <1>1, WorkKeepsKnowledge
<1>2. CASE (\E q \in Questions : AnswerStep(q)) \/ Over \/ UNCHANGED ragVars
  <2>1. UNCHANGED <<kbVars, trusted>>
    BY <1>2, AnswersLeaveKnowledge DEF Over, ragVars
  <2> QED
    BY <2>1, StillKnowledge
<1> QED
  BY <1>1, <1>2, ApplyKeepsKnowledge DEF RagNext

(***************************************************************************)
(* However requests interleave and whichever of their calls fail, a chunk  *)
(* is where the version it belongs to puts it, a request that had its      *)
(* document alone finds it as its earlier steps have left it, and no       *)
(* search comes upon a stale chunk of a trusted document, although what    *)
(* other requests did not wait for may still be undone                     *)
(* (routers/knowledge_base.py, rag/ingestion.py).                          *)
(***************************************************************************)
THEOREM KnowledgeCorrect == RagSpec => []KnowledgeInv
<1>1. RagInit => KnowledgeInv
  BY KnowledgeTypesInit DEF KnowledgeInv
<1> QED
  BY <1>1, NextKeepsKnowledge, PTL DEF RagSpec

\* What a step leaves fresh and complete is indexed as its file is read.
LEMMA FreshIsIndexed ==
    ASSUME PlacesOK', PlaceInv', NEW ps \in Shown', NEW d \in Docs,
           CurrentIn(ps, d)', CompleteIn(ps, d)'
    PROVE  Indexed(ps, d, Loaded(d))'
<1> DEFINE v == Loaded(d)'
<1>1. ps \in Collections /\ (WellPlaced(ps))' /\ (files'[d] # None <=> v # None)
  <2>1. ps \in Collections
    BY DEF PlacesOK, Shown
  <2>2. files'[d] # None <=> v # None
    BY KnowledgeBaseAssumption DEF Loaded, PlacesOK, Read, DocVersions
  <2> QED
    BY <2>1, <2>2 DEF PlaceInv
<1>2. ASSUME NEW s \in Slots, v # None, s \in ChunkIds(d, v)
      PROVE  ps[s] = Point(d, v)
  BY <1>1, <1>2 DEF CompleteIn
<1>3. ASSUME NEW s \in Slots, ~ (v # None /\ s \in ChunkIds(d, v)),
             ps[s] # None, ps[s].doc = d
      PROVE  FALSE
  <2>1. ps[s].version = v /\ ps[s].version \in DocVersions
    BY <1>1, <1>3 DEF CurrentIn, Collections, ChunkPoint
  <2>2. s \in ChunkIds(d, v)
    BY <1>1, <1>3, <2>1 DEF WellPlaced
  <2> QED
    BY <1>3, <2>1, <2>2, KnowledgeBaseAssumption
<1> QED
  BY <1>2, <1>3 DEF Indexed

\* The same of the collection as it comes to be, and of all that is shown.
LEMMA CollectionIsIndexed ==
    ASSUME PlacesOK', PlaceInv', NEW d \in Docs
    PROVE  /\ CurrentIn(points, d)' /\ CompleteIn(points, d)' => Indexed(points, d, Loaded(d))'
           /\ Current(d)' /\ Complete(d)' => (\A ps \in Shown : Indexed(ps, d, Loaded(d)))'
<1>1. ASSUME CurrentIn(points, d)', CompleteIn(points, d)'
      PROVE  Indexed(points, d, Loaded(d))'
  <2>1. PICK ps : ps = points'
    OBVIOUS
  <2>2. ps \in Shown' /\ CurrentIn(ps, d)' /\ CompleteIn(ps, d)'
    BY <1>1, <2>1 DEF Shown, CurrentIn, CompleteIn
  <2>3. Indexed(ps, d, Loaded(d))'
    BY <2>2, FreshIsIndexed
  <2> QED
    BY <2>1, <2>3 DEF Indexed
<1>2. ASSUME Current(d)', Complete(d)'
      PROVE  (\A ps \in Shown : Indexed(ps, d, Loaded(d)))'
  <2>1. \A ps \in Shown' : CurrentIn(ps, d)' /\ CompleteIn(ps, d)'
    BY <1>2 DEF Current, Complete
  <2>2. \A ps \in Shown' : Indexed(ps, d, Loaded(d))'
    BY <2>1, FreshIsIndexed
  <2> QED
    BY <2>2
<1> QED
  BY <1>1, <1>2

LEMMA CleanIsIndexed ==
    ASSUME NEW d, Clean(d)', files'[d] = None
    PROVE  (\A ps \in Shown : Indexed(ps, d, Loaded(d)))'
BY DEF Clean, CleanIn, Indexed, Loaded

\* The row that the last call of a request leaves.
LEMMA RowAsFiled ==
    ASSUME KnowledgeTypes, FiledInv, NEW r \in Requests, WriteRow(r), jobs'[r].pc = "ok",
           NEW d \in jobs[r].alone
    PROVE  /\ jobs[r].kind \in {"create", "update"} => rows'[d] = Row(files[d], files[d])
           /\ jobs[r].kind = "ingest" => rows'[d] = Row(Loaded(d), Loaded(d))
           /\ jobs[r].kind \in Filing => files[d] # None
           /\ jobs[r].kind = "delete" => rows'[d] = None /\ files[d] = None
           /\ files'[d] = files[d]
<1> DEFINE j == jobs[r]
<1>1. /\ j.pc = "row" /\ d \in Docs /\ j.targets = {Only(r)} /\ j \in Job /\ JobOK(j)
      /\ FiledOne(j, d)
  BY OnlyTarget, OwnJob DEF WriteRow, At, FiledInv, FiledJob, Job
<1>2. d = Only(r)
  BY <1>1 DEF JobOK
<1>3. "failed" \in JobStages /\ ~ To(r, "failed")
  BY StageReached DEF JobStages
<1>4. /\ rows' = [rows EXCEPT ![d] = IF j.kind = "delete" THEN None
                                     ELSE Row(j.version, j.loaded[d])]
      /\ files' = files
  BY <1>2, <1>3 DEF WriteRow, CallFails
<1>5. rows'[d] = IF j.kind = "delete" THEN None ELSE Row(j.version, j.loaded[d])
  BY <1>1, <1>4 DEF KnowledgeTypes, PlacesOK
<1>6. j.kind \in Filing =>
         /\ files[d] # None /\ j.loaded[d] = Loaded(d) /\ j.kind # "delete"
         /\ j.kind = "ingest" => Loaded(d) = j.version
         /\ j.kind \in {"create", "update"} => files[d] = j.version
  BY <1>1 DEF FiledOne, Filing
<1>7. files[d] # None => Row(files[d], Loaded(d)) = Row(files[d], files[d])
  BY DEF Loaded, Read, Row
<1>8. j.kind = "delete" => files[d] = None
  BY <1>1 DEF FiledOne
<1> QED
  BY <1>4, <1>5, <1>6, <1>7, <1>8 DEF Filing

\* What SuccessSettles says of a document that a request has had alone.
SettlesOne(job, d) ==
    /\ job.kind \in {"create", "update"} => Settled(d, files[d])
    /\ job.kind = "ingest" => Settled(d, Loaded(d))
    /\ job.kind = "delete" /\ job.purged => Settled(d, None)
    /\ job.kind = "refresh" => Indexed(points, d, Loaded(d))
    /\ job.kind = "refresh" /\ job.wait => \A ps \in Shown : Indexed(ps, d, Loaded(d))

LEMMA StepSettles ==
    ASSUME BasesDiffer, KnowledgeTypes, FiledInv, NEW r \in Requests, KnowledgeStep(r),
           jobs'[r].pc = "ok", NEW d \in jobs[r].alone, NEW job, job = jobs[r]
    PROVE  SettlesOne(job, d)'
<1>1. /\ KnowledgeTypes' /\ PlacesOK' /\ PlaceInv'
      /\ job \in Job /\ JobOK(job) /\ d \in Docs /\ job.pc \notin Ended
  <2>1. job \in Job /\ JobOK(job)
    BY OwnJob
  <2>2. d \in Docs /\ job.pc \notin Ended
    BY <2>1 DEF JobOK, Job
  <2> QED
    BY <2>1, <2>2, StepDoes, DoesKeepsTypes DEF KnowledgeTypes
<1>2. ASSUME job.kind \in Filing \cup {"refresh"}
      PROVE  /\ Indexed(points, d, Loaded(d))'
             /\ job.wait = TRUE => (\A ps \in Shown : Indexed(ps, d, Loaded(d)))'
  <2>1. /\ CurrentIn(points, d)' /\ CompleteIn(points, d)'
        /\ job.wait = TRUE => Current(d)' /\ Complete(d)'
    BY <1>2, SuccessFreshens
  <2> QED
    BY <1>1, <2>1, CollectionIsIndexed
<1>3. ASSUME job.kind \in Filing \cup {"delete"}
      PROVE  WriteRow(r)
  <2>1. Upsert(r) => To(r, "row") \/ To(r, "failed")
    BY <1>3 DEF Upsert, FailsToStore, CallFails, Filing
  <2>2. ~ To(r, "row") /\ ~ To(r, "failed")
    BY StageReached DEF JobStages
  <2> QED
    BY <2>1, <2>2, SuccessIsLast
<1>4. ASSUME job.kind \in Filing
      PROVE  /\ (\A ps \in Shown : Indexed(ps, d, Loaded(d)))'
             /\ job.kind \in {"create", "update"} => rows'[d] = Row(files'[d], files'[d])
             /\ job.kind = "ingest" => rows'[d] = Row(Loaded(d)', Loaded(d)')
             /\ files'[d] # None /\ Loaded(d)' # None
  <2>1. job.wait = TRUE
    BY <1>1, <1>4 DEF JobOK
  <2>2. WriteRow(r) /\ files'[d] = files[d]
    BY <1>3, <1>4, RowAsFiled
  <2>3. Loaded(d)' = Loaded(d) /\ (files[d] # None => Loaded(d) # None)
    BY <1>1, <2>2, ReadIsVersion DEF Loaded, KnowledgeTypes
  <2> QED
    BY <1>2, <1>4, <2>1, <2>2, <2>3, RowAsFiled
<1>5. ASSUME job.kind = "delete", job.purged
      PROVE  Settled(d, None)'
  <2>1. rows'[d] = None /\ files'[d] = None
    BY <1>3, <1>5, RowAsFiled
  <2>2. Clean(d)'
    BY <1>5, SuccessFreshens
  <2>3. (\A ps \in Shown : Indexed(ps, d, Loaded(d)))'
    BY <2>1, <2>2, CleanIsIndexed
  <2> QED
    BY <2>1, <2>3 DEF Settled
<1>6. job.kind \in {"create", "update"} => Settled(d, files[d])'
  BY <1>4 DEF Settled, Filing
<1>7. job.kind = "ingest" => Settled(d, Loaded(d))'
  BY <1>4 DEF Settled, Filing
<1>8. job.kind = "refresh" =>
         /\ Indexed(points, d, Loaded(d))'
         /\ job.wait => (\A ps \in Shown : Indexed(ps, d, Loaded(d)))'
  BY <1>2
<1> QED
  BY <1>5, <1>6, <1>7, <1>8 DEF SettlesOne

(***************************************************************************)
(* A request that is answered with success, and had its document alone,    *)
(* leaves the places in agreement: no search comes upon a chunk of it that *)
(* its file is not read as, though Qdrant may still have to carry out what *)
(* others did not wait for, and its row is that of the file; a refresh     *)
(* that did not wait leaves the chunks so once Qdrant has carried it out.  *)
(* Two documents must not have names from which _build_chunk_id makes the  *)
(* same ids: else the chunks of one are overwritten by those of the other, *)
(* and the request that lost them is answered with success all the same    *)
(* (routers/knowledge_base.py, rag/ingestion.py).                          *)
(***************************************************************************)
THEOREM SuccessMeansAgreement == ASSUME BasesDiffer PROVE RagSpec => SuccessSettles
<1>1. ASSUME KnowledgeInv, [RagNext]_ragVars, NEW r \in Requests,
             jobs[r].pc # "ok", jobs'[r].pc = "ok", NEW d \in jobs[r].alone,
             NEW job, job = jobs[r]
      PROVE  SettlesOne(job, d)'
  <2>1. ASSUME UNCHANGED jobs
        PROVE  FALSE
    BY <1>1, <2>1
  <2>2. PICK k \in Requests : WorkStep(k)
    BY <1>1, <2>1, AnswersLeaveKnowledge DEF RagNext, Over, ragVars, kbVars, QdrantStep, Apply
  <2>3. k = r
    <3>1. Does(k)
      BY <1>1, <2>2, StepDoes DEF WorkStep, KnowledgeInv
    <3> QED
      BY <1>1, <3>1, OthersKeep DEF KnowledgeInv, SameButAlone
  <2> QED
    BY <1>1, <2>2, <2>3, StepSettles DEF WorkStep, KnowledgeInv
<1> DEFINE Settles(r) ==
        LET job == jobs[r]
        IN  job.pc # "ok" /\ jobs'[r].pc = "ok" =>
              \A d \in job.alone :
                  /\ job.kind \in {"create", "update"} => Settled(d, files[d])'
                  /\ job.kind = "ingest" => Settled(d, Loaded(d))'
                  /\ job.kind = "delete" /\ job.purged => Settled(d, None)'
                  /\ job.kind = "refresh" => Indexed(points, d, Loaded(d))'
                  /\ job.kind = "refresh" /\ job.wait =>
                        (\A ps \in Shown : Indexed(ps, d, Loaded(d)))'
<1>2. ASSUME KnowledgeInv, [RagNext]_ragVars, NEW r \in Requests
      PROVE  Settles(r)
  <2>1. PICK job : job = jobs[r]
    OBVIOUS
  <2>2. job.pc # "ok" /\ jobs'[r].pc = "ok" => \A d \in job.alone : SettlesOne(job, d)'
    BY <1>1, <1>2, <2>1
  <2> QED
    BY <2>1, <2>2 DEF SettlesOne
<1>3. KnowledgeInv /\ [RagNext]_ragVars => [\A r \in Requests : Settles(r)]_kbVars
  BY <1>2
<1> QED
  BY <1>3, KnowledgeCorrect, PTL DEF RagSpec, SuccessSettles

-----------------------------------------------------------------------------
(* What an answer is made from.                                            *)

LEMMA SlotsFinite == IsFiniteSet(Slots)
<1> DEFINE bases == {Base[d] : d \in Docs}
           naming == [d \in Docs |-> Base[d]]
<1>1. naming \in Surjection(Docs, bases)
  BY DEF Surjection
<1>2. IsFiniteSet(bases)
  BY <1>1, FS_Surjection, KnowledgeBaseAssumption
<1>3. IsFiniteSet(1..MaxChunks)
  BY FS_Interval, KnowledgeBaseAssumption
<1> HIDE DEF bases
<1>4. IsFiniteSet(bases \X (1..MaxChunks))
  BY <1>2, <1>3, FS_Product
<1> QED
  BY <1>4 DEF Slots, bases

\* What searches are answered from now is what they may be answered from.
LEMMA VisibleIsShown ==
    ASSUME PlacesOK
    PROVE  Visible \in Shown /\ Visible \in Collections
<1>1. points \in Collections /\ behind \in Seq(Collections)
  BY DEF PlacesOK
<1>2. behind # <<>> => 1 \in DOMAIN behind /\ Head(behind) = behind[1]
  BY <1>1
<1> QED
  BY <1>1, <1>2 DEF Visible, Shown

\* A search sees each chunk id once, with the chunk that is there.
LEMMA SearchableHits ==
    ASSUME KnowledgeTypes, NEW group
    PROVE  /\ Searchable(group) \in SUBSET Hit /\ IsFiniteSet(Searchable(group))
           /\ DistinctIds(Searchable(group)) /\ InGroup(Searchable(group), group)
           /\ \A h \in Searchable(group) : h.point = Visible[h.id]
<1> DEFINE found == {s \in Slots : Visible[s] # None /\ Matches(Visible[s], group)}
           hit(s) == [id |-> s, point |-> Visible[s]]
           hits == {hit(s) : s \in found}
           finding == [s \in found |-> hit(s)]
<1>1. Searchable(group) = hits
  BY DEF Searchable
<1>2. finding \in Surjection(found, hits)
  BY DEF Surjection
<1>3. IsFiniteSet(found)
  BY SlotsFinite, FS_Subset
<1>4. IsFiniteSet(hits)
  BY <1>2, <1>3, FS_Surjection
<1>5. \A h \in hits : \E s \in found : h = hit(s)
  OBVIOUS
<1>6. \A h \in hits : h.id \in found /\ h.point = Visible[h.id] /\ h = hit(h.id)
  BY <1>5
<1>7. hits \in SUBSET Hit
  BY <1>6, VisibleIsShown DEF KnowledgeTypes, Collections, Hit
<1>8. DistinctIds(hits)
  BY <1>6 DEF DistinctIds
<1>9. InGroup(hits, group)
  BY <1>6 DEF InGroup
<1> QED
  BY <1>1, <1>4, <1>6, <1>7, <1>8, <1>9

LEMMA SearchableAsFiled ==
    ASSUME KnowledgeInv, NEW group, NEW quiet, quiet \subseteq trusted
    PROVE  AsFiled(Searchable(group), quiet)
<1>1. ASSUME NEW h \in Searchable(group), h.point.doc \in quiet
      PROVE  h.point.version = Loaded(h.point.doc)
  <2>1. h \in Hit /\ h.point = Visible[h.id]
    BY SearchableHits DEF KnowledgeInv
  <2>2. h.id \in Slots /\ h.point # None
    BY <2>1, KnowledgeBaseAssumption DEF Hit, ChunkPoint
  <2>3. CurrentIn(Visible, h.point.doc)
    BY <1>1, VisibleIsShown DEF KnowledgeInv, KnowledgeTypes, TrustInv, Current
  <2> QED
    BY <2>1, <2>2, <2>3 DEF CurrentIn
<1> QED
  BY <1>1 DEF AsFiled

\* Two ways of searching, or two queries, put together keep ids distinct.
LEMMA FusedDistinct ==
    ASSUME NEW near, NEW worded, DistinctIds(near), DistinctIds(worded)
    PROVE  DistinctIds(Fused(near, worded)) /\ Fused(near, worded) \subseteq near \cup worded
BY DEF DistinctIds, Fused

LEMMA MergeDistinct ==
    ASSUME NEW merged, NEW hits, DistinctIds(merged), DistinctIds(hits)
    PROVE  DistinctIds(Merge(merged, hits)) /\ Merge(merged, hits) \subseteq merged \cup hits
BY DEF DistinctIds, Merge

LEMMA PartsAreDistinct ==
    ASSUME NEW hits, DistinctIds(hits), NEW part \in SUBSET hits
    PROVE  DistinctIds(part)
BY DEF DistinctIds

\* An order of distinct chunks names an id once.
LEMMA OrdersInjective ==
    ASSUME NEW found \in SUBSET Hit, IsFiniteSet(found), DistinctIds(found),
           NEW s \in Orders(found)
    PROVE  s \in Seq(Hit) /\ Injective(s) /\ Chunks(s) \subseteq found
<1>1. Cardinality(found) \in Nat
  BY FS_CardinalityType
<1>2. /\ s \in [1..Cardinality(found) -> found]
      /\ \A i, j \in DOMAIN s : s[i] = s[j] => i = j
  BY DEF Orders
<1>3. s \in Seq(Hit)
  BY <1>1, <1>2
<1>4. \A i \in DOMAIN s : s[i] \in found
  BY <1>2
<1> QED
  BY <1>2, <1>3, <1>4 DEF Injective, DistinctIds, Chunks

LEMMA ModelOrdersInjective ==
    ASSUME NEW found \in SUBSET Hit, IsFiniteSet(found), DistinctIds(found),
           NEW s \in ModelOrders(found)
    PROVE  s \in Seq(Hit) /\ Injective(s) /\ Chunks(s) \subseteq found
<1>1. PICK part \in SUBSET found : s \in Orders(part)
  BY DEF ModelOrders
<1>2. part \in SUBSET Hit /\ IsFiniteSet(part) /\ DistinctIds(part)
  BY FS_Subset, PartsAreDistinct
<1>3. s \in Seq(Hit) /\ Injective(s) /\ Chunks(s) \subseteq part
  BY <1>1, <1>2, OrdersInjective
<1> QED
  BY <1>3

LEMMA RuleOrdersInjective ==
    ASSUME NEW found \in SUBSET Hit, IsFiniteSet(found), DistinctIds(found),
           NEW s \in RuleOrders(found)
    PROVE  s \in Seq(Hit) /\ Injective(s) /\ Chunks(s) \subseteq found
<1>1. PICK t \in Orders(found) : s = SubSeq(t, 1, IF Len(t) < TopN THEN Len(t) ELSE TopN)
  BY DEF RuleOrders
<1>2. t \in Seq(Hit) /\ Injective(t) /\ Chunks(t) \subseteq found
  BY <1>1, OrdersInjective
<1>3. PICK n \in Nat : n <= Len(t) /\ s = SubSeq(t, 1, n)
  BY <1>1, <1>2, RagAnswersAssumption
<1>4. Len(t) \in Nat /\ DOMAIN t = 1..Len(t) /\ \A i \in 1..n : t[i] \in Hit
  BY <1>2, <1>3
<1>5. /\ s \in Seq(Hit)
      /\ Len(s) = IF 1 <= n THEN n - 1 + 1 ELSE 0
      /\ \A i \in 1..(n - 1 + 1) : s[i] = t[1 + i - 1]
  BY <1>3, <1>4, SubSeqProperties
<1>6. DOMAIN s = 1..n /\ \A i \in DOMAIN s : i \in DOMAIN t /\ s[i] = t[i]
  BY <1>3, <1>4, <1>5
<1> QED
  BY <1>2, <1>5, <1>6 DEF Injective, Chunks

LEMMA CompressedInjective ==
    ASSUME NEW s \in Seq(Hit), Injective(s), NEW k \in Compressed(s)
    PROVE  k \in Seq(Hit) /\ Injective(k) /\ Chunks(k) \subseteq Chunks(s)
<1> DEFINE naming == [i \in 1..Len(s) |-> s[i]]
<1>1. k \in ModelOrders(Chunks(s))
  BY DEF Compressed, Chunks
<1>2. Len(s) \in Nat /\ DOMAIN s = 1..Len(s) /\ \A i \in DOMAIN s : s[i] \in Hit
  OBVIOUS
<1>3. naming \in Surjection(1..Len(s), Chunks(s))
  BY <1>2 DEF Surjection, Chunks
<1>4. IsFiniteSet(Chunks(s))
  BY <1>2, <1>3, FS_Interval, FS_Surjection
<1>5. Chunks(s) \in SUBSET Hit /\ DistinctIds(Chunks(s))
  BY <1>2 DEF Injective, DistinctIds, Chunks
<1> QED
  BY <1>1, <1>4, <1>5, ModelOrdersInjective

-----------------------------------------------------------------------------
(* Answers.                                                                *)

LEMMA NoAnswerFields ==
    /\ NoAnswer \in RagAnswer
    /\ NoAnswer.pc = "new" /\ NoAnswer.route = None /\ NoAnswer.group = None
    /\ NoAnswer.queries = 0 /\ NoAnswer.index = {} /\ NoAnswer.merged = {}
    /\ NoAnswer.chunks = <<>> /\ NoAnswer.citations = <<>> /\ NoAnswer.quiet = {}
<1>1. <<>> \in Seq(Hit)
  OBVIOUS
<1> QED
  BY <1>1 DEF NoAnswer, RagAnswer, AnswerStages

LEMMA NothingAtHand ==
    /\ IsFiniteSet({}) /\ DistinctIds({}) /\ Injective(<<>>) /\ Chunks(<<>>) = {}
    /\ \A group : InGroup({}, group)
    /\ \A quiet : AsFiled({}, quiet)
<1>1. IsFiniteSet({})
  BY FS_EmptySet
<1>2. Chunks(<<>>) = {}
  BY DEF Chunks
<1> QED
  BY <1>1, <1>2 DEF DistinctIds, Injective, InGroup, AsFiled

\* An answer with nothing at hand yet, or any more.
LEMMA EmptyHanded ==
    ASSUME NEW a \in RagAnswer, a.index = {}, a.merged = {}, a.chunks = <<>>,
           a.citations = <<>>, a.quiet \subseteq trusted,
           a.pc \in {"scroll", "search"} => a.queries # 0,
           a.route = "policy" => a.group = None
    PROVE  AnswerOK(a) /\ QuietAnswer(a)
BY NothingAtHand DEF AnswerOK, QuietAnswer

LEMMA AnswersInvInit == RagInit => AnswersInv
<1> SUFFICES ASSUME RagInit
             PROVE  AnswersInv
  OBVIOUS
<1>1. answers = [q \in Questions |-> NoAnswer]
  BY DEF RagInit
<1>2. AnswerOK(NoAnswer) /\ QuietAnswer(NoAnswer)
  BY NoAnswerFields, EmptyHanded
<1>3. answers \in [Questions -> RagAnswer] /\ \A q \in Questions : answers[q] = NoAnswer
  BY <1>1, NoAnswerFields
<1> QED
  BY <1>2, <1>3 DEF AnswersInv

\* The step of one question.
LEMMA OneAnswer ==
    ASSUME AnswersInv, UNCHANGED <<kbVars, trusted>>, NEW q \in Questions, NEW b \in RagAnswer,
           AnswerOK(b), QuietAnswer(b), answers' = [answers EXCEPT ![q] = b]
    PROVE  AnswersInv'
<1>1. answers' \in [Questions -> RagAnswer] /\ answers'[q] = b
      /\ \A k \in Questions \ {q} : answers'[k] = answers[k]
  BY DEF AnswersInv
<1>2. trusted' = trusted /\ \A d : Loaded(d)' = Loaded(d)
  BY DEF kbVars, Loaded
<1>3. \A k \in Questions : AnswerOK(answers'[k]) /\ QuietAnswer(answers'[k])
  BY <1>1 DEF AnswersInv
<1> QED
  BY <1>1, <1>2, <1>3 DEF AnswersInv, QuietAnswer, AsFiled

LEMMA AskKeeps ==
    ASSUME KnowledgeInv, AnswersInv, NEW q \in Questions, NEW route \in {"ask", "policy"},
           NEW group \in Groups \cup {None}, NEW queries \in Nat \ {0},
           route = "policy" => group = None, Asks(q, route, group, queries)
    PROVE  AnswersInv'
<1> DEFINE pc == IF route = "policy" /\ Hybrid THEN "scroll" ELSE "search"
           b == [NoAnswer EXCEPT !.pc = pc, !.route = route, !.group = group,
                                 !.queries = queries, !.quiet = trusted]
<1>1. answers' = [answers EXCEPT ![q] = b] /\ UNCHANGED <<kbVars, trusted>>
  BY DEF Asks
<1>2. pc \in AnswerStages /\ trusted \subseteq Docs
  BY DEF AnswerStages, KnowledgeInv, TrustInv
<1> HIDE DEF pc
<1>3. /\ b \in RagAnswer /\ b.route = route /\ b.group = group /\ b.queries = queries
      /\ b.quiet = trusted /\ b.index = {} /\ b.merged = {} /\ b.chunks = <<>>
      /\ b.citations = <<>>
  BY <1>2, NoAnswerFields DEF RagAnswer
<1> HIDE DEF b
<1>4. AnswerOK(b) /\ QuietAnswer(b)
  BY <1>3, EmptyHanded
<1> QED
  BY <1>1, <1>3, <1>4, OneAnswer

LEMMA ScrollKeeps ==
    ASSUME KnowledgeInv, AnswersInv, NEW q \in Questions, Scroll(q)
    PROVE  AnswersInv'
<1> DEFINE a == answers[q]
           found == Searchable(None)
           b == [a EXCEPT !.index = found, !.pc = "search"]
<1>1. /\ a.pc = "scroll" /\ answers' = [answers EXCEPT ![q] = b]
      /\ UNCHANGED <<kbVars, trusted>>
  BY DEF Scroll, Is
<1>2. a \in RagAnswer /\ AnswerOK(a) /\ QuietAnswer(a)
  BY DEF AnswersInv
<1>3. found \in SUBSET Hit /\ IsFiniteSet(found) /\ DistinctIds(found)
  BY SearchableHits DEF KnowledgeInv
<1>4. AsFiled(found, a.quiet)
  BY <1>2, SearchableAsFiled DEF QuietAnswer
<1> HIDE DEF found, a
<1>5. /\ b \in RagAnswer /\ b.pc = "search" /\ b.index = found /\ b.route = a.route
      /\ b.group = a.group /\ b.queries = a.queries /\ b.merged = a.merged
      /\ b.chunks = a.chunks /\ b.citations = a.citations /\ b.quiet = a.quiet
  BY <1>2, <1>3 DEF RagAnswer, AnswerStages
<1> HIDE DEF b
<1>6. AnswerOK(b)
  BY <1>1, <1>2, <1>3, <1>5 DEF AnswerOK
<1>7. QuietAnswer(b)
  BY <1>2, <1>4, <1>5 DEF QuietAnswer
<1> QED
  BY <1>1, <1>5, <1>6, <1>7, OneAnswer

\* What a query adds to what the queries before it found.
LEMMA SearchMerges ==
    ASSUME KnowledgeInv, NEW a \in RagAnswer, AnswerOK(a), QuietAnswer(a), a.pc = "search",
           NEW near \in TopK(Searchable(a.group), CandidateCount), NEW worded \in Worded(a),
           NEW hits \in TopK(Fused(near, worded), CandidateCount)
    PROVE  LET merged == Merge(a.merged, hits)
           IN  /\ merged \in SUBSET Hit /\ IsFiniteSet(merged) /\ DistinctIds(merged)
               /\ InGroup(merged, a.group) /\ AsFiled(merged, a.quiet)
<1> DEFINE merged == Merge(a.merged, hits)
           found == Searchable(a.group)
<1>1. /\ found \in SUBSET Hit /\ IsFiniteSet(found) /\ DistinctIds(found)
      /\ InGroup(found, a.group) /\ AsFiled(found, a.quiet)
  BY SearchableHits, SearchableAsFiled DEF KnowledgeInv, QuietAnswer
<1>2. near \subseteq found /\ hits \subseteq Fused(near, worded)
  BY DEF TopK
<1>3. worded \subseteq a.index /\ (worded # {} => a.group = None)
  BY DEF Worded, AnswerOK
<1>4. DistinctIds(near) /\ DistinctIds(worded)
  BY <1>1, <1>2, <1>3, PartsAreDistinct DEF AnswerOK
<1>5. DistinctIds(hits) /\ hits \subseteq near \cup worded
  BY <1>2, <1>4, FusedDistinct, PartsAreDistinct
<1>6. DistinctIds(merged) /\ merged \subseteq a.merged \cup near \cup worded
  BY <1>5, MergeDistinct DEF AnswerOK
<1>7. /\ a.merged \in SUBSET Hit /\ a.index \in SUBSET Hit
      /\ IsFiniteSet(a.merged) /\ IsFiniteSet(a.index) /\ InGroup(a.merged, a.group)
      /\ AsFiled(a.merged, a.quiet) /\ AsFiled(a.index, a.quiet)
  BY DEF RagAnswer, AnswerOK, QuietAnswer
<1> HIDE DEF merged, found
<1>8. merged \subseteq a.merged \cup found \cup a.index
  BY <1>2, <1>3, <1>6
<1>9. IsFiniteSet(merged)
  <2>1. IsFiniteSet((a.merged \cup found) \cup a.index)
    BY <1>1, <1>7, FS_Union
  <2> QED
    BY <1>8, <2>1, FS_Subset
<1>10. InGroup(worded, a.group)
  BY <1>3 DEF InGroup, Matches
<1>11. InGroup(merged, a.group)
  BY <1>1, <1>2, <1>6, <1>7, <1>10 DEF InGroup
<1>12. AsFiled(merged, a.quiet)
  BY <1>1, <1>7, <1>8 DEF AsFiled
<1>13. merged \in SUBSET Hit
  BY <1>1, <1>7, <1>8
<1> QED
  BY <1>6, <1>9, <1>11, <1>12, <1>13 DEF merged

LEMMA SearchKeeps ==
    ASSUME KnowledgeInv, AnswersInv, NEW q \in Questions, Search(q)
    PROVE  AnswersInv'
<1> DEFINE a == answers[q]
           next == IF a.queries = 1 THEN "rerank" ELSE IF Hybrid THEN "scroll" ELSE "search"
<1>1. a \in RagAnswer /\ AnswerOK(a) /\ QuietAnswer(a) /\ a.pc = "search"
  BY DEF AnswersInv, Search, Is
<1>2. PICK merged : /\ merged \in SUBSET Hit /\ IsFiniteSet(merged) /\ DistinctIds(merged)
                    /\ InGroup(merged, a.group) /\ AsFiled(merged, a.quiet)
                    /\ answers' = [answers EXCEPT ![q] =
                           [a EXCEPT !.merged = merged, !.queries = a.queries - 1,
                                     !.index = {}, !.pc = next]]
  <2>1. PICK near \in TopK(Searchable(a.group), CandidateCount), worded \in Worded(a) :
           \E hits \in TopK(Fused(near, worded), CandidateCount) :
               answers' = [answers EXCEPT ![q] =
                   [a EXCEPT !.merged = Merge(a.merged, hits), !.queries = a.queries - 1,
                             !.index = {}, !.pc = next]]
    BY DEF Search
  <2>2. PICK hits \in TopK(Fused(near, worded), CandidateCount) :
            answers' = [answers EXCEPT ![q] =
                [a EXCEPT !.merged = Merge(a.merged, hits), !.queries = a.queries - 1,
                          !.index = {}, !.pc = next]]
    BY <2>1
  <2> WITNESS Merge(a.merged, hits)
  <2> QED
    BY <1>1, <2>2, SearchMerges
<1> DEFINE b == [a EXCEPT !.merged = merged, !.queries = a.queries - 1, !.index = {},
                          !.pc = next]
<1>3. UNCHANGED <<kbVars, trusted>>
  BY DEF Search
<1>4. /\ a.queries - 1 \in Nat /\ next \in AnswerStages
      /\ next \in {"scroll", "search"} => a.queries - 1 # 0
  BY <1>1 DEF AnswerOK, RagAnswer, AnswerStages
<1> HIDE DEF a, next
<1>5. /\ b \in RagAnswer /\ b.pc = next /\ b.index = {} /\ b.route = a.route
      /\ b.group = a.group /\ b.queries = a.queries - 1 /\ b.merged = merged
      /\ b.chunks = a.chunks /\ b.citations = a.citations /\ b.quiet = a.quiet
  BY <1>1, <1>2, <1>4 DEF RagAnswer
<1>6. answers' = [answers EXCEPT ![q] = b]
  BY <1>2
<1> HIDE DEF b
<1>7. AnswerOK(b)
  BY <1>1, <1>2, <1>4, <1>5, NothingAtHand DEF AnswerOK
<1>8. QuietAnswer(b)
  BY <1>1, <1>2, <1>5, NothingAtHand DEF QuietAnswer
<1> QED
  BY <1>3, <1>5, <1>6, <1>7, <1>8, OneAnswer

LEMMA RerankKeeps ==
    ASSUME AnswersInv, NEW q \in Questions, Rerank(q)
    PROVE  AnswersInv'
<1> DEFINE a == answers[q]
           next == IF Compression /\ a.route = "policy" THEN "compress" ELSE "generate"
<1>1. a \in RagAnswer /\ AnswerOK(a) /\ QuietAnswer(a) /\ a.pc # "answered"
  BY DEF AnswersInv, Rerank, Is
<1>2. PICK order \in ModelOrders(a.merged) \cup RuleOrders(a.merged) :
          answers' = [answers EXCEPT ![q] =
                          [a EXCEPT !.chunks = order, !.merged = {}, !.pc = next]]
  BY DEF Rerank
<1>3. order \in Seq(Hit) /\ Injective(order) /\ Chunks(order) \subseteq a.merged
  <2>1. a.merged \in SUBSET Hit /\ IsFiniteSet(a.merged) /\ DistinctIds(a.merged)
    BY <1>1 DEF RagAnswer, AnswerOK
  <2> QED
    BY <2>1, ModelOrdersInjective, RuleOrdersInjective
<1> DEFINE b == [a EXCEPT !.chunks = order, !.merged = {}, !.pc = next]
<1>4. UNCHANGED <<kbVars, trusted>>
  BY DEF Rerank
<1>5. next \in AnswerStages \ {"scroll", "search"}
  BY DEF AnswerStages
<1> HIDE DEF a, next
<1>6. /\ b \in RagAnswer /\ b.pc = next /\ b.index = a.index /\ b.route = a.route
      /\ b.group = a.group /\ b.queries = a.queries /\ b.merged = {}
      /\ b.chunks = order /\ b.citations = a.citations /\ b.quiet = a.quiet
  BY <1>1, <1>3, <1>5 DEF RagAnswer
<1>7. answers' = [answers EXCEPT ![q] = b]
  BY <1>2
<1> HIDE DEF b
<1>8. InGroup(Chunks(order), a.group) /\ AsFiled(Chunks(order), a.quiet)
  BY <1>1, <1>3 DEF InGroup, AsFiled, AnswerOK, QuietAnswer
<1>9. AnswerOK(b)
  BY <1>1, <1>3, <1>5, <1>6, <1>8, NothingAtHand DEF AnswerOK
<1>10. QuietAnswer(b)
  BY <1>1, <1>6, <1>8, NothingAtHand DEF QuietAnswer
<1> QED
  BY <1>4, <1>6, <1>7, <1>9, <1>10, OneAnswer

LEMMA CompressKeeps ==
    ASSUME AnswersInv, NEW q \in Questions, Compress(q)
    PROVE  AnswersInv'
<1> DEFINE a == answers[q]
<1>1. a \in RagAnswer /\ AnswerOK(a) /\ QuietAnswer(a) /\ a.pc # "answered"
  BY DEF AnswersInv, Compress, Is
<1>2. PICK kept \in Compressed(a.chunks) :
          answers' = [answers EXCEPT ![q] = [a EXCEPT !.chunks = kept, !.pc = "generate"]]
  BY DEF Compress
<1>3. kept \in Seq(Hit) /\ Injective(kept) /\ Chunks(kept) \subseteq Chunks(a.chunks)
  BY <1>1, CompressedInjective DEF RagAnswer, AnswerOK
<1> DEFINE b == [a EXCEPT !.chunks = kept, !.pc = "generate"]
<1>4. UNCHANGED <<kbVars, trusted>>
  BY DEF Compress
<1> HIDE DEF a
<1>5. /\ b \in RagAnswer /\ b.pc = "generate" /\ b.index = a.index /\ b.route = a.route
      /\ b.group = a.group /\ b.queries = a.queries /\ b.merged = a.merged
      /\ b.chunks = kept /\ b.citations = a.citations /\ b.quiet = a.quiet
  BY <1>1, <1>3 DEF RagAnswer, AnswerStages
<1>6. answers' = [answers EXCEPT ![q] = b]
  BY <1>2
<1> HIDE DEF b
<1>7. InGroup(Chunks(kept), a.group) /\ AsFiled(Chunks(kept), a.quiet)
  BY <1>1, <1>3 DEF InGroup, AsFiled, AnswerOK, QuietAnswer
<1>8. AnswerOK(b)
  BY <1>1, <1>3, <1>5, <1>7 DEF AnswerOK
<1>9. QuietAnswer(b)
  BY <1>1, <1>5, <1>7 DEF QuietAnswer
<1> QED
  BY <1>4, <1>5, <1>6, <1>8, <1>9, OneAnswer

LEMMA GenerateKeeps ==
    ASSUME AnswersInv, NEW q \in Questions, Generate(q)
    PROVE  /\ AnswersInv'
           /\ answers'[q].citations = answers[q].chunks
<1> DEFINE a == answers[q]
           b == [NoAnswer EXCEPT !.pc = "answered", !.group = a.group, !.citations = a.chunks]
<1>1. a \in RagAnswer /\ AnswerOK(a)
  BY DEF AnswersInv
<1>2. answers' = [answers EXCEPT ![q] = b] /\ UNCHANGED <<kbVars, trusted>>
  BY DEF Generate
<1> HIDE DEF a
<1>3. /\ b \in RagAnswer /\ b.pc = "answered" /\ b.index = {} /\ b.route = None
      /\ b.group = a.group /\ b.queries = 0 /\ b.merged = {}
      /\ b.chunks = <<>> /\ b.citations = a.chunks /\ b.quiet = {}
  BY <1>1, NoAnswerFields DEF RagAnswer, AnswerStages
<1> HIDE DEF b
<1>4. AnswerOK(b)
  BY <1>1, <1>3, NothingAtHand DEF AnswerOK
<1>5. QuietAnswer(b)
  BY <1>3, NothingAtHand DEF QuietAnswer
<1>6. answers'[q] = b
  BY <1>2 DEF AnswersInv
<1> QED
  BY <1>2, <1>3, <1>4, <1>5, <1>6, OneAnswer DEF a

LEMMA NoAnswerGivenKeeps ==
    ASSUME AnswersInv, NEW q \in Questions, NoAnswerGiven(q)
    PROVE  /\ AnswersInv'
           /\ answers'[q].pc = "failed"
<1> DEFINE b == [NoAnswer EXCEPT !.pc = "failed"]
<1>1. answers' = [answers EXCEPT ![q] = b] /\ UNCHANGED <<kbVars, trusted>>
  BY DEF NoAnswerGiven
<1>2. /\ b \in RagAnswer /\ b.pc = "failed" /\ b.index = {} /\ b.route = None
      /\ b.group = None /\ b.queries = 0 /\ b.merged = {}
      /\ b.chunks = <<>> /\ b.citations = <<>> /\ b.quiet = {}
  BY NoAnswerFields DEF RagAnswer, AnswerStages
<1> HIDE DEF b
<1>3. AnswerOK(b) /\ QuietAnswer(b)
  BY <1>2, EmptyHanded
<1>4. answers'[q] = b
  BY <1>1 DEF AnswersInv
<1> QED
  BY <1>1, <1>2, <1>3, <1>4, OneAnswer

\* The documents that the step of a request takes up are no longer quiet;
\* of the others the files stay as they are.
LEMMA WorkKeepsAnswers ==
    ASSUME KnowledgeInv, AnswersInv, NEW r \in Requests, WorkStep(r)
    PROVE  /\ AnswersInv'
           /\ \A q \in Questions : answers'[q].pc = answers[q].pc
<1>1. KnowledgeStep(r) /\ trusted \ jobs'[r].targets \subseteq trusted'
  BY DEF WorkStep
<1>2. PICK taken : taken = jobs'[r].targets
  OBVIOUS
<1>3. answers' = [q \in Questions |-> [answers[q] EXCEPT !.quiet = @ \ taken]]
  BY <1>2 DEF WorkStep
<1>4. ASSUME NEW q \in Questions
      PROVE  /\ answers'[q] \in RagAnswer /\ answers'[q].pc = answers[q].pc
             /\ AnswerOK(answers'[q]) /\ QuietAnswer(answers[q])'
  <2> DEFINE a == answers[q]
             b == answers'[q]
  <2>1. a \in RagAnswer /\ AnswerOK(a) /\ QuietAnswer(a)
    BY DEF AnswersInv
  <2>2. b = [a EXCEPT !.quiet = @ \ taken]
    BY <1>3
  <2> HIDE DEF a, b
  <2>3. /\ b \in RagAnswer /\ b.pc = a.pc /\ b.index = a.index /\ b.route = a.route
        /\ b.group = a.group /\ b.queries = a.queries /\ b.merged = a.merged
        /\ b.chunks = a.chunks /\ b.citations = a.citations /\ b.quiet = a.quiet \ taken
    BY <2>1, <2>2 DEF RagAnswer
  <2>4. AnswerOK(b)
    BY <2>1, <2>3 DEF AnswerOK
  <2>5. ASSUME NEW d \in a.quiet \ taken
        PROVE  Loaded(d)' = Loaded(d) /\ d \in trusted'
    <3>1. d \in Docs /\ d \in trusted' /\ d \notin jobs[r].targets
      BY <1>1, <1>2, <2>1 DEF QuietAnswer, KnowledgeInv, TrustInv
    <3>2. Untouched(d)
      BY <1>1, <1>2, <3>1, StepDoes DEF Does, KnowledgeInv
    <3> QED
      BY <3>1, <3>2 DEF Untouched, Loaded
  <2>6. PICK c : c = b
    OBVIOUS
  <2>7. /\ c.quiet \subseteq trusted' /\ AsFiled(c.index, c.quiet)'
        /\ AsFiled(c.merged, c.quiet)' /\ AsFiled(Chunks(c.chunks), c.quiet)'
    BY <2>1, <2>3, <2>5, <2>6 DEF QuietAnswer, AsFiled
  <2> QED
    BY <2>3, <2>4, <2>6, <2>7 DEF QuietAnswer, a, b
<1>5. answers' \in [Questions -> RagAnswer]
  <2>1. DOMAIN answers' = Questions /\ answers' = [q \in Questions |-> answers'[q]]
    BY <1>3
  <2> QED
    BY <1>4, <2>1
<1> QED
  BY <1>4, <1>5 DEF AnswersInv

LEMMA AnswerKeeps ==
    ASSUME KnowledgeInv, AnswersInv, NEW q \in Questions, AnswerStep(q)
    PROVE  AnswersInv'
<1>1. ASSUME NEW g \in Groups \cup {None}, Ask(q, g)
      PROVE  AnswersInv'
  BY <1>1, AskKeeps DEF Ask
<1>2. ASSUME NEW n \in 1..MaxQueries, AskPolicy(q, n)
      PROVE  AnswersInv'
  BY <1>2, AskKeeps, RagAnswersAssumption DEF AskPolicy
<1>3. CASE Scroll(q) \/ Search(q)
  BY <1>3, ScrollKeeps, SearchKeeps
<1>4. CASE Rerank(q) \/ Compress(q)
  BY <1>4, RerankKeeps, CompressKeeps
<1>5. CASE Generate(q) \/ NoAnswerGiven(q)
  BY <1>5, GenerateKeeps, NoAnswerGivenKeeps
<1> QED
  BY <1>1, <1>2, <1>3, <1>4, <1>5 DEF AnswerStep

LEMMA NextKeepsAnswers == KnowledgeInv /\ AnswersInv /\ [RagNext]_ragVars => AnswersInv'
<1> SUFFICES ASSUME KnowledgeInv, AnswersInv, [RagNext]_ragVars
             PROVE  AnswersInv'
  OBVIOUS
<1>1. ASSUME NEW r \in Requests, WorkStep(r)
      PROVE  AnswersInv'
  BY <1>1, WorkKeepsAnswers
<1>2. ASSUME NEW q \in Questions, AnswerStep(q)
      PROVE  AnswersInv'
  BY <1>2, AnswerKeeps
<1>3. CASE QdrantStep \/ Over \/ UNCHANGED ragVars
  <2>1. UNCHANGED <<answers, trusted>> /\ \A d : Loaded(d)' = Loaded(d)
    BY <1>3 DEF QdrantStep, Apply, Over, ragVars, kbVars, Loaded
  <2> QED
    BY <2>1 DEF AnswersInv, QuietAnswer, AsFiled
<1> QED
  BY <1>1, <1>2, <1>3 DEF RagNext

(***************************************************************************)
(* What is at hand for an answer at any stage names no chunk id twice,     *)
(* lies within what the caller asked for, and of quiet documents is as     *)
(* their files are read (enhanced_rag_answer, POST /api/ai/rag/ask).       *)
(***************************************************************************)
THEOREM AnswersCorrect == RagSpec => []AnswersInv
<1>1. RagInit => AnswersInv
  BY AnswersInvInit
<1> QED
  BY <1>1, KnowledgeCorrect, NextKeepsAnswers, PTL DEF RagSpec

(***************************************************************************)
(* An answer cites a chunk id once, within what its caller asked for,      *)
(* however many queries, orders and cuts have gone into it                 *)
(* (fuse_hybrid_results, rerank_with_fallback, compress_retrieved_context).*)
(***************************************************************************)
THEOREM EachIdCitedOnce == RagSpec => []CitedOnce
<1>1. AnswersInv => CitedOnce
  BY DEF AnswersInv, AnswerOK, CitedOnce, Injective, InGroup, Chunks
<1> QED
  BY <1>1, AnswersCorrect, PTL

\* A step of one question is a step of its answer.
LEMMA StepsOneAnswer ==
    ASSUME NEW q \in Questions, AnswerStep(q)
    PROVE  \E b : answers' = [answers EXCEPT ![q] = b]
<1>1. ASSUME NEW route, NEW group, NEW queries, Asks(q, route, group, queries)
      PROVE  \E b : answers' = [answers EXCEPT ![q] = b]
  BY <1>1 DEF Asks
<1>2. CASE Scroll(q)
  BY <1>2 DEF Scroll
<1>3. CASE Search(q)
  BY <1>3 DEF Search
<1>4. CASE Rerank(q)
  BY <1>4 DEF Rerank
<1>5. CASE Compress(q)
  BY <1>5 DEF Compress
<1>6. CASE Generate(q) \/ NoAnswerGiven(q)
  BY <1>6 DEF Generate, NoAnswerGiven
<1> QED
  BY <1>1, <1>2, <1>3, <1>4, <1>5, <1>6 DEF AnswerStep, Ask, AskPolicy

(***************************************************************************)
(* A document whose last request succeeded, had it alone and waited for    *)
(* Qdrant is cited as its file is read, also where documents share chunk   *)
(* ids: an overwritten chunk is missing, but no chunk of an earlier        *)
(* version is found, whatever operations on other documents still wait to  *)
(* be carried out (generate_answer_with_citations).                        *)
(***************************************************************************)
THEOREM NothingStaleIsCited == RagSpec => CitedAsFiled
<1>1. ASSUME KnowledgeInv, AnswersInv, [RagNext]_ragVars, NEW q \in Questions,
             Is(q, "generate"), answers'[q].pc = "answered",
             NEW c \in Chunks(answers'[q].citations), c.point.doc \in answers[q].quiet
      PROVE  c.point.version = Loaded(c.point.doc)
  <2>1. ~ UNCHANGED answers
    BY <1>1 DEF Is
  <2>2. ASSUME NEW r \in Requests, WorkStep(r)
        PROVE  FALSE
    BY <1>1, <2>2, WorkKeepsAnswers DEF Is
  <2>3. PICK k \in Questions : AnswerStep(k)
    BY <1>1, <2>1, <2>2 DEF RagNext, QdrantStep, Over, ragVars
  <2>4. k = q
    <3>1. PICK b : answers' = [answers EXCEPT ![k] = b]
      BY <2>3, StepsOneAnswer
    <3> QED
      BY <1>1, <3>1 DEF AnswersInv, Is
  <2>5. Generate(q) \/ NoAnswerGiven(q)
    BY <1>1, <2>3, <2>4
       DEF AnswerStep, Ask, AskPolicy, Asks, Scroll, Search, Rerank, Compress, Is
  <2>6. answers'[q].citations = answers[q].chunks
    BY <1>1, <2>5, GenerateKeeps, NoAnswerGivenKeeps
  <2> QED
    BY <1>1, <2>6 DEF AnswersInv, QuietAnswer, AsFiled
<1> DEFINE Filed(q) ==
        Is(q, "generate") /\ answers'[q].pc = "answered" =>
            \A c \in Chunks(answers'[q].citations) :
                c.point.doc \in answers[q].quiet =>
                    c.point.version = Loaded(c.point.doc)
<1>2. KnowledgeInv /\ AnswersInv /\ [RagNext]_ragVars
        => [\A q \in Questions : Filed(q)]_ragVars
  BY <1>1
<1> QED
  BY <1>2, KnowledgeCorrect, AnswersCorrect, PTL DEF RagSpec, CitedAsFiled
=============================================================================
