----------------------------- MODULE FeedbackLoop -----------------------------
(***************************************************************************)
(* From a rated answer to a regression case.  A customer rates an answer   *)
(* of the transcript; the console service stores the rating in Java        *)
(* (ai_response_feedback) and copies it into the transcript.  A supervisor *)
(* reviews the row or promotes it: a bad case is appended to the registry  *)
(* file, the row is marked, an agent evaluation case is written and linked *)
(* back, one store after the other.  A regression run replays the registry.*)
(***************************************************************************)
EXTENDS FiniteSets, ConversationStore

CONSTANTS
    Supervisors,   \* requests of supervisors in progress together
    ReviewStatuses,\* what a review may set: triaged, closed
    Layers,        \* failure_layer of a promotion
    Messages,      \* regression_message of a promotion
    MaxRuns        \* MAX_STORED_RUNS of the regression history

Answers == Conversations \X Traces

\* build_bad_case_id: one bad case per feedback row and failure layer.
BadCaseIds == Answers \X Layers

\* A record of the registry; its regression_case_id is that of a draft until
\* the case is written.
BadCase == [msg: Messages, regressionCase: {"draft", "written"}]

ASSUME LoopAssumption ==
    /\ MaxRuns \in Nat \ {0}
    /\ None \notin BadCaseIds /\ None \notin BadCase

VARIABLES
    rows,       \* answer -> row of ai_response_feedback
    registry,   \* bad case id -> record of bad_cases.json, None when absent
    cases,      \* agent_cases.json: <<case>> written by promotions
    runs,       \* production_regression_runs.json, newest last; of each run its
                \* size, its verdict and (history) the promoted bad cases it did
                \* not see pass
    job,        \* supervisor -> the request it is in
    accepted    \* history: <<answer, rating>> pairs Java has stored

feedbackVars == <<rows, registry, cases, runs, job, accepted>>
vars == <<storeVars, feedbackVars>>

NoRow == [rating |-> None, status |-> None, badCase |-> None]
NoJob == [pc |-> "idle", answer |-> None, bad |-> None, msg |-> None,
          records |-> {}, due |-> {}]

Init ==
    /\ StoreInit
    /\ rows = [a \in Answers |-> NoRow]
    /\ registry = [b \in BadCaseIds |-> None]
    /\ cases = <<>>
    /\ runs = <<>>
    /\ job = [s \in Supervisors |-> NoJob]
    /\ accepted = {}

-----------------------------------------------------------------------------
(* Rating an answer                                                        *)

\* submit_feedback finds the answer in the transcript it reads, or answers 404.
FindAnswer(t) ==
    /\ op[t].pc = "idle"
    /\ \E c \in Conversations, tr \in Traces, r \in Ratings :
          /\ AnswerAt(store[c], tr) # 0
          /\ op' = [op EXCEPT ![t] = [NoOp EXCEPT !.pc = "submit", !.conv = c,
                                                  !.trace = tr, !.rating = r]]
    /\ UNCHANGED <<store, saves, index, serial, overlapped, expired, feedbackVars>>

\* upsert: SELECT by the unique identity.
UpsertSelect(t) ==
    /\ op[t].pc = "submit"
    /\ op' = [op EXCEPT ![t].pc = "upsert",
                        ![t].seen = rows[<<op[t].conv, op[t].trace>>]]
    /\ UNCHANGED <<store, saves, index, serial, overlapped, expired, feedbackVars>>

\* ... then INSERT (the unique key refuses the second one) or UPDATE, which
\* leaves the review columns alone.  The receipt may not reach the caller.
UpsertWrite(t) ==
    LET a == <<op[t].conv, op[t].trace>>
        refused == op[t].seen = NoRow /\ rows[a] # NoRow
    IN
    /\ op[t].pc = "upsert"
    /\ rows' = IF refused THEN rows
               ELSE IF op[t].seen = NoRow
                    THEN [rows EXCEPT ![a] = [NoRow EXCEPT !.rating = op[t].rating,
                                                           !.status = "candidate"]]
                    ELSE [rows EXCEPT ![a].rating = op[t].rating]
    /\ accepted' = IF refused THEN accepted ELSE accepted \cup {<<a, op[t].rating>>}
    /\ \/ ~refused /\ op' = [op EXCEPT ![t].pc = "rate", ![t].seen = None]
       \/ op' = [op EXCEPT ![t] = NoOp]
    /\ UNCHANGED <<store, saves, index, serial, overlapped, expired,
                   registry, cases, runs, job>>

\* Mutant: the transcript is rated whatever became of the request.
SubmitFails_StillRates(t) ==
    /\ op[t].pc \in {"submit", "upsert"}
    /\ op' = [op EXCEPT ![t].pc = "rate", ![t].seen = None]
    /\ UNCHANGED <<store, saves, index, serial, overlapped, expired, feedbackVars>>

\* The request to Java fails before it is carried out: 502.
SubmitFails(t) ==
    /\ op[t].pc \in {"submit", "upsert"}
    /\ op' = [op EXCEPT ![t] = NoOp]
    /\ UNCHANGED <<store, saves, index, serial, overlapped, expired, feedbackVars>>

-----------------------------------------------------------------------------
(* Reviewing and promoting                                                 *)

\* review sets the status whatever it was.
Review(s) ==
    /\ job[s] = NoJob
    /\ \E a \in Answers, status \in ReviewStatuses :
          /\ rows[a] # NoRow
          /\ rows' = [rows EXCEPT ![a].status = status]
    /\ UNCHANGED <<storeVars, registry, cases, runs, job, accepted>>

\* Mutant: the row is marked before the bad case is registered.
LoadContext_MarkFirst(s) ==
    /\ job[s] = NoJob
    /\ \E a \in Answers, layer \in Layers, m \in Messages :
          /\ rows[a] # NoRow
          /\ job' = [job EXCEPT ![s] = [NoJob EXCEPT !.pc = "mark", !.answer = a,
                                                     !.bad = <<a, layer>>, !.msg = m]]
    /\ UNCHANGED <<storeVars, rows, registry, cases, runs, accepted>>

\* promote loads the row; a row that says regression_added and whose bad case
\* is in the registry goes straight to the write-back of that bad case.
LoadContext(s) ==
    /\ job[s] = NoJob
    /\ \E a \in Answers, layer \in Layers, m \in Messages :
          LET row == rows[a] IN
          /\ row # NoRow
          /\ job' = [job EXCEPT ![s] =
                IF /\ row.status = "regression_added"
                   /\ row.badCase # None
                   /\ registry[row.badCase] # None
                THEN [NoJob EXCEPT !.pc = "write_case", !.answer = a, !.bad = row.badCase,
                                   !.msg = registry[row.badCase].msg]
                ELSE [NoJob EXCEPT !.pc = "register", !.answer = a,
                                   !.bad = <<a, layer>>, !.msg = m]]
    /\ UNCHANGED <<storeVars, rows, registry, cases, runs, accepted>>

\* append_production_bad_case, under _registry_lock: an existing record wins.
Register(s) ==
    LET b == job[s].bad
        stored == IF registry[b] = None THEN [msg |-> job[s].msg, regressionCase |-> "draft"]
                  ELSE registry[b]
    IN
    /\ job[s].pc = "register"
    /\ registry' = [registry EXCEPT ![b] = stored]
    /\ job' = [job EXCEPT ![s].pc = "mark", ![s].msg = stored.msg]
    /\ UNCHANGED <<storeVars, rows, cases, runs, accepted>>

\* mark_promoted in Java; when the answer does not come back the request ends.
MarkPromoted(s) ==
    /\ job[s].pc = "mark"
    /\ rows' = [rows EXCEPT ![job[s].answer].status = "regression_added",
                            ![job[s].answer].badCase = job[s].bad]
    /\ \/ job' = [job EXCEPT ![s].pc = "write_case"]
       \/ job' = [job EXCEPT ![s] = NoJob]
    /\ UNCHANGED <<storeVars, registry, cases, runs, accepted>>

\* Mutant: only the id is compared, not the message.
WriteCase_ById(s) ==
    LET matching == \E i \in DOMAIN cases : cases[i].bad = job[s].bad
    IN
    /\ job[s].pc = "write_case"
    /\ cases' = IF matching THEN cases
                ELSE Append(cases, [bad |-> job[s].bad, msg |-> job[s].msg])
    /\ job' = [job EXCEPT ![s] = IF matching THEN NoJob ELSE [@ EXCEPT !.pc = "relink"]]
    /\ UNCHANGED <<storeVars, rows, registry, runs, accepted>>

\* write_bad_case_to_agent_cases, under _agent_cases_lock: no case is written
\* when one has the same id or source tag (bad) or the same message.
WriteCase(s) ==
    LET matching == \E i \in DOMAIN cases : \/ cases[i].bad = job[s].bad
                                            \/ cases[i].msg = job[s].msg
    IN
    /\ job[s].pc = "write_case"
    /\ cases' = IF matching THEN cases
                ELSE Append(cases, [bad |-> job[s].bad, msg |-> job[s].msg])
    /\ job' = [job EXCEPT ![s] = IF matching THEN NoJob ELSE [@ EXCEPT !.pc = "relink"]]
    /\ UNCHANGED <<storeVars, rows, registry, runs, accepted>>

\* update_production_bad_case: regression_case_id becomes the written case.
Relink(s) ==
    /\ job[s].pc = "relink"
    /\ registry' = [registry EXCEPT ![job[s].bad].regressionCase = "written"]
    /\ job' = [job EXCEPT ![s] = NoJob]
    /\ UNCHANGED <<storeVars, rows, cases, runs, accepted>>

\* A file or Java fails, or the process restarts: what was done stays done.
JobFails(s) ==
    /\ job[s] # NoJob
    /\ job' = [job EXCEPT ![s] = NoJob]
    /\ UNCHANGED <<storeVars, rows, registry, cases, runs, accepted>>

-----------------------------------------------------------------------------
(* The regression run                                                      *)

\* Mutant: the run replays the bad cases that have their regression case.
StartRun_Linked(s) ==
    /\ job[s] = NoJob
    /\ job' = [job EXCEPT ![s] = [NoJob EXCEPT !.pc = "run",
                  !.records = {b \in BadCaseIds : registry[b] # None
                                 /\ registry[b].regressionCase = "written"},
                  !.due = {rows[a].badCase : a \in Answers} \ {None}]]
    /\ UNCHANGED <<storeVars, rows, registry, cases, runs, accepted>>

\* run_production_regression reads the registry, replays every production
\* record with status regression_added, and appends the run to its history.
StartRun(s) ==
    /\ job[s] = NoJob
    /\ job' = [job EXCEPT ![s] = [NoJob EXCEPT !.pc = "run",
                                    !.records = {b \in BadCaseIds : registry[b] # None},
                                    !.due = {rows[a].badCase : a \in Answers} \ {None}]]
    /\ UNCHANGED <<storeVars, rows, registry, cases, runs, accepted>>

\* An outcome other than "passed" (failed, not_ready, error) fails the run.
EndRun(s) ==
    /\ job[s].pc = "run"
    /\ \E passing \in SUBSET job[s].records :
          LET run == [count |-> Cardinality(job[s].records),
                      passed |-> job[s].records # {} /\ passing = job[s].records,
                      unproved |-> job[s].due \ passing]
              kept == SubSeq(runs, IF Len(runs) > MaxRuns - 1
                                   THEN Len(runs) - MaxRuns + 2 ELSE 1, Len(runs))
          IN  runs' = Append(kept, run)
    /\ job' = [job EXCEPT ![s] = NoJob]
    /\ UNCHANGED <<storeVars, rows, registry, cases, accepted>>

CustomerStep(t) == StoreStep(t) /\ UNCHANGED feedbackVars

Next ==
    \/ \E t \in Customers : \/ CustomerStep(t) \/ FindAnswer(t) \/ UpsertSelect(t)
                            \/ UpsertWrite(t) \/ SubmitFails(t)
    \/ \E s \in Supervisors : \/ Review(s) \/ LoadContext(s) \/ Register(s)
                              \/ MarkPromoted(s) \/ WriteCase(s) \/ Relink(s)
                              \/ JobFails(s) \/ StartRun(s) \/ EndRun(s)
    \/ Expire /\ UNCHANGED feedbackVars

Spec == Init /\ [][Next]_vars

-----------------------------------------------------------------------------
(***************************************************************************)
(* submit_feedback copies into the transcript what Java acknowledged: a    *)
(* rating shown beside an answer was stored for that answer, even when     *)
(* transcripts overwrite one another and Java calls fail half-way.         *)
(***************************************************************************)
ShownRatingsAreStored ==
    \A c \in Conversations : store[c] # None =>
        \A i \in DOMAIN store[c] :
            LET x == store[c][i] IN
            x.rating # None => /\ <<<<c, x.trace>>, x.rating>> \in accepted
                               /\ rows[<<c, x.trace>>] # NoRow

(***************************************************************************)
(* A promotion that stops after any of its steps leaves nothing dangling:  *)
(* a row names a bad case only if the registry has it, and a bad case says *)
(* its regression case is written only if agent_cases.json has that case.  *)
(***************************************************************************)
PromotionsAreBacked ==
    /\ \A a \in Answers : rows[a].badCase # None =>
          /\ rows[a].badCase \in {<<a, l>> : l \in Layers}
          /\ registry[rows[a].badCase] # None
    /\ \A b \in BadCaseIds :
          (registry[b] # None /\ registry[b].regressionCase = "written")
             => \E i \in DOMAIN cases : cases[i].bad = b

(***************************************************************************)
(* Promotions are retried and run concurrently, yet the evaluation set     *)
(* never holds two cases for one bad case or two cases with one message.   *)
(***************************************************************************)
CasesAreUnique ==
    \A i, j \in DOMAIN cases : i # j => /\ cases[i].bad # cases[j].bad
                                        /\ cases[i].msg # cases[j].msg

(***************************************************************************)
(* A regression run that says it passed has replayed, and passed, every    *)
(* bad case a feedback row named when the run began: a late review that    *)
(* takes the row out of regression_added does not take the case out of the *)
(* runs, and no history is kept beyond MAX_STORED_RUNS.                    *)
(***************************************************************************)
PassedRunsCoverPromotions ==
    /\ Len(runs) <= MaxRuns
    /\ \A i \in DOMAIN runs : runs[i].passed =>
          runs[i].count > 0 /\ runs[i].unproved = {}
=============================================================================
