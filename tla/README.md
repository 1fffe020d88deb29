# Formal model of agent-hello

TLA+ specifications of the stateful core of agent-hello, an AI customer-service
system: a conversational agent (Python, FastAPI, LangGraph) that answers
questions from a knowledge base, and that refunds orders, cancels orders and
opens tickets through a business service (Java, Spring Boot, MyBatis) over MySQL
and Redis, with a web console for customers and staff. TLC checks small instances
of the specifications; TLAPS proves the main safety properties for all of them.

Paths below are relative to `src/projects/`. `J` stands for
`java-business-service/src/main/java/com/panpan/aibusinessservice`, `A` for
`ai-service/app`. `PROJECT.json` maps every definition to its lines.

## 1. Inventory

| component | state | operations | what is hard | what makes it correct |
|---|---|---|---|---|
| Order write path (`J/service/impl/OrderServiceImpl.java`) | tables `orders`, `order_events`; Redis order cache; Redis idempotency cache | `queryOrder`, `refundOrder`, `cancelOrder` | three stores that do not change together; caches written before the commit; lookup, check and update in separate steps; the read view of REPEATABLE READ | never refunded and canceled; a key is spent once; the audit trail agrees with the rows; a client is told the truth |
| Ticket creation (`J/service/impl/TicketServiceImpl.java`) | `tickets`, `ticket_events`; the same idempotency cache | `createTicket` | the same, and entries written by the order path | one ticket per key; the answer is that ticket; no false conflict |
| Ticket workbench (`J/service/impl/TicketQueryServiceImpl.java`) | ticket status, assignment, events, messages | status change, resolve, reopen, message, claim, assign; two queries | every operation reads, checks, takes its time and then writes without looking again; the assignment is inserted if the update found no row | the timeline shows causes above effects; closed only after resolved; nobody waits for ever |
| Console agent (`A/services/console_agent_service.py`, `A/agents/ticket_agent.py`) | one LangGraph checkpoint per conversation in Redis | `reply`, `stream_reply`, `request_human_handoff`, `decide_ticket_confirmation`, `correct_ticket_confirmation` | a request checks one checkpoint and runs from another; interrupts that outlive requests; lost answers; expiry | nothing is written that was not confirmed as shown; nothing is written twice; nobody waits for a card they never had |
| Supervisor and workers (`A/agents/supervisor`, `A/agents/workers`) | a graph above the ticket agent's | routing, delegation, resume | a checkpoint before the worker begins; interrupts one level deeper; values a worker hands back only when it has ended | as the console agent |
| Conversation store (`A/services/console_agent_conversation_store.py`) | one JSON document per conversation and one index per actor in Redis | append an exchange, rate an answer, read, list recent | read, modify, write back without a lock; expiry between two reads | no exchange or rating is lost unseen; what lives is listed |
| Feedback and bad cases (`J/service/impl/AiResponseFeedbackServiceImpl.java`, `A/routers/evaluation.py`, `A/evaluation`) | feedback rows, registry, evaluation cases, regression history | rate, review, promote, replay | four stores updated one after the other, retried, by two supervisors at once | no dangling link, no case twice, a passed regression saw every case |
| Tool confirmation and idempotency (`A/tools/tool_confirmation.py`, `A/tools/idempotency.py`) | plans in memory, approvals in Redis, results and a lock in memory | plan, confirm, approve, check, run once | retries, restarts that forget, a lock held over an HTTP call | what was approved is done, once, and nothing else |
| MCP servers, clients, adapters (`A/mcp_servers`, `A/mcp_clients`, `A/agents/mcp_tool_adapters.py`) | none of their own | the product tools | a client that gives up while the server still works | as above |
| Rate limiting (`J/common/rate`, `A/core/rate_limit.py`, `A/middleware/rate_limit.py`) | fixed windows in Redis and in memory | count, refuse | `INCR` and `EXPIRE` are two calls; four windows counted one after the other | at most the limit in a window; counters that end with it |
| LLM calls (`A/services/llm_service.py`, `A/core/llm_retry.py`, `A/core/model_fallback.py`, `A/core/cost_control.py`) | what a request has used of its budgets | chat, stream, tool chat | retries, pauses and a fallback under one time budget; streams that break half way | in time, within budget, one voice |
| Knowledge base and RAG (`A/routers/knowledge_base.py`, `A/rag`, `J/service/impl/KnowledgeDocumentServiceImpl.java`) | files, chunks in Qdrant (or Milvus), document rows | create, update, delete, ingest, refresh; ask | three stores without a transaction, one of them late; metadata read back from the text; questions in stages while they change | success means agreement; a document at rest is cited as its file is read |
| Agent strategies (`A/agents/resilience_strategy.py`, `retry_strategy.py`, `timeout_strategy.py`) | a snapshot kept by the caller | pure decisions | shared snapshots, late results, half-open probes | no unkeyed write twice, few probes, never shut for good |
| Thread lifecycle, cleanup, snapshots (`A/agents/thread_*.py`, `checkpoint_store.py`) | bindings, files | create, expire, clean, save, load | the moment between "expired" and "deleted" | what may be resumed is not deleted |
| Update plans, access scopes, rollouts (`A/rag/data_update.py`, `filters.py`, `knowledge_routing.py`, `A/core/release_control.py`) | none: pure functions | plan, filter, route, assign | two definitions of one idea that must agree | the theorems of section 5 |
| Service levels and readiness (`A/core/production_monitoring.py`, `slo_runbook.py`, `A/rag/production_readiness.py`) | none: pure functions | alert, budget, classify, release | defaults written apart that name each other; a missing answer taken for a good one | the theorems of section 5 |
| Evaluation runs (`A/evaluation/eval_platform.py`, `snapshot_store.py`, `A/agents/eval_suite.py`, `bad_case_analysis.py`) | a bounded file of snapshots | run, compare, save, classify failures | each run is the baseline of the next | the theorems of section 5 |
| Citation checks (`A/rag/citation_verification.py`, `generator.py`) | none: pure functions | build citations, verify them | three ways to name one chunk | the theorems of section 5 |
| Telemetry, prompts, authentication, trace filter, console (Vue), mock service, lessons | - | - | - | not modelled (section 6) |

The parts meet in these places:

* The agent calls Java over HTTP with an idempotency key that is a hash of the
  draft's fields, not of the conversation (`_get_ticket_creation_idempotency_key`).
* Refunds, cancels and ticket creation share one Redis cache of idempotency
  keys (`RedisTicketIdempotencyCache`), an entry of which holds an order id or a
  ticket id.
* Ticket creation reads `orders`; the workbench works on the tickets it created.
* The console shows the card of the pending confirmation, whose id comes back
  with the user's decision; approved, it is registered for the MCP server.
* A rating goes to Java and then into the transcript; a bad case goes from the
  Java row into the registry and the evaluation cases.
* A policy question of the console agent is answered from the index that the
  knowledge endpoints change.

`PROJECT.json` lists under `hazards` where each of these bites, with the
properties that would catch it.

## 2. Modules

    OrderLedger            abstract: refunds and cancels as indivisible steps
      OrderService         the Java code, step by step; implements OrderLedger
        MCOrderService, OrderServiceProofs
    TicketCreation         createTicket over the shared idempotency cache
        MCTicketCreation, TicketCreationProofs
    TicketWorkbench        one ticket and everything done to it
        MCTicketWorkbench, TicketWorkbenchProofs
    ConsoleAgent           conversations, drafts, confirmations, writes
        MCConsoleAgent, ConsoleAgentProofs
    ConversationStore      transcripts and their index
      FeedbackLoop         ratings, reviews, promotions, regressions; extends it
        MCFeedbackLoop, FeedbackLoopProofs
    ApprovedWrites         abstract: approve a write, carry it out at most once
      ToolGate             plans, approvals, MCP, retries; implements it
        MCToolGate, ToolGateProofs
    RateLimits             the two fixed windows
      ModelCalls           requests that call the model, behind them; extends it
        MCModelCalls, ModelCallsProofs
    KnowledgeBase          file, chunks and row of a document
      RagAnswers           questions asked meanwhile; extends it
        MCRagAnswers
    Resilience             breaker, rate window, retry and degradation
        MCResilience
    TicketThreads          pure libraries, evaluated on small instances by
                           MCResilience,
    KnowledgeUpdates, AccessScopes, CitationChecks
                           by MCRagAnswers,
    Releases, ServiceLevels, EvalGates
                           by MCModelCalls
    AiServiceProofs        proofs about KnowledgeBase and RagAnswers, Resilience and
                           the pure libraries

Components compose in two ways. `FeedbackLoop`, `ModelCalls` and `RagAnswers`
extend the module of the component they work on and interleave its actions with
theirs. Elsewhere one is the other's environment rather than a product of state
machines: `OrderService!RememberTicket` and `TicketCreation!RememberOrder` are the
other service's writes to the shared cache, at any time; and `ConsoleAgent` and
`ToolGate` take from Java that a key commits one write and that an order is
settled once, which is what `TicketCreation` and `OrderService` show
(`OneTicketPerKey`, `KeySpentOnce`, `RefundXorCancel`).

### OrderLedger

What the write path promises: `rows` (the two columns a refund or a cancel
touches) and `events`, changed only by `Execute`, one event at a time, on an
order neither refunded nor canceled, with a key not yet spent. Events of before
the fingerprint was changed have no operation in it, so an event's fingerprint
is a record with `op = "none"` for those.

### OrderService

One action per step that another thread can get in between:

| action | code |
|---|---|
| `Begin` | a request reaches `queryOrder`, `refundOrder` or `cancelOrder` |
| `Lookup`, `SelectEvent` | `findOrderByIdempotency`: the Redis entry, then the event; entered again from the catch block of `DuplicateKeyException` |
| `Load`, `Fetch`, `Fill` | `loadOrder`: Redis, MySQL, Redis |
| `Check` | access and status checks on the loaded object |
| `Update`, `Put`, `Insert`, `Remember` | `applyRefund`, `applyCancel`: UPDATE, order cache, event, idempotency cache |
| `Commit`, `Abort` | the end of the `@Transactional` method, or its rollback by a failure |
| `ExpireOrder`, `ExpireKey`, `RememberTicket` | TTLs, and the ticket service |

`rowLock` is InnoDB's lock on the updated row. `inserted` marks an uncommitted
event, which makes an INSERT with the same key wait (`KeyAwaited`). `snapshot` is
the transaction's read view, opened by its first plain SELECT and kept to the
end under REPEATABLE READ; `RepeatableRead = FALSE` gives READ COMMITTED.
`RedisFaults` lets each Redis call fail; the code swallows that (`RedisGet`,
`RedisPut`). Fingerprints are records, so that equal fingerprints are those of
equal parameters: SHA-256 collisions are left out, the old algorithm is not.

### TicketCreation

`createIdempotently` in the same style. An entry is believed only as far as the
ticket it names is in the table (`Lookup`, then `Verify`), so what the order path
suffers from is harmless here. `SelectKey` is the lookup by key before the
INSERT, and again in the catch block. A thread's read view is opened by the
check of the related order, by `Verify` or by `SelectKey`, whichever comes first.

### TicketWorkbench

Each operation is `Read` (the ticket and its assignment, and all checks),
`TakeTime` (the `Instant.now()` that stamps the event), `Write` (waits for the row
and locks it), for an assignment that has no row `InsertAssignment`, and `Commit`,
which makes the operation's rows visible: the new status or assignee and one
entry of `history` for the event and the message, with the time taken before. The
timeline is not `history`, which is in the order of commits, but what the query
makes of it, ORDER BY created_at, id (`Above`). `now` is the clock of one JVM in
microseconds: it may stand still between two readings and is taken not to go back.
The gap locks that two updates of a missing assignment row take let both insert;
InnoDB kills one, which is the second alternative of `InsertAssignment`.

### ConsoleAgent

A conversation is its latest checkpoint. A request goes through `Check` (what
the service reads first), `StartMessage` or `StartResume` (what the graph starts
from), `Understand`, `Work`, `Deliver`, `Call`, `Save` (graph steps, saved one by
one) and `Respond`. Messages are what the rules make of them: an intent, an issue, an
order or none, a text. The draft stands for its confirmation id and for the
idempotency key, because both are hashes of its fields. `shown`, `approvals` and
`unheard` are the client's side: the cards it was given, those it confirmed, and
the conversations in which an answer was lost.

`mode` is the configuration, fixed in the initial state. `graph` says whether the
ticket agent stands alone or is a worker of the supervisor. Then a message leaves
a checkpoint with next "work" (`Routed`) before the worker begins (`Work`); from
there until the worker has ended the conversation counts as waiting for a
confirmation (`Pending`, `Nested`), by the draft of an earlier ticket as long as
the worker has none of its own (`PendingDraft`); and the top level knows of the
worker's values only what it handed back when it ended (`top`, `Handed`). `model`
says whether rules or a model find the intent and the fields. A model may take any
message for one of `Mistakes` and read any of `ModelFields` out of it, twice
differently; the supervisor's rules stand behind its model (`RulesAtHand`).
`Raise` is a node that raises, `Disconnect` a client that leaves its stream,
after which the graph is not driven further, and `Crash` the process.

`blind` is history: the drafts that were written while a confirmation of another
draft was on its way in their conversation.

What LangGraph does is taken from how the code uses it: a run starts from the
latest checkpoint and saves after each step; a resume value reaches the interrupt
the run starts at, or the first one of a worker it starts at; and an interrupt
stays in the checkpoint until its worker has ended. Java is called directly; the way through
MCP is `ToolGate`.

### ConversationStore and FeedbackLoop

Every operation on a transcript is a `GET` and then a `MULTI` that saves the
document, its place in the index and both TTLs: `AppendRead`/`AppendSave`,
`RateRead`/`RateSave`, and `ListIds`/`ListGet`/`ListPrune`, which removes from the
index the ids it found expired. `serial`, `overlapped` and `expired` are history:
what the saves add up to one by one, and where they overlapped or had expired.

`FeedbackLoop` puts the rating in front of that (`FindAnswer`, `UpsertSelect`,
`UpsertWrite` in Java, and only then `RateRead`) and the supervisor behind it:
`Review`; a promotion of four steps, `Register` in the registry file,
`MarkPromoted` in Java, `WriteCase`, and `Relink` of registry and case, after any
of which it may fail; and `StartRun`/`EndRun`, a replay of the registry as it
was read, with a bounded history. Registry and case file are locked by mutexes
of the process, so one uvicorn process is assumed, as the repository runs it.

### ApprovedWrites and ToolGate

`ApprovedWrites` promises that nothing is done that was not approved with exactly
that content by exactly that actor, and that one approval's slot, its id and its
tool, is used once. `ToolGate` has the two ways there: a plan of the ticket
workflow (`Plan`, `Confirm`, `Execute`), kept in memory under a fresh token and
run in the ai process; and an approval of the console (`Approve`, `Send`), kept
in Redis under the digest of its draft and run in the mcp process by a client
that repeats a call whose connection failed (`ConnectionFails`, `MaxRetries`) and
gives up on one that takes too long (`CallTimesOut`), while the server goes on.
A job checks its confirmation (`CheckWorkflow`, `CheckServer`), takes the lock and
looks for a remembered result (`Recall`), calls Java (`CallJava`), and returns.
Java may answer late, refuse, or answer nobody. A `Crash` forgets plans, lock and
results of its process, not what is in flight.

### RateLimits and ModelCalls

A request is counted per client, per route, and for the model and the tools, one
scope after the other in one step of the event loop (`Admit`); one that a later
scope refuses has been counted by the earlier ones. In Java each tool call is
`Increment`, `SetExpiry` or `RedisFails` (the exception is swallowed, and Redis may
have carried out the command or not), by threads that may die (`JavaDies`).

`ModelCalls` follows an admitted request: choice of the model, the output cut to
what the budget leaves (`Output`), a call that lasts at most `RequestTimeout`
(httpx takes it for each phase of a call; the model takes the whole call),
`Fails`, which retries after a pause, falls back or gives up, and for a stream
`StreamOpens` and `Chunk`s from one call or, if it were wrong, from two. Time is
`Tick`, which does not pass over a timeout that is due. Routes that call the model
once without these decisions (`/extract-ticket`, the tool decision, LangChain)
are the route "plain"; paths excluded from counting are left out; the cost
estimate is on.

### KnowledgeBase and RagAnswers

The endpoints run in a thread pool, so requests interleave between any two calls:
`Write` the file, `Purge` the chunks of a source, `Replace`, `Upsert`,
`WriteRow`, `Unlink`, and for the whole directory `Directory`, `LoadFile` and
`Sweep`. Each may fail (`CallFails`, `FailsToStore`), applied or not; which failures
end a request and which are passed over is the code's choice and the point of the
model. What is filtered by is not what the request said but what is read back from
the file (`Read`, `Loaded`): a line near the top of the text that names a group
(`Named`) overrides the rendered one. Qdrant carries out what it has accepted in
order, and answers a caller that does not wait, or whose call failed, before it
has: `points` is the collection with everything carried out, `behind` the states
before that, the first of which is what searches see (`Visible`), and `Apply` the
carrying out. Milvus has no deletion and is up to date when it is told to flush.
Chunk ids are those of `_build_chunk_id`, a normalised name (`Base`) and a number up
to `MaxChunks`, that of the longest body. Writing a file is one step, a directory
is read in one step, chunking uses the default options, and the default collection
is in use (routing is off by default).

`RagAnswers` interleaves questions: `Scroll` (one page) for the keyword index,
`Search` per query with what may be found, `Rerank` by rules or by a model that
may leave candidates out, `Compress` and `Generate`. `trusted` and `quiet` name
the documents whose last request succeeded with no other beside it (also as part
of the whole directory) and waited for Qdrant, and those untouched since the
question came.

### Resilience

Three strategy modules of the agent as they are: the tables of retries, timeouts
and degradations for eight operations, `DecideRetry`, `DecideCircuit`,
`RecordResult` and `Protection`. They are pure, so the model supplies callers
that use them as the tests do: they share the snapshot, ask before each attempt,
record each result when it comes (perhaps after the breaker has opened, `late`),
retry as advised, and reset the counters with the rolling window. Some results
are never recorded (`Lost`). No code outside tests and lessons does this yet.

### The pure libraries

Only tests and lessons call most of them, so they have no state machine: they are
operators, with theorems for all inputs (section 5).

* `TicketThreads`: bindings of threads, the resume and cleanup decisions as time
  passes, and snapshots in files whose names may collide.
* `KnowledgeUpdates`: manifests, changes and update plans. A change of metadata
  outside the eight summary fields is not a change, as in the code; hashes do not
  collide; `Applied` is what carrying out a plan means, which no code does yet.
* `Releases`: rollout policies, version assignment, rollback decisions.
* `AccessScopes`: scopes, filters as the stores evaluate them, and the routes of
  the rule router. The router that asks a model does not narrow and is left out.
  The pipeline uses of a route its collection only, not its filter.
* `ServiceLevels`: metrics, alerts, objectives, error budgets, incidents, runbooks
  and the release checklist, with the defaults of all of them. `DefaultsFit`,
  which TLC evaluates, says that they name each other rightly although they are
  written in three modules. Ratios are in thousandths; floating point is left out.
* `EvalGates`: what a run of the suites amounts to, when the next one counts as
  worse, what the overview compares and saves, and how a failed case is
  classified. Evidence is the set of telling words in a case's lines.
* `CitationChecks`: the citations of an answer and the findings of their
  verification. A text is the set of its terms.

## 3. Properties and runs

| run | result | what it shows |
|---|---|---|
| `orders_contended` | holds | `TypeOK`, `RefundXorCancel`, `EventsExplainRows`, `KeySpentOnce`; `OrderService` implements `OrderLedger` (`LedgerSpec`) |
| `orders_retried` | holds | `SuccessMeansExecuted`, `RefusalIsTrue`, `RetryKeepsItsAnswer`, `EveryRequestAnswered` |
| `orders_ghost` | violated | `SuccessMeansExecuted`, once a request is killed between its Redis writes and its commit |
| `tickets` | holds | `OneTicketPerKey`, `AnswerIsTicket`, `ConflictIsReal`, `EveryRequestAnswered` |
| `workbench` | holds | `CausesStandAbove`: no event stands in the timeline above one it was a reaction to; `ClosedAfterResolved`; `EveryRequestAnswered` |
| `console` | holds | `WritesApproved`, `WrittenOnce`, `PendingIsShown`, `ApprovedIsCarriedOut`, in three configurations |
| `transcripts` | holds | `SerialTranscript`: what no save overwrote unread is what the saves add up to; `NeverExpiredIsListed`; `ShownRatingsAreStored` |
| `promotions` | holds | `PromotionsAreBacked`: what a row or a case links to exists; `CasesAreUnique`; `PassedRunsCoverPromotions` |
| `gate` | holds | `ToolGate` implements `ApprovedWrites` (`CarriesOutApprovals`); `SuccessIsOwn`: a result is never another actor's or content's; `LockHasACall`: the lock is given back |
| `requests` | holds | `QuotaKept`, `AnsweredInTime`, `WithinTokenBudget`, `OneVoice` |
| `knowledge` | holds | `SuccessSettles`: a success that had its document alone leaves file, chunks and row in agreement, for every search from then on; `CitedAsFiled`; `CitedOnce` |
| `protection` | holds | `WrittenAtMostOnce`, `ProbesAreFew`, `NeverShutForGood` |

Every property of a passing run is violated by at least one plausible bug in the
code (`mutants` in `PROJECT.json`, next to the definition each one changes).
All of them but the liveness properties (`EveryRequestAnswered` of three modules
and `NeverShutForGood`) are also theorems (section 5), as are the type invariants.

### Where the code and its documentation part

The first has a run; the others are reproduced by putting what is named here
into a configuration, in the place of its properties. The definitions named for
that are in the modules: they state what comments and documents say, and TLC
refutes them.

1. **A success that was not executed** (`orders_ghost`). Refunds and cancels put
   their fingerprint and the changed order into Redis before their transaction
   commits (`OrderServiceImpl.java:325`). If it is rolled back, a retry is answered
   from Redis, which the comment at 411-414 says the fingerprint prevents.
2. **A stale order cache.** A reader that fetched the row before the refund fills
   the cache after the refund has refreshed it (173, against the comment at 307).
   `NoStaleOrderCache` as an INVARIANT of `OrderService_contended.cfg`.
3. **A refund without an audit event.** The same left-over entry, with a key spent
   on another order meanwhile and two Redis calls that failed, makes the catch
   block return normally between the UPDATE and the event (232, against
   `docs/java-business-database-design.md:487`). `RedisFaults = TRUE` in
   `OrderService_contended.cfg` violates `EventsExplainRows`.
4. **The loser of a race is told 500.** After `DuplicateKeyException` the winner
   is looked for in a read view older than it (`TicketServiceImpl.java:101`, against
   `notes/stage7-06`, 508-519). `LoserGetsTheTicket` in `TicketCreation.cfg`.
5. **Reopening what is not resolved.** The UPDATE does not repeat the check on the
   status (`TicketQueryServiceImpl.java:217`, against `BusinessErrorCode.java:32`).
   `OnlyResolvedReopened` as a PROPERTY of `TicketWorkbench.cfg`.
6. **A confirmation for a corrected draft.** The id is compared with one
   checkpoint, the decision delivered to the next (`console_agent_service.py:536`,
   against the comment at `ticket_agent.py:2532`): a correction in between is
   written unconfirmed. `ConfirmedAsShown` as an INVARIANT of `ConsoleAgent.cfg`.
7. **The citation check fails the answers it should log.** With
   `rag_enable_citation_verify` (off by default) the pipeline logs
   `report.all_checks_passed` and `report.issues` (`rag/pipeline.py:180`), fields that
   `CitationVerificationReport` does not have, so every answer with citations ends
   in an AttributeError, against the comment "log-only enhancement" (174). Found
   by reading while `CitationChecks` was written; no configuration shows it.
8. **An old card for a draft nobody was shown.** Under the supervisor a
   conversation counts as waiting for a confirmation before its worker has asked
   (`console_agent_service.py:177`, against its docstring). When the message dies
   there, further messages are refused, and the only way on is the card of an
   earlier ticket, which then confirms whatever the worker draws up. The same with
   `Modes <- SupervisorMode`, `Overlapping = {}` and `MaxRequests = 5`: one
   request at a time.
9. **A timeline that ends in another status.** Events are sorted by a time taken
   before the row is waited for (`TicketQueryServiceImpl.java:87`,
   `TicketMapper.xml:196`, against `docs/java-business-database-design.md:356`).
   `TimelineEndsInStatus` as an INVARIANT of `TicketWorkbench.cfg`.
10. **A counter without an end.** INCR and EXPIRE are two commands whose failures
   are swallowed (`RedisToolRateLimiter.java:43-52`, against
   `docs/java-business-database-design.md:481`): the user of a counter without a
   TTL is refused for good once it passes the limit. `CountersExpire` as an
   INVARIANT of `ModelCalls.cfg`.
11. **A group that cannot be changed.** What PUT keeps of a stored document still
   has metadata lines with full-width colons, as all shipped documents do
   (`knowledge_base.py:251`, against its docstring), and the last line wins when
   it is read back (`loaders.py:50`): the row says the new group, the chunks keep
   the old one. `RowTellsGroup` as a PROPERTY of `RagAnswers.cfg`.

### What a maintainer should know beside that

Behaviour met while modelling that no document contradicts; the properties are
stated around it.

* Orders: under REPEATABLE READ the first SELECT may hide the event whose key then
  makes the INSERT fail, and the request ends with 500 (`OrderServiceImpl.java:111`).
* Console: a model may read one text differently twice, and the confirmation id is
  a hash of the fields only, so an old refund card can confirm a ticket with the
  same fields (`ticket_agent.py:1878`); so can the cards of a refund and of a
  ticket that their user corrected to the same fields. `WritesApproved` asks for
  the same kind of write only where rules read and the draft is no correction.
  While a field is missing every message is taken for it (1667). `created_ticket`
  of an earlier run stays attached to later answers
  (`console_agent_service.py:967`). Under the supervisor a run that died between the
  decision and the write executes when the conversation goes on.
* Confirmation: `RedisToolConfirmationStore.create` and `confirm`
  (`tool_confirmation.py`) have no caller.
* Model calls: with the default timeouts of 45 s for the whole and 30 s for one
  call, a first call that times out can neither be retried nor fall back, and
  `LLM_TOTAL_TIMEOUT_EXCEEDED` itself never falls back.
* Knowledge base: ids that normalise to one chunk-id base overwrite each other's
  chunks (`splitters.py:76`), which is why `SuccessMeansAgreement` supposes that
  they do not (`BasesDiffer`); a vector deletion that is passed over leaves chunks
  that a repeated DELETE, which finds no file, no longer purges
  (`knowledge_base.py:548`, `571`); a PUT racing a DELETE resurrects the file and
  two PUTs lose an update (466-497); a metadata-only PUT removes every level-one
  heading of the body (241-256); the list may show a document with a row twice
  (386-390).
* Promotion: the link from case to row is lost if the process dies between
  writing the case and linking it (`routers/evaluation.py:648`).
* Evaluation: the overview compares with the latest snapshot and then saves its
  own, so a regression is shown to the first who looks and to nobody after
  (`ShownOnlyOnce`; `routers/evaluation.py:289-309`). A run without failures passes
  even if it evaluated fewer cases (`PassedRunPasses`), and a metric the new run
  lacks is not compared. A snapshot file that cannot be read is never written
  again, as `save` reads it first.
* Bad cases: the lines of a failed case of the rag suite always name
  `expected_sources`, so it is always classified as retrieval or citation, and
  `agent_decision_after_rag` is unreachable for it (`bad_case_analysis.py:172`).
* Service levels: an objective of 1.0 counts as exhausted even when it is met
  (`slo_runbook.py:450`). The alerts "High HTTP 5xx rate", a critical one, and
  "Safety block spike" have no runbook, and there is none for `p0`.
* Breaker: with two probes or more, a success in half-open forgets the probes
  that are out (626-629); a late success ends the open time early and a late
  failure restarts it (645); a probe whose result is never recorded keeps a
  half-open breaker shut, which is why `NeverShutForGood` excuses behaviours in
  which results were lost.

### Bounds

Two threads, requests, actors or callers are enough for the races above: each is
between one request and one other. What a third adds is a deadlock of several
INSERTs with one key, which InnoDB ends by killing one (`Abort`). Every bound is a
CONSTANT.

* `orders_*`: two orders of one user, one or two keys, at most 3 requests and one
  killed. Three are needed for a killed request, another one that spends its
  key, and the retry. `ContendedRequests` reuses one key for another order, for
  another operation and for a ticket; `RetriedRequests` has a key used before the
  upgrade of the fingerprint. `orders_retried` has no killed request and no key
  shared with tickets: with them its properties fail as `orders_ghost` shows.
* `tickets`: one key, two contents, one naming an order (which opens the read
  view early), 4 requests, one killed, every Redis call may fail, refunds with
  the same key at any time. One key is enough because keys do not interact: the
  table, the index and the cache are read and written by key. 169,118 states.
* `workbench`: two agents and the customer, eight requests that cover the life of a
  ticket (work, question, answer, resolution, closing, reopening) and its claim
  and hand-over, 4 requests, one killed. Four are needed to be at work, resolved
  and closed beside a racing one. The clock moves or stands still at every
  reading. A supervisor differs from an agent in one check (`MayAssign`) and is
  left to the theorems. 882,349 states.
* `console`: two conversations of one user, one order, three messages (one names
  no order and leaves the draft incomplete) and the handoff, a correction, two
  ways to misread, 4 requests, of which one may crash or lose its client; one
  agent with rules, one agent with a model, the supervisor with a model. Four are
  message, correction, and two confirmations. Confirmations, rejections and
  corrections overlap each other (`Overlapping`): a page takes no second decision
  while it waits (`AiChatView.vue`), but another page of the user may send one, or
  the same one comes again after an answer was lost. Messages do not overlap in
  this run, to keep it small; the theorems take any overlap. 2,915,780 states,
  under two minutes.
* `transcripts`, `promotions`: two requests at once, for two conversations bounded
  to two exchanges, so that the bound cuts; or for one answer, two failure
  layers and a history of one run. What one part shows does not need the
  other's steps, hence two runs.
* `gate`: two actors, one content, one token, one tool, one retry, two executions,
  one restart. Two executions are a call and its repetition, or two actors'
  calls with one digest; one content suffices because contents meet in nothing
  but the digest. 511,346 states.
* `requests`: two requests of one client; a call of 2 ticks, 5 in all, pauses to
  2, so that a first time-out leaves room for a retry and a second does not;
  windows of 2, limits of 1 and 2; inputs that fit whole, fit cut, cost too much
  and fit not at all. 881,037 states.
* `knowledge`: two documents of three bodies (of two chunks, of one, and one that
  names a group) and two groups, two requests, a question of up to two queries,
  one failed call. `MCBase` keeps chunk-id bases apart, see above. 2,919,801
  states, two minutes.
* `protection`: two callers, a write, a read and a classification, five kinds of
  failure, three calls, one lost result; windows, delays and open time of 1 to 2
  ticks so that calls outlive them. One probe, as two or more forget (see above).
  200,243 states.

Threads are interchangeable, and symmetry is used where no liveness property is
checked. Deadlock is checked in `knowledge`, whose end is a step (`Over`);
in the others the bounds stop every behaviour.

### Fairness

For the Java modules liveness is checked under weak fairness of `Proceed(w)` for
each thread: the JVM runs its threads, and MySQL lets a statement go on when the
lock or key it waits for is free. Nothing is assumed about clients, expiry, the
other service or failures. Weak fairness suffices because a freed key or row stays
available until some waiting thread takes it, and the requests of a behaviour are
bounded. InnoDB's queue of waiters and its lock timeout are not modelled.

`Resilience` assumes weak fairness of `Tick` and of `Answered(c)`: time passes, and
a call is answered or times out, as every client of the repository has a timeout.
Nobody is obliged to call: that a caller is let through again is a property of
the breaker.

ConsoleAgent, FeedbackLoop and RagAnswers wait for nothing but users; ToolGate's
only wait, the lock, and ModelCalls' budgets are stated as safety (`LockHasACall`,
`AnsweredInTime`), which is stronger.

## 4. Refinements

* `OrderService` implements `OrderLedger`: `rows` and `events` are the ledger's own
  variables, a `Commit` is one `Execute` or nothing, and everything else stutters.
  Checked (`LedgerSpec`) and proved (`ImplementsLedger`) with a Redis that answers.
* `ToolGate` implements `ApprovedWrites` by `Promise`, an INSTANCE over what was
  approved and what Java carried out: `Confirm` and `Approve` are the abstract
  approvals, `JavaRuns` the abstract write, and retries, timeouts, expiry and
  restarts stutter. Checked (`CarriesOutApprovals`)
  and proved (`KeepsItsPromise`), whatever expires, restarts or comes late.

## 5. Proofs

The proofs hold for any number of threads, orders, keys, users, conversations,
requests and callers, for every setting of limits, budgets and policies, and
for both isolation levels. They assume the named ASSUMEs of the modules only
(constants of the right type, distinct from each other, and what is said below)
except where a theorem names a hypothesis of its own. Every component with a
state machine has its type invariant proved: as `TypeCorrect`, for the knowledge
base as a part of `KnowledgeCorrect` and `AnswersCorrect`, and for `Resilience` as
far as its two invariants need it.

**OrderServiceProofs.** `InitialAssumption`: the events of before the upgrade of
the fingerprint are consistent with the rows.

* `TypeCorrect`: `TypeOK` with `StageInv` (only a refund or cancel reaches the
  stages that write, only one with a key those that use it), without which the
  stores' types are not preserved.
* `NeverBothSettled`, `KeysSpentOnce`, `SettledAtMostOnce`: nothing is assumed of
  Redis. The caches may hold anything; the ledger is protected by the row lock
  (`LockInv`: the locked row is as the WHERE clause found it, and stays so until
  the commit), and by the unique key (`KeyInv`: the key of an uncommitted event is
  in no committed event and in no other open transaction). `LedgerInv` alone is
  not inductive: the commit is where the rows change, and what was checked is
  known only from the UPDATE, several steps earlier.
* `AuditTrailExact`, `ImplementsLedger`: **assume `~RedisFaults`**, and the third
  finding above shows that they must. The catch block may end the request
  normally after the UPDATE; `AuditInv` shows that it does not when Redis answers,
  because the cache entry of a spent key agrees with its event (`EventAudit`) and
  a thread at the second lookup faces an event of another order (`ThreadAudit`).
* `SuccessReported`, `RetriesAreAnswered`, `RefusalsAreTrue`: what clients are told.
  **Assume `MaxAborts = 0`**, no request killed before its commit: the first finding
  is what happens when one is. Redis may fail at any call, and entries expire.
  * `AnswersInv`: an entry in Redis names what is in an event or in a transaction
    that has inserted its event and so will commit it (`Destined`, `Executed`). The
    entry and the event can disagree in their lifetimes only, which makes it an
    invariant of both caches, of read views and of threads on the way to an answer.
  * `ConflictsInv`: a thread that saw a foreign fingerprint saw that of the key's
    one event (`SpentOtherwise`). Assumes that no ticket uses a key of an order
    (`TicketKeys = {}`): the two share one namespace in Redis, and an order whose key
    a ticket has used is refused as a conflict, rightly or not.
  * `RefusalsInv`: rows in the cache, in a read view and in a thread are what the
    order is, was or is about to be (`Real`). Assumes `KeysPerOrder`: a refund that
    finds its key spent on another order has already shown the refunded row to the
    cache when it is refused and rolled back.

**TicketCreationProofs.** Redis may fail at any call.

* `OneTicketForAKey`: `KeyInv`, as above.
* `AnswersAreTickets`, `ConflictsAreReal`: `CacheInv`. An entry in Redis outlives
  the transaction that made it, so the invariant cannot say that its ticket
  exists; it says that whatever ticket has the id it names, now or later, has its
  key and its content (`Means`). That is kept because a ticket's id is one
  request's for good (`NumberInv`), and read views are subsets of the table
  (`ViewInv`). `AnswerInv` carries the found ticket to the answer.

**TicketWorkbenchProofs.**

* `TimelineIsCausal`: `CausesStandAbove` by `CauseInv`. The timeline is sorted by
  times taken before the row is waited for, so an event may be written after one
  it is shown above. What saves causality is that a thread takes its time after
  it has read: what it has read is explained by an event no later than that time
  (`Explained`), which stays true whatever is written meanwhile. Assumes one clock
  that does not go back; equal readings are told apart by the id, which is in the
  order of the inserts.
* `NeverClosedUnresolved`: `CauseInv` and `ClosedInv`. The status a transition is
  checked against may be gone when it is made, so `ClosedInv` says of events what
  was read for them, and of threads that what they have checked was permitted;
  `CauseInv` puts the resolution above.

**ConsoleAgentProofs.** `AgentAssumption` says of the messages what the rules make
of them: texts with different intents differ, as rules read the intent in the
text alone. Every action is first shown to move one thread and one checkpoint
(`Move`), so that an invariant is proved once for a move and then only the moves
are looked at.

* `TypeCorrect`, `PendingsAreShown`, `ApprovalsAreCarriedOut`: `ConsoleInv`, that is
  `TypeOK`, `StageInv` and `HeardInv`. `PendingIsShown` speaks of the checkpoint at
  rest; the invariant says of every moment that a checkpoint waiting for a
  decision was shown, or a thread has an answer with that very card on its way
  (`Shows`), or an answer of the conversation was lost; and of a checkpoint that
  executes that a thread carries it (`Carries`) or one died.
* `ConfirmationsAreSpent`: that a request writes only with a key that no write
  has, whatever thread and conversation it comes from.
* `WritesAreApproved`: what is executed was confirmed as shown, or was written
  while a confirmation of another draft was on its way (`blind`), which is what
  findings 6 and 8 are about; nothing is assumed of what overlaps. The id is
  compared with one checkpoint and the decision delivered to the next, so
  `ApprovalInv` says of a confirmation on its way that the draft it is going to meet
  is the one it was sent for, or is recorded in `blind` (`Aimed`). It is kept because
  every save that changes a draft records it for each confirmation on its way that
  was sent for another (`Marked`). Where rules read, the same kind of write was
  confirmed, which is `ReadInv`: a draft in the making, a card and what is executed
  are of the flow their text reads as. A draft whose fields its user wrote
  (`Corrections`) is left out, as below.

**FeedbackLoopProofs**, for transcripts and histories of any length.

* `TranscriptsAreSerial`, `ListedUntilExpired`: `StoreInv`. A prune works from a
  list read before, so `ListingInv` says that what a list may prune (`stale`) has
  expired, and that a saved conversation that has not expired has its document
  and its place in the index.
* `RatingsAreStored`: `OpSound` carries what Java acknowledged through `RateRead`
  and `RateSave`, and through the transcript that a slower request still means to
  write back (`Backed`).
* `PromotionsStayBacked`, `CasesStayUnique`, `PassedRunsCover`: `JobSound`, that what
  the next step of a promotion goes on from is still there: `MarkPromoted` has its
  record, `Relink` its case, a run its registry.

**ToolGateProofs.**

* `OwnSuccess`, `LockIsReleased`: `GateInv`. What is asked of the MCP server was
  approved, but what is asked of the ticket workflow need not be and may come
  from an actor who does not own the plan (`Asked`); a job past its check is
  approved, a success is an effect, the memory holds effects only, and a request
  in flight belongs to the job with its number although either may be gone
  (`NumbersInv`).
* `KeepsItsPromise`, `EffectsAreApprovedOnce`: `JavaRuns` is the one step that is not
  a stutter or an approval, and `FlightInv` gives it its approval.

**ModelCallsProofs**, for any limits, windows, timeouts, delays, budgets and prices.

* `QuotasAreKept`: the counter bounds what its window has let through
  (`WindowsInv`, `RedisInv`); what is let through is a set of requests, hence the
  lemmas on cardinalities.
* `AnswersAreInTime`: `Timely`. A call began so early that its timeout ends within
  the budget, or it is the first one; a pause is so short that a call fits behind
  it. The budget is compared with the clock before the pause, so the invariant
  speaks of `since`, not of `now` alone.
* `TokensAreWithinBudget`: `Within`, which must add that the fallback has its own,
  smaller limit. `StreamsHaveOneVoice`: `VoiceInv`.

**AiServiceProofs**, the knowledge base and the questions asked of it, for any
documents, bodies, groups, requests, questions and failures.

* Each request works on few documents, and `Does` says for each of its steps that
  the file, the chunks and the row of all others stay as they are.
* `KnowledgeCorrect` is the inductive invariant of the documents. `KnowledgeTypes`:
  the types, what a stage says of its own request, that what one request has
  alone no other works on (`Exclusive`), and that a chunk lies where its version
  puts it (`PlaceInv`), so that chunks of different bodies overwrite or pass each
  other as their numbers have it. `FiledInv`: how far a request that has its
  document alone has brought the places into agreement at each stage (the file
  written, the old chunks gone, the loaded version that the file is read as, all
  chunks in). `TrustInv`: the chunks of a trusted document are as its file is read,
  and nobody works on it. All of this is said of every state a search may be
  answered from (`Shown`: the collection and the states behind it). A request that
  waits leaves none behind, and what another request sends without waiting
  concerns its own documents.
* `SuccessMeansAgreement`: `SuccessSettles`, which speaks of the step to "ok" and
  needs all of `FiledInv` before it. **Assumes `BasesDiffer`**, that no two ids make
  the same chunk ids: the code does not prevent it (section 3). Only that all
  chunks of the file are there depends on it; chunks overwritten by another
  document's are missing, never stale, so the theorems on answers do without.
* `AnswersCorrect` is the inductive invariant of the questions: index, merged hits,
  chunks and citations name an id once and are of the caller's group, and what
  they hold of quiet documents is as the files are read. `EachIdCitedOnce` and
  `NothingStaleIsCited` (`CitedOnce`, `CitedAsFiled`) follow from it with `TrustInv`:
  a page of the index and a later search see the same chunk of a document that
  nobody touched in between, whatever happened to the others.

**AiServiceProofs**, the decisions taken from a given snapshot.

* `TimeoutAdviceAgrees`: the retry table and the timeout table, kept in two
  modules of the code, give one answer for a first attempt that timed out.
* `NoTicketTwice`: `WrittenAtMostOnce` by `WriteInv`, which adds that a call without
  a key which is still under way has written nothing: `UnkeyedWriteEnds`, every
  failure of such a call ends it.
* `ProbesAreSpared`: `ProbesAreFew` by `ProbeInv`, that the calls begun since the
  breaker opened are at most the probes it counts. **Assumes one probe at a time
  (the default) or a breaker that the first success closes**: otherwise the first
  success makes a new snapshot, which has forgotten the other probes.
* Threads, for all bindings, policies, times and file names:
  `DeletedIsNeverResumed` (a deletion is decided once and carried out later, when
  the thread must still be beyond resuming), `ArchivedBeforeDeleted`, and
  `LoadsItsOwn` (the id in the file is compared, so colliding names give an error
  and never another thread's state).
* Updates, for all folders and stores: `PlanBringsUpToDate`, `ChangedIsInvalidated`.
* Releases, for all policies and any digest into 0..99: `WideningKeepsCandidates`,
  `FullIsTheLastCanary`, `SignalsNeverSoften`.
* Service levels: `MoreSignalsNeverCalm`, `MissedMeansSpent`, `SilenceNeverHelps` and
  `ReadyMeansAllPassed`, for all signals, ratios, checklists and answers.
* Evaluation: `SameRunPasses`, `NothingIsLostBetween` (for runs of the same metrics
  and a tolerance of zero; with a tolerance a value may creep),
  `PassedRunPasses`, which needs that rounding to six digits does not take a ratio
  over one, `LatestIsKept` and `ShownOnlyOnce`. `RunReport` adds up over suites, which
  is induction over data: that its results are in `Reports`, from which the
  theorem starts, is evaluated by TLC.
* Citations, for any chunks with distinct ids and any policy: `ValidMeansTraceable`,
  that nothing blocks exactly when each citation leads to its chunk by number, id
  and source, and `BuiltCitationsAreValid`, that the citations of the service do.
* Scopes, assuming that neither the blank text nor None is a value of metadata,
  which the normalisation on reading ensures: `FilterIsTheScope` (the filter that
  goes to the store and the predicate on metadata, written apart, agree, also for
  a missing value that Milvus stores as a blank), `ScopeAlwaysApplies` (what is
  combined with it only narrows) and `RoutesNarrow`. The last needs a base that
  names its groups, domains and types: an empty list would stand for "any" and
  drop the caller's restriction of that key. Every base in `knowledge_routing.py`
  names all three.

Checked by TLC only: liveness, as fairness and ENABLED are out of the prover's
reach, and that the results of `RunReport` are in `Reports`.

## 6. Not modelled

* Requests refused before any store is read; queries and lists that only read.
* Authentication, the trace filter and roles beyond the guards of the operations:
  stateless checks on a request.
* The text of answers, prompts, ranking scores, token estimation: a model checker
  has nothing to say about them. What a model answers is any of a small set.
* MySQL's lock timeouts, and deadlocks other than those named above; a statement
  that fails for such a reason is a killed request (`Abort`).
* Failover of Redis or MySQL. Keys expire at any time instead.
* Several processes of ai-service: registry, case file and in-memory windows are
  guarded by locks of one process, as it is deployed here.
* Query rewriting, collection management of Milvus, the retrieval evaluation and
  tuning libraries (`A/rag/evaluation.py`, `*_tuning.py`): reports
  computed from lists, with no state and no caller in the service.
* Telemetry and the recording of metrics: nothing depends on them.
* The console (Vue): presentation. Its part, the cards a client holds and the
  buttons it can press, is in ConsoleAgent.
* The mock service, `python-basics`, lessons, scripts and notes: teaching material.

## 7. Plan

Done: every module of section 2 with its runs and theorems. Left: KnowledgeBase
with routing on, where a document has chunks in two collections.

## 8. Running

    tlc -workers 2 -config OrderService_contended.cfg MCOrderService.tla
    tlapm OrderServiceProofs.tla

Each run of `PROJECT.json` names its module and its configuration. The largest,
`knowledge`, takes about two minutes, the others less.
