---------------------------- MODULE ConsoleAgent ----------------------------
(***************************************************************************)
(* The console agent of ai-service: reply, stream_reply,                   *)
(* request_human_handoff, decide_ticket_confirmation and                   *)
(* correct_ticket_confirmation of ConsoleAgentService over the graph of    *)
(* ticket_agent.py, by itself or as a worker of the supervisor's graph,    *)
(* with rules or a model to understand messages, Java called directly.     *)
(*                                                                         *)
(* A conversation is one checkpoint in Redis.  A request checks the        *)
(* checkpoint, then runs the graph from whatever the checkpoint is by      *)
(* then, saving it after every step; nothing stops two requests of a       *)
(* conversation from doing so at once.  The nodes between the input and    *)
(* the next stop of a graph touch no other store and are one step; the     *)
(* supervisor's graph has stopped, for whoever reads its checkpoint, when  *)
(* its tickets' worker begins.                                             *)
(* The Java service is an environment that spends an idempotency key once. *)
(***************************************************************************)
EXTENDS Naturals, Sequences

CONSTANTS
    Workers,        \* threads of the API server
    Conversations,  \* conversation ids
    UserOf,         \* UserOf[c]: the user in conversation c
    Orders,         \* order ids
    NoOrder,        \* no order id was recognised
    Texts,          \* problem descriptions
    HandoffText,    \* the one request_human_handoff writes
    NoDraft,        \* no ticket_fields yet
    Messages,       \* what users write, as the rules understand it
    Mistakes,       \* intents a model may take any message for
    ModelFields,    \* what a model may extract from a message
    Modes,          \* the configurations of the service
    Corrections,    \* the drafts users correct theirs to
    Overlapping,    \* kinds of request sent while another one is unanswered
    MaxRequests,    \* bound on the requests of a behaviour
    MaxCrashes      \* bound on the requests that die or lose their client

Intent == {"ticket", "refund", "cancel", "policy", "order", "chat"}
Issue == {"refund", "cancel", "complaint", "policy_gap", "unknown"}
Kind == {"message", "handoff", "approve", "reject", "correct"}

\* agent_multi_agent_enabled; ticket_agent_model_mode, supervisor_router_mode.
Mode == [graph: {"agent", "supervisor"}, model: {"rules", "llm"}]

\* What confirming a draft will do: refund_request_active, cancel_request_active
\* or neither.  The handlers of each flow reset the other's flag.
Flow == {"ticket", "refund", "cancel"}

Message == [intent: Intent, issue: Issue, order: Orders \cup {NoOrder}, text: Texts]
Draft == [issue: Issue, order: Orders \cup {NoOrder}, text: Texts]

\* What the client shows: the draft, which is also its confirmation id, and
\* what confirming it will do.
Card == [draft: Draft, flow: Flow]

\* The rules find the intent in the text alone (classify_ticket_intent).
ASSUME AgentAssumption ==
    /\ Conversations # {}
    /\ NoOrder \notin Orders
    /\ NoDraft \notin Draft
    /\ Messages \subseteq Message
    /\ Messages # {}
    /\ HandoffText \in Texts
    /\ \A m, n \in Messages : m.text = n.text => m.intent = n.intent
    /\ \A m \in Messages : m.text = HandoffText => m.intent = "ticket"
    /\ Corrections \subseteq Draft
    /\ Mistakes \subseteq Intent
    /\ ModelFields \subseteq Draft
    /\ Modes \subseteq Mode
    /\ Overlapping \subseteq Kind
    /\ MaxRequests \in Nat
    /\ MaxCrashes \in Nat

VARIABLES
    mode,        \* the configuration the service was started with
    checkpoint,  \* Redis: the latest checkpoint of each conversation
    writes,      \* what Java has committed, oldest first
    pc,          \* where each worker is
    req,         \* the request it serves
    run,         \* the state of the graph run it drives
    decision,    \* the resume value still to be delivered to the interrupt
    shown,       \* the cards each client was shown
    approvals,   \* the cards each client has pressed confirm on
    unheard,     \* conversations in which an answer was lost
    blind,       \* drafts written while a confirmation of others was on its way
    served,      \* requests begun
    crashes      \* requests that died or lost their client

clientVars == <<shown, approvals, unheard>>
counters == <<served, crashes>>
vars == <<mode, checkpoint, writes, pc, req, run, decision, shown, approvals,
          unheard, blind, served, crashes>>

\* What the tickets' worker hands back to the supervisor.
Values == [needsTicket: BOOLEAN, draft: Draft \cup {NoDraft}, missing: BOOLEAN,
           flow: Flow, approved: BOOLEAN]

\* The values of the worker in progress, those the supervisor has, what policy
\* questions and order queries left, and where the graph goes on: "work" is
\* the supervisor's ticket_agent before its worker has come to a stop.
State == [needsTicket: BOOLEAN, draft: Draft \cup {NoDraft}, missing: BOOLEAN,
          flow: Flow, approved: BOOLEAN, top: Values, gap: BOOLEAN,
          support: Orders \cup {NoOrder}, message: Message,
          next: {"understand", "work", "confirm", "execute", "end"}]
Request == [kind: Kind, conversation: Conversations, message: Message,
            id: Draft \cup {NoDraft}, draft: Draft \cup {NoDraft}]
Write == [conversation: Conversations, draft: Draft, flow: Flow, key: Draft]
Blind == [conversation: Conversations, draft: Draft]

TypeOK ==
    /\ mode \in Modes
    /\ checkpoint \in [Conversations -> State]
    /\ writes \in Seq(Write)
    /\ pc \in [Workers -> {"idle", "check", "start", "run", "save", "respond"}]
    /\ req \in [Workers -> Request]
    /\ run \in [Workers -> State]
    /\ decision \in [Workers -> BOOLEAN]
    /\ shown \in [Conversations -> SUBSET Card]
    /\ approvals \in [Conversations -> SUBSET Card]
    /\ unheard \in SUBSET Conversations
    /\ blind \in SUBSET Blind
    /\ served \in Nat
    /\ crashes \in Nat

AnyMessage == CHOOSE m \in Messages : TRUE

NoValues == [needsTicket |-> FALSE, draft |-> NoDraft, missing |-> FALSE,
             flow |-> "ticket", approved |-> FALSE]

Fresh == [needsTicket |-> FALSE, draft |-> NoDraft, missing |-> FALSE,
          flow |-> "ticket", approved |-> FALSE, top |-> NoValues, gap |-> FALSE,
          support |-> NoOrder, message |-> AnyMessage, next |-> "end"]

NoRequest == [kind |-> "message", conversation |-> CHOOSE c \in Conversations : TRUE,
              message |-> AnyMessage, id |-> NoDraft, draft |-> NoDraft]

Init ==
    /\ mode \in Modes
    /\ checkpoint = [c \in Conversations |-> Fresh]
    /\ writes = <<>>
    /\ pc = [w \in Workers |-> "idle"]
    /\ req = [w \in Workers |-> NoRequest]
    /\ run = [w \in Workers |-> Fresh]
    /\ decision = [w \in Workers |-> FALSE]
    /\ shown = [c \in Conversations |-> {}]
    /\ approvals = [c \in Conversations |-> {}]
    /\ unheard = {}
    /\ blind = {}
    /\ served = 0
    /\ crashes = 0

----------------------------------------------------------------------------
(* The rules of the graph.                                                 *)

\* find_missing_ticket_fields; descriptions are never blank.
Incomplete(draft) ==
    \/ draft.issue = "unknown"
    \/ draft.issue \in {"refund", "complaint"} /\ draft.order = NoOrder

\* has_active_refund_collection and its siblings: the last message left a
\* draft with a field missing.
Collecting(s) == s.needsTicket /\ s.draft # NoDraft /\ s.missing

ByModel == mode.model = "llm"

\* The supervisor's router goes back to the rules when the model fails, and its
\* workers extract fields by the rules only.
RulesAtHand == ~ByModel \/ mode.graph = "supervisor"

\* LLMTicketIntentClassifier: a model may take a message for anything.
Heard(s) == {s.message.intent} \cup (IF ByModel THEN Mistakes ELSE {})

\* classify_intent_node, supervisor_route_node: an unfinished draft keeps its
\* flow whatever is said.
Intents(s) == IF Collecting(s) THEN {s.flow} ELSE Heard(s)

OrderOf(s) == IF s.message.order # NoOrder \/ ~Collecting(s)
              THEN s.message.order
              ELSE s.draft.order

TextOf(s) == IF Collecting(s) THEN s.draft.text ELSE s.message.text

\* _infer_ticket_issue_type: rag_answer_status is that of the last policy
\* question, of this message or of an earlier one.
IssueOf(s) ==
    IF s.message.issue # "unknown" THEN s.message.issue
    ELSE IF s.gap THEN "policy_gap" ELSE "unknown"

RuleFields(s) == [issue |-> IssueOf(s), order |-> s.message.order,
                  text |-> s.message.text]

Extracted(s) == IF RulesAtHand THEN {RuleFields(s)} ELSE ModelFields

\* merge_ticket_fields.
Merged(s, latest) ==
    IF ~Collecting(s) THEN latest
    ELSE [issue |-> IF latest.issue = "unknown" THEN s.draft.issue ELSE latest.issue,
          order |-> IF latest.order = NoOrder THEN s.draft.order ELSE latest.order,
          text |-> s.draft.text]

\* handle_refund_request_node, handle_cancel_request_node.
OrderDraft(s, flow) == [issue |-> flow, order |-> OrderOf(s), text |-> TextOf(s)]

\* A draft has been written: ask for what it lacks, or for confirmation.
Drafted(s, flow, draft, missing) ==
    [s EXCEPT !.needsTicket = TRUE, !.draft = draft, !.flow = flow,
              !.missing = missing, !.next = IF missing THEN "end" ELSE "confirm"]

\* extract_ticket_fields_node and the question after it.
TicketDrafted(s) ==
    {Drafted(s, "ticket", draft, Incomplete(draft)) :
        draft \in {Merged(s, latest) : latest \in Extracted(s)}}

\* classify_ticket_order_query_failure: an order id is missing, the query
\* succeeds, or it fails; contact_human_support is the advice on some failures.
Advised(s) == {NoOrder, s.message.order}

\* query_order_node: the advice stays in the state until the next query.
OrderQueried(s) == {[s EXCEPT !.support = o, !.next = "end"] : o \in Advised(s)}

\* The chain of nodes a flow begins with (route_ticket_worker_entry).
Worked(s, flow) ==
    IF flow = "ticket" THEN TicketDrafted(s)
    ELSE LET draft == OrderDraft(s, flow)
         IN {Drafted(s, flow, draft, draft.order = NoOrder)}

\* supervisor_route_node and after_knowledge_agent on the way to ticket_agent;
\* flow is the intent they leave there.
Routed(s, flow) ==
    [s EXCEPT !.needsTicket = TRUE, !.top.needsTicket = TRUE, !.flow = flow,
              !.next = "work"]

\* The flow begins: at once, or when the supervisor's worker does.
Began(s, flow) ==
    IF mode.graph = "supervisor" THEN {Routed(s, flow)} ELSE Worked(s, flow)

\* retrieve_policy_node, decide_ticket_need_node: a policy question needs a
\* ticket if the knowledge base has no answer.
PolicyAsked(s) ==
    {[s EXCEPT !.needsTicket = FALSE, !.gap = FALSE, !.next = "end"]}
      \cup Began([s EXCEPT !.gap = TRUE], "ticket")

\* What the nodes between the input and the next stop make of the state.
Understood(s, intent) ==
    CASE intent \in Flow -> Began(s, intent)
      [] intent = "policy" -> PolicyAsked(s)
      [] intent = "order" -> OrderQueried(s)
      [] intent = "chat" -> {[s EXCEPT !.next = "end"]}

\* A correction asks for confirmation again; an incomplete one would end the
\* flow by the flag an earlier confirmation left.
Corrected(s, draft) ==
    IF Incomplete(draft)
    THEN [s EXCEPT !.draft = draft, !.missing = TRUE,
                   !.next = IF s.approved THEN "execute" ELSE "end"]
    ELSE [s EXCEPT !.draft = draft, !.missing = FALSE, !.approved = FALSE,
                   !.next = "confirm"]

\* request_ticket_confirmation_interrupt_node after the interrupt, and
\* route_by_ticket_confirmation.
Decided(s, r) ==
    IF r.kind = "approve" THEN [s EXCEPT !.approved = TRUE, !.next = "execute"]
    ELSE IF r.kind = "reject"
    THEN [s EXCEPT !.approved = FALSE, !.flow = "ticket", !.next = "end"]
    ELSE Corrected(s, r.draft)

----------------------------------------------------------------------------
Conversation(w) == req[w].conversation
InFlight(c) == {w \in Workers : pc[w] # "idle" /\ Conversation(w) = c}
CardOf(s) == [draft |-> s.draft, flow |-> s.flow]

Goto(w, stage) == pc' = [pc EXCEPT ![w] = stage]

ValuesOf(s) == [needsTicket |-> s.needsTicket, draft |-> s.draft,
                missing |-> s.missing, flow |-> s.flow, approved |-> s.approved]

\* The supervisor waits for its worker, which begins, waits for a decision or
\* has one.
Nested(s) == mode.graph = "supervisor" /\ s.next \in {"work", "confirm", "execute"}

\* The supervisor gets the values of a worker that has ended.
Handed(s) == IF Nested(s) THEN s ELSE [s EXCEPT !.top = ValuesOf(s)]

\* A new message starts from the values of the outermost graph.
Renewed(s, m) ==
    [s EXCEPT !.needsTicket = s.top.needsTicket, !.draft = s.top.draft,
              !.missing = s.top.missing, !.flow = s.top.flow,
              !.approved = s.top.approved, !.message = m, !.next = "understand"]

\* The checkpointer: the newest checkpoint of a thread replaces the others.
SaveRun(w, s) ==
    /\ run' = [run EXCEPT ![w] = Handed(s)]
    /\ checkpoint' = [checkpoint EXCEPT ![Conversation(w)] = Handed(s)]

\* The request is over; a worker keeps nothing of it (reset_business_context).
Free(w) ==
    /\ Goto(w, "idle")
    /\ req' = [req EXCEPT ![w] = NoRequest]
    /\ run' = [run EXCEPT ![w] = Fresh]
    /\ decision' = [decision EXCEPT ![w] = FALSE]

\* A request of a user whom JavaConsoleAgentActorResolver has resolved.
Begin(w, r) ==
    /\ pc[w] = "idle"
    /\ served < MaxRequests
    /\ \/ InFlight(r.conversation) = {}
       \/ /\ r.kind \in Overlapping
          /\ \A v \in InFlight(r.conversation) : req[v].kind \in Overlapping
    /\ served' = served + 1
    /\ req' = [req EXCEPT ![w] = r]
    /\ Goto(w, "check")
    /\ UNCHANGED <<checkpoint, writes, run, decision, shown, unheard, blind, crashes>>

\* reply, stream_reply.
Say(w, c, m) ==
    /\ Begin(w, [kind |-> "message", conversation |-> c, message |-> m,
                 id |-> NoDraft, draft |-> NoDraft])
    /\ UNCHANGED approvals

\* request_human_handoff.
Handoff(w, c) ==
    /\ Begin(w, [kind |-> "handoff", conversation |-> c, message |-> AnyMessage,
                 id |-> NoDraft, draft |-> NoDraft])
    /\ UNCHANGED approvals

\* The client sends the confirmation id of a card it was shown.
Approve(w, c, card) ==
    /\ Begin(w, [kind |-> "approve", conversation |-> c, message |-> AnyMessage,
                 id |-> card.draft, draft |-> NoDraft])
    /\ approvals' = [approvals EXCEPT ![c] = @ \cup {card}]

Reject(w, c, card) ==
    /\ Begin(w, [kind |-> "reject", conversation |-> c, message |-> AnyMessage,
                 id |-> card.draft, draft |-> NoDraft])
    /\ UNCHANGED approvals

Correct(w, c, card, draft) ==
    /\ Begin(w, [kind |-> "correct", conversation |-> c, message |-> AnyMessage,
                 id |-> card.draft, draft |-> draft])
    /\ UNCHANGED approvals

\* Confirmations of other drafts are on their way to a draft just written.
Blinds(c, s) ==
    IF s.next = "confirm" /\ \E v \in InFlight(c) : req[v].kind = "approve"
                                                     /\ req[v].id # s.draft
    THEN {[conversation |-> c, draft |-> s.draft]} ELSE {}

\* A step that writes a draft, or may: history for WritesApproved.
Notes(w, s) == blind' = blind \cup Blinds(Conversation(w), s)

\* _has_pending_ticket_confirmation_next: the supervisor's next is ticket_agent
\* as long as its worker has not ended.
Pending(s) == s.next = "confirm" \/ Nested(s)

\* Mutant: the values of the outermost graph come first.
PendingDraft_TopFirst(s) == IF s.top.draft # NoDraft THEN s.top.draft ELSE s.draft

\* _pending_confirmation_fields: the draft the interrupt carries, or before
\* there is one, what the outermost graph has of an earlier ticket.  A decision
\* leaves the interrupt in the checkpoint until the worker has ended.
PendingDraft(s) == IF s.next = "work" THEN s.top.draft ELSE s.draft

\* Mutant: any pending confirmation will do.
Admitted_AnyId(r, s) ==
    IF r.kind = "message" THEN ~Pending(s)
    ELSE IF r.kind = "handoff" THEN ~Pending(s) /\ s.support # NoOrder
    ELSE Pending(s) /\ (r.kind = "correct" => ~Incomplete(r.draft))

\* _reject_if_confirmation_is_pending, or the checks of
\* decide_ticket_confirmation and correct_ticket_confirmation.
Admitted(r, s) ==
    IF r.kind = "message" THEN ~Pending(s)
    ELSE IF r.kind = "handoff" THEN ~Pending(s) /\ s.support # NoOrder
    ELSE /\ Pending(s)
         /\ r.id = PendingDraft(s)
         /\ r.kind = "correct" => ~Incomplete(r.draft)

\* What request_human_handoff says in the user's name, as the rules read it.
HandoffMessage(s) == [intent |-> "ticket", issue |-> "complaint",
                      order |-> s.support, text |-> HandoffText]

Check(w) ==
    /\ pc[w] = "check"
    /\ LET s == checkpoint[Conversation(w)]
       IN \/ /\ Admitted(req[w], s)
             /\ req' = [req EXCEPT ![w].message =
                          IF req[w].kind = "handoff" THEN HandoffMessage(s) ELSE @]
             /\ Goto(w, "start")
             /\ UNCHANGED <<run, decision>>
          \/ /\ ~Admitted(req[w], s)
             /\ Free(w)
    /\ UNCHANGED <<checkpoint, writes, clientVars, blind, counters>>

\* graph.invoke(input): what was pending is dropped, whatever it is by now.
StartMessage(w) ==
    /\ pc[w] = "start"
    /\ req[w].kind \in {"message", "handoff"}
    /\ SaveRun(w, Renewed(checkpoint[Conversation(w)], req[w].message))
    /\ Goto(w, "run")
    /\ UNCHANGED <<writes, req, decision, clientVars, blind, counters>>

\* graph.invoke(Command(resume=...)): goes on from the latest checkpoint, and
\* is delivered only if that one waits for a decision or is about to: a worker
\* that resumes at its beginning takes the decision at its first interrupt.
StartResume(w) ==
    /\ pc[w] = "start"
    /\ req[w].kind \notin {"message", "handoff"}
    /\ LET s == checkpoint[Conversation(w)]
       IN /\ run' = [run EXCEPT ![w] = s]
          /\ decision' = [decision EXCEPT ![w] = s.next \in {"work", "confirm"}]
    /\ Goto(w, "run")
    /\ UNCHANGED <<checkpoint, writes, req, clientVars, blind, counters>>

\* Nothing reads the message after the worker's first nodes.
Read(s) == IF s.next = "work" THEN s ELSE [s EXCEPT !.message = AnyMessage]

Understand(w) ==
    /\ pc[w] = "run"
    /\ run[w].next = "understand"
    /\ \E intent \in Intents(run[w]) : \E s \in Understood(run[w], intent) :
          /\ SaveRun(w, Read(s))
          /\ Notes(w, s)
    /\ UNCHANGED <<writes, pc, req, decision, clientVars, counters>>

\* The supervisor's tickets' worker runs to its first stop; a decision that
\* meets no interrupt is lost.
Work(w) ==
    /\ pc[w] = "run"
    /\ run[w].next = "work"
    /\ \E s \in Worked(run[w], run[w].flow) :
          /\ SaveRun(w, Read(s))
          /\ Notes(w, s)
          /\ decision' = [decision EXCEPT ![w] = @ /\ s.next = "confirm"]
    /\ UNCHANGED <<writes, pc, req, clientVars, counters>>

\* A node raises: the retrieval of a policy, or the model's classification or
\* extraction, for which the console configures no fallback to the rules.  The
\* client is told of an error; the checkpoint stays where the run was.
Raise(w) ==
    /\ pc[w] = "run"
    /\ run[w].next = "understand"
    /\ \/ "policy" \in Intents(run[w])
       \/ ~RulesAtHand
    /\ Free(w)
    /\ UNCHANGED <<checkpoint, writes, clientVars, blind, counters>>

\* The resume value reaches the interrupt.
Deliver(w) ==
    /\ pc[w] = "run"
    /\ run[w].next = "confirm"
    /\ decision[w]
    /\ SaveRun(w, Decided(run[w], req[w]))
    /\ Notes(w, Decided(run[w], req[w]))
    /\ decision' = [decision EXCEPT ![w] = FALSE]
    /\ UNCHANGED <<writes, pc, req, clientVars, counters>>

\* Mutant: the graph stops before it executes.
Stop_BeforeExecution(w) ==
    /\ pc[w] = "run"
    /\ run[w].next \in {"end", "execute"} \/ (run[w].next = "confirm" /\ ~decision[w])
    /\ Goto(w, "respond")
    /\ UNCHANGED <<checkpoint, writes, req, run, decision, clientVars, blind,
                   counters>>

\* The graph has ended or waits for a decision: there is an answer.
Stop(w) ==
    /\ pc[w] = "run"
    /\ run[w].next = "end" \/ (run[w].next = "confirm" /\ ~decision[w])
    /\ Goto(w, "respond")
    /\ UNCHANGED <<checkpoint, writes, req, run, decision, clientVars, blind,
                   counters>>

----------------------------------------------------------------------------
(* Java.                                                                   *)

\* Mutant: each call makes a key of its own.
KeyOf_Fresh(w) == <<run[w].draft, Len(writes)>>

\* _get_ticket_creation_idempotency_key: the hash of the fields.
KeyOf(w) == run[w].draft

Committed == {writes[i] : i \in DOMAIN writes}
OrderWrites == {v \in Committed : v.flow # "ticket"}

\* The table Java looks the key up in: tickets or order_events.
SameTable(f, g) == (f = "ticket") <=> (g = "ticket")
Spent(w) == {v \in Committed : v.key = KeyOf(w) /\ SameTable(v.flow, run[w].flow)}

NewWrite(w) == [conversation |-> Conversation(w), draft |-> run[w].draft,
                flow |-> run[w].flow, key |-> KeyOf(w)]

\* The key is new and the order, if one is named, still open.
Commits(w) ==
    /\ Spent(w) = {}
    /\ run[w].flow # "ticket" =>
          /\ run[w].draft.order # NoOrder
          /\ \A v \in OrderWrites : v.draft.order # run[w].draft.order

\* create_ticket_node, execute_refund_request_node, execute_cancel_request_node
\* up to Java's answer: the write is committed, or the node fails, Java refuses
\* it or finds the key spent.  The answer decides what the user is told only.
Call(w) ==
    /\ pc[w] = "run"
    /\ run[w].next = "execute"
    /\ \/ /\ run[w].approved
          /\ Commits(w)
          /\ writes' = Append(writes, NewWrite(w))
       \/ UNCHANGED writes
    /\ Goto(w, "save")
    /\ UNCHANGED <<checkpoint, req, run, decision, clientVars, blind, counters>>

\* The node's update: the order flows end, whatever Java said.
Executed(s) == [s EXCEPT !.flow = "ticket", !.next = "end"]

Save(w) ==
    /\ pc[w] = "save"
    /\ SaveRun(w, Executed(run[w]))
    /\ Goto(w, "respond")
    /\ UNCHANGED <<writes, req, decision, clientVars, blind, counters>>

----------------------------------------------------------------------------
\* _pending_confirmation_from_state: an active interrupt is shown.
Cards(w) == IF run[w].next = "confirm" THEN {CardOf(run[w])} ELSE {}

Respond(w) ==
    /\ pc[w] = "respond"
    /\ shown' = [shown EXCEPT ![Conversation(w)] = @ \cup Cards(w)]
    /\ Free(w)
    /\ UNCHANGED <<checkpoint, writes, approvals, unheard, blind, counters>>

\* The process dies or Redis fails.
Crash(w) ==
    /\ pc[w] # "idle"
    /\ crashes < MaxCrashes
    /\ crashes' = crashes + 1
    /\ unheard' = unheard \cup {Conversation(w)}
    /\ Free(w)
    /\ UNCHANGED <<checkpoint, writes, shown, approvals, blind, served>>

\* The client of a stream leaves: the graph is not driven to its next step.
Disconnect(w) ==
    /\ req[w].kind = "message"
    /\ pc[w] \in {"run", "respond"}
    /\ crashes < MaxCrashes
    /\ crashes' = crashes + 1
    /\ unheard' = unheard \cup {Conversation(w)}
    /\ Free(w)
    /\ UNCHANGED <<checkpoint, writes, shown, approvals, blind, served>>

\* agent_checkpoint_ttl_minutes runs out; a request refreshes it.
Expire(c) ==
    /\ InFlight(c) = {}
    /\ checkpoint[c] # Fresh
    /\ checkpoint' = [checkpoint EXCEPT ![c] = Fresh]
    /\ UNCHANGED <<writes, pc, req, run, decision, clientVars, blind, counters>>

Proceed(w) ==
    \/ Check(w) \/ StartMessage(w) \/ StartResume(w) \/ Understand(w) \/ Work(w)
    \/ Raise(w) \/ Deliver(w) \/ Stop(w) \/ Call(w) \/ Save(w) \/ Respond(w)

Step ==
    \/ \E w \in Workers, c \in Conversations :
          \/ \E m \in Messages : Say(w, c, m)
          \/ Handoff(w, c)
          \/ \E card \in shown[c] :
                \/ Approve(w, c, card)
                \/ Reject(w, c, card)
                \/ \E draft \in Corrections : Correct(w, c, card, draft)
    \/ \E w \in Workers : Proceed(w)
    \/ \E w \in Workers : Crash(w) \/ Disconnect(w)
    \/ \E c \in Conversations : Expire(c)

Next == Step /\ UNCHANGED mode

Spec == Init /\ [][Next]_vars

----------------------------------------------------------------------------
\* Nothing is written that the user did not confirm as it was shown: the same
\* fields in the same conversation and the same kind of write ("plan, user
\* confirms, execute", docs/stage11-ai-order-ticket-end-to-end-contract.md 92),
\* as long as the rules read the text and the user did not write the fields.
\* The confirmation id is a hash of the fields only: a model may take a text for
\* a refund now and for a ticket later, and a refund and a ticket may be
\* corrected to the same fields; the card of one then confirms the other.
Confirmed(v) == \E card \in approvals[v.conversation] :
    /\ card.draft = v.draft
    /\ ~ByModel /\ v.draft \notin Corrections => card.flow = v.flow

\* Not so in the code: a decision is checked against one checkpoint and
\* delivered to whatever draft the graph has when it goes on.  A correction in
\* between is confirmed unseen (ticket_agent.py 2532: a corrected draft has to
\* be confirmed again), and an earlier ticket's card confirms what the worker of
\* a message that died is about to write.
ConfirmedAsShown == \A v \in Committed : Confirmed(v)

\* What holds: every other write is confirmed as it was shown, whatever else
\* the user or the service did.  Those two come from a draft that was written
\* while a confirmation of another one was on its way in the conversation.
WritesApproved ==
    \A v \in Committed :
        [conversation |-> v.conversation, draft |-> v.draft] \notin blind => Confirmed(v)

\* A confirmation is worth one write: confirming twice, confirming again after
\* a lost answer or in another conversation of the same user makes no second
\* ticket, and an order is refunded or canceled once
\* (_get_ticket_creation_idempotency_key).
WrittenOnce ==
    \A i, j \in DOMAIN writes :
        i # j => /\ writes[i].flow # "ticket" /\ writes[j].flow # "ticket"
                      => writes[i].draft.order # writes[j].draft.order
                 /\ UserOf[writes[i].conversation] = UserOf[writes[j].conversation]
                      => CardOf(writes[i]) # CardOf(writes[j])

\* A conversation that waits for a decision, and so takes no message, waits
\* for one its client can give: the client holds the very card, and its id is
\* the one the service will accept, also when the supervisor still has the
\* draft of an earlier ticket; unless an answer was lost
\* (_reject_if_confirmation_is_pending, _pending_confirmation_fields).
PendingIsShown ==
    \A c \in Conversations :
        /\ Pending(checkpoint[c])
        /\ InFlight(c) = {}
        /\ c \notin unheard
        => /\ CardOf(checkpoint[c]) \in shown[c]
           /\ CardOf(checkpoint[c]).draft = PendingDraft(checkpoint[c])

\* Between requests no conversation is left with a decision taken and not
\* carried out, unless its request died.
ApprovedIsCarriedOut ==
    \A c \in Conversations :
        InFlight(c) = {} /\ c \notin unheard => checkpoint[c].next # "execute"
=============================================================================
