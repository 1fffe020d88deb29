------------------------- MODULE ConsoleAgentProofs -------------------------
(***************************************************************************)
(* Proofs about ConsoleAgent, for any number of threads, conversations,    *)
(* users, orders, messages and requests, in every mode of the service.     *)
(***************************************************************************)
EXTENDS ConsoleAgent, TLAPS

Stages == {"idle", "check", "start", "run", "save", "respond"}

----------------------------------------------------------------------------
(* What the graph makes of a state is a state.                             *)

LEMMA HandoffIsMessage ==
    ASSUME NEW s \in State
    PROVE  HandoffMessage(s) \in Message
BY AgentAssumption DEF HandoffMessage, Message, State, Intent, Issue

LEMMA AnyMessageType == AnyMessage \in Messages /\ AnyMessage \in Message
BY AgentAssumption DEF AnyMessage

LEMMA FreshType == Fresh \in State
BY AnyMessageType DEF Fresh, State, NoValues, Values, Flow

LEMMA HandedType ==
    ASSUME NEW s \in State
    PROVE  Handed(s) \in State
<1>1. ValuesOf(s) \in Values
  BY DEF ValuesOf, Values, State
<1>2. [s EXCEPT !.top = ValuesOf(s)] \in State
  BY <1>1 DEF State
<1>3. QED
  BY <1>2 DEF Handed

LEMMA RenewedType ==
    ASSUME NEW s \in State, NEW m \in Message
    PROVE  Renewed(s, m) \in State
BY DEF Renewed, State, Values

LEMMA DraftedType ==
    ASSUME NEW s \in State, NEW flow \in Flow, NEW draft \in Draft, NEW missing \in BOOLEAN
    PROVE  Drafted(s, flow, draft, missing) \in State
BY DEF Drafted, State

\* Fields of a draft, from the message or from the draft in progress.
LEMMA OrderDraftType ==
    ASSUME NEW s \in State, NEW flow \in {"refund", "cancel"}
    PROVE  OrderDraft(s, flow) \in Draft
<1>1. s.message \in Message
  BY DEF State
<1>2. Collecting(s) => s.draft \in Draft
  BY DEF Collecting, State
<1>3. OrderOf(s) \in Orders \cup {NoOrder} /\ TextOf(s) \in Texts
  BY <1>1, <1>2 DEF OrderOf, TextOf, Message, Draft
<1>4. QED
  BY <1>3 DEF OrderDraft, Draft, Issue

LEMMA MergedType ==
    ASSUME NEW s \in State, NEW latest \in Draft
    PROVE  Merged(s, latest) \in Draft
<1>1. Collecting(s) => s.draft \in Draft
  BY DEF Collecting, State
<1>2. QED
  BY <1>1 DEF Merged, Draft

LEMMA ExtractedType ==
    ASSUME NEW s \in State
    PROVE  Extracted(s) \subseteq Draft
<1>1. s.message \in Message
  BY DEF State
<1>2. IssueOf(s) \in Issue
  BY <1>1 DEF IssueOf, Message, Issue
<1>3. RuleFields(s) \in Draft
  BY <1>1, <1>2 DEF RuleFields, Message, Draft
<1>4. QED
  BY <1>3, AgentAssumption DEF Extracted

LEMMA TicketDraftedType ==
    ASSUME NEW s \in State, NEW r \in TicketDrafted(s)
    PROVE  r \in State
<1>1. PICK latest \in Extracted(s) :
        r = Drafted(s, "ticket", Merged(s, latest), Incomplete(Merged(s, latest)))
  BY DEF TicketDrafted
<1>2. PICK draft \in Draft : draft = Merged(s, latest)
  BY ExtractedType, MergedType
<1>3. Incomplete(draft) \in BOOLEAN
  BY DEF Incomplete
<1>4. QED
  BY <1>1, <1>2, <1>3, DraftedType DEF Flow

LEMMA WorkedType ==
    ASSUME NEW s \in State, NEW flow \in Flow, NEW r \in Worked(s, flow)
    PROVE  r \in State
<1>1. CASE flow = "ticket"
  BY <1>1, TicketDraftedType DEF Worked
<1>2. CASE flow \in {"refund", "cancel"}
  <2>1. PICK draft \in Draft : draft = OrderDraft(s, flow)
    BY <1>2, OrderDraftType
  <2>2. r = Drafted(s, flow, draft, draft.order = NoOrder)
    BY <1>2, <2>1 DEF Worked
  <2>3. QED
    BY <2>2, DraftedType
<1>3. QED
  BY <1>1, <1>2 DEF Flow

LEMMA BeganType ==
    ASSUME NEW s \in State, NEW flow \in Flow, NEW r \in Began(s, flow)
    PROVE  r \in State
<1>1. Routed(s, flow) \in State
  BY DEF Routed, State, Values
<1>2. QED
  BY <1>1, WorkedType DEF Began

LEMMA UnderstoodType ==
    ASSUME NEW s \in State, NEW intent \in Intent, NEW r \in Understood(s, intent)
    PROVE  r \in State
<1>1. CASE intent \in Flow
  <2>1. r \in Began(s, intent)
    BY <1>1 DEF Understood, Flow
  <2>2. QED
    BY <1>1, <2>1, BeganType
<1>2. CASE intent = "policy"
  <2>1. r = [s EXCEPT !.needsTicket = FALSE, !.gap = FALSE, !.next = "end"]
        \/ r \in Began([s EXCEPT !.gap = TRUE], "ticket")
    BY <1>2 DEF Understood, PolicyAsked, Flow
  <2>2. [s EXCEPT !.gap = TRUE] \in State
    BY DEF State
  <2>3. [s EXCEPT !.needsTicket = FALSE, !.gap = FALSE, !.next = "end"] \in State
    BY DEF State
  <2>4. QED
    BY <2>1, <2>2, <2>3, BeganType DEF Flow
<1>3. CASE intent = "order"
  <2>1. r \in OrderQueried(s)
    BY <1>3 DEF Understood, Flow
  <2>2. Advised(s) \subseteq Orders \cup {NoOrder}
    BY DEF Advised, State, Message
  <2>3. PICK o \in Advised(s) : r = [s EXCEPT !.support = o, !.next = "end"]
    BY <2>1 DEF OrderQueried
  <2>4. QED
    BY <2>2, <2>3 DEF State
<1>4. CASE intent = "chat"
  <2>1. r = [s EXCEPT !.next = "end"]
    BY <1>4 DEF Understood, Flow
  <2>2. QED
    BY <2>1 DEF State
<1>5. QED
  BY <1>1, <1>2, <1>3, <1>4 DEF Intent, Flow

\* Once read, a message leaves the rest of the state alone.
LEMMA ReadType ==
    ASSUME NEW u \in State
    PROVE  /\ Read(u) \in State
           /\ Read(u).message \in {u.message, AnyMessage}
           /\ Read(u).next = u.next /\ Read(u).draft = u.draft /\ Read(u).flow = u.flow
           /\ Read(u).missing = u.missing /\ Read(u).needsTicket = u.needsTicket
           /\ Read(u).top = u.top
<1>1. CASE u.next = "work"
  BY <1>1 DEF Read, State
<1>2. CASE u.next # "work"
  <2>1. Read(u) = [u EXCEPT !.message = AnyMessage]
    BY <1>2 DEF Read
  <2>2. QED
    BY <2>1, AnyMessageType DEF State
<1>3. QED
  BY <1>1, <1>2

LEMMA IntentsType ==
    ASSUME NEW s \in State
    PROVE  Intents(s) \subseteq Intent
<1>1. s.message.intent \in Intent /\ s.flow \in Intent
  BY DEF State, Message, Flow, Intent
<1>2. QED
  BY <1>1, AgentAssumption DEF Intents, Heard

LEMMA DecidedType ==
    ASSUME NEW s \in State, NEW r \in Request, r.kind = "correct" => r.draft \in Draft,
           r.kind \in {"approve", "reject", "correct"}
    PROVE  Decided(s, r) \in State
<1>1. CASE r.kind = "approve"
  BY <1>1 DEF Decided, State
<1>2. CASE r.kind = "reject"
  BY <1>2 DEF Decided, State, Flow
<1>3. CASE r.kind = "correct"
  <2>1. Decided(s, r) = Corrected(s, r.draft)
    BY <1>3 DEF Decided
  <2>2. PICK d \in Draft : d = r.draft
    BY <1>3
  <2>3. Corrected(s, d) \in State
    BY DEF Corrected, State
  <2>4. QED
    BY <2>1, <2>2, <2>3
<1>4. QED
  BY <1>1, <1>2, <1>3

LEMMA ExecutedType ==
    ASSUME NEW s \in State
    PROVE  Executed(s) \in State
BY DEF Executed, State, Flow

----------------------------------------------------------------------------
(* A worker moves.                                                         *)

\* A decision is about a draft.
Proper(s) == s.next \in {"confirm", "execute"} => s.draft \in Draft

\* Where a request is and what it knows.  A decision waits at an interrupt or for
\* the one its worker will come to; what is saved was executed; a correction
\* that was admitted lacks nothing.
Fit(p, r, s, d) ==
    /\ Proper(s)
    /\ p = "save" => s.next = "execute"
    /\ d => /\ p = "run" /\ s.next \in {"work", "confirm"}
            /\ r.kind \in {"approve", "reject", "correct"}
    /\ r.kind = "correct" =>
          r.draft \in Draft /\ (p \notin {"idle", "check"} => ~Incomplete(r.draft))

StageInv ==
    /\ \A w \in Workers : Fit(pc[w], req[w], run[w], decision[w])
    /\ \A c \in Conversations : Proper(checkpoint[c])

\* The worker gets a stage, a request, a run and a decision, its conversation a
\* checkpoint.
Move(w, p, r, s, d, k) ==
    /\ pc' = [pc EXCEPT ![w] = p]
    /\ req' = [req EXCEPT ![w] = r]
    /\ run' = [run EXCEPT ![w] = s]
    /\ decision' = [decision EXCEPT ![w] = d]
    /\ checkpoint' = [checkpoint EXCEPT ![Conversation(w)] = k]
    /\ mode' = mode

Books ==
    /\ writes \in Seq(Write)
    /\ shown \in [Conversations -> SUBSET Card]
    /\ approvals \in [Conversations -> SUBSET Card]
    /\ unheard \in SUBSET Conversations
    /\ blind \in SUBSET Blind
    /\ served \in Nat
    /\ crashes \in Nat

LEMMA MoveKeeps ==
    ASSUME TypeOK, StageInv, NEW w \in Workers, NEW p \in Stages, NEW r \in Request,
           NEW s \in State, NEW d \in BOOLEAN, NEW k \in State,
           Move(w, p, r, s, d, k), Fit(p, r, s, d), Proper(k), Books'
    PROVE  TypeOK' /\ StageInv'
<1>1. /\ pc \in [Workers -> Stages] /\ req \in [Workers -> Request]
      /\ run \in [Workers -> State] /\ decision \in [Workers -> BOOLEAN]
      /\ checkpoint \in [Conversations -> State] /\ mode \in Modes
  BY DEF TypeOK, Stages
<1>2. /\ pc' \in [Workers -> Stages] /\ req' \in [Workers -> Request]
      /\ run' \in [Workers -> State] /\ decision' \in [Workers -> BOOLEAN]
      /\ checkpoint' \in [Conversations -> State] /\ mode' \in Modes
  BY <1>1 DEF Move
<1>3. TypeOK'
  BY <1>2 DEF TypeOK, Stages, Books
<1>4. ASSUME NEW v \in Workers PROVE Fit(pc[v], req[v], run[v], decision[v])'
  <2>1. CASE v = w
    <3>1. pc'[v] = p /\ req'[v] = r /\ run'[v] = s /\ decision'[v] = d
      BY <1>1, <2>1 DEF Move
    <3>2. QED
      BY <3>1 DEF Fit, Proper
  <2>2. CASE v # w
    <3>1. pc'[v] = pc[v] /\ req'[v] = req[v] /\ run'[v] = run[v] /\ decision'[v] = decision[v]
      BY <1>1, <2>2 DEF Move
    <3>2. QED
      BY <3>1 DEF StageInv, Fit, Proper
  <2>3. QED
    BY <2>1, <2>2
<1>5. ASSUME NEW c \in Conversations PROVE Proper(checkpoint[c])'
  BY <1>1 DEF StageInv, Move, Proper
<1>6. QED
  BY <1>3, <1>4, <1>5 DEF StageInv

\* What is known of a worker, in one place.
LEMMA WorkerTypes ==
    ASSUME TypeOK, StageInv, NEW w \in Workers
    PROVE  /\ pc[w] \in Stages /\ req[w] \in Request /\ run[w] \in State
           /\ decision[w] \in BOOLEAN /\ Conversation(w) \in Conversations
           /\ checkpoint[Conversation(w)] \in State /\ Proper(checkpoint[Conversation(w)])
           /\ Fit(pc[w], req[w], run[w], decision[w])
BY DEF TypeOK, Stages, StageInv, Conversation, Request

\* What an action leaves alone, it sets to what it is.
LEMMA Unmoved ==
    ASSUME TypeOK, NEW w \in Workers
    PROVE  /\ pc = [pc EXCEPT ![w] = pc[w]]
           /\ req = [req EXCEPT ![w] = req[w]]
           /\ run = [run EXCEPT ![w] = run[w]]
           /\ decision = [decision EXCEPT ![w] = decision[w]]
           /\ checkpoint = [checkpoint EXCEPT ![Conversation(w)] = checkpoint[Conversation(w)]]
BY DEF TypeOK

Freed(w) == Move(w, "idle", NoRequest, Fresh, FALSE, checkpoint[Conversation(w)])

LEMMA FreeMoves ==
    ASSUME TypeOK, NEW w \in Workers, Free(w), checkpoint' = checkpoint, mode' = mode
    PROVE  Freed(w)
BY Unmoved DEF Free, Freed, Goto, Move

LEMMA NoRequestType ==
    ASSUME TypeOK, NEW w \in Workers
    PROVE  NoRequest \in Request /\ Fit("idle", NoRequest, Fresh, FALSE)
<1>1. Conversations # {}
  BY DEF TypeOK, Request
<1>2. QED
  BY <1>1, AnyMessageType DEF NoRequest, Request, Kind, Fit, Proper, Fresh

----------------------------------------------------------------------------
(* What each action moves.                                                 *)

Starts(w, r) ==
    /\ pc[w] = "idle"
    /\ Move(w, "check", r, run[w], decision[w], checkpoint[Conversation(w)])

\* A message or a button, on a card the client has been shown.
LEMMA BeginMoves ==
    ASSUME TypeOK, StageInv, NEW w \in Workers, NEW r \in Request, Begin(w, r), mode' = mode
    PROVE  Starts(w, r)
BY Unmoved DEF Starts, Begin, Goto, Move

LEMMA RequestTypes ==
    ASSUME TypeOK, NEW c \in Conversations, NEW m \in Messages, NEW card \in shown[c],
           NEW draft \in Corrections, NEW kind \in Kind, NEW msg \in {m, AnyMessage},
           NEW id \in {NoDraft, card.draft}, NEW corrected \in {NoDraft, draft}
    PROVE  [kind |-> kind, conversation |-> c, message |-> msg, id |-> id, draft |-> corrected]
              \in Request
BY AgentAssumption, AnyMessageType DEF TypeOK, Card, Request

\* A request is admitted or refused.
LEMMA CheckMoves ==
    ASSUME TypeOK, StageInv, NEW w \in Workers, Check(w), mode' = mode
    PROVE  \/ /\ Admitted(req[w], checkpoint[Conversation(w)])
              /\ \E m \in Message :
                    /\ m = IF req[w].kind = "handoff"
                           THEN HandoffMessage(checkpoint[Conversation(w)]) ELSE req[w].message
                    /\ Move(w, "start", [req[w] EXCEPT !.message = m], run[w], decision[w],
                            checkpoint[Conversation(w)])
           \/ Freed(w)
<1> DEFINE s == checkpoint[Conversation(w)]
<1>1. s \in State /\ req[w] \in Request
  BY WorkerTypes
<1>2. CASE Free(w)
  BY <1>2, FreeMoves DEF Check
<1>3. CASE ~Free(w)
  <2>1. PICK m : m = IF req[w].kind = "handoff" THEN HandoffMessage(s) ELSE req[w].message
    OBVIOUS
  <2>2. m \in Message
    BY <1>1, <2>1, HandoffIsMessage DEF Request
  <2>3. req' = [req EXCEPT ![w] = [req[w] EXCEPT !.message = m]]
    BY <1>3, <2>1 DEF Check
  <2>4. Admitted(req[w], s) /\ Goto(w, "start") /\ run' = run /\ decision' = decision
        /\ checkpoint' = checkpoint
    BY <1>3 DEF Check
  <2>5. QED
    BY <2>1, <2>2, <2>3, <2>4, Unmoved DEF Goto, Move
<1>4. QED
  BY <1>2, <1>3

LEMMA StartMessageMoves ==
    ASSUME TypeOK, StageInv, NEW w \in Workers, StartMessage(w), mode' = mode
    PROVE  \E s \in State : /\ s = Handed(Renewed(checkpoint[Conversation(w)], req[w].message))
                            /\ Move(w, "run", req[w], s, decision[w], s)
<1>1. checkpoint[Conversation(w)] \in State /\ req[w].message \in Message
  BY WorkerTypes DEF Request
<1>2. PICK s \in State : s = Handed(Renewed(checkpoint[Conversation(w)], req[w].message))
  BY <1>1, RenewedType, HandedType
<1>3. QED
  BY <1>2, Unmoved DEF StartMessage, SaveRun, Goto, Move

LEMMA StartResumeMoves ==
    ASSUME TypeOK, StageInv, NEW w \in Workers, StartResume(w), mode' = mode
    PROVE  Move(w, "run", req[w], checkpoint[Conversation(w)],
                checkpoint[Conversation(w)].next \in {"work", "confirm"},
                checkpoint[Conversation(w)])
BY Unmoved DEF StartResume, Goto, Move

LEMMA UnderstandMoves ==
    ASSUME TypeOK, StageInv, NEW w \in Workers, Understand(w), mode' = mode
    PROVE  \E intent \in Intents(run[w]) : \E u \in Understood(run[w], intent) : \E s \in State :
              /\ u \in State /\ intent \in Intent
              /\ s = Handed(Read(u)) /\ Notes(w, u)
              /\ Move(w, "run", req[w], s, decision[w], s)
<1>1. PICK intent \in Intents(run[w]) : \E u \in Understood(run[w], intent) :
         SaveRun(w, Read(u)) /\ Notes(w, u)
  BY DEF Understand
<1>2. PICK u \in Understood(run[w], intent) : SaveRun(w, Read(u)) /\ Notes(w, u)
  BY <1>1
<1>3. run[w] \in State
  BY WorkerTypes
<1>4. intent \in Intent /\ u \in State
  BY <1>1, <1>2, <1>3, IntentsType, UnderstoodType
<1>5. PICK s \in State : s = Handed(Read(u))
  BY <1>4, ReadType, HandedType
<1>6. Move(w, "run", req[w], s, decision[w], s)
  BY <1>2, <1>5, Unmoved DEF Understand, SaveRun, Move
<1>7. QED
  BY <1>1, <1>2, <1>4, <1>5, <1>6

LEMMA WorkMoves ==
    ASSUME TypeOK, StageInv, NEW w \in Workers, Work(w), mode' = mode
    PROVE  \E u \in Worked(run[w], run[w].flow) : \E s \in State : \E d \in BOOLEAN :
              /\ u \in State /\ s = Handed(Read(u)) /\ Notes(w, u)
              /\ d = (decision[w] /\ u.next = "confirm")
              /\ Move(w, "run", req[w], s, d, s)
<1>1. PICK u \in Worked(run[w], run[w].flow) :
         /\ SaveRun(w, Read(u)) /\ Notes(w, u)
         /\ decision' = [decision EXCEPT ![w] = decision[w] /\ u.next = "confirm"]
  BY DEF Work
<1>2. run[w] \in State /\ run[w].flow \in Flow
  BY WorkerTypes DEF State
<1>3. u \in State
  BY <1>1, <1>2, WorkedType
<1>4. PICK s \in State : s = Handed(Read(u))
  BY <1>3, ReadType, HandedType
<1>5. PICK d \in BOOLEAN : d = (decision[w] /\ u.next = "confirm")
  OBVIOUS
<1>6. Move(w, "run", req[w], s, d, s)
  BY <1>1, <1>4, <1>5, Unmoved DEF Work, SaveRun, Move
<1>7. QED
  BY <1>1, <1>3, <1>4, <1>5, <1>6

LEMMA DeliverMoves ==
    ASSUME TypeOK, StageInv, NEW w \in Workers, Deliver(w), mode' = mode
    PROVE  \E u \in State : \E s \in State :
              /\ u = Decided(run[w], req[w]) /\ s = Handed(u) /\ Notes(w, u)
              /\ Move(w, "run", req[w], s, FALSE, s)
<1>1. /\ run[w] \in State /\ req[w] \in Request
      /\ req[w].kind \in {"approve", "reject", "correct"}
      /\ req[w].kind = "correct" => req[w].draft \in Draft
  BY WorkerTypes DEF Fit, Deliver
<1>2. PICK u \in State : u = Decided(run[w], req[w])
  BY <1>1, DecidedType
<1>3. PICK s \in State : s = Handed(u)
  BY HandedType
<1>4. Move(w, "run", req[w], s, FALSE, s) /\ Notes(w, u)
  BY <1>2, <1>3, Unmoved DEF Deliver, SaveRun, Move
<1>5. QED
  BY <1>2, <1>3, <1>4

LEMMA StopMoves ==
    ASSUME TypeOK, StageInv, NEW w \in Workers, Stop(w), mode' = mode
    PROVE  Move(w, "respond", req[w], run[w], decision[w], checkpoint[Conversation(w)])
BY Unmoved DEF Stop, Goto, Move

LEMMA CallMoves ==
    ASSUME TypeOK, StageInv, NEW w \in Workers, Call(w), mode' = mode
    PROVE  Move(w, "save", req[w], run[w], decision[w], checkpoint[Conversation(w)])
BY Unmoved DEF Call, Goto, Move

LEMMA SaveMoves ==
    ASSUME TypeOK, StageInv, NEW w \in Workers, Save(w), mode' = mode
    PROVE  \E s \in State : /\ s = Handed(Executed(run[w]))
                            /\ Move(w, "respond", req[w], s, decision[w], s)
<1>1. PICK s \in State : s = Handed(Executed(run[w]))
  BY WorkerTypes, ExecutedType, HandedType
<1>2. QED
  BY <1>1, Unmoved DEF Save, SaveRun, Goto, Move

----------------------------------------------------------------------------
(* Nobody is left waiting: what a checkpoint waits for was shown, or there *)
(* is a request that will show it; what it has decided is being done.      *)

\* Where only a request that is running takes a conversation on.
Driven == {"work", "execute"}

Carries(p, s) == p \in {"run", "save"} /\ s.next \in Driven
Shows(p, s, k) == p \in {"run", "respond"} /\ s.next = "confirm" /\ CardOf(s) = CardOf(k)

Carried(c) ==
    c \notin unheard /\ checkpoint[c].next \in Driven =>
        \E w \in Workers : Conversation(w) = c /\ Carries(pc[w], run[w])

Awaited(c) ==
    c \notin unheard /\ checkpoint[c].next = "confirm" =>
        \/ CardOf(checkpoint[c]) \in shown[c]
        \/ \E w \in Workers : /\ Conversation(w) = c
                              /\ Shows(pc[w], run[w], checkpoint[c])

HeardInv == \A c \in Conversations : Carried(c) /\ Awaited(c)

LEMMA HeardMove ==
    ASSUME TypeOK, HeardInv, NEW w \in Workers, NEW p \in Stages, NEW r \in Request,
           NEW s \in State, NEW d \in BOOLEAN, NEW k \in State, Move(w, p, r, s, d, k),
           NEW c \in Conversations, c = Conversation(w),
           unheard \subseteq unheard', \A x \in Conversations : shown[x] \subseteq shown'[x],
           \/ c \in unheard' \/ k.next \notin Driven
           \/ r.conversation = c /\ Carries(p, s)
           \/ k = checkpoint[c] /\ ~Carries(pc[w], run[w]),
           \/ c \in unheard' \/ k.next # "confirm" \/ CardOf(k) \in shown'[c]
           \/ r.conversation = c /\ Shows(p, s, k)
           \/ k = checkpoint[c] /\ ~Shows(pc[w], run[w], k)
    PROVE  HeardInv'
<1>1. /\ pc'[w] = p /\ req'[w] = r /\ run'[w] = s /\ decision'[w] = d /\ checkpoint'[c] = k
      /\ \A x \in Conversations \ {c} : checkpoint'[x] = checkpoint[x]
      /\ \A v \in Workers \ {w} : /\ pc'[v] = pc[v] /\ req'[v] = req[v]
                                  /\ run'[v] = run[v] /\ decision'[v] = decision[v]
  BY DEF TypeOK, Move
<1>2. ASSUME NEW x \in Conversations, x \notin unheard', checkpoint'[x].next \in Driven
      PROVE  \E v \in Workers : req'[v].conversation = x /\ Carries(pc'[v], run'[v])
  <2>1. CASE x = c
    <3>1. CASE r.conversation = c /\ Carries(p, s)
      BY <1>1, <2>1, <3>1
    <3>2. CASE k = checkpoint[c] /\ ~Carries(pc[w], run[w])
      <4>1. PICK v \in Workers : Conversation(v) = c /\ Carries(pc[v], run[v])
        BY <1>1, <1>2, <2>1, <3>2 DEF HeardInv, Carried
      <4>2. v # w
        BY <3>2, <4>1
      <4>3. QED
        BY <1>1, <2>1, <4>1, <4>2 DEF Conversation
    <3>3. QED
      BY <1>1, <1>2, <2>1, <3>1, <3>2
  <2>2. CASE x # c
    <3>1. PICK v \in Workers : Conversation(v) = x /\ Carries(pc[v], run[v])
      BY <1>1, <1>2, <2>2 DEF HeardInv, Carried
    <3>2. v # w
      BY <2>2, <3>1
    <3>3. QED
      BY <1>1, <3>1, <3>2 DEF Conversation
  <2>3. QED
    BY <2>1, <2>2
<1>3. ASSUME NEW x \in Conversations, x \notin unheard', checkpoint'[x].next = "confirm",
             CardOf(checkpoint'[x]) \notin shown'[x]
      PROVE  \E v \in Workers : /\ req'[v].conversation = x
                                /\ Shows(pc'[v], run'[v], checkpoint'[x])
  <2>1. CASE x = c
    <3>1. CASE r.conversation = c /\ Shows(p, s, k)
      BY <1>1, <2>1, <3>1
    <3>2. CASE k = checkpoint[c] /\ ~Shows(pc[w], run[w], k)
      <4>1. PICK v \in Workers :
              Conversation(v) = c /\ Shows(pc[v], run[v], checkpoint[c])
        BY <1>1, <1>3, <2>1, <3>2 DEF HeardInv, Awaited
      <4>2. v # w
        BY <3>2, <4>1
      <4>3. QED
        BY <1>1, <2>1, <3>2, <4>1, <4>2 DEF Conversation
    <3>3. QED
      BY <1>1, <1>3, <2>1, <3>1, <3>2
  <2>2. CASE x # c
    <3>1. PICK v \in Workers :
            Conversation(v) = x /\ Shows(pc[v], run[v], checkpoint[x])
      BY <1>1, <1>3, <2>2 DEF HeardInv, Awaited
    <3>2. v # w
      BY <2>2, <3>1
    <3>3. QED
      BY <1>1, <2>2, <3>1, <3>2 DEF Conversation
  <2>3. QED
    BY <2>1, <2>2
<1>4. \A x \in Conversations : Carried(x)'
  BY <1>2 DEF Carried, Carries, Conversation
<1>5. \A x \in Conversations : Awaited(x)'
  BY <1>3 DEF Awaited, Shows, Conversation, CardOf
<1>6. QED
  BY <1>4, <1>5 DEF HeardInv

\* Handing values to the supervisor leaves the worker's own alone.
LEMMA HandedSame ==
    ASSUME NEW u \in State, NEW s \in State, s = Handed(u)
    PROVE  /\ s.next = u.next /\ s.draft = u.draft /\ s.flow = u.flow
           /\ s.missing = u.missing /\ s.needsTicket = u.needsTicket /\ s.message = u.message
           /\ s.gap = u.gap /\ s.support = u.support
           /\ s.top = u.top \/ s.top = ValuesOf(u)
BY DEF Handed, State

Kept == TypeOK' /\ StageInv' /\ HeardInv'

LEMMA MoveKept ==
    ASSUME TypeOK, StageInv, HeardInv, NEW w \in Workers, NEW p \in Stages, NEW r \in Request,
           NEW s \in State, NEW d \in BOOLEAN, NEW k \in State,
           Move(w, p, r, s, d, k), Fit(p, r, s, d), Proper(k), Books',
           NEW c \in Conversations, c = Conversation(w),
           unheard \subseteq unheard', \A x \in Conversations : shown[x] \subseteq shown'[x],
           \/ c \in unheard' \/ k.next \notin Driven
           \/ r.conversation = c /\ Carries(p, s)
           \/ k = checkpoint[c] /\ ~Carries(pc[w], run[w]),
           \/ c \in unheard' \/ k.next # "confirm" \/ CardOf(k) \in shown'[c]
           \/ r.conversation = c /\ Shows(p, s, k)
           \/ k = checkpoint[c] /\ ~Shows(pc[w], run[w], k)
    PROVE  Kept
<1>1. TypeOK' /\ StageInv'
  BY MoveKeeps
<1>2. HeardInv'
  BY HeardMove
<1>3. QED
  BY <1>1, <1>2 DEF Kept

\* Most actions write nothing down, or a draft for the record.
LEMMA BooksStay ==
    ASSUME TypeOK, UNCHANGED <<writes, clientVars, counters>>, blind' \in SUBSET Blind
    PROVE  /\ Books' /\ unheard \subseteq unheard'
           /\ \A x \in Conversations : shown[x] \subseteq shown'[x]
BY DEF TypeOK, Books, clientVars, counters

LEMMA NotesType ==
    ASSUME TypeOK, StageInv, NEW w \in Workers, NEW u \in State, Proper(u), Notes(w, u)
    PROVE  blind' \in SUBSET Blind
<1>1. Blinds(Conversation(w), u) \subseteq Blind
  BY WorkerTypes DEF Blinds, Blind, Proper
<1>2. QED
  BY <1>1 DEF Notes, TypeOK

\* A request ends, its answer given or its client told.
LEMMA FreedKeeps ==
    ASSUME TypeOK, StageInv, HeardInv, NEW w \in Workers, Freed(w), Books',
           unheard \subseteq unheard', \A x \in Conversations : shown[x] \subseteq shown'[x],
           Conversation(w) \in unheard' \/ ~Carries(pc[w], run[w]),
           \/ Conversation(w) \in unheard'
           \/ CardOf(checkpoint[Conversation(w)]) \in shown'[Conversation(w)]
           \/ ~Shows(pc[w], run[w], checkpoint[Conversation(w)])
    PROVE  Kept
<1>1. PICK c \in Conversations : c = Conversation(w) /\ checkpoint[c] \in State /\ Proper(checkpoint[c])
  BY WorkerTypes
<1>2. NoRequest \in Request /\ Fit("idle", NoRequest, Fresh, FALSE) /\ Fresh \in State
      /\ "idle" \in Stages /\ FALSE \in BOOLEAN
  BY NoRequestType, FreshType DEF Stages
<1>3. PICK p \in Stages, r \in Request, s \in State, d \in BOOLEAN, k \in State :
         /\ p = "idle" /\ r = NoRequest /\ s = Fresh /\ d = FALSE /\ k = checkpoint[c]
         /\ Move(w, p, r, s, d, k) /\ Fit(p, r, s, d)
  BY <1>1, <1>2, Zenon DEF Freed
<1>4. \/ c \in unheard' \/ k.next \notin Driven
      \/ r.conversation = c /\ Carries(p, s)
      \/ k = checkpoint[c] /\ ~Carries(pc[w], run[w])
  BY <1>1, <1>3
<1>5. \/ c \in unheard' \/ k.next # "confirm" \/ CardOf(k) \in shown'[c]
      \/ r.conversation = c /\ Shows(p, s, k)
      \/ k = checkpoint[c] /\ ~Shows(pc[w], run[w], k)
  BY <1>1, <1>3
<1>6. QED
  BY <1>1, <1>3, <1>4, <1>5, MoveKept

LEMMA BeginKeeps ==
    ASSUME TypeOK, StageInv, HeardInv, NEW w \in Workers, NEW r \in Request, Begin(w, r),
           mode' = mode, r.kind = "correct" => r.draft \in Draft,
           approvals' \in [Conversations -> SUBSET Card]
    PROVE  Kept
<1>1. PICK c \in Conversations : c = Conversation(w) /\ checkpoint[c] \in State /\ Proper(checkpoint[c])
  BY WorkerTypes
<1>2. /\ pc[w] = "idle" /\ run[w] \in State /\ decision[w] = FALSE
      /\ Move(w, "check", r, run[w], decision[w], checkpoint[c]) /\ Proper(run[w])
  BY <1>1, BeginMoves, WorkerTypes DEF Starts, Fit
<1>3. PICK p \in Stages, s \in State, d \in BOOLEAN, k \in State :
         /\ p = "check" /\ s = run[w] /\ d = FALSE /\ k = checkpoint[c]
         /\ Move(w, p, r, s, d, k)
  BY <1>1, <1>2, Zenon DEF Stages
<1>4. Fit(p, r, s, d)
  BY <1>2, <1>3 DEF Fit
<1>5. /\ Books' /\ unheard \subseteq unheard'
      /\ \A x \in Conversations : shown[x] \subseteq shown'[x]
  BY DEF Begin, TypeOK, Books
<1>6. k = checkpoint[c] /\ ~Carries(pc[w], run[w]) /\ ~Shows(pc[w], run[w], k)
  BY <1>2, <1>3 DEF Carries, Shows
<1>7. QED
  BY <1>1, <1>3, <1>4, <1>5, <1>6, MoveKept

LEMMA CheckKeeps ==
    ASSUME TypeOK, StageInv, HeardInv, NEW w \in Workers, Check(w), mode' = mode
    PROVE  Kept
<1>1. PICK c \in Conversations : c = Conversation(w) /\ checkpoint[c] \in State /\ Proper(checkpoint[c])
  BY WorkerTypes
<1>2. /\ pc[w] = "check" /\ run[w] \in State /\ req[w] \in Request /\ decision[w] = FALSE
      /\ Proper(run[w])
      /\ req[w].kind = "correct" => req[w].draft \in Draft
  BY WorkerTypes DEF Check, Fit
<1>3. /\ Books' /\ unheard \subseteq unheard'
      /\ \A x \in Conversations : shown[x] \subseteq shown'[x]
  BY BooksStay DEF Check, TypeOK
<1>4. ~Carries(pc[w], run[w]) /\ ~Shows(pc[w], run[w], checkpoint[c])
  BY <1>2 DEF Carries, Shows
<1>5. CASE Freed(w)
  BY <1>1, <1>3, <1>4, <1>5, FreedKeeps
<1>6. ASSUME NEW m \in Message, Admitted(req[w], checkpoint[c]),
             Move(w, "start", [req[w] EXCEPT !.message = m], run[w], decision[w], checkpoint[c])
      PROVE  Kept
  <2>1. /\ [req[w] EXCEPT !.message = m] \in Request
        /\ [req[w] EXCEPT !.message = m].kind = req[w].kind
        /\ [req[w] EXCEPT !.message = m].draft = req[w].draft
    BY <1>2 DEF Request
  <2>2. PICK p \in Stages, r \in Request, s \in State, d \in BOOLEAN, k \in State :
         /\ p = "start" /\ r.kind = req[w].kind /\ r.draft = req[w].draft
         /\ s = run[w] /\ d = FALSE /\ k = checkpoint[c]
         /\ Move(w, p, r, s, d, k)
    BY <1>1, <1>2, <1>6, <2>1, Zenon DEF Stages
  <2>3. req[w].kind = "correct" => ~Incomplete(req[w].draft)
    <3>1. SUFFICES ASSUME req[w].kind = "correct" PROVE ~Incomplete(req[w].draft)
      OBVIOUS
    <3>2. req[w].kind # "message" /\ req[w].kind # "handoff"
      BY <3>1
    <3>3. QED
      BY <1>6, <3>1, <3>2, Zenon DEF Admitted
  <2>4. Fit(p, r, s, d)
    BY <1>2, <2>2, <2>3 DEF Fit
  <2>5. k = checkpoint[c] /\ ~Carries(pc[w], run[w]) /\ ~Shows(pc[w], run[w], k)
    BY <1>4, <2>2
  <2>6. QED
    BY <1>1, <1>3, <2>2, <2>4, <2>5, MoveKept
<1>7. QED
  BY <1>1, <1>5, <1>6, CheckMoves

LEMMA StartMessageKeeps ==
    ASSUME TypeOK, StageInv, HeardInv, NEW w \in Workers, StartMessage(w), mode' = mode
    PROVE  Kept
<1>1. PICK c \in Conversations : c = Conversation(w) /\ checkpoint[c] \in State
  BY WorkerTypes
<1>2. /\ pc[w] = "start" /\ req[w] \in Request /\ decision[w] = FALSE
      /\ req[w].kind \in {"message", "handoff"}
  BY WorkerTypes DEF StartMessage, Fit
<1>3. PICK u \in State : u = Renewed(checkpoint[c], req[w].message) /\ u.next = "understand"
  <2>1. req[w].message \in Message
    BY <1>2 DEF Request
  <2>2. Renewed(checkpoint[c], req[w].message) \in State
    BY <1>1, <2>1, RenewedType
  <2>3. Renewed(checkpoint[c], req[w].message).next = "understand"
    BY <1>1 DEF Renewed, State
  <2>4. QED
    BY <2>2, <2>3
<1>4. PICK s \in State : s = Handed(u) /\ Move(w, "run", req[w], s, decision[w], s)
  BY <1>1, <1>3, StartMessageMoves
<1>5. s.next = "understand"
  BY <1>3, <1>4, HandedSame
<1>6. PICK p \in Stages, r \in Request, d \in BOOLEAN :
         /\ p = "run" /\ r = req[w] /\ d = FALSE /\ Move(w, p, r, s, d, s)
  BY <1>2, <1>4, Zenon DEF Stages
<1>7. Fit(p, r, s, d) /\ Proper(s)
  BY <1>2, <1>5, <1>6 DEF Fit, Proper
<1>8. /\ Books' /\ unheard \subseteq unheard'
      /\ \A x \in Conversations : shown[x] \subseteq shown'[x]
  BY BooksStay DEF StartMessage, TypeOK
<1>9. QED
  BY <1>1, <1>5, <1>6, <1>7, <1>8, MoveKept DEF Driven

LEMMA StartResumeKeeps ==
    ASSUME TypeOK, StageInv, HeardInv, NEW w \in Workers, StartResume(w), mode' = mode
    PROVE  Kept
<1>1. PICK c \in Conversations : c = Conversation(w) /\ checkpoint[c] \in State /\ Proper(checkpoint[c])
  BY WorkerTypes
<1>2. /\ pc[w] = "start" /\ req[w] \in Request
      /\ req[w].kind \in {"approve", "reject", "correct"}
      /\ req[w].kind = "correct" => req[w].draft \in Draft /\ ~Incomplete(req[w].draft)
  BY WorkerTypes DEF StartResume, Fit, Request, Kind
<1>3. PICK p \in Stages, r \in Request, s \in State, d \in BOOLEAN, k \in State :
         /\ p = "run" /\ r = req[w] /\ s = checkpoint[c] /\ k = checkpoint[c]
         /\ d = (checkpoint[c].next \in {"work", "confirm"}) /\ Proper(k)
         /\ Move(w, p, r, s, d, k)
  <2>1. (checkpoint[c].next \in {"work", "confirm"}) \in BOOLEAN
    OBVIOUS
  <2>2. QED
    BY <1>1, <1>2, <2>1, StartResumeMoves, Zenon DEF Stages
<1>4. Fit(p, r, s, d)
  BY <1>1, <1>2, <1>3 DEF Fit
<1>5. /\ Books' /\ unheard \subseteq unheard'
      /\ \A x \in Conversations : shown[x] \subseteq shown'[x]
  BY BooksStay DEF StartResume, TypeOK
<1>6. k = checkpoint[c] /\ ~Carries(pc[w], run[w]) /\ ~Shows(pc[w], run[w], k)
  BY <1>2, <1>3 DEF Carries, Shows
<1>7. QED
  <2>1. Move(w, p, r, s, d, k) /\ Proper(k)
    BY <1>3
  <2>2. QED
    BY <1>1, <1>4, <1>5, <1>6, <2>1, MoveKept

\* A flow ends at a stop: a question or a draft to confirm.
LEMMA WorkedStops ==
    ASSUME NEW s \in State, NEW flow \in Flow, NEW r \in Worked(s, flow)
    PROVE  r.next \in {"end", "confirm"} /\ Proper(r)
<1>1. ASSUME NEW draft \in Draft, NEW missing \in BOOLEAN
      PROVE  LET u == Drafted(s, flow, draft, missing)
             IN  u.next \in {"end", "confirm"} /\ Proper(u)
  BY <1>1 DEF Drafted, State, Proper
<1>2. CASE flow = "ticket"
  <2>1. PICK latest \in Extracted(s) :
          r = Drafted(s, "ticket", Merged(s, latest), Incomplete(Merged(s, latest)))
    BY <1>2 DEF Worked, TicketDrafted
  <2>2. PICK draft \in Draft : draft = Merged(s, latest)
    BY ExtractedType, MergedType
  <2>3. Incomplete(draft) \in BOOLEAN
    BY DEF Incomplete
  <2>4. QED
    BY <1>1, <1>2, <2>1, <2>2, <2>3
<1>3. CASE flow \in {"refund", "cancel"}
  <2>1. PICK draft \in Draft : draft = OrderDraft(s, flow)
    BY <1>3, OrderDraftType
  <2>2. r = Drafted(s, flow, draft, draft.order = NoOrder)
    BY <1>3, <2>1 DEF Worked
  <2>3. QED
    BY <1>1, <2>2
<1>4. QED
  BY <1>2, <1>3 DEF Flow

\* A message ends at a stop, or goes to the supervisor's worker.
LEMMA UnderstoodStops ==
    ASSUME NEW s \in State, NEW intent \in Intent, NEW r \in Understood(s, intent)
    PROVE  r.next \in {"end", "confirm", "work"} /\ Proper(r)
<1>1. ASSUME NEW t \in State, NEW flow \in Flow, NEW u \in Began(t, flow)
      PROVE  u.next \in {"end", "confirm", "work"} /\ Proper(u)
  <2>1. CASE mode.graph = "supervisor"
    BY <1>1, <2>1 DEF Began, Routed, State, Proper
  <2>2. CASE mode.graph # "supervisor"
    BY <1>1, <2>2, WorkedStops DEF Began
  <2>3. QED
    BY <2>1, <2>2
<1>2. CASE intent \in Flow
  <2>1. r \in Began(s, intent)
    BY <1>2 DEF Understood, Flow
  <2>2. QED
    BY <1>1, <1>2, <2>1
<1>3. CASE intent = "policy"
  <2>1. r = [s EXCEPT !.needsTicket = FALSE, !.gap = FALSE, !.next = "end"]
        \/ r \in Began([s EXCEPT !.gap = TRUE], "ticket")
    BY <1>3 DEF Understood, PolicyAsked, Flow
  <2>2. [s EXCEPT !.gap = TRUE] \in State
    BY DEF State
  <2>3. QED
    BY <1>1, <2>1, <2>2 DEF Proper, State, Flow
<1>4. CASE intent = "order"
  <2>1. PICK o \in Orders \cup {NoOrder} : r = [s EXCEPT !.support = o, !.next = "end"]
    BY <1>4 DEF Understood, OrderQueried, Advised, State, Message, Flow
  <2>2. QED
    BY <2>1 DEF State, Proper
<1>5. CASE intent = "chat"
  BY <1>5 DEF Understood, State, Proper, Flow
<1>6. QED
  BY <1>2, <1>3, <1>4, <1>5 DEF Intent, Flow

LEMMA UnderstandKeeps ==
    ASSUME TypeOK, StageInv, HeardInv, NEW w \in Workers, Understand(w), mode' = mode
    PROVE  Kept
<1>1. PICK c \in Conversations : c = Conversation(w) /\ checkpoint[c] \in State
  BY WorkerTypes
<1>2. /\ pc[w] = "run" /\ req[w] \in Request /\ run[w] \in State /\ decision[w] = FALSE
      /\ req[w].kind = "correct" => req[w].draft \in Draft /\ ~Incomplete(req[w].draft)
  BY WorkerTypes DEF Understand, Fit
<1>3. PICK intent \in Intents(run[w]) : \E u \in Understood(run[w], intent) : \E s \in State :
              /\ u \in State /\ intent \in Intent
              /\ s = Handed(Read(u)) /\ Notes(w, u)
              /\ Move(w, "run", req[w], s, decision[w], s)
  BY UnderstandMoves
<1>4. PICK u \in Understood(run[w], intent), s \in State :
              /\ u \in State /\ intent \in Intent
              /\ s = Handed(Read(u)) /\ Notes(w, u)
              /\ Move(w, "run", req[w], s, decision[w], s)
  BY <1>3
<1>5. u.next \in {"end", "confirm", "work"} /\ Proper(u)
  BY <1>2, <1>4, UnderstoodStops
<1>6. s.next = u.next /\ s.draft = u.draft
  BY <1>4, ReadType, HandedSame
<1>7. s.next \in {"end", "confirm", "work"} /\ Proper(s)
  BY <1>5, <1>6 DEF Proper
<1>8. PICK p \in Stages, r \in Request, d \in BOOLEAN :
         /\ p = "run" /\ r = req[w] /\ d = FALSE /\ Move(w, p, r, s, d, s)
  BY <1>2, <1>4, Zenon DEF Stages
<1>9. Fit(p, r, s, d)
  BY <1>2, <1>7, <1>8 DEF Fit
<1>10. /\ Books' /\ unheard \subseteq unheard'
       /\ \A x \in Conversations : shown[x] \subseteq shown'[x]
  BY <1>4, <1>5, NotesType, BooksStay DEF Understand
<1>11. /\ s.next = "confirm" => r.conversation = c /\ Shows(p, s, s)
       /\ s.next \in Driven => r.conversation = c /\ Carries(p, s)
  BY <1>1, <1>8 DEF Shows, Carries, Conversation
<1>12. QED
  BY <1>1, <1>7, <1>8, <1>9, <1>10, <1>11, MoveKept

LEMMA WorkKeeps ==
    ASSUME TypeOK, StageInv, HeardInv, NEW w \in Workers, Work(w), mode' = mode
    PROVE  Kept
<1>1. PICK c \in Conversations : c = Conversation(w) /\ checkpoint[c] \in State
  BY WorkerTypes
<1>2. /\ pc[w] = "run" /\ req[w] \in Request /\ run[w] \in State /\ run[w].flow \in Flow
      /\ Fit("run", req[w], run[w], decision[w])
  BY WorkerTypes DEF Work, State
<1>3. PICK u \in Worked(run[w], run[w].flow) : \E s \in State : \E d \in BOOLEAN :
              /\ u \in State /\ s = Handed(Read(u)) /\ Notes(w, u)
              /\ d = (decision[w] /\ u.next = "confirm")
              /\ Move(w, "run", req[w], s, d, s)
  BY WorkMoves
<1>4. PICK s \in State, d \in BOOLEAN :
              /\ u \in State /\ s = Handed(Read(u)) /\ Notes(w, u)
              /\ d = (decision[w] /\ u.next = "confirm")
              /\ Move(w, "run", req[w], s, d, s)
  BY <1>3
<1>5. u.next \in {"end", "confirm"} /\ Proper(u)
  BY <1>2, WorkedStops
<1>6. s.next = u.next /\ s.draft = u.draft
  BY <1>4, ReadType, HandedSame
<1>7. s.next \in {"end", "confirm"} /\ Proper(s)
  BY <1>5, <1>6 DEF Proper
<1>8. PICK p \in Stages, r \in Request :
         /\ p = "run" /\ r = req[w] /\ Move(w, p, r, s, d, s)
  BY <1>2, <1>4, Zenon DEF Stages
<1>9. Fit(p, r, s, d)
  BY <1>2, <1>4, <1>6, <1>7, <1>8 DEF Fit
<1>10. /\ Books' /\ unheard \subseteq unheard'
       /\ \A x \in Conversations : shown[x] \subseteq shown'[x]
  BY <1>4, <1>5, NotesType, BooksStay DEF Work
<1>11. s.next \notin Driven /\ (s.next = "confirm" => r.conversation = c /\ Shows(p, s, s))
  BY <1>1, <1>7, <1>8 DEF Shows, Driven, Conversation
<1>12. QED
  BY <1>1, <1>7, <1>8, <1>9, <1>10, <1>11, MoveKept

LEMMA DecidedProper ==
    ASSUME NEW s \in State, NEW r \in Request, s.draft \in Draft,
           r.kind \in {"approve", "reject", "correct"},
           r.kind = "correct" => r.draft \in Draft /\ ~Incomplete(r.draft)
    PROVE  Proper(Decided(s, r)) /\ Decided(s, r).next \in {"confirm", "execute", "end"}
<1>1. CASE r.kind = "approve"
  BY <1>1 DEF Decided, State, Proper
<1>2. CASE r.kind = "reject"
  BY <1>2 DEF Decided, State, Proper
<1>3. CASE r.kind = "correct"
  <2>1. Decided(s, r) = Corrected(s, r.draft)
    BY <1>3 DEF Decided
  <2>2. QED
    BY <1>3, <2>1 DEF Corrected, State, Proper
<1>4. QED
  BY <1>1, <1>2, <1>3

LEMMA DeliverKeeps ==
    ASSUME TypeOK, StageInv, HeardInv, NEW w \in Workers, Deliver(w), mode' = mode
    PROVE  Kept
<1>1. PICK c \in Conversations : c = Conversation(w) /\ checkpoint[c] \in State
  BY WorkerTypes
<1>2. /\ pc[w] = "run" /\ req[w] \in Request /\ run[w] \in State /\ run[w].draft \in Draft
      /\ req[w].kind \in {"approve", "reject", "correct"}
      /\ req[w].kind = "correct" => req[w].draft \in Draft /\ ~Incomplete(req[w].draft)
  BY WorkerTypes DEF Deliver, Fit, Proper
<1>3. PICK u \in State, s \in State :
              /\ u = Decided(run[w], req[w]) /\ s = Handed(u) /\ Notes(w, u)
              /\ Move(w, "run", req[w], s, FALSE, s)
  BY DeliverMoves
<1>4. Proper(u) /\ u.next \in {"confirm", "execute", "end"}
  BY <1>2, <1>3, DecidedProper
<1>5. Proper(s) /\ s.next \in {"confirm", "execute", "end"}
  BY <1>3, <1>4, HandedSame DEF Proper
<1>6. PICK p \in Stages, r \in Request, d \in BOOLEAN :
         /\ p = "run" /\ r = req[w] /\ d = FALSE /\ Move(w, p, r, s, d, s)
  BY <1>2, <1>3, Zenon DEF Stages
<1>7. Fit(p, r, s, d)
  BY <1>2, <1>5, <1>6 DEF Fit
<1>8. /\ Books' /\ unheard \subseteq unheard'
      /\ \A x \in Conversations : shown[x] \subseteq shown'[x]
  BY <1>3, <1>4, NotesType, BooksStay DEF Deliver
<1>9. /\ s.next = "confirm" => r.conversation = c /\ Shows(p, s, s)
      /\ s.next \in Driven => r.conversation = c /\ Carries(p, s)
  BY <1>1, <1>6 DEF Shows, Carries, Conversation
<1>10. QED
  BY <1>1, <1>5, <1>6, <1>7, <1>8, <1>9, MoveKept

LEMMA StopKeeps ==
    ASSUME TypeOK, StageInv, HeardInv, NEW w \in Workers, Stop(w), mode' = mode
    PROVE  Kept
<1>1. PICK c \in Conversations : c = Conversation(w) /\ checkpoint[c] \in State /\ Proper(checkpoint[c])
  BY WorkerTypes
<1>2. /\ pc[w] = "run" /\ req[w] \in Request /\ run[w] \in State /\ Proper(run[w])
      /\ run[w].next \notin Driven
      /\ run[w].next = "confirm" => decision[w] = FALSE
      /\ req[w].kind = "correct" => req[w].draft \in Draft /\ ~Incomplete(req[w].draft)
  BY WorkerTypes DEF Stop, Fit, Driven
<1>3. decision[w] = FALSE
  BY <1>2, WorkerTypes DEF Fit, Driven
<1>4. PICK p \in Stages, r \in Request, s \in State, d \in BOOLEAN, k \in State :
         /\ p = "respond" /\ r = req[w] /\ s = run[w] /\ d = FALSE /\ k = checkpoint[c]
         /\ Proper(k) /\ Move(w, p, r, s, d, k)
  BY <1>1, <1>2, <1>3, StopMoves, Zenon DEF Stages
<1>5. Fit(p, r, s, d)
  BY <1>2, <1>4 DEF Fit
<1>6. /\ Books' /\ unheard \subseteq unheard'
      /\ \A x \in Conversations : shown[x] \subseteq shown'[x]
  BY BooksStay DEF Stop, TypeOK
<1>7. k = checkpoint[c] /\ ~Carries(pc[w], run[w])
  BY <1>2, <1>4 DEF Carries
<1>8. Shows(pc[w], run[w], k) => r.conversation = c /\ Shows(p, s, k)
  BY <1>1, <1>4 DEF Shows, Conversation
<1>9. QED
  BY <1>1, <1>4, <1>5, <1>6, <1>7, <1>8, MoveKept

LEMMA CallKeeps ==
    ASSUME TypeOK, StageInv, HeardInv, NEW w \in Workers, Call(w), mode' = mode
    PROVE  Kept
<1>1. PICK c \in Conversations : c = Conversation(w) /\ checkpoint[c] \in State /\ Proper(checkpoint[c])
  BY WorkerTypes
<1>2. /\ pc[w] = "run" /\ req[w] \in Request /\ run[w] \in State /\ Proper(run[w])
      /\ run[w].next = "execute" /\ decision[w] = FALSE /\ run[w].draft \in Draft
      /\ req[w].kind = "correct" => req[w].draft \in Draft /\ ~Incomplete(req[w].draft)
  BY WorkerTypes DEF Call, Fit, Proper
<1>3. PICK p \in Stages, r \in Request, s \in State, d \in BOOLEAN, k \in State :
         /\ p = "save" /\ r = req[w] /\ s = run[w] /\ d = FALSE /\ k = checkpoint[c]
         /\ Proper(k) /\ Move(w, p, r, s, d, k)
  BY <1>1, <1>2, CallMoves, Zenon DEF Stages
<1>4. Fit(p, r, s, d)
  BY <1>2, <1>3 DEF Fit
<1>5. NewWrite(w) \in Write
  BY <1>1, <1>2 DEF NewWrite, Write, KeyOf, State
<1>6. writes' \in Seq(Write)
  <2>1. writes \in Seq(Write)
    BY DEF TypeOK
  <2>2. PICK v \in Write : v = NewWrite(w)
    BY <1>5
  <2>3. Append(writes, v) \in Seq(Write)
    BY <2>1
  <2>4. writes' = Append(writes, v) \/ writes' = writes
    BY <2>2, Zenon DEF Call
  <2>5. QED
    BY <2>1, <2>3, <2>4, Zenon
<1>7. /\ Books' /\ unheard \subseteq unheard'
      /\ \A x \in Conversations : shown[x] \subseteq shown'[x]
  BY <1>6 DEF Call, clientVars, counters, TypeOK, Books
<1>8. r.conversation = c /\ Carries(p, s)
  BY <1>1, <1>2, <1>3 DEF Carries, Driven, Conversation
<1>9. k = checkpoint[c] /\ ~Shows(pc[w], run[w], k)
  BY <1>2, <1>3 DEF Shows
<1>10. QED
  BY <1>1, <1>3, <1>4, <1>7, <1>8, <1>9, MoveKept

LEMMA SaveKeeps ==
    ASSUME TypeOK, StageInv, HeardInv, NEW w \in Workers, Save(w), mode' = mode
    PROVE  Kept
<1>1. PICK c \in Conversations : c = Conversation(w) /\ checkpoint[c] \in State
  BY WorkerTypes
<1>2. /\ pc[w] = "save" /\ req[w] \in Request /\ run[w] \in State /\ decision[w] = FALSE
      /\ req[w].kind = "correct" => req[w].draft \in Draft /\ ~Incomplete(req[w].draft)
  BY WorkerTypes DEF Save, Fit
<1>3. PICK u \in State : u = Executed(run[w]) /\ u.next = "end"
  BY <1>2, ExecutedType DEF Executed, State
<1>4. PICK s \in State : s = Handed(u) /\ Move(w, "respond", req[w], s, decision[w], s)
  BY <1>3, SaveMoves
<1>5. s.next = "end"
  BY <1>3, <1>4, HandedSame
<1>6. PICK p \in Stages, r \in Request, d \in BOOLEAN :
         /\ p = "respond" /\ r = req[w] /\ d = FALSE /\ Move(w, p, r, s, d, s)
  BY <1>2, <1>4, Zenon DEF Stages
<1>7. Fit(p, r, s, d) /\ Proper(s)
  BY <1>2, <1>5, <1>6 DEF Fit, Proper
<1>8. /\ Books' /\ unheard \subseteq unheard'
      /\ \A x \in Conversations : shown[x] \subseteq shown'[x]
  BY BooksStay DEF Save, TypeOK
<1>9. QED
  BY <1>1, <1>5, <1>6, <1>7, <1>8, MoveKept DEF Driven

LEMMA RespondKeeps ==
    ASSUME TypeOK, StageInv, HeardInv, NEW w \in Workers, Respond(w), mode' = mode
    PROVE  Kept
<1>1. PICK c \in Conversations : c = Conversation(w) /\ checkpoint[c] \in State
  BY WorkerTypes
<1>2. Freed(w)
  BY FreeMoves DEF Respond
<1>3. pc[w] = "respond" /\ run[w] \in State /\ Proper(run[w])
  BY WorkerTypes DEF Respond, Fit
<1>4. Cards(w) \subseteq Card
  BY <1>3 DEF Cards, CardOf, Card, State, Proper
<1>5. /\ \A x \in Conversations : shown[x] \subseteq shown'[x]
      /\ shown' \in [Conversations -> SUBSET Card]
      /\ Cards(w) \subseteq shown'[c]
  BY <1>1, <1>4 DEF Respond, TypeOK
<1>6. Books' /\ unheard \subseteq unheard'
  BY <1>5 DEF Respond, counters, TypeOK, Books
<1>7. ~Carries(pc[w], run[w])
  BY <1>3 DEF Carries
<1>8. Shows(pc[w], run[w], checkpoint[c]) => CardOf(checkpoint[c]) \in shown'[c]
  BY <1>5 DEF Shows, Cards
<1>9. QED
  BY <1>1, <1>2, <1>5, <1>6, <1>7, <1>8, FreedKeeps

LEMMA RaiseKeeps ==
    ASSUME TypeOK, StageInv, HeardInv, NEW w \in Workers, Raise(w), mode' = mode
    PROVE  Kept
<1>1. Freed(w)
  BY FreeMoves DEF Raise
<1>2. /\ Books' /\ unheard \subseteq unheard'
      /\ \A x \in Conversations : shown[x] \subseteq shown'[x]
  BY BooksStay DEF Raise, TypeOK
<1>3. ~Carries(pc[w], run[w]) /\ ~Shows(pc[w], run[w], checkpoint[Conversation(w)])
  BY DEF Raise, Carries, Driven, Shows
<1>4. QED
  BY <1>1, <1>2, <1>3, FreedKeeps

LEMMA LossKeeps ==
    ASSUME TypeOK, StageInv, HeardInv, NEW w \in Workers, Crash(w) \/ Disconnect(w), mode' = mode
    PROVE  Kept
<1>1. Freed(w)
  BY FreeMoves DEF Crash, Disconnect
<1>2. Conversation(w) \in unheard' /\ unheard \subseteq unheard'
  BY DEF Crash, Disconnect
<1>3. Books' /\ \A x \in Conversations : shown[x] \subseteq shown'[x]
  BY WorkerTypes DEF Crash, Disconnect, TypeOK, Books
<1>4. QED
  BY <1>1, <1>2, <1>3, FreedKeeps

LEMMA ExpireKeeps ==
    ASSUME TypeOK, StageInv, HeardInv, NEW c \in Conversations, Expire(c), mode' = mode
    PROVE  Kept
<1>1. checkpoint' = [checkpoint EXCEPT ![c] = Fresh] /\ checkpoint \in [Conversations -> State]
  BY DEF Expire, TypeOK
<1>2. checkpoint' \in [Conversations -> State]
  BY <1>1, FreshType
<1>3. TypeOK'
  BY <1>2 DEF Expire, TypeOK, clientVars, counters
<1>4. Fresh.next = "end"
  BY DEF Fresh
<1>5. StageInv'
  <2>1. \A x \in Conversations : Proper(checkpoint'[x])
    BY <1>1, <1>4 DEF StageInv, Proper
  <2>2. QED
    BY <2>1 DEF StageInv, Expire, Fit, Proper
<1>6. \A x \in Conversations : checkpoint'[x] = checkpoint[x] \/ checkpoint'[x].next = "end"
  BY <1>1, <1>4
<1>7. ASSUME NEW x \in Conversations PROVE Carried(x)'
  BY <1>6 DEF Driven, Expire, clientVars, HeardInv, Carried, Conversation
<1>8. ASSUME NEW x \in Conversations PROVE Awaited(x)'
  BY <1>6 DEF Expire, clientVars, HeardInv, Awaited, Conversation
<1>9. QED
  BY <1>3, <1>5, <1>7, <1>8 DEF Kept, HeardInv

----------------------------------------------------------------------------
(* Every step keeps the invariant.                                         *)

ConsoleInv == TypeOK /\ StageInv /\ HeardInv

\* What the clients send.
Sends(w, c) ==
    \/ \E m \in Messages : Say(w, c, m)
    \/ Handoff(w, c)
    \/ \E card \in shown[c] :
          \/ Approve(w, c, card)
          \/ Reject(w, c, card)
          \/ \E draft \in Corrections : Correct(w, c, card, draft)

\* A button sends the id of a card.
Presses(r, c) == r.kind # "approve" \/ \E card \in shown[c] : r.id = card.draft /\ card \in approvals'[c]

LEMMA SendsBegin ==
    ASSUME TypeOK, NEW w \in Workers, NEW c \in Conversations, Sends(w, c)
    PROVE  \E r \in Request :
              /\ Begin(w, r)
              /\ r.conversation = c
              /\ r.kind = "correct" => r.draft \in Corrections
              /\ r.message \in Messages
              /\ Presses(r, c)
              /\ \/ approvals' = approvals
                 \/ \E card \in shown[c] : approvals' = [approvals EXCEPT ![c] = @ \cup {card}]
<1>1. CASE \E m \in Messages : Say(w, c, m)
  <2>1. PICK m \in Messages : Say(w, c, m)
    BY <1>1
  <2>2. [kind |-> "message", conversation |-> c, message |-> m, id |-> NoDraft,
         draft |-> NoDraft] \in Request
    BY AgentAssumption DEF Request, Kind
  <2>3. QED
    BY <2>1, <2>2 DEF Say, Presses
<1>2. CASE Handoff(w, c)
  <2>1. [kind |-> "handoff", conversation |-> c, message |-> AnyMessage, id |-> NoDraft,
         draft |-> NoDraft] \in Request
    BY AnyMessageType DEF Request, Kind
  <2>2. QED
    BY <1>2, <2>1, AnyMessageType DEF Handoff, Presses
<1>3. ASSUME NEW card \in shown[c], Approve(w, c, card)
      PROVE  \E r \in Request :
              /\ Begin(w, r)
              /\ r.conversation = c
              /\ r.kind = "correct" => r.draft \in Corrections
              /\ r.message \in Messages
              /\ Presses(r, c)
              /\ \/ approvals' = approvals
                 \/ \E x \in shown[c] : approvals' = [approvals EXCEPT ![c] = @ \cup {x}]
  <2>1. [kind |-> "approve", conversation |-> c, message |-> AnyMessage, id |-> card.draft,
         draft |-> NoDraft] \in Request
    BY AnyMessageType DEF Request, Kind, TypeOK, Card
  <2>2. card \in approvals'[c]
    BY <1>3 DEF Approve, TypeOK
  <2>3. QED
    BY <1>3, <2>1, <2>2, AnyMessageType DEF Approve, Presses
<1>4. ASSUME NEW card \in shown[c], Reject(w, c, card)
      PROVE  \E r \in Request :
              /\ Begin(w, r)
              /\ r.conversation = c
              /\ r.kind = "correct" => r.draft \in Corrections
              /\ r.message \in Messages
              /\ Presses(r, c)
              /\ approvals' = approvals
  <2>1. [kind |-> "reject", conversation |-> c, message |-> AnyMessage, id |-> card.draft,
         draft |-> NoDraft] \in Request
    BY AnyMessageType DEF Request, Kind, TypeOK, Card
  <2>2. QED
    BY <1>4, <2>1, AnyMessageType DEF Reject, Presses
<1>5. ASSUME NEW card \in shown[c], NEW draft \in Corrections, Correct(w, c, card, draft)
      PROVE  \E r \in Request :
              /\ Begin(w, r)
              /\ r.conversation = c
              /\ r.kind = "correct" => r.draft \in Corrections
              /\ r.message \in Messages
              /\ Presses(r, c)
              /\ approvals' = approvals
  <2>1. draft \in Draft
    BY AgentAssumption
  <2>2. [kind |-> "correct", conversation |-> c, message |-> AnyMessage, id |-> card.draft,
         draft |-> draft] \in Request
    BY <2>1, AnyMessageType DEF Request, Kind, TypeOK, Card
  <2>3. QED
    BY <1>5, <2>1, <2>2, AnyMessageType DEF Correct, Presses
<1>6. QED
  BY <1>1, <1>2, <1>3, <1>4, <1>5 DEF Sends

\* The steps of Next, with what the clients send in one piece.
LEMMA StepCases ==
    ASSUME Next
    PROVE  /\ mode' = mode
           /\ \/ \E w \in Workers, c \in Conversations : Sends(w, c)
              \/ \E w \in Workers : Proceed(w)
              \/ \E w \in Workers : Crash(w) \/ Disconnect(w)
              \/ \E c \in Conversations : Expire(c)
BY DEF Next, Step, Sends

LEMMA InitHolds == Init => ConsoleInv
<1>1. SUFFICES ASSUME Init PROVE ConsoleInv
  OBVIOUS
<1>2. NoRequest \in Request
  BY AgentAssumption, AnyMessageType DEF NoRequest, Request, Kind
<1>3. TypeOK
  BY <1>1, <1>2, FreshType DEF Init, TypeOK
<1>4. Fresh.next = "end" /\ NoRequest.kind = "message"
  BY DEF Fresh, NoRequest
<1>5. StageInv
  BY <1>1, <1>4 DEF Init, StageInv, Fit, Proper
<1>6. HeardInv
  BY <1>1, <1>4 DEF Init, HeardInv, Carried, Awaited, Driven
<1>7. QED
  BY <1>3, <1>5, <1>6 DEF ConsoleInv

LEMMA ProceedKeeps ==
    ASSUME ConsoleInv, NEW w \in Workers, Proceed(w), mode' = mode
    PROVE  Kept
<1>1. TypeOK /\ StageInv /\ HeardInv
  BY DEF ConsoleInv
<1>2. CASE Check(w)
  BY <1>1, <1>2, CheckKeeps
<1>3. CASE StartMessage(w)
  BY <1>1, <1>3, StartMessageKeeps
<1>4. CASE StartResume(w)
  BY <1>1, <1>4, StartResumeKeeps
<1>5. CASE Understand(w)
  BY <1>1, <1>5, UnderstandKeeps
<1>6. CASE Raise(w)
  BY <1>1, <1>6, RaiseKeeps
<1>7. CASE Deliver(w)
  BY <1>1, <1>7, DeliverKeeps
<1>8. CASE Stop(w)
  BY <1>1, <1>8, StopKeeps
<1>9. CASE Call(w)
  BY <1>1, <1>9, CallKeeps
<1>10. CASE Save(w)
  BY <1>1, <1>10, SaveKeeps
<1>11. CASE Respond(w)
  BY <1>1, <1>11, RespondKeeps
<1>12. CASE Work(w)
  BY <1>1, <1>12, WorkKeeps
<1>13. QED
  BY <1>2, <1>3, <1>4, <1>5, <1>6, <1>7, <1>8, <1>9, <1>10, <1>11, <1>12 DEF Proceed

LEMMA NextKeeps == ConsoleInv /\ [Next]_vars => ConsoleInv'
<1>1. SUFFICES ASSUME ConsoleInv, [Next]_vars PROVE ConsoleInv'
  OBVIOUS
<1>2. TypeOK /\ StageInv /\ HeardInv
  BY <1>1 DEF ConsoleInv
<1>3. CASE UNCHANGED vars
  <2>1. TypeOK' /\ StageInv'
    BY <1>2, <1>3 DEF vars, TypeOK, StageInv, Fit, Proper
  <2>2. HeardInv'
    BY <1>2, <1>3 DEF vars, HeardInv, Carried, Awaited, Carries, Shows, Conversation, CardOf
  <2>3. QED
    BY <2>1, <2>2 DEF ConsoleInv
<1>4. CASE Next
  <2>1. mode' = mode
    BY <1>4, StepCases
  <2>2. CASE \E w \in Workers, c \in Conversations : Sends(w, c)
    <3>1. PICK w \in Workers, c \in Conversations : Sends(w, c)
      BY <2>2
    <3>2. PICK r \in Request :
              /\ Begin(w, r)
              /\ r.kind = "correct" => r.draft \in Corrections
              /\ \/ approvals' = approvals
                 \/ \E card \in shown[c] : approvals' = [approvals EXCEPT ![c] = @ \cup {card}]
      BY <1>2, <3>1, SendsBegin
    <3>3. approvals' \in [Conversations -> SUBSET Card]
      BY <1>2, <3>2 DEF TypeOK
    <3>4. QED
      BY <1>2, <2>1, <3>2, <3>3, BeginKeeps, AgentAssumption DEF Kept, ConsoleInv
  <2>3. CASE \E w \in Workers : Proceed(w)
    BY <1>1, <2>1, <2>3, ProceedKeeps DEF Kept, ConsoleInv
  <2>4. CASE \E w \in Workers : Crash(w) \/ Disconnect(w)
    BY <1>2, <2>1, <2>4, LossKeeps DEF Kept, ConsoleInv
  <2>5. CASE \E c \in Conversations : Expire(c)
    BY <1>2, <2>1, <2>5, ExpireKeeps DEF Kept, ConsoleInv
  <2>6. QED
    BY <1>4, <2>2, <2>3, <2>4, <2>5, StepCases
<1>5. QED
  BY <1>1, <1>3, <1>4

\* In every state the typing holds, what a request holds fits its stage, and a
\* conversation that waits for somebody has somebody.
THEOREM Invariance == Spec => []ConsoleInv
<1>1. QED
  BY InitHolds, NextKeeps, PTL DEF Spec

\* Type correctness: checkpoints, runs and requests have their fields, and what
\* is sent to Java is a draft (TicketAgentState, ConsoleAgentService).
THEOREM TypeCorrect == Spec => []TypeOK
<1>1. ConsoleInv => TypeOK
  BY DEF ConsoleInv
<1>2. QED
  BY <1>1, Invariance, PTL

\* A conversation never waits for a decision its client cannot give, unless an
\* answer was lost: in every mode, with any requests of a conversation
\* overlapping (_reject_if_confirmation_is_pending, _pending_confirmation_fields).
THEOREM PendingsAreShown == Spec => []PendingIsShown
<1>1. ConsoleInv => PendingIsShown
  <2>1. SUFFICES ASSUME ConsoleInv, NEW c \in Conversations, Pending(checkpoint[c]),
                        InFlight(c) = {}, c \notin unheard
                 PROVE  CardOf(checkpoint[c]) \in shown[c] /\ checkpoint[c].next = "confirm"
    BY DEF PendingIsShown, PendingDraft, CardOf
  <2>2. ~\E w \in Workers : pc[w] # "idle" /\ Conversation(w) = c
    BY <2>1 DEF InFlight
  <2>3. checkpoint[c].next \notin Driven
    BY <2>1, <2>2 DEF ConsoleInv, HeardInv, Carried, Carries
  <2>4. checkpoint[c].next = "confirm"
    BY <2>1, <2>3 DEF Pending, Nested, Driven
  <2>5. QED
    BY <2>1, <2>2, <2>4 DEF ConsoleInv, HeardInv, Awaited, Shows
<1>2. QED
  BY <1>1, Invariance, PTL

\* Between requests no confirmed draft is left unexecuted, unless its request
\* died: whoever finds a decision taken carries it out (graph.invoke of an
\* approval by ConsoleAgentService).
THEOREM ApprovalsAreCarriedOut == Spec => []ApprovedIsCarriedOut
<1>1. ConsoleInv => ApprovedIsCarriedOut
  BY DEF ConsoleInv, HeardInv, Carried, Carries, Driven, ApprovedIsCarriedOut, InFlight
<1>2. QED
  BY <1>1, Invariance, PTL

----------------------------------------------------------------------------
(* One confirmation, one write.                                            *)

\* The key Java is sent stands for the draft.
Keyed == \A i \in DOMAIN writes : writes[i].key = writes[i].draft

OnceInv == Keyed /\ WrittenOnce

\* Only a call to Java writes.
LEMMA OnlyCallsWrite ==
    ASSUME TypeOK, [Next]_vars
    PROVE  \/ writes' = writes
           \/ \E w \in Workers :
                 /\ Call(w) /\ Commits(w) /\ run[w].approved
                 /\ writes' = Append(writes, NewWrite(w))
<1>1. CASE UNCHANGED vars
  BY <1>1 DEF vars
<1>2. ASSUME NEW w \in Workers, NEW c \in Conversations, Sends(w, c) PROVE writes' = writes
  <2>1. \E r \in Request : Begin(w, r)
    BY <1>2, SendsBegin
  <2>2. QED
    BY <2>1 DEF Begin
<1>3. ASSUME NEW w \in Workers, Proceed(w), ~Call(w) PROVE writes' = writes
  BY <1>3 DEF Proceed, Check, StartMessage, StartResume, Understand, Work, Raise, Deliver,
     Stop, Save, Respond
<1>4. ASSUME NEW w \in Workers, Crash(w) \/ Disconnect(w) PROVE writes' = writes
  BY <1>4 DEF Crash, Disconnect
<1>5. ASSUME NEW c \in Conversations, Expire(c) PROVE writes' = writes
  BY <1>5 DEF Expire
<1>6. ASSUME NEW w \in Workers, Call(w), writes' # writes
      PROVE  /\ Call(w) /\ Commits(w) /\ run[w].approved
             /\ writes' = Append(writes, NewWrite(w))
  BY <1>6, Zenon DEF Call
<1>7. QED
  BY <1>1, <1>2, <1>3, <1>4, <1>5, <1>6, StepCases

LEMMA OnceStep == TypeOK /\ StageInv /\ OnceInv /\ [Next]_vars => OnceInv'
<1>1. SUFFICES ASSUME TypeOK, StageInv, OnceInv, [Next]_vars PROVE OnceInv'
  OBVIOUS
<1>2. CASE writes' = writes
  BY <1>1, <1>2 DEF OnceInv, Keyed, WrittenOnce, CardOf
<1>3. ASSUME NEW w \in Workers, Call(w), Commits(w), writes' = Append(writes, NewWrite(w))
      PROVE  OnceInv'
  <2>1. writes \in Seq(Write)
    BY <1>1 DEF TypeOK
  <2>2. PICK n \in Nat : n = Len(writes)
    BY <2>1
  <2>3. PICK v : v = NewWrite(w)
    OBVIOUS
  <2>4. /\ v.key = v.draft /\ v.draft = run[w].draft /\ v.flow = run[w].flow
        /\ v.key = KeyOf(w) /\ CardOf(v) = CardOf(run[w])
    BY <2>3 DEF NewWrite, KeyOf, CardOf
  <2>5. /\ DOMAIN writes = 1..n /\ DOMAIN writes' = 1..(n + 1) /\ writes'[n + 1] = v
        /\ \A i \in 1..n : writes'[i] = writes[i]
    BY <1>3, <2>1, <2>2, <2>3
  <2>6. \A i \in 1..(n + 1) : i = n + 1 \/ i \in 1..n
    BY <2>2
  <2>7. \A i \in 1..n : writes[i] \in Committed /\ writes[i].key = writes[i].draft
    BY <1>1, <2>5 DEF Committed, OnceInv, Keyed
  <2>8. Keyed'
    BY <2>4, <2>5, <2>6, <2>7, Zenon DEF Keyed
  <2>9. ASSUME NEW i \in 1..n
        PROVE  /\ writes[i].flow # "ticket" /\ v.flow # "ticket"
                      => writes[i].draft.order # v.draft.order
               /\ CardOf(writes[i]) # CardOf(v)
    <3>1. PICK x : x = writes[i] /\ x \in Committed /\ x.key = x.draft
      BY <2>7, <2>9
    <3>2. x.flow # "ticket" /\ v.flow # "ticket" => x.draft.order # v.draft.order
      BY <1>3, <2>4, <3>1, Zenon DEF Commits, OrderWrites
    <3>3. CardOf(x) # CardOf(v)
      <4>1. SUFFICES ASSUME CardOf(x) = CardOf(v) PROVE FALSE
        OBVIOUS
      <4>2. x.draft = v.draft /\ x.flow = v.flow
        <5>1. CardOf(x).draft = x.draft /\ CardOf(x).flow = x.flow
          BY DEF CardOf
        <5>2. CardOf(v).draft = v.draft /\ CardOf(v).flow = v.flow
          BY DEF CardOf
        <5>3. QED
          BY <4>1, <5>1, <5>2
      <4>3. x \in Spent(w)
        BY <2>4, <3>1, <4>2 DEF Spent, SameTable
      <4>4. QED
        BY <1>3, <4>3 DEF Commits
    <3>4. QED
      BY <3>1, <3>2, <3>3
  <2>10. WrittenOnce'
    <3>1. SUFFICES ASSUME NEW i \in 1..(n + 1), NEW j \in 1..(n + 1), i # j
                   PROVE  /\ writes'[i].flow # "ticket" /\ writes'[j].flow # "ticket"
                                 => writes'[i].draft.order # writes'[j].draft.order
                          /\ UserOf[writes'[i].conversation] = UserOf[writes'[j].conversation]
                                 => CardOf(writes'[i]) # CardOf(writes'[j])
      BY <2>5, Zenon DEF WrittenOnce, CardOf
    <3>2. CASE i \in 1..n /\ j \in 1..n
      BY <1>1, <2>5, <3>1, <3>2, Zenon DEF OnceInv, WrittenOnce
    <3>3. CASE i \in 1..n /\ j = n + 1
      BY <2>5, <2>9, <3>3, Zenon
    <3>4. CASE i = n + 1 /\ j \in 1..n
      BY <2>5, <2>9, <3>4, Zenon
    <3>5. QED
      BY <2>6, <3>1, <3>2, <3>3, <3>4
  <2>11. QED
    BY <2>8, <2>10 DEF OnceInv
<1>4. QED
  BY <1>1, <1>2, <1>3, OnlyCallsWrite

\* However often a draft is confirmed, by whatever thread of whatever
\* conversation, no second write has its card, and no order is refunded or
\* canceled twice (_get_ticket_creation_idempotency_key).
THEOREM ConfirmationsAreSpent == Spec => []WrittenOnce
<1>1. Init => OnceInv
  BY DEF Init, OnceInv, Keyed, WrittenOnce
<1>2. ConsoleInv /\ OnceInv /\ [Next]_vars => OnceInv'
  BY OnceStep DEF ConsoleInv
<1>3. Spec => []OnceInv
  BY <1>1, <1>2, Invariance, PTL DEF Spec
<1>4. OnceInv => WrittenOnce
  BY DEF OnceInv
<1>5. QED
  BY <1>3, <1>4, PTL

----------------------------------------------------------------------------
(* What the rules read in a text is what its card says.                    *)

\* What confirming a draft will do that comes of an intent.
FlowFor(intent) == IF intent \in {"refund", "cancel"} THEN intent ELSE "ticket"

\* A text the rules read for this flow.
Reads(text, flow) ==
    \/ \E m \in Messages : m.text = text /\ flow = FlowFor(m.intent)
    \/ text = HandoffText /\ flow = "ticket"

\* A message or what is left of one.
Sayable(m) == Reads(m.text, FlowFor(m.intent))

\* The draft is of its text's flow, or its user wrote the fields.
Fitting(draft, flow) == draft \in Corrections \/ Reads(draft.text, flow)

\* Where a flow that begins has its text from.
Told(s) == IF Collecting(s) THEN s.draft.text ELSE s.message.text

\* A draft in the making is of its text's flow; so is one that is about to be
\* made; a finished one lacks nothing.
Kindred(v) == v.missing => Collecting(v) /\ Reads(v.draft.text, v.flow)
Sane(s) ==
    /\ Sayable(s.message)
    /\ Kindred(s)
    /\ Kindred(s.top)
    /\ s.next = "work" => Reads(Told(s), s.flow)
    /\ s.next \in {"confirm", "execute"} => ~s.missing /\ Fitting(s.draft, s.flow)

\* What a request says and what it corrects.
Speaks(r) ==
    /\ Sayable(r.message)
    /\ r.kind = "correct" => r.draft \in Corrections

ReadInv ==
    /\ \A w \in Workers : Sane(run[w]) /\ Speaks(req[w])
    /\ \A c \in Conversations : Sane(checkpoint[c])
    /\ \A c \in Conversations : \A card \in shown[c] : Fitting(card.draft, card.flow)

LEMMA ReadsOnce ==
    ASSUME NEW text, NEW f, NEW g, Reads(text, f), Reads(text, g)
    PROVE  f = g
<1>1. \A m \in Messages : m.text = text /\ text = HandoffText => FlowFor(m.intent) = "ticket"
  BY AgentAssumption DEF FlowFor
<1>2. \A m, n \in Messages : m.text = text /\ n.text = text => m.intent = n.intent
  BY AgentAssumption
<1>3. QED
  BY <1>1, <1>2 DEF Reads

LEMMA MessagesSayable == \A m \in Messages : Sayable(m)
BY DEF Sayable, Reads

LEMMA AnySayable == Sayable(AnyMessage)
BY MessagesSayable, AnyMessageType

LEMMA HandoffSayable ==
    ASSUME NEW s
    PROVE  Sayable(HandoffMessage(s))
BY DEF HandoffMessage, Sayable, Reads, FlowFor

LEMMA FreshSane == Sane(Fresh)
BY AnySayable DEF Fresh, Sane, Kindred, Collecting, NoValues

LEMMA NoRequestSpeaks == Speaks(NoRequest)
BY AnySayable DEF NoRequest, Speaks

LEMMA HandedSane ==
    ASSUME NEW u \in State, NEW s \in State, s = Handed(u), Sane(u)
    PROVE  Sane(s)
<1>1. /\ s.next = u.next /\ s.draft = u.draft /\ s.flow = u.flow
      /\ s.missing = u.missing /\ s.needsTicket = u.needsTicket /\ s.message = u.message
      /\ s.top = u.top \/ s.top = ValuesOf(u)
  BY HandedSame
<1>2. Kindred(s)
  BY <1>1 DEF Sane, Kindred, Collecting
<1>3. Kindred(ValuesOf(u))
  BY DEF Sane, Kindred, Collecting, ValuesOf
<1>4. Kindred(s.top)
  BY <1>1, <1>3 DEF Sane
<1>5. QED
  BY <1>1, <1>2, <1>4 DEF Sane, Told, Collecting

LEMMA RenewedSane ==
    ASSUME NEW s \in State, NEW m \in Message, Sane(s), Sayable(m)
    PROVE  Sane(Renewed(s, m))
<1>1. PICK u \in State : u = Renewed(s, m)
  BY RenewedType
<1>2. /\ u.next = "understand" /\ u.message = m /\ u.top = s.top
      /\ u.draft = s.top.draft /\ u.flow = s.top.flow /\ u.missing = s.top.missing
      /\ u.needsTicket = s.top.needsTicket
  BY <1>1 DEF Renewed, State
<1>3. Kindred(u)
  BY <1>2 DEF Sane, Kindred, Collecting
<1>4. QED
  BY <1>1, <1>2, <1>3 DEF Sane

LEMMA DraftedSane ==
    ASSUME NEW s \in State, NEW flow \in Flow, NEW draft \in Draft, NEW missing \in BOOLEAN,
           Sayable(s.message), Kindred(s.top), Reads(draft.text, flow)
    PROVE  Sane(Drafted(s, flow, draft, missing))
<1>1. PICK u \in State : u = Drafted(s, flow, draft, missing)
  BY DraftedType
<1>2. /\ u.message = s.message /\ u.top = s.top /\ u.draft = draft /\ u.flow = flow
      /\ u.missing = missing /\ u.next = IF missing THEN "end" ELSE "confirm"
      /\ u.needsTicket = TRUE
  BY <1>1 DEF Drafted, State
<1>3. draft # NoDraft
  BY AgentAssumption
<1>4. QED
  BY <1>1, <1>2, <1>3 DEF Sane, Kindred, Collecting, Fitting

\* The text of a draft is the message's, or that of the draft so far.
LEMMA WorkedSane ==
    ASSUME ~ByModel, NEW s \in State, NEW flow \in Flow, NEW u \in Worked(s, flow),
           Sayable(s.message), Kindred(s.top), Reads(Told(s), flow)
    PROVE  Sane(u)
<1>1. CASE flow = "ticket"
  <2>1. PICK latest \in Extracted(s) :
          u = Drafted(s, "ticket", Merged(s, latest), Incomplete(Merged(s, latest)))
    BY <1>1 DEF Worked, TicketDrafted
  <2>2. PICK draft \in Draft : draft = Merged(s, latest)
    BY ExtractedType, MergedType
  <2>3. latest.text = s.message.text
    BY DEF Extracted, RulesAtHand, RuleFields
  <2>4. draft.text = Told(s)
    BY <2>2, <2>3 DEF Merged, Told
  <2>5. Incomplete(draft) \in BOOLEAN
    BY DEF Incomplete
  <2>6. QED
    BY <1>1, <2>1, <2>2, <2>4, <2>5, DraftedSane
<1>2. CASE flow \in {"refund", "cancel"}
  <2>1. PICK draft \in Draft : draft = OrderDraft(s, flow)
    BY <1>2, OrderDraftType
  <2>2. u = Drafted(s, flow, draft, draft.order = NoOrder)
    BY <1>2, <2>1 DEF Worked
  <2>3. draft.text = Told(s)
    BY <2>1 DEF OrderDraft, TextOf, Told
  <2>4. QED
    BY <2>2, <2>3, DraftedSane
<1>3. QED
  BY <1>1, <1>2 DEF Flow

\* To the supervisor's worker a flow goes with its text.
LEMMA RoutedSane ==
    ASSUME NEW s \in State, NEW flow \in Flow, Sayable(s.message), Kindred(s), Kindred(s.top),
           Reads(Told(s), flow), Collecting(s) => flow = s.flow
    PROVE  Sane(Routed(s, flow))
<1>1. PICK u : u = Routed(s, flow)
  OBVIOUS
<1>2. /\ u.message = s.message /\ u.draft = s.draft /\ u.flow = flow /\ u.next = "work"
      /\ u.missing = s.missing /\ u.needsTicket = TRUE
      /\ u.top = [s.top EXCEPT !.needsTicket = TRUE]
  BY <1>1 DEF Routed, State
<1>3. /\ u.top.draft = s.top.draft /\ u.top.flow = s.top.flow /\ u.top.missing = s.top.missing
      /\ u.top.needsTicket = TRUE
  BY <1>2 DEF State, Values
<1>4. Kindred(u) /\ Kindred(u.top)
  BY <1>2, <1>3 DEF Kindred, Collecting
<1>5. Collecting(u) <=> Collecting(s)
  BY <1>2 DEF Kindred, Collecting
<1>6. Told(u) = Told(s)
  BY <1>2, <1>5 DEF Told
<1>7. QED
  BY <1>1, <1>2, <1>4, <1>6 DEF Sane

LEMMA BeganSane ==
    ASSUME ~ByModel, NEW s \in State, NEW flow \in Flow, NEW u \in Began(s, flow),
           Sayable(s.message), Kindred(s), Kindred(s.top), Reads(Told(s), flow),
           Collecting(s) => flow = s.flow
    PROVE  Sane(u)
BY RoutedSane, WorkedSane DEF Began

LEMMA UnderstoodSane ==
    ASSUME ~ByModel, NEW s \in State, Sane(s), NEW intent \in Intents(s),
           NEW u \in Understood(s, intent)
    PROVE  Sane(u)
<1>1. intent \in Intent
  BY IntentsType
<1>2. Sayable(s.message) /\ Kindred(s) /\ Kindred(s.top) /\ s.flow \in Flow
  BY DEF Sane, State
<1>3. IF Collecting(s) THEN intent = s.flow ELSE intent = s.message.intent
  BY DEF Intents, Heard
<1>4. Reads(Told(s), FlowFor(intent))
  BY <1>2, <1>3 DEF Sayable, Kindred, Collecting, Flow, FlowFor, Told
<1>5. CASE intent \in Flow
  <2>1. FlowFor(intent) = intent /\ u \in Began(s, intent)
    BY <1>5 DEF FlowFor, Understood, Flow
  <2>2. QED
    BY <1>2, <1>3, <1>4, <1>5, <2>1, BeganSane
<1>6. CASE intent = "policy"
  <2>1. ~Collecting(s) /\ FlowFor(intent) = "ticket" /\ ~s.missing
    BY <1>2, <1>3, <1>6 DEF Flow, FlowFor, Kindred
  <2>2. u = [s EXCEPT !.needsTicket = FALSE, !.gap = FALSE, !.next = "end"]
        \/ u \in Began([s EXCEPT !.gap = TRUE], "ticket")
    BY <1>6 DEF Understood, PolicyAsked, Flow
  <2>3. CASE u = [s EXCEPT !.needsTicket = FALSE, !.gap = FALSE, !.next = "end"]
    <3>1. u.message = s.message /\ u.top = s.top /\ u.next = "end" /\ u.missing = s.missing
      BY <2>3 DEF State
    <3>2. QED
      BY <1>2, <2>1, <3>1 DEF Sane, Kindred
  <2>4. CASE u \in Began([s EXCEPT !.gap = TRUE], "ticket")
    <3>1. PICK t \in State : t = [s EXCEPT !.gap = TRUE]
      BY DEF State
    <3>2. /\ t.message = s.message /\ t.top = s.top /\ t.needsTicket = s.needsTicket
          /\ t.draft = s.draft /\ t.missing = s.missing /\ t.flow = s.flow
      BY <3>1 DEF State
    <3>3. ~Collecting(t) /\ Kindred(t)
      BY <2>1, <3>2 DEF Collecting, Kindred
    <3>4. Reads(Told(t), "ticket")
      BY <1>4, <2>1, <3>2, <3>3 DEF Told
    <3>5. QED
      BY <1>2, <2>4, <3>1, <3>2, <3>3, <3>4, BeganSane DEF Flow
  <2>5. QED
    BY <2>2, <2>3, <2>4
<1>7. CASE intent = "order"
  <2>1. PICK o \in Orders \cup {NoOrder} : u = [s EXCEPT !.support = o, !.next = "end"]
    BY <1>7 DEF Understood, OrderQueried, Advised, State, Message, Flow
  <2>2. /\ u.message = s.message /\ u.top = s.top /\ u.next = "end"
        /\ u.needsTicket = s.needsTicket /\ u.draft = s.draft /\ u.missing = s.missing
        /\ u.flow = s.flow
    BY <2>1 DEF State
  <2>3. QED
    BY <1>2, <2>2 DEF Sane, Kindred, Collecting
<1>8. CASE intent = "chat"
  <2>1. u = [s EXCEPT !.next = "end"]
    BY <1>8 DEF Understood, Flow
  <2>2. /\ u.message = s.message /\ u.top = s.top /\ u.next = "end"
        /\ u.needsTicket = s.needsTicket /\ u.draft = s.draft /\ u.missing = s.missing
        /\ u.flow = s.flow
    BY <2>1 DEF State
  <2>3. QED
    BY <1>2, <2>2 DEF Sane, Kindred, Collecting
<1>9. QED
  BY <1>1, <1>5, <1>6, <1>7, <1>8 DEF Intent, Flow

LEMMA ReadSane ==
    ASSUME NEW u \in State, Sane(u)
    PROVE  Sane(Read(u))
<1>1. CASE u.next = "work"
  BY <1>1 DEF Read
<1>2. CASE u.next # "work"
  BY <1>2, ReadType, AnySayable DEF Sane, Kindred, Collecting
<1>3. QED
  BY <1>1, <1>2

LEMMA DecidedSane ==
    ASSUME NEW s \in State, NEW r \in Request, Sane(s), s.next = "confirm", Speaks(r),
           r.kind \in {"approve", "reject", "correct"},
           r.kind = "correct" => r.draft \in Draft /\ ~Incomplete(r.draft)
    PROVE  Sane(Decided(s, r))
<1>1. PICK u \in State : u = Decided(s, r)
  BY DecidedType
<1>2. Sayable(s.message) /\ Kindred(s.top) /\ ~s.missing /\ Fitting(s.draft, s.flow)
  BY DEF Sane
<1>3. CASE r.kind = "approve"
  <2>1. /\ u.message = s.message /\ u.top = s.top /\ u.missing = s.missing
        /\ u.draft = s.draft /\ u.flow = s.flow /\ u.next = "execute"
    BY <1>1, <1>3 DEF Decided, State
  <2>2. QED
    BY <1>1, <1>2, <2>1 DEF Sane, Kindred, Collecting
<1>4. CASE r.kind = "reject"
  <2>1. /\ u.message = s.message /\ u.top = s.top /\ u.missing = s.missing /\ u.next = "end"
    BY <1>1, <1>4 DEF Decided, State
  <2>2. QED
    BY <1>1, <1>2, <2>1 DEF Sane, Kindred, Collecting
<1>5. CASE r.kind = "correct"
  <2>1. u = [s EXCEPT !.draft = r.draft, !.missing = FALSE, !.approved = FALSE,
                      !.next = "confirm"]
    BY <1>1, <1>5 DEF Decided, Corrected
  <2>2. /\ u.message = s.message /\ u.top = s.top /\ u.missing = FALSE /\ u.draft = r.draft
        /\ u.next = "confirm"
    BY <2>1 DEF State
  <2>3. QED
    BY <1>1, <1>2, <1>5, <2>2 DEF Sane, Kindred, Collecting, Speaks, Fitting
<1>6. QED
  BY <1>3, <1>4, <1>5

LEMMA ExecutedSane ==
    ASSUME NEW s \in State, Sane(s), s.next = "execute"
    PROVE  Sane(Executed(s))
<1>1. PICK u \in State : u = Executed(s)
  BY ExecutedType
<1>2. u.message = s.message /\ u.top = s.top /\ u.missing = s.missing /\ u.next = "end"
  BY <1>1 DEF Executed, State
<1>3. QED
  BY <1>1, <1>2 DEF Sane, Kindred, Collecting


LEMMA ReadMove ==
    ASSUME TypeOK, ReadInv, NEW w \in Workers, NEW p \in Stages, NEW r \in Request,
           NEW s \in State, NEW d \in BOOLEAN, NEW k \in State, Move(w, p, r, s, d, k),
           Sane(s), Speaks(r), Sane(k),
           \A c \in Conversations : \A card \in shown'[c] :
              card \in shown[c] \/ Fitting(card.draft, card.flow)
    PROVE  ReadInv'
<1>1. /\ req' = [req EXCEPT ![w] = r] /\ req \in [Workers -> Request]
      /\ run' = [run EXCEPT ![w] = s] /\ run \in [Workers -> State]
      /\ checkpoint' = [checkpoint EXCEPT ![Conversation(w)] = k]
      /\ checkpoint \in [Conversations -> State]
  BY DEF TypeOK, Move
<1>2. ASSUME NEW v \in Workers PROVE Sane(run'[v]) /\ Speaks(req'[v])
  BY <1>1 DEF ReadInv
<1>3. ASSUME NEW c \in Conversations PROVE Sane(checkpoint'[c])
  BY <1>1 DEF ReadInv
<1>4. ASSUME NEW c \in Conversations, NEW card \in shown'[c]
      PROVE  Fitting(card.draft, card.flow)
  BY DEF ReadInv
<1>5. QED
  BY <1>2, <1>3, <1>4 DEF ReadInv

LEMMA WorkerReads ==
    ASSUME TypeOK, ReadInv, NEW w \in Workers
    PROVE  /\ Sane(run[w]) /\ Speaks(req[w]) /\ Sane(checkpoint[Conversation(w)])
           /\ \A x \in Conversations : \A card \in shown[x] : Fitting(card.draft, card.flow)
BY DEF TypeOK, ReadInv, Conversation, Request

LEMMA FreedReads ==
    ASSUME TypeOK, StageInv, ReadInv, NEW w \in Workers, Freed(w),
           \A c \in Conversations : \A card \in shown'[c] :
              card \in shown[c] \/ Fitting(card.draft, card.flow)
    PROVE  ReadInv'
<1>1. /\ NoRequest \in Request /\ Fresh \in State /\ "idle" \in Stages
      /\ checkpoint[Conversation(w)] \in State /\ FALSE \in BOOLEAN
  BY NoRequestType, FreshType, WorkerTypes DEF Stages
<1>2. /\ Sane(Fresh) /\ Speaks(NoRequest) /\ Sane(checkpoint[Conversation(w)])
  BY WorkerReads, FreshSane, NoRequestSpeaks
<1>3. PICK p \in Stages, r \in Request, s \in State, d \in BOOLEAN, k \in State :
         Move(w, p, r, s, d, k) /\ Sane(s) /\ Speaks(r) /\ Sane(k)
  BY <1>1, <1>2, Zenon DEF Freed
<1>4. QED
  BY <1>3, ReadMove

LEMMA StartReads ==
    ASSUME TypeOK, StageInv, ReadInv, NEW w \in Workers, NEW r \in Request, Begin(w, r),
           Speaks(r), mode' = mode
    PROVE  ReadInv'
<1>1. PICK p \in Stages, s \in State, d \in BOOLEAN, k \in State :
         Move(w, p, r, s, d, k) /\ Sane(s) /\ Sane(k)
  <2>1. /\ Move(w, "check", r, run[w], decision[w], checkpoint[Conversation(w)])
        /\ run[w] \in State /\ decision[w] \in BOOLEAN /\ checkpoint[Conversation(w)] \in State
        /\ Sane(run[w]) /\ Sane(checkpoint[Conversation(w)]) /\ "check" \in Stages
    BY BeginMoves, WorkerTypes, WorkerReads DEF Starts, Stages
  <2>2. QED
    BY <2>1, Zenon
<1>2. shown' = shown
  BY DEF Begin
<1>3. QED
  BY <1>1, <1>2, ReadMove

LEMMA CheckReads ==
    ASSUME TypeOK, StageInv, ReadInv, NEW w \in Workers, Check(w), mode' = mode
    PROVE  ReadInv'
<1>1. shown' = shown
  BY DEF Check, clientVars
<1>2. CASE Freed(w)
  BY <1>1, <1>2, FreedReads
<1>3. ASSUME NEW m \in Message,
             m = IF req[w].kind = "handoff"
                 THEN HandoffMessage(checkpoint[Conversation(w)]) ELSE req[w].message,
             Move(w, "start", [req[w] EXCEPT !.message = m], run[w], decision[w],
                  checkpoint[Conversation(w)])
      PROVE  ReadInv'
  <2>1. Sayable(m)
    BY <1>3, WorkerReads, HandoffSayable DEF Speaks
  <2>2. PICK r \in Request : r = [req[w] EXCEPT !.message = m]
    BY <1>3, WorkerTypes DEF Request
  <2>3. r.message = m /\ r.kind = req[w].kind /\ r.draft = req[w].draft
    BY <2>2, WorkerTypes DEF Request
  <2>4. Speaks(r)
    BY <2>1, <2>3, WorkerReads DEF Speaks
  <2>5. PICK p \in Stages, s \in State, d \in BOOLEAN, k \in State :
           Move(w, p, r, s, d, k) /\ Sane(s) /\ Sane(k)
    <3>1. /\ run[w] \in State /\ decision[w] \in BOOLEAN /\ checkpoint[Conversation(w)] \in State
          /\ Sane(run[w]) /\ Sane(checkpoint[Conversation(w)]) /\ "start" \in Stages
      BY WorkerTypes, WorkerReads DEF Stages
    <3>2. QED
      BY <1>3, <2>2, <3>1, Zenon
  <2>6. QED
    BY <1>1, <2>4, <2>5, ReadMove
<1>4. QED
  BY <1>2, <1>3, CheckMoves

\* Actions that save a sane state or none.
LEMMA RunReads ==
    ASSUME TypeOK, StageInv, ReadInv, NEW w \in Workers, NEW p \in Stages, NEW s \in State,
           NEW d \in BOOLEAN, NEW k \in State, Move(w, p, req[w], s, d, k),
           Sane(s), Sane(k), shown' = shown
    PROVE  ReadInv'
<1>1. req[w] \in Request /\ Speaks(req[w])
  BY WorkerTypes, WorkerReads
<1>2. QED
  BY <1>1, ReadMove

LEMMA ProceedReads ==
    ASSUME ~ByModel, TypeOK, StageInv, ReadInv, NEW w \in Workers, Proceed(w), mode' = mode
    PROVE  ReadInv'
<1>1. PICK c \in Conversations : c = Conversation(w)
  BY WorkerTypes
<1>2. /\ pc[w] \in Stages /\ run[w] \in State /\ decision[w] \in BOOLEAN /\ checkpoint[c] \in State
      /\ req[w] \in Request /\ Fit(pc[w], req[w], run[w], decision[w])
      /\ FALSE \in BOOLEAN /\ {"run", "save", "respond"} \subseteq Stages
  BY <1>1, WorkerTypes DEF Stages
<1>3. Sane(run[w]) /\ Speaks(req[w]) /\ Sane(checkpoint[c])
  BY <1>1, WorkerReads
<1>4. CASE Check(w)
  BY <1>4, CheckReads
<1>5. CASE StartMessage(w)
  <2>1. PICK u \in State : u = Renewed(checkpoint[c], req[w].message) /\ Sane(u)
    BY <1>2, <1>3, RenewedType, RenewedSane DEF Speaks, Request
  <2>2. PICK s \in State : s = Handed(u) /\ Move(w, "run", req[w], s, decision[w], s)
    BY <1>1, <1>5, <2>1, StartMessageMoves
  <2>3. Sane(s)
    BY <2>1, <2>2, HandedSane
  <2>4. QED
    BY <1>2, <1>5, <2>2, <2>3, RunReads DEF StartMessage, clientVars
<1>6. CASE StartResume(w)
  <2>1. Move(w, "run", req[w], checkpoint[c], checkpoint[c].next \in {"work", "confirm"},
             checkpoint[c])
    BY <1>1, <1>6, StartResumeMoves
  <2>2. (checkpoint[c].next \in {"work", "confirm"}) \in BOOLEAN
    OBVIOUS
  <2>3. QED
    BY <1>2, <1>3, <1>6, <2>1, <2>2, RunReads DEF StartResume, clientVars
<1>7. CASE Understand(w)
  <2>1. PICK intent \in Intents(run[w]) : \E u \in Understood(run[w], intent) : \E s \in State :
              /\ u \in State
              /\ s = Handed(Read(u))
              /\ Move(w, "run", req[w], s, decision[w], s)
    BY <1>7, UnderstandMoves
  <2>2. PICK u \in Understood(run[w], intent), s \in State :
              /\ u \in State
              /\ s = Handed(Read(u))
              /\ Move(w, "run", req[w], s, decision[w], s)
    BY <2>1
  <2>3. Sane(u)
    BY <1>2, <1>3, UnderstoodSane
  <2>4. Sane(s)
    BY <2>2, <2>3, ReadType, ReadSane, HandedSane
  <2>5. QED
    BY <1>2, <1>7, <2>2, <2>4, RunReads DEF Understand, clientVars
<1>14. CASE Work(w)
  <2>1. PICK u \in Worked(run[w], run[w].flow) : \E s \in State : \E d \in BOOLEAN :
              /\ u \in State /\ s = Handed(Read(u))
              /\ Move(w, "run", req[w], s, d, s)
    BY <1>14, WorkMoves
  <2>2. PICK s \in State, d \in BOOLEAN :
              /\ u \in State /\ s = Handed(Read(u))
              /\ Move(w, "run", req[w], s, d, s)
    BY <2>1
  <2>3. run[w].flow \in Flow /\ Reads(Told(run[w]), run[w].flow)
    BY <1>2, <1>3, <1>14 DEF Work, Sane, State
  <2>4. Sane(u)
    BY <1>2, <1>3, <2>3, WorkedSane DEF Sane
  <2>5. Sane(s)
    BY <2>2, <2>4, ReadType, ReadSane, HandedSane
  <2>6. QED
    BY <1>2, <1>14, <2>2, <2>5, RunReads DEF Work, clientVars
<1>8. CASE Raise(w)
  BY <1>8, FreeMoves, FreedReads DEF Raise, clientVars
<1>9. CASE Deliver(w)
  <2>1. PICK u \in State, s \in State :
              /\ u = Decided(run[w], req[w]) /\ s = Handed(u)
              /\ Move(w, "run", req[w], s, FALSE, s)
    BY <1>9, DeliverMoves
  <2>2. /\ run[w].next = "confirm" /\ req[w].kind \in {"approve", "reject", "correct"}
        /\ req[w].kind = "correct" => req[w].draft \in Draft /\ ~Incomplete(req[w].draft)
    BY <1>2, <1>9 DEF Deliver, Fit
  <2>3. Sane(u)
    BY <1>2, <1>3, <2>1, <2>2, DecidedSane
  <2>4. Sane(s)
    BY <2>1, <2>3, HandedSane
  <2>5. QED
    BY <1>2, <1>9, <2>1, <2>4, RunReads DEF Deliver, clientVars
<1>10. CASE Stop(w)
  <2>1. Move(w, "respond", req[w], run[w], decision[w], checkpoint[c])
    BY <1>1, <1>10, StopMoves
  <2>2. QED
    BY <1>2, <1>3, <1>10, <2>1, RunReads DEF Stop, clientVars
<1>11. CASE Call(w)
  <2>1. Move(w, "save", req[w], run[w], decision[w], checkpoint[c])
    BY <1>1, <1>11, CallMoves
  <2>2. QED
    BY <1>2, <1>3, <1>11, <2>1, RunReads DEF Call, clientVars
<1>12. CASE Save(w)
  <2>1. run[w].next = "execute"
    BY <1>2, <1>12 DEF Save, Fit
  <2>2. PICK u \in State : u = Executed(run[w])
    BY <1>2, ExecutedType
  <2>3. PICK s \in State : s = Handed(u) /\ Move(w, "respond", req[w], s, decision[w], s)
    BY <1>12, <2>2, SaveMoves
  <2>4. Sane(s)
    BY <1>2, <1>3, <2>1, <2>2, <2>3, ExecutedSane, HandedSane
  <2>5. QED
    BY <1>2, <1>12, <2>3, <2>4, RunReads DEF Save, clientVars
<1>13. CASE Respond(w)
  <2>1. \A x \in Conversations : \A card \in shown'[x] :
           card \in shown[x] \/ Fitting(card.draft, card.flow)
    <3>1. shown' = [shown EXCEPT ![c] = @ \cup Cards(w)] /\ shown \in [Conversations -> SUBSET Card]
      BY <1>1, <1>13 DEF Respond, TypeOK
    <3>2. \A card \in Cards(w) : Fitting(card.draft, card.flow)
      BY <1>3 DEF Cards, CardOf, Sane
    <3>3. QED
      BY <3>1, <3>2
  <2>2. QED
    BY <1>13, <2>1, FreeMoves, FreedReads DEF Respond
<1>15. QED
  BY <1>4, <1>5, <1>6, <1>7, <1>8, <1>9, <1>10, <1>11, <1>12, <1>13, <1>14 DEF Proceed


LEMMA InitReads == Init => ReadInv
BY FreshSane, NoRequestSpeaks DEF Init, ReadInv

LEMMA NextReads ==
    ASSUME ~ByModel, TypeOK, StageInv, ReadInv, [Next]_vars
    PROVE  ReadInv'
<1>1. CASE UNCHANGED vars
  BY <1>1 DEF vars, ReadInv
<1>2. CASE Next
  <2>1. mode' = mode
    BY <1>2, StepCases
  <2>2. CASE \E w \in Workers, c \in Conversations : Sends(w, c)
    <3>1. PICK w \in Workers, c \in Conversations : Sends(w, c)
      BY <2>2
    <3>2. PICK r \in Request :
              /\ Begin(w, r)
              /\ r.kind = "correct" => r.draft \in Corrections
              /\ r.message \in Messages
      BY <3>1, SendsBegin
    <3>3. Speaks(r)
      BY <3>2, MessagesSayable DEF Speaks
    <3>4. QED
      BY <2>1, <3>2, <3>3, StartReads
  <2>3. CASE \E w \in Workers : Proceed(w)
    BY <2>1, <2>3, ProceedReads
  <2>4. CASE \E w \in Workers : Crash(w) \/ Disconnect(w)
    BY <2>1, <2>4, FreeMoves, FreedReads DEF Crash, Disconnect
  <2>5. CASE \E c \in Conversations : Expire(c)
    BY <2>5, FreshSane DEF Expire, clientVars, ReadInv, TypeOK
  <2>6. QED
    BY <1>2, <2>2, <2>3, <2>4, <2>5, StepCases
<1>3. QED
  BY <1>1, <1>2

----------------------------------------------------------------------------
(* What is executed was confirmed, or drawn up behind a confirmation.      *)

\* A card of the draft was confirmed, of the same flow where the rules decide it.
Backed(c, v) ==
    \E card \in approvals[c] :
        /\ card.draft = v.draft
        /\ ~ByModel /\ v.draft \notin Corrections => card.flow = v.flow

\* The draft is among those recorded.
Recorded(c, v, b) == [conversation |-> c, draft |-> v.draft] \in b
Cleared(c, v, b) == Backed(c, v) \/ Recorded(c, v, b)

\* Confirm was pressed on a card with the id that is sent.
Pressed(r) == r.kind = "approve" => \E card \in approvals[r.conversation] : card.draft = r.id

\* A confirmation meets the draft it was sent for, or one that is recorded.
Aimed(r, s, b) ==
    r.kind = "approve" /\ s.next = "confirm" =>
        s.draft = r.id \/ Recorded(r.conversation, s, b)

\* A request at work, in a conversation with that checkpoint.
Working(p, r, s, k, b) ==
    p # "idle" =>
        /\ Pressed(r)
        /\ p = "start" => Aimed(r, k, b)
        /\ p = "run" => Aimed(r, s, b)
        /\ p \in {"run", "save"} /\ s.next = "execute" => Cleared(r.conversation, s, b)

ApprovalInv ==
    /\ \A c \in Conversations : approvals[c] \subseteq shown[c]
    /\ \A w \in Workers : Working(pc[w], req[w], run[w], checkpoint[Conversation(w)], blind)
    /\ \A c \in Conversations :
          checkpoint[c].next = "execute" => Cleared(c, checkpoint[c], blind)
    /\ \A v \in Committed : Cleared(v.conversation, v, blind)

\* Every confirmation on its way was sent for the draft, or it is recorded.
Marked(c, s, b) ==
    \A v \in InFlight(c) :
        req[v].kind = "approve" => req[v].id = s.draft \/ Recorded(c, s, b)

LEMMA NotesMark ==
    ASSUME NEW w \in Workers, NEW u, Notes(w, u)
    PROVE  /\ blind \subseteq blind'
           /\ u.next = "confirm" => Marked(Conversation(w), u, blind')
BY DEF Notes, Blinds, Marked, Recorded

LEMMA CommittedType == ASSUME TypeOK PROVE Committed \subseteq Write
<1>1. writes \in Seq(Write)
  BY DEF TypeOK
<1>2. \A i \in DOMAIN writes : writes[i] \in Write
  BY <1>1
<1>3. QED
  BY <1>2 DEF Committed

\* A request goes on, alone or beside others of its conversation.
LEMMA AdvanceApproved ==
    ASSUME TypeOK, ApprovalInv, NEW w \in Workers, NEW p \in Stages, NEW r \in Request,
           NEW s \in State, NEW d \in BOOLEAN, NEW k \in State, Move(w, p, r, s, d, k),
           NEW c \in Conversations, c = Conversation(w), pc[w] # "idle",
           r.kind = req[w].kind, r.id = req[w].id, r.conversation = c,
           blind \subseteq blind',
           p = "start" => Aimed(r, k, blind'), p = "run" => Aimed(r, s, blind'),
           p \in {"run", "save"} /\ s.next = "execute" => Cleared(c, s, blind'),
           k.next = "execute" => Cleared(c, k, blind'),
           \/ k = checkpoint[c]
           \/ k.next = "confirm" => Marked(c, k, blind'),
           approvals' = approvals, shown' = shown,
           \A v \in Committed' : Cleared(v.conversation, v, blind')
    PROVE  ApprovalInv'
<1>1. /\ pc' = [pc EXCEPT ![w] = p] /\ req' = [req EXCEPT ![w] = r]
      /\ run' = [run EXCEPT ![w] = s] /\ checkpoint' = [checkpoint EXCEPT ![c] = k]
      /\ mode' = mode
      /\ pc \in [Workers -> Stages] /\ req \in [Workers -> Request]
      /\ run \in [Workers -> State] /\ checkpoint \in [Conversations -> State]
  BY DEF TypeOK, Stages, Move
<1>2. \A x, v : Backed(x, v)' <=> Backed(x, v)
  BY <1>1 DEF Backed, ByModel
<1>3. \A q : Pressed(q)' <=> Pressed(q)
  BY DEF Pressed
<1>4. \A x, v : Recorded(x, v, blind) => Recorded(x, v, blind')
  BY DEF Recorded
<1>5. Pressed(r)
  BY DEF ApprovalInv, Working, Pressed, Conversation
<1>6. ASSUME NEW v \in Workers, v # w, pc[v] # "idle"
      PROVE  /\ pc[v] = "start" => Aimed(req[v], checkpoint'[Conversation(v)], blind')
             /\ pc[v] = "run" => Aimed(req[v], run[v], blind')
             /\ pc[v] \in {"run", "save"} /\ run[v].next = "execute" =>
                   Cleared(req[v].conversation, run[v], blind')
             /\ Pressed(req[v])
  <2>1. Working(pc[v], req[v], run[v], checkpoint[Conversation(v)], blind)
    BY DEF ApprovalInv
  <2>2. pc[v] = "start" => Aimed(req[v], checkpoint'[Conversation(v)], blind')
    <3>1. CASE Conversation(v) # c \/ k = checkpoint[c]
      <4>1. checkpoint'[Conversation(v)] = checkpoint[Conversation(v)]
        BY <1>1, <3>1
      <4>2. QED
        BY <1>4, <1>6, <2>1, <4>1 DEF Working, Aimed
    <3>2. CASE Conversation(v) = c /\ k # checkpoint[c]
      <4>1. checkpoint'[c] = k /\ v \in InFlight(c) /\ req[v].conversation = c
        BY <1>1, <1>6, <3>2 DEF InFlight, Conversation
      <4>2. QED
        BY <3>2, <4>1 DEF Marked, Aimed
    <3>3. QED
      BY <3>1, <3>2
  <2>3. QED
    BY <1>4, <1>6, <2>1, <2>2 DEF Working, Aimed, Cleared
<1>7. ASSUME NEW v \in Workers
      PROVE  Working(pc[v], req[v], run[v], checkpoint[Conversation(v)], blind)'
  <2>1. CASE v = w
    <3>1. /\ pc'[v] = p /\ req'[v] = r /\ run'[v] = s /\ Conversation(v)' = c
          /\ checkpoint'[c] = k
      BY <1>1, <2>1 DEF Conversation
    <3>2. QED
      BY <1>2, <1>3, <1>5, <3>1 DEF Working, Aimed, Cleared, Recorded
  <2>2. CASE v # w
    <3>1. /\ pc'[v] = pc[v] /\ req'[v] = req[v] /\ run'[v] = run[v]
          /\ Conversation(v)' = Conversation(v)
      BY <1>1, <2>2 DEF Conversation
    <3>2. QED
      BY <1>2, <1>3, <1>6, <2>2, <3>1 DEF Working, Aimed, Cleared, Recorded
  <2>3. QED
    BY <2>1, <2>2
<1>8. ASSUME NEW x \in Conversations, checkpoint'[x].next = "execute"
      PROVE  Cleared(x, checkpoint[x], blind)'
  <2>1. Cleared(x, checkpoint'[x], blind')
    BY <1>1, <1>4, <1>8 DEF ApprovalInv, Cleared
  <2>2. QED
    BY <1>2, <2>1 DEF Cleared, Recorded
<1>9. ASSUME NEW v \in Committed' PROVE Cleared(v.conversation, v, blind)'
  BY <1>2, <1>9 DEF Cleared, Recorded
<1>10. QED
  BY <1>7, <1>8, <1>9 DEF ApprovalInv

\* A request ends.
LEMMA FreedApproved ==
    ASSUME TypeOK, ApprovalInv, NEW w \in Workers, Freed(w), approvals' = approvals,
           \A x \in Conversations : shown[x] \subseteq shown'[x], writes' = writes,
           blind' = blind
    PROVE  ApprovalInv'
<1>1. /\ pc' = [pc EXCEPT ![w] = "idle"] /\ pc \in [Workers -> Stages]
      /\ checkpoint' = checkpoint /\ mode' = mode
      /\ \A v \in Workers \ {w} : req'[v] = req[v] /\ run'[v] = run[v]
  BY Unmoved DEF TypeOK, Stages, Freed, Move
<1>2. \A x, v : Backed(x, v)' <=> Backed(x, v)
  BY <1>1 DEF Backed, ByModel
<1>3. \A q : Pressed(q)' <=> Pressed(q)
  BY DEF Pressed
<1>4. ASSUME NEW v \in Workers
      PROVE  Working(pc[v], req[v], run[v], checkpoint[Conversation(v)], blind)'
  <2>1. CASE v = w
    BY <1>1, <2>1 DEF Working
  <2>2. CASE v # w
    <3>1. /\ pc'[v] = pc[v] /\ req'[v] = req[v] /\ run'[v] = run[v]
          /\ Conversation(v)' = Conversation(v)
          /\ checkpoint'[Conversation(v)] = checkpoint[Conversation(v)]
      BY <1>1, <2>2 DEF Conversation, TypeOK
    <3>2. Working(pc[v], req[v], run[v], checkpoint[Conversation(v)], blind)
      BY DEF ApprovalInv
    <3>3. QED
      BY <1>2, <1>3, <3>1, <3>2 DEF Working, Aimed, Cleared, Recorded
  <2>3. QED
    BY <2>1, <2>2
<1>5. ASSUME NEW x \in Conversations, checkpoint'[x].next = "execute"
      PROVE  Cleared(x, checkpoint[x], blind)'
  BY <1>1, <1>2, <1>5 DEF ApprovalInv, Cleared, Recorded
<1>6. ASSUME NEW v \in Committed' PROVE Cleared(v.conversation, v, blind)'
  <2>1. v \in Committed
    BY <1>6 DEF Committed
  <2>2. QED
    BY <1>2, <2>1 DEF ApprovalInv, Cleared, Recorded
<1>7. \A x \in Conversations : approvals'[x] \subseteq shown'[x]
  BY DEF ApprovalInv
<1>8. QED
  BY <1>4, <1>5, <1>6, <1>7 DEF ApprovalInv

\* A request begins; confirm is pressed on cards that were shown.
LEMMA BeginApproved ==
    ASSUME TypeOK, StageInv, ApprovalInv, NEW w \in Workers, NEW c \in Conversations,
           Sends(w, c), mode' = mode
    PROVE  ApprovalInv'
<1>1. PICK r \in Request :
         /\ Begin(w, r)
         /\ r.conversation = c
         /\ Presses(r, c)
         /\ \/ approvals' = approvals
            \/ \E card \in shown[c] : approvals' = [approvals EXCEPT ![c] = @ \cup {card}]
  BY SendsBegin
<1>2. /\ pc[w] = "idle" /\ pc' = [pc EXCEPT ![w] = "check"] /\ pc \in [Workers -> Stages]
      /\ req' = [req EXCEPT ![w] = r] /\ req \in [Workers -> Request]
      /\ run' = run /\ checkpoint' = checkpoint /\ shown' = shown /\ writes' = writes
      /\ blind' = blind
  BY <1>1 DEF Begin, Goto, TypeOK, Stages
<1>3. /\ \A x \in Conversations : approvals[x] \subseteq approvals'[x]
      /\ \A x \in Conversations : approvals'[x] \subseteq shown'[x]
  BY <1>1, <1>2 DEF TypeOK, ApprovalInv
<1>4. \A x \in Conversations : \A v : Backed(x, v) => Backed(x, v)'
  BY <1>3 DEF Backed, ByModel
<1>5. \A q \in Request : Pressed(q) => Pressed(q)'
  BY <1>3 DEF Pressed, Request
<1>6. ASSUME NEW v \in Workers
      PROVE  Working(pc[v], req[v], run[v], checkpoint[Conversation(v)], blind)'
  <2>1. CASE v = w
    <3>1. pc'[v] = "check" /\ req'[v] = r
      BY <1>2, <2>1
    <3>2. Pressed(r)'
      BY <1>1 DEF Presses, Pressed
    <3>3. QED
      BY <3>1, <3>2 DEF Working
  <2>2. CASE v # w
    <3>1. /\ pc'[v] = pc[v] /\ req'[v] = req[v] /\ run'[v] = run[v]
          /\ Conversation(v)' = Conversation(v) /\ req[v] \in Request
          /\ checkpoint'[Conversation(v)] = checkpoint[Conversation(v)]
          /\ req[v].conversation \in Conversations
      BY <1>2, <2>2 DEF Conversation, TypeOK, Request
    <3>2. Working(pc[v], req[v], run[v], checkpoint[Conversation(v)], blind)
      BY DEF ApprovalInv
    <3>3. QED
      BY <1>2, <1>4, <1>5, <3>1, <3>2 DEF Working, Aimed, Cleared, Recorded
  <2>3. QED
    BY <2>1, <2>2
<1>7. ASSUME NEW x \in Conversations, checkpoint'[x].next = "execute"
      PROVE  Cleared(x, checkpoint[x], blind)'
  BY <1>2, <1>4, <1>7 DEF ApprovalInv, Cleared, Recorded
<1>8. ASSUME NEW v \in Committed' PROVE Cleared(v.conversation, v, blind)'
  <2>1. v \in Committed /\ v.conversation \in Conversations
    <3>1. Committed' = Committed
      BY <1>2 DEF Committed
    <3>2. QED
      BY <1>8, <3>1, CommittedType DEF Write
  <2>2. QED
    BY <1>2, <1>4, <2>1 DEF ApprovalInv, Cleared, Recorded
<1>9. QED
  BY <1>3, <1>6, <1>7, <1>8 DEF ApprovalInv

\* A request goes on and nothing is written.
LEMMA StayApproved ==
    ASSUME TypeOK, StageInv, ApprovalInv, NEW w \in Workers, NEW p \in Stages,
           NEW s \in State, NEW d \in BOOLEAN, NEW k \in State, Move(w, p, req[w], s, d, k),
           NEW c \in Conversations, c = Conversation(w), pc[w] # "idle",
           blind \subseteq blind',
           p = "start" => Aimed(req[w], k, blind'), p = "run" => Aimed(req[w], s, blind'),
           p \in {"run", "save"} /\ s.next = "execute" => Cleared(c, s, blind'),
           k.next = "execute" => Cleared(c, k, blind'),
           \/ k = checkpoint[c]
           \/ k.next = "confirm" => Marked(c, k, blind'),
           approvals' = approvals, shown' = shown, writes' = writes
    PROVE  ApprovalInv'
<1>1. PICK r \in Request : r = req[w]
  BY WorkerTypes
<1>2. r.conversation = c
  BY <1>1 DEF Conversation
<1>3. \A v \in Committed' : Cleared(v.conversation, v, blind')
  <2>1. Committed' = Committed
    BY DEF Committed
  <2>2. QED
    BY <2>1 DEF ApprovalInv, Cleared, Recorded
<1>4. QED
  BY <1>1, <1>2, <1>3, AdvanceApproved

\* A draft is written, or the request comes to its end.
LEMMA DraftApproved ==
    ASSUME TypeOK, StageInv, ApprovalInv, NEW w \in Workers, NEW u \in State,
           NEW s \in State, NEW d \in BOOLEAN, Move(w, "run", req[w], s, d, s),
           pc[w] # "idle", s.next = u.next, s.draft = u.draft, Notes(w, u),
           s.next # "execute",
           approvals' = approvals, shown' = shown, writes' = writes
    PROVE  ApprovalInv'
<1>1. PICK c \in Conversations : c = Conversation(w)
  BY WorkerTypes
<1>2. blind \subseteq blind' /\ (s.next = "confirm" => Marked(c, s, blind'))
  BY <1>1, NotesMark DEF Marked, Recorded
<1>3. w \in InFlight(c) /\ req[w].conversation = c
  BY <1>1 DEF InFlight, Conversation
<1>4. Aimed(req[w], s, blind')
  BY <1>2, <1>3 DEF Marked, Aimed
<1>5. PICK p \in Stages : p = "run" /\ Move(w, p, req[w], s, d, s)
  BY DEF Stages
<1>6. QED
  BY <1>1, <1>2, <1>4, <1>5, StayApproved

LEMMA CheckApproved ==
    ASSUME TypeOK, StageInv, ApprovalInv, NEW w \in Workers, Check(w), mode' = mode
    PROVE  ApprovalInv'
<1>1. PICK c \in Conversations : c = Conversation(w) /\ checkpoint[c] \in State
  BY WorkerTypes
<1>2. /\ approvals' = approvals /\ shown' = shown /\ writes' = writes /\ blind' = blind
      /\ pc[w] # "idle"
      /\ req[w] \in Request /\ run[w] \in State /\ decision[w] \in BOOLEAN /\ "start" \in Stages
  BY WorkerTypes DEF Check, clientVars, Stages
<1>3. CASE Freed(w)
  BY <1>2, <1>3, FreedApproved
<1>4. ASSUME NEW m \in Message, Admitted(req[w], checkpoint[c]),
             Move(w, "start", [req[w] EXCEPT !.message = m], run[w], decision[w], checkpoint[c])
      PROVE  ApprovalInv'
  <2>1. PICK r \in Request : r = [req[w] EXCEPT !.message = m]
    BY <1>2, <1>4 DEF Request
  <2>2. r.kind = req[w].kind /\ r.id = req[w].id /\ r.conversation = c
    BY <1>1, <1>2, <2>1 DEF Request, Conversation
  <2>3. Aimed(r, checkpoint[c], blind')
    <3>1. SUFFICES ASSUME req[w].kind = "approve", checkpoint[c].next = "confirm"
                   PROVE  checkpoint[c].draft = req[w].id
      BY <2>2 DEF Aimed
    <3>2. req[w].id = PendingDraft(checkpoint[c])
      <4>1. req[w].kind # "message" /\ req[w].kind # "handoff"
        BY <3>1
      <4>2. QED
        BY <1>4, <4>1, Zenon DEF Admitted
    <3>3. QED
      BY <3>1, <3>2 DEF PendingDraft
  <2>4. PICK p \in Stages, s \in State, d \in BOOLEAN, k \in State :
          /\ p = "start" /\ k = checkpoint[c] /\ Move(w, p, r, s, d, k) /\ Aimed(r, k, blind')
    BY <1>1, <1>2, <1>4, <2>1, <2>3, Zenon
  <2>5. k.next = "execute" => Cleared(c, k, blind')
    BY <1>2, <2>4 DEF ApprovalInv
  <2>6. \A v \in Committed' : Cleared(v.conversation, v, blind')
    <3>1. Committed' = Committed
      BY <1>2 DEF Committed
    <3>2. QED
      BY <1>2, <3>1 DEF ApprovalInv
  <2>7. QED
    BY <1>1, <1>2, <2>2, <2>4, <2>5, <2>6, AdvanceApproved
<1>5. QED
  BY <1>1, <1>3, <1>4, CheckMoves

LEMMA DeliverApproved ==
    ASSUME TypeOK, StageInv, ~ByModel => ReadInv, ApprovalInv, NEW w \in Workers,
           Deliver(w), mode' = mode
    PROVE  ApprovalInv'
<1>1. PICK c \in Conversations : c = Conversation(w)
  BY WorkerTypes
<1>2. /\ pc[w] = "run" /\ run[w] \in State /\ req[w] \in Request /\ run[w].next = "confirm"
      /\ req[w].kind \in {"approve", "reject", "correct"}
      /\ req[w].kind = "correct" => req[w].draft \in Draft /\ ~Incomplete(req[w].draft)
      /\ run[w].draft \in Draft
      /\ Working(pc[w], req[w], run[w], checkpoint[c], blind)
  BY <1>1, WorkerTypes DEF Deliver, Fit, Proper, ApprovalInv
<1>3. PICK u \in State, s \in State :
              /\ u = Decided(run[w], req[w]) /\ s = Handed(u) /\ Notes(w, u)
              /\ Move(w, "run", req[w], s, FALSE, s)
  BY DeliverMoves
<1>4. s.next = u.next /\ s.draft = u.draft /\ s.flow = u.flow
  BY <1>3, HandedSame
<1>5. approvals' = approvals /\ shown' = shown /\ writes' = writes
  BY DEF Deliver, clientVars
<1>6. FALSE \in BOOLEAN /\ "run" \in Stages
  BY DEF Stages
<1>7. CASE req[w].kind # "approve"
  <2>1. s.next # "execute"
    <3>1. CASE req[w].kind = "reject"
      BY <1>2, <1>3, <1>4, <3>1 DEF Decided, State
    <3>2. CASE req[w].kind = "correct"
      BY <1>2, <1>3, <1>4, <3>2 DEF Decided, Corrected, State
    <3>3. QED
      BY <1>2, <1>7, <3>1, <3>2
  <2>2. QED
    BY <1>2, <1>3, <1>4, <1>5, <1>6, <2>1, DraftApproved
<1>8. CASE req[w].kind = "approve"
  <2>1. u.draft = run[w].draft /\ u.next = "execute" /\ u.flow = run[w].flow
    BY <1>2, <1>3, <1>8 DEF Decided, State
  <2>2. blind \subseteq blind'
    BY <1>3, NotesMark
  <2>3. Cleared(c, s, blind')
    <3>1. CASE Recorded(c, run[w], blind)
      BY <1>4, <2>1, <2>2, <3>1 DEF Cleared, Recorded
    <3>2. CASE run[w].draft = req[w].id
      <4>1. PICK card \in approvals[c] : card.draft = req[w].id
        BY <1>1, <1>2, <1>8 DEF Working, Pressed, Conversation
      <4>2. s.draft = card.draft /\ s.flow = run[w].flow
        BY <1>4, <2>1, <3>2, <4>1
      <4>3. ~ByModel /\ s.draft \notin Corrections => card.flow = s.flow
        <5>1. SUFFICES ASSUME ~ByModel, s.draft \notin Corrections PROVE card.flow = s.flow
          OBVIOUS
        <5>2. card \in shown[c]
          BY <4>1 DEF ApprovalInv
        <5>3. Fitting(card.draft, card.flow)
          BY <5>1, <5>2 DEF ReadInv
        <5>4. Fitting(run[w].draft, run[w].flow)
          BY <1>2, <5>1 DEF ReadInv, Sane
        <5>5. Reads(s.draft.text, card.flow) /\ Reads(s.draft.text, s.flow)
          BY <3>2, <4>1, <4>2, <5>1, <5>3, <5>4 DEF Fitting
        <5>6. QED
          BY <5>5, ReadsOnce
      <4>4. QED
        BY <4>2, <4>3 DEF Cleared, Backed
    <3>3. QED
      BY <1>1, <1>2, <1>8, <3>1, <3>2 DEF Working, Aimed, Conversation
  <2>4. Aimed(req[w], s, blind') /\ s.next # "confirm"
    BY <1>4, <2>1 DEF Aimed
  <2>5. PICK p \in Stages, d \in BOOLEAN : p = "run" /\ Move(w, p, req[w], s, d, s)
    BY <1>3, <1>6
  <2>6. QED
    BY <1>1, <1>2, <1>5, <2>2, <2>3, <2>4, <2>5, StayApproved
<1>9. QED
  BY <1>7, <1>8

LEMMA CallApproved ==
    ASSUME TypeOK, StageInv, ApprovalInv, NEW w \in Workers, Call(w), mode' = mode
    PROVE  ApprovalInv'
<1>1. PICK c \in Conversations : c = Conversation(w) /\ checkpoint[c] \in State
  BY WorkerTypes
<1>2. /\ pc[w] = "run" /\ run[w].next = "execute" /\ run[w] \in State /\ decision[w] \in BOOLEAN
      /\ Working(pc[w], req[w], run[w], checkpoint[c], blind) /\ "save" \in Stages
      /\ approvals' = approvals /\ shown' = shown /\ blind' = blind
  BY <1>1, WorkerTypes DEF Call, ApprovalInv, clientVars, Stages
<1>3. PICK p \in Stages, r \in Request, s \in State, d \in BOOLEAN, k \in State :
         /\ p = "save" /\ r = req[w] /\ s = run[w] /\ k = checkpoint[c]
         /\ Move(w, p, r, s, d, k)
  BY <1>1, <1>2, WorkerTypes, CallMoves, Zenon
<1>4. Cleared(c, s, blind')
  BY <1>1, <1>2, <1>3 DEF Working, Conversation
<1>5. k.next = "execute" => Cleared(c, k, blind')
  BY <1>2, <1>3 DEF ApprovalInv
<1>6. ASSUME NEW v \in Committed' PROVE Cleared(v.conversation, v, blind')
  <2>1. CASE v \in Committed
    BY <1>2, <2>1 DEF ApprovalInv
  <2>2. CASE v = NewWrite(w)
    <3>1. v.conversation = c /\ v.draft = run[w].draft /\ v.flow = run[w].flow
      BY <1>1, <2>2 DEF NewWrite
    <3>2. QED
      BY <1>3, <1>4, <3>1 DEF Cleared, Backed, Recorded
  <2>3. v \in Committed \/ v = NewWrite(w)
    <3>1. CASE writes' = writes
      BY <3>1 DEF Committed
    <3>2. CASE writes' # writes
      <4>1. PICK n : n = NewWrite(w)
        OBVIOUS
      <4>2. writes' = Append(writes, n)
        BY <3>2, <4>1, Zenon DEF Call
      <4>3. writes \in Seq(Write)
        BY DEF TypeOK
      <4>4. PICK i \in DOMAIN writes' : v = writes'[i]
        BY DEF Committed
      <4>5. v = n \/ \E j \in DOMAIN writes : v = writes[j]
        BY <4>2, <4>3, <4>4
      <4>6. QED
        BY <4>1, <4>5 DEF Committed
    <3>3. QED
      BY <3>1, <3>2
  <2>4. QED
    BY <2>1, <2>2, <2>3
<1>7. r.conversation = c
  BY <1>1, <1>3 DEF Conversation
<1>8. QED
  BY <1>1, <1>2, <1>3, <1>4, <1>5, <1>6, <1>7, AdvanceApproved

LEMMA ProceedApproved ==
    ASSUME TypeOK, StageInv, ~ByModel => ReadInv, ApprovalInv, NEW w \in Workers,
           Proceed(w), mode' = mode
    PROVE  ApprovalInv'
<1>1. PICK c \in Conversations : c = Conversation(w)
  BY WorkerTypes
<1>2. /\ pc[w] \in Stages /\ run[w] \in State /\ decision[w] \in BOOLEAN /\ checkpoint[c] \in State
      /\ req[w] \in Request /\ Fit(pc[w], req[w], run[w], decision[w])
      /\ Working(pc[w], req[w], run[w], checkpoint[c], blind)
      /\ FALSE \in BOOLEAN /\ {"run", "save", "respond"} \subseteq Stages
  BY <1>1, WorkerTypes DEF Stages, ApprovalInv
<1>3. checkpoint[c].next = "execute" => Cleared(c, checkpoint[c], blind)
  BY DEF ApprovalInv
<1>4. CASE Check(w)
  BY <1>4, CheckApproved
<1>5. CASE StartMessage(w)
  <2>1. /\ approvals' = approvals /\ shown' = shown /\ writes' = writes /\ blind' = blind
        /\ pc[w] # "idle" /\ req[w].message \in Message
    BY <1>2, <1>5 DEF StartMessage, clientVars, Request
  <2>2. PICK u \in State : u = Renewed(checkpoint[c], req[w].message)
    BY <1>2, <2>1, RenewedType
  <2>3. PICK s \in State : s = Handed(u) /\ Move(w, "run", req[w], s, decision[w], s)
    BY <1>1, <1>5, <2>2, StartMessageMoves
  <2>4. u.next = "understand"
    BY <1>2, <2>2 DEF Renewed, State
  <2>5. s.next = "understand"
    BY <2>3, <2>4, HandedSame
  <2>6. Aimed(req[w], s, blind')
    BY <2>5 DEF Aimed
  <2>7. QED
    BY <1>1, <1>2, <2>1, <2>3, <2>5, <2>6, StayApproved
<1>6. CASE StartResume(w)
  <2>1. Move(w, "run", req[w], checkpoint[c], checkpoint[c].next \in {"work", "confirm"},
             checkpoint[c])
    BY <1>1, <1>6, StartResumeMoves
  <2>2. /\ approvals' = approvals /\ shown' = shown /\ writes' = writes /\ blind' = blind
        /\ pc[w] = "start"
    BY <1>6 DEF StartResume, clientVars
  <2>3. PICK s \in State, d \in BOOLEAN : s = checkpoint[c] /\ Move(w, "run", req[w], s, d, s)
    <3>1. (checkpoint[c].next \in {"work", "confirm"}) \in BOOLEAN
      OBVIOUS
    <3>2. QED
      BY <1>2, <2>1, <3>1, Zenon
  <2>4. Aimed(req[w], s, blind')
    BY <1>2, <2>2, <2>3 DEF Working
  <2>5. s.next = "execute" => Cleared(c, s, blind')
    BY <1>3, <2>2, <2>3
  <2>6. QED
    BY <1>1, <1>2, <2>2, <2>3, <2>4, <2>5, StayApproved
<1>7. CASE Understand(w)
  <2>1. PICK intent \in Intents(run[w]) : \E u \in Understood(run[w], intent) : \E s \in State :
              /\ u \in State
              /\ s = Handed(Read(u)) /\ Notes(w, u)
              /\ Move(w, "run", req[w], s, decision[w], s)
    BY <1>7, UnderstandMoves
  <2>2. PICK u \in Understood(run[w], intent), s \in State :
              /\ u \in State
              /\ s = Handed(Read(u)) /\ Notes(w, u)
              /\ Move(w, "run", req[w], s, decision[w], s)
    BY <2>1
  <2>3. u.next # "execute"
    BY <1>2, <2>1, <2>2, IntentsType, UnderstoodStops
  <2>4. s.next = u.next /\ s.draft = u.draft
    BY <2>2, ReadType, HandedSame
  <2>5. /\ approvals' = approvals /\ shown' = shown /\ writes' = writes /\ pc[w] # "idle"
    BY <1>7 DEF Understand, clientVars
  <2>6. QED
    BY <1>2, <2>2, <2>3, <2>4, <2>5, DraftApproved
<1>8. CASE Work(w)
  <2>1. PICK u \in Worked(run[w], run[w].flow) : \E s \in State : \E d \in BOOLEAN :
              /\ u \in State /\ s = Handed(Read(u)) /\ Notes(w, u)
              /\ Move(w, "run", req[w], s, d, s)
    BY <1>8, WorkMoves
  <2>2. PICK s \in State, d \in BOOLEAN :
              /\ u \in State /\ s = Handed(Read(u)) /\ Notes(w, u)
              /\ Move(w, "run", req[w], s, d, s)
    BY <2>1
  <2>3. u.next # "execute"
    BY <1>2, WorkedStops DEF State
  <2>4. s.next = u.next /\ s.draft = u.draft
    BY <2>2, ReadType, HandedSame
  <2>5. /\ approvals' = approvals /\ shown' = shown /\ writes' = writes /\ pc[w] # "idle"
    BY <1>8 DEF Work, clientVars
  <2>6. QED
    BY <2>2, <2>3, <2>4, <2>5, DraftApproved
<1>9. CASE Raise(w)
  BY <1>9, FreeMoves, FreedApproved DEF Raise, clientVars
<1>10. CASE Deliver(w)
  BY <1>10, DeliverApproved
<1>11. CASE Stop(w)
  <2>1. Move(w, "respond", req[w], run[w], decision[w], checkpoint[c])
    BY <1>1, <1>11, StopMoves
  <2>2. /\ approvals' = approvals /\ shown' = shown /\ writes' = writes /\ blind' = blind
        /\ pc[w] = "run"
    BY <1>11 DEF Stop, clientVars
  <2>3. PICK p \in Stages : p = "respond" /\ Move(w, p, req[w], run[w], decision[w], checkpoint[c])
    BY <1>2, <2>1
  <2>4. QED
    BY <1>1, <1>2, <1>3, <2>2, <2>3, StayApproved
<1>12. CASE Call(w)
  BY <1>12, CallApproved
<1>13. CASE Save(w)
  <2>1. PICK u \in State : u = Executed(run[w])
    BY <1>2, ExecutedType
  <2>2. PICK s \in State : s = Handed(u) /\ Move(w, "respond", req[w], s, decision[w], s)
    BY <1>13, <2>1, SaveMoves
  <2>3. u.next = "end"
    BY <1>2, <2>1 DEF Executed, State
  <2>4. s.next = "end"
    BY <2>2, <2>3, HandedSame
  <2>5. /\ approvals' = approvals /\ shown' = shown /\ writes' = writes /\ blind' = blind
        /\ pc[w] = "save"
    BY <1>13 DEF Save, clientVars
  <2>6. PICK p \in Stages : p = "respond" /\ Move(w, p, req[w], s, decision[w], s)
    BY <1>2, <2>2
  <2>7. QED
    BY <1>1, <1>2, <2>4, <2>5, <2>6, StayApproved
<1>14. CASE Respond(w)
  <2>1. \A x \in Conversations : shown[x] \subseteq shown'[x]
    BY <1>14 DEF Respond, TypeOK
  <2>2. QED
    BY <1>14, <2>1, FreeMoves, FreedApproved DEF Respond
<1>15. QED
  BY <1>4, <1>5, <1>6, <1>7, <1>8, <1>9, <1>10, <1>11, <1>12, <1>13, <1>14 DEF Proceed

LEMMA ExpireApproved ==
    ASSUME TypeOK, ApprovalInv, NEW c \in Conversations, Expire(c), mode' = mode
    PROVE  ApprovalInv'
<1>1. /\ UNCHANGED <<pc, req, run, shown, approvals, writes, blind>>
      /\ checkpoint' = [checkpoint EXCEPT ![c] = Fresh] /\ checkpoint \in [Conversations -> State]
      /\ \A w \in Workers : pc[w] = "idle" \/ Conversation(w) # c
  BY DEF Expire, clientVars, InFlight, TypeOK
<1>2. \A x, v : Backed(x, v)' <=> Backed(x, v)
  BY <1>1 DEF Backed, ByModel
<1>3. \A q : Pressed(q)' <=> Pressed(q)
  BY <1>1 DEF Pressed
<1>4. Fresh.next = "end"
  BY DEF Fresh
<1>5. ASSUME NEW w \in Workers
      PROVE  Working(pc[w], req[w], run[w], checkpoint[Conversation(w)], blind)'
  <2>1. CASE pc[w] = "idle"
    BY <1>1, <2>1 DEF Working
  <2>2. CASE Conversation(w) # c
    <3>1. /\ pc'[w] = pc[w] /\ req'[w] = req[w] /\ run'[w] = run[w]
          /\ Conversation(w)' = Conversation(w)
          /\ checkpoint'[Conversation(w)] = checkpoint[Conversation(w)]
      BY <1>1, <2>2 DEF Conversation, TypeOK, Request
    <3>2. Working(pc[w], req[w], run[w], checkpoint[Conversation(w)], blind)
      BY DEF ApprovalInv
    <3>3. QED
      BY <1>1, <1>2, <1>3, <3>1, <3>2 DEF Working, Aimed, Cleared, Recorded
  <2>3. QED
    BY <1>1, <2>1, <2>2
<1>6. ASSUME NEW x \in Conversations, checkpoint'[x].next = "execute"
      PROVE  Cleared(x, checkpoint[x], blind)'
  <2>1. checkpoint'[x] = checkpoint[x]
    BY <1>1, <1>4, <1>6
  <2>2. QED
    BY <1>1, <1>2, <1>6, <2>1 DEF ApprovalInv, Cleared, Recorded
<1>7. ASSUME NEW v \in Committed' PROVE Cleared(v.conversation, v, blind)'
  <2>1. v \in Committed
    BY <1>1, <1>7 DEF Committed
  <2>2. QED
    BY <1>1, <1>2, <2>1 DEF ApprovalInv, Cleared, Recorded
<1>8. QED
  BY <1>1, <1>5, <1>6, <1>7 DEF ApprovalInv

LEMMA InitApproved == Init => ApprovalInv
<1>1. SUFFICES ASSUME Init PROVE ApprovalInv
  OBVIOUS
<1>2. Fresh.next = "end"
  BY DEF Fresh
<1>3. Committed = {}
  BY <1>1 DEF Init, Committed
<1>4. QED
  BY <1>1, <1>2, <1>3 DEF Init, ApprovalInv, Working

LEMMA NextApproved ==
    ASSUME TypeOK, StageInv, ~ByModel => ReadInv, ApprovalInv, [Next]_vars
    PROVE  ApprovalInv'
<1>1. CASE UNCHANGED vars
  <2>1. \A x, v : Backed(x, v)' <=> Backed(x, v)
    BY <1>1 DEF vars, Backed, ByModel
  <2>2. \A q : Pressed(q)' <=> Pressed(q)
    BY <1>1 DEF vars, Pressed
  <2>3. ASSUME NEW w \in Workers
        PROVE  Working(pc[w], req[w], run[w], checkpoint[Conversation(w)], blind)'
    <3>1. Working(pc[w], req[w], run[w], checkpoint[Conversation(w)], blind)
      BY DEF ApprovalInv
    <3>2. QED
      BY <1>1, <2>1, <2>2, <3>1 DEF vars, Working, Aimed, Cleared, Recorded, Conversation
  <2>4. ASSUME NEW x \in Conversations, checkpoint'[x].next = "execute"
        PROVE  Cleared(x, checkpoint[x], blind)'
    BY <1>1, <2>1, <2>4 DEF vars, ApprovalInv, Cleared, Recorded
  <2>5. ASSUME NEW v \in Committed' PROVE Cleared(v.conversation, v, blind)'
    <3>1. v \in Committed
      BY <1>1, <2>5 DEF vars, Committed
    <3>2. QED
      BY <1>1, <2>1, <3>1 DEF vars, ApprovalInv, Cleared, Recorded
  <2>6. QED
    BY <1>1, <2>3, <2>4, <2>5 DEF vars, ApprovalInv
<1>2. CASE Next
  <2>1. mode' = mode
    BY <1>2, StepCases
  <2>2. CASE \E w \in Workers, c \in Conversations : Sends(w, c)
    BY <2>1, <2>2, BeginApproved
  <2>3. CASE \E w \in Workers : Proceed(w)
    BY <2>1, <2>3, ProceedApproved
  <2>4. CASE \E w \in Workers : Crash(w) \/ Disconnect(w)
    BY <2>1, <2>4, FreeMoves, FreedApproved DEF Crash, Disconnect
  <2>5. CASE \E c \in Conversations : Expire(c)
    BY <2>1, <2>5, ExpireApproved
  <2>6. QED
    BY <1>2, <2>2, <2>3, <2>4, <2>5, StepCases
<1>3. QED
  BY <1>1, <1>2

\* Nothing is written but what the user confirmed as it was shown, or a draft
\* that was written while a confirmation of another one was on its way: in every
\* mode, with any requests overlapping, crashing, lost or repeated
\* (decide_ticket_confirmation, request_ticket_confirmation_interrupt_node).
THEOREM WritesAreApproved == Spec => []WritesApproved
<1> DEFINE Inv == (~ByModel => ReadInv) /\ ApprovalInv
<1>1. Init => Inv
  BY InitReads, InitApproved
<1>2. ConsoleInv /\ Inv /\ [Next]_vars => Inv'
  <2>1. SUFFICES ASSUME ConsoleInv, Inv, [Next]_vars PROVE Inv'
    OBVIOUS
  <2>2. TypeOK /\ StageInv
    BY <2>1 DEF ConsoleInv
  <2>3. ByModel' <=> ByModel
    BY <2>1, StepCases DEF vars, ByModel
  <2>4. ~ByModel => ReadInv'
    BY <2>1, <2>2, NextReads
  <2>5. ApprovalInv'
    BY <2>1, <2>2, NextApproved
  <2>6. QED
    BY <2>3, <2>4, <2>5
<1>3. Inv => WritesApproved
  BY DEF ApprovalInv, WritesApproved, Cleared, Recorded, Backed, Confirmed
<1> HIDE DEF Inv
<1>4. Spec => []Inv
  BY <1>1, <1>2, Invariance, PTL DEF Spec
<1>5. QED
  BY <1>3, <1>4, PTL
=============================================================================
