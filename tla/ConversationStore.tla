-------------------------- MODULE ConversationStore --------------------------
(***************************************************************************)
(* The client-visible transcripts of the console agent: Redis records      *)
(* conversation:<digest>, one JSON document per conversation, and the      *)
(* sorted set conversation-index:<digest> of one actor.  Every operation   *)
(* is a GET followed by a MULTI/EXEC of SET, ZADD and EXPIRE: nothing      *)
(* holds the record between the two, and the endpoints run in a thread     *)
(* pool.                                                                   *)
(***************************************************************************)
EXTENDS Naturals, SequencesExt

CONSTANTS
    Customers,      \* requests of one actor that may be in progress together
    Conversations,
    Traces,         \* trace ids; a client may send the same one twice
    Ratings,        \* helpful, unhelpful
    MaxExchanges,   \* MAX_CONVERSATION_MESSAGES, counted in exchanges
    None

\* An answer of a transcript and how it was rated; a transcript.
Exchange == [trace: Traces, rating: Ratings \cup {None}]
Transcript == Seq(Exchange)

ASSUME ConversationAssumption ==
    /\ MaxExchanges \in Nat \ {0}
    /\ None \notin Ratings /\ None \notin Transcript

VARIABLES
    store,       \* conversation -> <<exchange>>, None when absent or expired
    saves,       \* conversations in the order of their last save (the scores)
    index,       \* members of the sorted set
    op,          \* customer request -> the operation it is in
    serial,      \* history: the transcript the saves add up to, one by one
    overlapped,  \* history: conversations saved over something unread
    expired      \* history: conversations that expired at least once

storeVars == <<store, saves, index, op, serial, overlapped, expired>>

NoOp == [pc |-> "idle", conv |-> None, trace |-> None, rating |-> None,
         seen |-> None, todo |-> {}, stale |-> {}]

Newest(s) == SubSeq(s, IF Len(s) > MaxExchanges THEN Len(s) - MaxExchanges + 1 ELSE 1, Len(s))

Extended(record, trace) ==
    Newest((IF record = None THEN <<>> ELSE record)
             \o << [trace |-> trace, rating |-> None] >>)

\* The last answer with that trace id, 0 when the transcript has none.
AnswerAt(record, trace) ==
    IF record = None THEN 0
    ELSE SelectLastInSeq(record, LAMBDA x : x.trace = trace)

Rated(record, trace, rating) ==
    IF AnswerAt(record, trace) = 0 THEN record
    ELSE [record EXCEPT ![AnswerAt(record, trace)].rating = rating]

StoreInit ==
    /\ store = [c \in Conversations |-> None]
    /\ saves = <<>>
    /\ index = {}
    /\ op = [t \in Customers |-> NoOp]
    /\ serial = store
    /\ overlapped = {}
    /\ expired = {}

-----------------------------------------------------------------------------
Save(t, record, effect) ==
    LET c == op[t].conv IN
    /\ store' = [store EXCEPT ![c] = record]
    /\ saves' = Append(RemoveFirst(saves, c), c)
    /\ index' = index \cup {c}
    /\ serial' = [serial EXCEPT ![c] = effect]
    /\ overlapped' = IF store[c] = op[t].seen THEN overlapped ELSE overlapped \cup {c}
    /\ op' = [op EXCEPT ![t] = NoOp]
    /\ UNCHANGED expired

AppendRead(t) ==
    /\ op[t].pc = "idle"
    /\ \E c \in Conversations, tr \in Traces :
          op' = [op EXCEPT ![t] = [NoOp EXCEPT !.pc = "append", !.conv = c,
                                               !.trace = tr, !.seen = store[c]]]
    /\ UNCHANGED <<store, saves, index, serial, overlapped, expired>>

\* Mutant: the exchange is saved without the ones before it.
AppendSave_Forgets(t) ==
    /\ op[t].pc = "append"
    /\ Save(t, Extended(None, op[t].trace), Extended(serial[op[t].conv], op[t].trace))

AppendSave(t) ==
    /\ op[t].pc = "append"
    /\ Save(t, Extended(op[t].seen, op[t].trace),
               Extended(serial[op[t].conv], op[t].trace))

\* set_assistant_feedback: returns False when the answer is gone.
RateRead(t) ==
    /\ op[t].pc = "rate"
    /\ LET record == store[op[t].conv] IN
          op' = [op EXCEPT ![t] = IF AnswerAt(record, op[t].trace) = 0 THEN NoOp
                                  ELSE [@ EXCEPT !.pc = "rating", !.seen = record]]
    /\ UNCHANGED <<store, saves, index, serial, overlapped, expired>>

RateSave(t) ==
    /\ op[t].pc = "rating"
    /\ Save(t, Rated(op[t].seen, op[t].trace, op[t].rating),
               Rated(serial[op[t].conv], op[t].trace, op[t].rating))

\* A RedisError is logged and swallowed: the reply or the rating stands.
StoreFails(t) ==
    /\ op[t].pc \in {"append", "rate", "rating", "list"}
    /\ op' = [op EXCEPT ![t] = NoOp]
    /\ UNCHANGED <<store, saves, index, serial, overlapped, expired>>

\* list_recent: ZREVRANGE, a GET per id, ZREM of the ids found without a record.
\* The ids it gets, with their scores, go back to the last one within the limit.
ListIds(t) ==
    /\ op[t].pc = "idle"
    /\ \E last \in DOMAIN saves :
          LET within == {i \in last..Len(saves) : saves[i] \in index} IN
          /\ last \in within
          /\ op' = [op EXCEPT ![t] = [NoOp EXCEPT !.pc = "list",
                                        !.todo = {<<i, saves[i]>> : i \in within}]]
    /\ UNCHANGED <<store, saves, index, serial, overlapped, expired>>

ListGet(t) ==
    /\ op[t].pc = "list"
    /\ \E x \in op[t].todo :
          /\ \A y \in op[t].todo : y[1] <= x[1]
          /\ op' = [op EXCEPT ![t].todo = @ \ {x},
                              ![t].stale = IF store[x[2]] = None THEN @ \cup {x[2]} ELSE @]
    /\ UNCHANGED <<store, saves, index, serial, overlapped, expired>>

ListPrune(t) ==
    /\ op[t].pc = "list" /\ op[t].todo = {}
    /\ index' = index \ op[t].stale
    /\ op' = [op EXCEPT ![t] = NoOp]
    /\ UNCHANGED <<store, saves, serial, overlapped, expired>>

Gone(c) ==
    /\ store' = [store EXCEPT ![c] = None]
    /\ serial' = [serial EXCEPT ![c] = None]
    /\ overlapped' = overlapped \ {c}
    /\ expired' = expired \cup {c}

\* Mutant: a save does not renew the TTL of the index.
Expire_IndexWithTheFirst ==
    /\ \E i \in DOMAIN saves :
          /\ store[saves[i]] # None
          /\ \A j \in DOMAIN saves : store[saves[j]] # None => j >= i
          /\ Gone(saves[i])
    /\ index' = {}
    /\ UNCHANGED <<saves, op>>

\* Every save sets the same TTL on the record and on the index: records expire
\* in the order of their last save, the index with the last of them.
Expire ==
    /\ \E i \in DOMAIN saves :
          /\ store[saves[i]] # None
          /\ \A j \in DOMAIN saves : store[saves[j]] # None => j >= i
          /\ Gone(saves[i])
          /\ index' = IF \E j \in DOMAIN saves : j > i /\ store[saves[j]] # None
                      THEN index ELSE {}
    /\ UNCHANGED <<saves, op>>

StoreStep(t) ==
    \/ AppendRead(t) \/ AppendSave(t) \/ RateRead(t) \/ RateSave(t)
    \/ ListIds(t) \/ ListGet(t) \/ ListPrune(t) \/ StoreFails(t)

-----------------------------------------------------------------------------
(***************************************************************************)
(* append_exchange and set_assistant_feedback write back a copy.  Unless a *)
(* save replaced something its writer had not read, the transcript is what *)
(* the exchanges and ratings add up to in the order they were saved, cut   *)
(* to the newest MAX_CONVERSATION_MESSAGES: nothing is lost, doubled or    *)
(* moved to another answer.                                                *)
(***************************************************************************)
SerialTranscript ==
    \A c \in Conversations \ overlapped : store[c] = serial[c]

(***************************************************************************)
(* list_recent prunes ids whose record it found missing, some time after   *)
(* it looked.  A conversation that never expired is never pruned: the only *)
(* conversation that can be live and unlisted is one that expired and was  *)
(* saved again while a listing was in progress.                            *)
(***************************************************************************)
NeverExpiredIsListed ==
    \A c \in Conversations \ expired : store[c] # None => c \in index
=============================================================================
