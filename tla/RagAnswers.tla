----------------------------- MODULE RagAnswers -----------------------------
(***************************************************************************)
(* Questions answered from the knowledge base while it is being worked on: *)
(* POST /api/ai/rag/ask, which filters by the metadata its caller names,   *)
(* and the policy questions of the console agent, which enhanced_rag_      *)
(* answer serves with the stages its switches enable.                      *)
(***************************************************************************)
EXTENDS KnowledgeBase

CONSTANTS
    Questions,
    MaxQueries,     \* rag_enable_multi_query: queries made of a question
    Hybrid,         \* rag_enable_hybrid
    Compression,    \* rag_enable_context_compression
    CandidateCount, \* rerank_candidate_count
    TopN            \* rerank_top_n

ASSUME RagAnswersAssumption ==
    /\ MaxQueries \in Nat \ {0} /\ CandidateCount \in Nat \ {0} /\ TopN \in Nat \ {0}
    /\ Hybrid \in BOOLEAN /\ Compression \in BOOLEAN

VARIABLES
    answers,    \* question -> how far its answer has come
    trusted     \* documents whose last request had them alone, waited and succeeded

ragVars == <<kbVars, answers, trusted>>

NoAnswer == [pc |-> "new", route |-> None, group |-> None, queries |-> 0, index |-> {},
             merged |-> {}, chunks |-> <<>>, citations |-> <<>>,
             quiet |-> {}]

RagInit ==
    /\ KnowledgeInit
    /\ answers = [q \in Questions |-> NoAnswer]
    /\ trusted = {}

-----------------------------------------------------------------------------
(* Stages.                                                                 *)

\* build_payload_filter: only what was named restricts.
Matches(point, group) == group = None \/ point.version.group = group

\* What a search of the collection may return, in the best order.
Searchable(group) == {[id |-> s, point |-> Visible[s]] : s \in {s \in Slots :
                      Visible[s] # None /\ Matches(Visible[s], group)}}

\* query_similar: at most n of what the filter lets through, nothing being
\* left out as long as there is room.
TopK(found, n) ==
    {hits \in SUBSET found :
        Cardinality(hits) = IF Cardinality(found) < n THEN Cardinality(found) ELSE n}

\* SimpleKeywordRetriever.search: the chunks with a term of the question.
Worded(a) == IF a.route = "policy" /\ Hybrid THEN SUBSET a.index ELSE {{}}

\* fuse_hybrid_results: a chunk found both ways is taken from the vectors.
Fused(near, worded) == near \cup {h \in worded : \A v \in near : v.id # h.id}

\* A chunk is kept as the first of the queries found it.
Merge(merged, hits) == merged \cup {h \in hits : \A m \in merged : m.id # h.id}

Orders(found) ==
    {s \in [1..Cardinality(found) -> found] : \A i, j \in DOMAIN s : s[i] = s[j] => i = j}

\* Mutant: the model may name an index twice.
ModelOrders_Repeating(found) == UNION {[1..n -> found] : n \in 0..Cardinality(found)}

\* HttpReranker: the model names candidates by index, in range and without
\* repetition, and how many it names is not checked.
ModelOrders(found) == UNION {Orders(part) : part \in SUBSET found}

\* RuleBasedReranker: all of them, cut to the first TopN.
RuleOrders(found) ==
    {SubSeq(s, 1, IF Len(s) < TopN THEN Len(s) ELSE TopN) : s \in Orders(found)}

\* compress_retrieved_context keeps the first chunk and drops what the
\* budget has no room for.
Compressed(s) ==
    {k \in ModelOrders({s[i] : i \in DOMAIN s}) :
        /\ s # <<>> => k # <<>> /\ k[1] = s[1]
        /\ \A i, j \in DOMAIN k : i < j =>
             \E m, n \in DOMAIN s : m < n /\ s[m] = k[i] /\ s[n] = k[j]}

-----------------------------------------------------------------------------
(* Answering.                                                              *)

Is(q, pc) == answers[q].pc = pc

Asks(q, route, group, queries) ==
    /\ Is(q, "new")
    /\ answers' = [answers EXCEPT ![q] =
           [NoAnswer EXCEPT !.pc = IF route = "policy" /\ Hybrid THEN "scroll" ELSE "search",
                            !.route = route, !.group = group, !.queries = queries,
                            !.quiet = trusted]]
    /\ UNCHANGED <<kbVars, trusted>>

Ask(q, group) == Asks(q, "ask", group, 1)
AskPolicy(q, queries) == Asks(q, "policy", None, queries)

\* SimpleKeywordRetriever.from_vector_store indexes the collection for
\* every query.
Scroll(q) ==
    /\ Is(q, "scroll")
    /\ answers' = [answers EXCEPT ![q].index = Searchable(None), ![q].pc = "search"]
    /\ UNCHANGED <<kbVars, trusted>>

Search(q) ==
    LET a == answers[q]
    IN  /\ Is(q, "search")
        /\ \E near \in TopK(Searchable(a.group), CandidateCount) :
           \E worded \in Worded(a) :
           \E hits \in TopK(Fused(near, worded), CandidateCount) :
               answers' = [answers EXCEPT ![q] =
                   [a EXCEPT !.merged = Merge(a.merged, hits),
                             !.queries = a.queries - 1,
                             !.index = {},
                             !.pc = IF a.queries = 1 THEN "rerank"
                                    ELSE IF Hybrid THEN "scroll" ELSE "search"]]
        /\ UNCHANGED <<kbVars, trusted>>

\* rerank_with_fallback: the model's order, or the rules' when it fails.
Rerank(q) ==
    LET a == answers[q]
    IN  /\ Is(q, "rerank")
        /\ \E order \in ModelOrders(a.merged) \cup RuleOrders(a.merged) :
               answers' = [answers EXCEPT ![q].chunks = order,
                                          ![q].merged = {},
                                          ![q].pc = IF Compression /\ a.route = "policy"
                                                    THEN "compress" ELSE "generate"]
        /\ UNCHANGED <<kbVars, trusted>>

Compress(q) ==
    /\ Is(q, "compress")
    /\ \E kept \in Compressed(answers[q].chunks) :
           answers' = [answers EXCEPT ![q].chunks = kept, ![q].pc = "generate"]
    /\ UNCHANGED <<kbVars, trusted>>

\* generate_answer_with_citations: without chunks the model is not asked.
Generate(q) ==
    /\ Is(q, "generate")
    /\ answers' = [answers EXCEPT ![q] = [NoAnswer EXCEPT
                       !.pc = "answered", !.group = answers[q].group, !.citations = answers[q].chunks]]
    /\ UNCHANGED <<kbVars, trusted>>

\* The embedding model, Qdrant or the chat model fails, or the reranker of
\* an /ask that forbids the fallback.
NoAnswerGiven(q) ==
    /\ \/ Is(q, "scroll") \/ Is(q, "search")
       \/ Is(q, "rerank") /\ answers[q].route = "ask" /\ answers[q].merged # {}
       \/ Is(q, "generate") /\ answers[q].chunks # <<>>
    /\ answers' = [answers EXCEPT ![q] = [NoAnswer EXCEPT !.pc = "failed"]]
    /\ UNCHANGED <<kbVars, trusted>>

AnswerStep(q) ==
    \/ \E g \in Groups \cup {None} : Ask(q, g)
    \/ \E n \in 1..MaxQueries : AskPolicy(q, n)
    \/ Scroll(q) \/ Search(q) \/ Rerank(q) \/ Compress(q) \/ Generate(q) \/ NoAnswerGiven(q)

\* What a request begins to work on is trusted no longer, until one has
\* succeeded that had it alone and waited for Qdrant.
WorkStep(r) ==
    LET job == jobs[r]
        settles == /\ job.wait
                   /\ job.kind \in {"create", "update", "ingest", "refresh"} \/ job.purged
    IN  /\ KnowledgeStep(r)
        /\ trusted' = (trusted \ jobs'[r].targets)
                        \cup IF jobs'[r].pc = "ok" /\ settles THEN job.alone ELSE {}
        /\ answers' = [q \in Questions |->
                          [answers[q] EXCEPT !.quiet = @ \ jobs'[r].targets]]

QdrantStep == Apply /\ UNCHANGED <<answers, trusted>>

Over == /\ behind = <<>>
        /\ \A r \in Requests : jobs[r].pc \in {"ok", "failed"}
        /\ \A q \in Questions : answers[q].pc \in {"answered", "failed"}
        /\ UNCHANGED ragVars

RagNext ==
    \/ \E r \in Requests : WorkStep(r)
    \/ \E q \in Questions : AnswerStep(q)
    \/ QdrantStep
    \/ Over

RagSpec == RagInit /\ [][RagNext]_ragVars

-----------------------------------------------------------------------------
(* Properties.                                                             *)

Chunks(s) == {s[i] : i \in DOMAIN s}

\* A document whose last request was answered with success, had it alone and
\* waited for Qdrant, and that no request has worked on since the question
\* came, is cited as its file is read, and not at all once it is deleted:
\* nothing of an earlier version is left for any stage to find, though
\* operations on other documents may still wait to be carried out.
CitedAsFiled ==
    [][\A q \in Questions :
          Is(q, "generate") /\ answers'[q].pc = "answered" =>
              \A c \in Chunks(answers'[q].citations) :
                  c.point.doc \in answers[q].quiet =>
                      c.point.version = Loaded(c.point.doc)]_ragVars

\* However many queries a question is expanded into, whichever way their
\* chunks are found and ordered, and though the collection changes between
\* two queries, an answer cites a chunk id once, within what its caller asked
\* for.
CitedOnce ==
    \A q \in Questions : Is(q, "answered") =>
        LET cited == answers[q].citations
        IN  \A i, j \in DOMAIN cited :
                /\ Matches(cited[i].point, answers[q].group)
                /\ cited[i].id = cited[j].id => i = j
=============================================================================
