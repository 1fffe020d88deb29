---------------------------- MODULE CitationChecks ----------------------------
(***************************************************************************)
(* rag/citation_verification.py, and the answers of rag/generator.py that  *)
(* it looks at: whether the citations of an answer lead back to the chunks *)
(* it was given.  A text is the set of its evidence terms; metadata that   *)
(* is missing or blank is "".                                              *)
(***************************************************************************)
EXTENDS Naturals, Sequences, FiniteSets

\* _required_metadata_text with its fallback.
SourceOf(chunk) == IF chunk.source = "" THEN "unknown-source" ELSE chunk.source

\* build_rag_citation
Citation(index, chunk) ==
    [index |-> index, id |-> chunk.id, source |-> SourceOf(chunk), title |-> chunk.title,
     section |-> chunk.section]

\* build_grounded_rag_answer, build_no_context_rag_answer; which of the two a
\* request gets depends on whether there are chunks.
GroundedAnswer(terms, chunks) ==
    [status |-> "answered", terms |-> terms,
     citations |-> [i \in DOMAIN chunks |-> Citation(i, chunks[i])]]

NoContextAnswer(terms) == [status |-> "no_context", terms |-> terms, citations |-> << >>]

AnswerFor(terms, chunks) ==
    IF chunks = << >> THEN NoContextAnswer(terms) ELSE GroundedAnswer(terms, chunks)

\* CitationVerificationPolicy; the scores are counted in hundredths.
DefaultCitationPolicy ==
    [mustCite |-> TRUE, minAnswer |-> 12, minCitation |-> 5, warnTwice |-> TRUE]

\* Whether the score of _text_overlap_score is below a minimum.
OverlapBelow(answer, evidence, minimum) ==
    IF answer = {} THEN 0 < minimum
    ELSE Cardinality(answer \cap evidence) * 100 < minimum * Cardinality(answer)

Noted(code, condition) == IF condition THEN {code} ELSE {}

BlockingCodes ==
    {"RAG_NO_CONTEXT_HAS_CITATIONS", "RAG_ANSWERED_WITHOUT_RETRIEVED_CHUNKS",
     "RAG_ANSWERED_WITHOUT_CITATIONS", "RAG_CITATION_SOURCE_INDEX_OUT_OF_RANGE",
     "RAG_CITATION_CHUNK_NOT_RETRIEVED", "RAG_CITATION_SOURCE_INDEX_MISMATCH",
     "RAG_CITATION_SOURCE_MISMATCH"}

\* _inspect_no_context_answer
NoContextFindings(answer, chunks) ==
    Noted("RAG_NO_CONTEXT_HAS_CITATIONS", answer.citations # << >>)
        \cup Noted("RAG_NO_CONTEXT_WITH_RETRIEVED_CHUNKS", chunks # << >>)

\* _inspect_answered_state
AnsweredFindings(answer, chunks, policy) ==
    Noted("RAG_ANSWERED_WITHOUT_RETRIEVED_CHUNKS", chunks = << >>)
        \cup Noted("RAG_ANSWERED_WITHOUT_CITATIONS", policy.mustCite /\ answer.citations = << >>)

\* chunks_by_id: of chunks with one id the last is kept.
Retrieved(id, chunks) == \E i \in DOMAIN chunks : chunks[i].id = id

ChunkById(id, chunks) ==
    chunks[CHOOSE i \in DOMAIN chunks :
               chunks[i].id = id /\ \A j \in DOMAIN chunks : chunks[j].id = id => j <= i]

\* _inspect_citation_metadata, and the overlap of the answer with the chunk.
MetadataFindings(citation, chunk, terms, policy) ==
    Noted("RAG_CITATION_SOURCE_MISMATCH", citation.source # SourceOf(chunk))
        \cup Noted("RAG_CITATION_TITLE_MISMATCH", citation.title # chunk.title)
        \cup Noted("RAG_CITATION_SECTION_MISMATCH", citation.section # chunk.section)
        \cup Noted("RAG_CITATION_LOW_TEXT_OVERLAP",
                   OverlapBelow(terms, chunk.terms, policy.minCitation))

\* The round of _inspect_citations for citation k, with _chunk_at_source_index.
CitationFindings(k, answer, chunks, policy) ==
    LET c       == answer.citations[k]
        indexed == c.index \in DOMAIN chunks
    IN  Noted("RAG_CITATION_SOURCE_INDEX_OUT_OF_RANGE", ~indexed)
          \cup Noted("RAG_CITATION_CHUNK_NOT_RETRIEVED", ~Retrieved(c.id, chunks))
          \cup Noted("RAG_CITATION_SOURCE_INDEX_MISMATCH",
                     IF indexed THEN chunks[c.index].id # c.id ELSE FALSE)
          \cup (IF Retrieved(c.id, chunks)
                THEN MetadataFindings(c, ChunkById(c.id, chunks), answer.terms, policy) ELSE {})
          \cup Noted("RAG_CITATION_DUPLICATE_CHUNK",
                     policy.warnTwice /\ \E m \in DOMAIN answer.citations :
                                            m # k /\ answer.citations[m].id = c.id)

\* _inspect_citations
AllCitationFindings(answer, chunks, policy) ==
    UNION {CitationFindings(k, answer, chunks, policy) : k \in DOMAIN answer.citations}

\* The chunks whose citations have no blocking finding.
CitedChunks(answer, chunks, policy) ==
    {ChunkById(answer.citations[k].id, chunks) :
        k \in {m \in DOMAIN answer.citations :
                  CitationFindings(m, answer, chunks, policy) \cap BlockingCodes = {}}}

\* _answer_support_score against its minimum.
SupportFindings(answer, chunks, policy) ==
    LET cited == CitedChunks(answer, chunks, policy) IN
    Noted("RAG_ANSWER_LOW_TEXT_OVERLAP",
          cited # {} /\ OverlapBelow(answer.terms, UNION {c.terms : c \in cited},
                                     policy.minAnswer))

\* verify_rag_answer_sources: the codes found, wherever they were found.
VerificationFindings(answer, chunks, policy) ==
    IF answer.status = "no_context" THEN NoContextFindings(answer, chunks)
    ELSE AnsweredFindings(answer, chunks, policy)
           \cup AllCitationFindings(answer, chunks, policy)
           \cup SupportFindings(answer, chunks, policy)

IsValidAnswer(answer, chunks, policy) ==
    VerificationFindings(answer, chunks, policy) \cap BlockingCodes = {}

\* The chunks of a request: _enhanced_rag_answer_inner merges what its queries
\* found by chunk_id.
DistinctChunks(chunks) ==
    \A i, j \in DOMAIN chunks : chunks[i].id = chunks[j].id => i = j

\* What a reader of a citation relies on: the number in the answer, the id and
\* the source all lead to one and the same chunk.
LeadsToItsChunk(citation, chunks) ==
    /\ citation.index \in DOMAIN chunks
    /\ chunks[citation.index].id = citation.id
    /\ SourceOf(chunks[citation.index]) = citation.source
=============================================================================
