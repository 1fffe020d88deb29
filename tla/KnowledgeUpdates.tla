--------------------------- MODULE KnowledgeUpdates ---------------------------
(***************************************************************************)
(* data_update.py: the manifest of a folder of documents, the changes from *)
(* one manifest to the next, and the plan that brings the vector store and *)
(* the caches of the answers up to date.                                   *)
(***************************************************************************)
CONSTANTS
    Sources,
    Contents,
    Summaries,   \* the eight metadata fields of _metadata_summary
    Others,      \* the rest of a document's metadata
    NoDocument

Document == [content: Contents, summary: Summaries, others: Others]

Folder == [Sources -> Document \cup {NoDocument}]

\* _build_manifest_entry: hashes of the content and of the summary.
Entry(document) ==
    IF document = NoDocument THEN NoDocument
    ELSE [content |-> document.content, summary |-> document.summary]

\* build_document_manifest
Manifest(folder) == [s \in Sources |-> Entry(folder[s])]

\* detect_document_changes
Change(old, new) ==
    CASE old = NoDocument /\ new = NoDocument   -> "absent"
      [] old = NoDocument /\ new # NoDocument   -> "new"
      [] old # NoDocument /\ new = NoDocument   -> "deleted"
      [] old # NoDocument /\ new # NoDocument   -> IF old = new THEN "unchanged" ELSE "modified"

Changes(previous, current) == [s \in Sources |-> Change(previous[s], current[s])]

\* A plan item: what to do, whether the old chunks go first
\* (should_delete_before_upsert), whether cached answers do (should_invalidate_cache).
Item(action, delete, invalidate) ==
    [action |-> action, delete |-> delete, invalidate |-> invalidate]

\* _plan_item_from_change
ItemFor(change) ==
    CASE change = "new"      -> Item("ingest_new", FALSE, TRUE)
      [] change = "modified" -> Item("refresh_source", TRUE, TRUE)
      [] change = "deleted"  -> Item("delete_source", FALSE, TRUE)
      [] OTHER               -> Item("skip", FALSE, FALSE)

\* build_rag_data_update_plan: a forced one rebuilds the collection, with one
\* item that stands for every source of the two manifests.
UpdatePlan(previous, current, force) ==
    [s \in Sources |->
        LET change == Changes(previous, current)[s] IN
        IF force /\ change # "absent" THEN Item("reindex_collection", TRUE, TRUE)
        ELSE ItemFor(change)]

\* cache_invalidation_sources
Invalidated(plan) == {s \in Sources : plan[s].invalidate /\ plan[s].action # "skip"}

\* What carrying out an item does to the chunks of its source: ingestion adds
\* to what is there unless that was deleted first.
Stored(chunks, item, document) ==
    CASE item.action = "skip"          -> chunks
      [] item.action = "delete_source" -> {}
      [] OTHER -> (IF item.delete THEN {} ELSE chunks)
                      \cup (IF document = NoDocument THEN {} ELSE {document})

\* The store after the plan, by source the documents it has chunks of.
Applied(store, plan, folder) ==
    [s \in Sources |-> Stored(store[s], plan[s], folder[s])]

\* The store has the documents of the folder, as far as manifests tell.
UpToDate(store, folder) ==
    \A s \in Sources :
        IF folder[s] = NoDocument THEN store[s] = {}
        ELSE \E document \in Document :
                store[s] = {document} /\ Entry(document) = Entry(folder[s])
=============================================================================
