--------------------------- MODULE KnowledgeBase ---------------------------
(***************************************************************************)
(* The documents of the knowledge base, as app/routers/knowledge_base.py   *)
(* and app/rag/ingestion.py keep them in three places that share no        *)
(* transaction: a file of ai-service, the chunks of the file in Qdrant,    *)
(* and a row of knowledge_documents in the Java service.  The endpoints    *)
(* are plain functions run in a thread pool, so requests interleave        *)
(* between any two of their calls, and any call may fail.  Qdrant carries  *)
(* out the operations on a collection in the order it accepts them, and    *)
(* answers a caller that does not wait before it has.                      *)
(***************************************************************************)
EXTENDS Naturals, FiniteSets, Sequences

CONSTANTS
    Docs,           \* document ids; the file of d is its source
    Base,           \* document -> what _build_chunk_id makes of its name
    Bodies, Groups, \* contents of a document, values of its metadata
    ChunksOf,       \* body -> number of chunks
    MaxChunks,      \* chunks of the longest body
    Stripped,       \* body -> what PUT keeps of it when it is sent none
    Named,          \* body -> group that one of its first lines names, or None
    Requests,
    InitialFiles,   \* what the directory holds at the start
    MaxFaults,      \* bound: calls that fail
    None

DocVersions == [body : Bodies, group : Groups]

ASSUME KnowledgeBaseAssumption ==
    /\ IsFiniteSet(Docs)
    /\ MaxChunks \in Nat
    /\ ChunksOf \in [Bodies -> 1..MaxChunks]
    /\ Stripped \in [Bodies -> Bodies]
    /\ Named \in [Bodies -> Groups \cup {None}]
    /\ InitialFiles \in [Docs -> DocVersions \cup {None}]
    /\ MaxFaults \in Nat
    /\ None \notin DocVersions \cup Groups
    /\ None \notin [doc : Docs, version : DocVersions]

VARIABLES
    files,      \* document -> version on disk
    points,     \* chunk id -> point of the default collection, once all
                \* operations it has accepted are carried out
    behind,     \* what it holds meanwhile, one state after the other
    rows,       \* document -> row of knowledge_documents
    jobs,       \* request -> where its thread is
    faults      \* calls that have failed

kbVars == <<files, points, behind, rows, jobs, faults>>

Slots == {Base[d] : d \in Docs} \X (1..MaxChunks)

NoJob == [pc |-> "new", kind |-> None, version |-> None, loaded |-> [d \in Docs |-> None],
          wait |-> TRUE, targets |-> {}, todo |-> {}, purged |-> FALSE, alone |-> {}]

KnowledgeInit ==
    /\ files = InitialFiles
    /\ points = [s \in Slots |-> None]
    /\ behind = <<>>
    /\ rows = [d \in Docs |-> None]
    /\ jobs = [r \in Requests |-> NoJob]
    /\ faults = 0

-----------------------------------------------------------------------------
(* Documents, chunks and rows.                                             *)

\* load_document: a line of the body overrides the ones rendered above it.
Read(v) ==
    [body |-> v.body, group |-> IF Named[v.body] = None THEN v.group ELSE Named[v.body]]

Loaded(d) == IF files[d] = None THEN None ELSE Read(files[d])

\* split_document_into_chunks: the ids of the chunks of a version.
ChunkIds(d, v) == {Base[d]} \X (1..ChunksOf[v.body])

\* build_qdrant_point: the chunk of a slot, with its source in the payload.
Point(d, v) == [doc |-> d, version |-> v]

\* Mutant: only the chunk the new version begins with is deleted.
Without_First(ps, d) == [s \in Slots |-> IF s = <<Base[d], 1>> THEN None ELSE ps[s]]

\* delete_points_by_filter with the filter source = d.
Without(ps, d) == [s \in Slots |-> IF ps[s] # None /\ ps[s].doc = d THEN None ELSE ps[s]]

\* upsert_embedded_chunks for the loaded documents: what has one of the ids
\* is overwritten, whoever put it there.
Placed(ps, loaded) ==
    [s \in Slots |->
        LET owners == {d \in Docs : loaded[d] # None /\ s \in ChunkIds(d, loaded[d])}
        IN  IF owners = {} THEN ps[s]
            ELSE LET d == CHOOSE d \in owners : TRUE IN Point(d, loaded[d])]

Row(v, read) == [group |-> v.group, chunks |-> ChunksOf[read.body]]

\* What PUT makes of the stored version and the fields of the request.
Merged(old, body, group) ==
    [body  |-> IF body = None THEN Stripped[old.body] ELSE body,
     group |-> IF group = None THEN old.group ELSE group]

-----------------------------------------------------------------------------
(* Qdrant.                                                                 *)

Accepts(ps, waited) ==
    /\ points' = ps
    /\ behind' = IF waited THEN <<>> ELSE Append(behind, points)

\* What searches are answered from.
Visible == IF behind = <<>> THEN points ELSE Head(behind)

\* The oldest operation still to be carried out is.
Apply ==
    /\ behind # <<>>
    /\ behind' = Tail(behind)
    /\ UNCHANGED <<files, points, rows, jobs, faults>>

-----------------------------------------------------------------------------
(* Requests.                                                               *)

Running == {r \in Requests : jobs[r].pc \notin {"new", "ok", "failed"}}

At(r, pc) == jobs[r].pc = pc
Only(r) == CHOOSE d \in jobs[r].targets : TRUE
To(r, pc) ==
    jobs' = [jobs EXCEPT ![r] = IF pc \in {"ok", "failed"} THEN [NoJob EXCEPT !.pc = pc]
                                ELSE [@ EXCEPT !.pc = pc]]

\* A request begins to work on the documents of targets.  alone keeps, for
\* the properties, those no other request has worked on since it began.
Begins(r, pc, kind, wait, targets, version, loaded) ==
    LET others == UNION {jobs[k].targets : k \in Running}
    IN  jobs' = [k \in Requests |->
            IF k = r
            THEN [NoJob EXCEPT !.pc = pc, !.kind = kind, !.wait = wait, !.targets = targets,
                               !.version = version, !.loaded = loaded,
                               !.todo = targets, !.alone = targets \ others]
            ELSE [jobs[k] EXCEPT !.alone = @ \ targets]]

\* A call fails, and whether it was carried out is not known.
CallFails(r, next) ==
    /\ faults < MaxFaults
    /\ faults' = faults + 1
    /\ To(r, next)

FailsToStore(r, ps, next) ==
    /\ CallFails(r, next)
    /\ Accepts(ps, FALSE) \/ UNCHANGED <<points, behind>>

\* POST /documents: the file is written whether or not there was one.
Create(r, d, v) ==
    /\ At(r, "new")
    /\ files' = [files EXCEPT ![d] = v]
    /\ Begins(r, "purge", "create", TRUE, {d}, v, NoJob.loaded)
    /\ UNCHANGED <<points, behind, rows, faults>>

\* PUT /documents/{id}: the stored version is read...
Update(r, d, body, group) ==
    /\ At(r, "new")
    /\ files[d] # None
    /\ Begins(r, "write", "update", TRUE, {d}, Merged(Read(files[d]), body, group), NoJob.loaded)
    /\ UNCHANGED <<files, points, behind, rows, faults>>

\* ...and the merged one written, whatever has happened to the file since.
Write(r) ==
    /\ At(r, "write")
    /\ files' = [files EXCEPT ![Only(r)] = jobs[r].version]
    /\ To(r, "purge")
    /\ UNCHANGED <<points, behind, rows, faults>>

\* POST /documents/{id}/ingest
Ingest(r, d) ==
    /\ At(r, "new")
    /\ files[d] # None
    /\ Begins(r, "purge", "ingest", TRUE, {d}, Read(files[d]), NoJob.loaded)
    /\ UNCHANGED <<files, points, behind, rows, faults>>

\* DELETE /documents/{id}: without a file only the row is deleted.
Delete(r, d) ==
    /\ At(r, "new")
    /\ Begins(r, IF files[d] = None THEN "row" ELSE "purge", "delete", TRUE, {d}, None,
              NoJob.loaded)
    /\ UNCHANGED <<files, points, behind, rows, faults>>

\* The embedding model cannot be built, once the file has been written.
NoEmbeddingModel(r) ==
    /\ At(r, "purge") /\ jobs[r].kind # "delete"
    /\ CallFails(r, "failed")
    /\ UNCHANGED <<files, points, behind, rows>>

\* PUT or ingest of a document that has no file.
NotFound(r) ==
    /\ At(r, "new")
    /\ \E d \in Docs : files[d] = None
    /\ To(r, "failed")
    /\ UNCHANGED <<files, points, behind, rows, faults>>

\* _delete_source_from_all_collections: a deletion that fails is passed over.
Purge(r) ==
    /\ At(r, "purge")
    /\ LET next == IF jobs[r].kind = "delete" THEN "unlink" ELSE "replace"
           deleted == Without(points, Only(r))
       IN  \/ /\ Accepts(deleted, TRUE)
              /\ jobs' = [jobs EXCEPT ![r].pc = next, ![r].purged = TRUE]
              /\ UNCHANGED faults
           \/ FailsToStore(r, deleted, next)
    /\ UNCHANGED <<files, rows>>

\* Mutant: the chunks have been purged, why delete them again.
Replace_AlreadyPurged(r) ==
    /\ At(r, "replace")
    /\ To(r, "load")
    /\ UNCHANGED <<files, points, behind, rows, faults>>

\* update_single_document deletes once more, and this deletion must succeed.
Replace(r) ==
    /\ At(r, "replace")
    /\ LET deleted == Without(points, Only(r))
       IN  \/ Accepts(deleted, TRUE) /\ To(r, "load") /\ UNCHANGED faults
           \/ FailsToStore(r, deleted, "failed")
    /\ UNCHANGED <<files, rows>>

\* ingest_single_document reads the file anew and embeds its chunks.
LoadFile(r) ==
    /\ At(r, "load")
    /\ \/ /\ files[Only(r)] # None
          /\ jobs' = [jobs EXCEPT ![r].loaded = [@ EXCEPT ![Only(r)] = Loaded(Only(r))],
                                  ![r].pc = "upsert"]
          /\ UNCHANGED faults
       \/ /\ files[Only(r)] = None
          /\ To(r, "failed")
          /\ UNCHANGED faults
       \/ CallFails(r, "failed")
    /\ UNCHANGED <<files, points, behind, rows>>

\* POST /ingest: ingest_directory_to_vector_store ("add") or
\* refresh_directory_in_vector_store ("refresh") loads the whole directory.
Directory(r, kind, wait) ==
    /\ At(r, "new")
    /\ LET present == {d \in Docs : files[d] # None}
       IN  /\ present # {}
           /\ Begins(r, IF kind = "refresh" THEN "sweep" ELSE "upsert", kind, wait,
                     present, None, [d \in Docs |-> Loaded(d)])
    /\ UNCHANGED <<files, points, behind, rows, faults>>

\* The loop of refresh_directory_in_vector_store over the sources.
Sweep(r) ==
    /\ At(r, "sweep")
    /\ \E d \in jobs[r].todo :
         \/ /\ Accepts(Without(points, d), jobs[r].wait)
            /\ jobs' = [jobs EXCEPT ![r].todo = @ \ {d},
                                    ![r].pc = IF jobs[r].todo = {d} THEN "upsert" ELSE "sweep"]
            /\ UNCHANGED faults
         \/ FailsToStore(r, Without(points, d), "failed")
    /\ UNCHANGED <<files, rows>>

Upsert(r) ==
    /\ At(r, "upsert")
    /\ LET placed == Placed(points, jobs[r].loaded)
       IN  \/ /\ Accepts(placed, jobs[r].wait)
              /\ To(r, IF jobs[r].kind \in {"add", "refresh"} THEN "ok" ELSE "row")
              /\ UNCHANGED faults
           \/ FailsToStore(r, placed, "failed")
    /\ UNCHANGED <<files, rows>>

\* unlink raises when another request has removed the file.
Unlink(r) ==
    /\ At(r, "unlink")
    /\ files' = [files EXCEPT ![Only(r)] = None]
    /\ To(r, IF files[Only(r)] = None THEN "failed" ELSE "row")
    /\ UNCHANGED <<points, behind, rows, faults>>

\* KnowledgeDocumentServiceImpl: the row is put or deleted.
WriteRow(r) ==
    LET d == Only(r)
        job == jobs[r]
        written == [rows EXCEPT ![d] = IF job.kind = "delete" THEN None
                                       ELSE Row(job.version, job.loaded[d])]
    IN  /\ At(r, "row")
        /\ \/ rows' = written /\ To(r, "ok") /\ UNCHANGED faults
           \/ rows' \in {rows, written} /\ CallFails(r, "failed")
        /\ UNCHANGED <<files, points, behind>>

KnowledgeStep(r) ==
    \/ \E d \in Docs, v \in DocVersions : Create(r, d, v)
    \/ \E d \in Docs, b \in Bodies \cup {None}, g \in Groups \cup {None} : Update(r, d, b, g)
    \/ \E d \in Docs : Ingest(r, d) \/ Delete(r, d)
    \/ \E kind \in {"add", "refresh"}, wait \in BOOLEAN : Directory(r, kind, wait)
    \/ NotFound(r) \/ Write(r) \/ NoEmbeddingModel(r) \/ Purge(r) \/ Replace(r) \/ LoadFile(r)
    \/ Sweep(r) \/ Upsert(r) \/ Unlink(r) \/ WriteRow(r)

-----------------------------------------------------------------------------
(* Properties.                                                             *)

\* The collection as searches are answered from it, now and until all it has
\* accepted is carried out.
Shown == {points} \cup {behind[i] : i \in DOMAIN behind}

\* The chunks of d among ps are exactly those of version v (none if v is None).
Indexed(ps, d, v) ==
    \A s \in Slots :
        IF v # None /\ s \in ChunkIds(d, v)
        THEN ps[s] = Point(d, v)
        ELSE ps[s] = None \/ ps[s].doc # d

\* Searches see of d what its file is read as, and its row is that of v.
Settled(d, v) ==
    /\ \A ps \in Shown : Indexed(ps, d, Loaded(d))
    /\ rows[d] = IF v = None THEN None ELSE Row(v, v)

\* A request that is answered with success, and shared its document with no
\* other request, leaves the places in agreement on it, whatever earlier
\* requests left behind, whatever calls have failed, and whatever is being
\* done to other documents: no search sees a chunk of it that its file is
\* not read as, and the row is the file's.  What is agreed on is the file as
\* it was written, for a create or an update, and as it is read, for a
\* re-ingest: where a line of the body names a group the two differ.  A
\* delete leaves nothing, unless its deletion of the chunks was passed over;
\* a refresh speaks of the chunks alone, and one that did not wait of what
\* searches come to see.
SuccessSettles ==
    [][\A r \in Requests :
          LET job == jobs[r]
          IN  job.pc # "ok" /\ jobs'[r].pc = "ok" =>
              \A d \in job.alone :
                  /\ job.kind \in {"create", "update"} => Settled(d, files[d])'
                  /\ job.kind = "ingest" => Settled(d, Loaded(d))'
                  /\ job.kind = "delete" /\ job.purged => Settled(d, None)'
                  /\ job.kind = "refresh" => Indexed(points, d, Loaded(d))'
                  /\ job.kind = "refresh" /\ job.wait =>
                        (\A ps \in Shown : Indexed(ps, d, Loaded(d)))']_kbVars

\* Refuted.  A create or an update that had its document alone leaves a row
\* that names the group its chunks are filtered by: what PUT keeps of the
\* stored text is the text alone, and what is rendered is what is read.
RowTellsGroup ==
    [][\A r \in Requests :
          LET job == jobs[r]
          IN  job.pc # "ok" /\ jobs'[r].pc = "ok" /\ job.kind \in {"create", "update"} =>
              \A d \in job.alone : rows'[d].group = Loaded(d)'.group]_kbVars
=============================================================================
