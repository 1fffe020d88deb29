---------------------------- MODULE MCRagAnswers ----------------------------
(* RagAnswers on small instances. *)
EXTENDS RagAnswers, TLC

CONSTANTS d1, d2, r1, r2, r3

MCBase == (d1 :> "refund_policy") @@ (d2 :> "shipping")
MCChunksOf == ("long" :> 2) @@ ("short" :> 1) @@ ("staffed" :> 1)
MCStripped == ("long" :> "short") @@ ("short" :> "short") @@ ("staffed" :> "staffed")
MCNamed == ("long" :> None) @@ ("short" :> None) @@ ("staffed" :> "staff")
MCFiles == (d1 :> [body |-> "long", group |-> "public"]) @@ (d2 :> None)
Symmetry == Permutations(Requests)

\* KnowledgeUpdates for one source.
Updates ==
    INSTANCE KnowledgeUpdates WITH
        Sources <- {"s"}, Contents <- 1..2, Summaries <- 1..2, Others <- 1..2, NoDocument <- None

\* PlanBringsUpToDate and ChangedIsInvalidated on this instance.
ASSUME PlansAreComplete ==
    \A old, new \in Updates!Folder, store \in [{"s"} -> SUBSET Updates!Document],
       force \in BOOLEAN :
        LET plan == Updates!UpdatePlan(Updates!Manifest(old), Updates!Manifest(new), force)
            after == Updates!Applied(store, plan, new)
        IN  /\ Updates!UpToDate(store, old) => Updates!UpToDate(after, new)
            /\ after # store => Updates!Invalidated(plan) = {"s"}

\* AccessScopes with two texts.
Access ==
    INSTANCE AccessScopes WITH
        Texts <- {"a", "b"}, Intents <- {"policy"}, Words <- {"refund"}, Blank <- "",
        NotGiven <- None

\* Scopes and metadata that tell only the keys the router narrows.
RoutedScopes ==
    {[one |-> [k \in Access!SingleKeys |-> None],
      any |-> [k \in Access!ListKeys |-> IF k \in Access!RoutedKeys THEN lists[k] ELSE {}],
      excluded |-> {}] : lists \in [Access!RoutedKeys -> SUBSET {"a", "b"}]}

RoutedMetadata ==
    {[k \in Access!Keys |-> IF k \in Access!RoutedKeys THEN texts[k] ELSE None] :
        texts \in [Access!RoutedKeys -> {"a", "b", None}]}

\* ScopeAlwaysApplies and RoutesNarrow on this instance.
ASSUME ScopesAreKept ==
    \A scope \in RoutedScopes, metadata \in RoutedMetadata :
        /\ \A text \in {"a", "b"}, status \in {"a", None}, excluded \in SUBSET {"a", "b"} :
              LET s == [scope EXCEPT !.one["tenant_id"] = text, !.excluded = excluded]
                  m == [metadata EXCEPT !["tenant_id"] = "a", !["status"] = status]
                  f == [must |-> Access!Single("source", text),
                        should |-> Access!AnyOf("status", excluded), mustNot |-> {}]
                  stored == Access!Entity(m)
              IN  /\ Access!Passes(Access!FilterOf(s), stored) <=> Access!InScope(m, s)
                  /\ Access!Passes(Access!Combined(Access!FilterOf(s), f), stored)
                        <=> Access!InScope(m, s) /\ Access!Passes(f, stored)
        /\ \A lists \in [Access!RoutedKeys -> SUBSET {"a", "b"}] :
              LET base == [intents |-> {"policy"}, keywords |-> {}, fallback |-> TRUE,
                           lists |-> lists]
                  route == Access!RouteScope(base, scope)
              IN  /\ base \in Access!Candidates({base}, "policy", {"refund"}, scope)
                  /\ Access!NamesItsLists(base)
                  /\ Access!InScope(metadata, route)
                  => Access!InScope(metadata, scope)

Citations == INSTANCE CitationChecks

SomeChunks ==
    UNION {[1..n -> [id: {"i", "j"}, source: {"s", ""}, title: {"t"}, section: {""},
                     terms: {{}, {"w"}}]] : n \in 0..2}

\* BuiltCitationsAreValid and ValidMeansTraceable on this instance, for answers
\* as they are built and for answers with one other citation.
ASSUME CitationsAreTraceable ==
    \A chunks \in SomeChunks, terms \in {{}, {"v", "w"}} :
        LET built  == Citations!AnswerFor(terms, chunks)
            policy == Citations!DefaultCitationPolicy
            others ==
                {[built EXCEPT !.status = "answered",
                               !.citations = Append(built.citations, c)] :
                    c \in [index: 1..2, id: {"i", "j"}, source: {"s", "unknown-source"},
                           title: {"t"}, section: {""}]}
        IN  Citations!DistinctChunks(chunks) =>
                /\ Citations!IsValidAnswer(built, chunks, policy)
                /\ \A answer \in others :
                      Citations!IsValidAnswer(answer, chunks, policy)
                        <=> \A k \in DOMAIN answer.citations :
                               Citations!LeadsToItsChunk(answer.citations[k], chunks)
=============================================================================
