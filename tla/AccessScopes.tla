---------------------------- MODULE AccessScopes ----------------------------
(***************************************************************************)
(* Which chunks a caller may be answered from: the access scope, the       *)
(* filter a vector store is searched with, and the scope the rule router   *)
(* narrows to the knowledge bases it selects.  Lists are sets: they are    *)
(* normalised to distinct values when they are read.                       *)
(***************************************************************************)
CONSTANTS
    Texts,      \* values of metadata: stripped, not blank
    Intents,
    Words,
    Blank,      \* "", what Milvus stores for a missing value
    NotGiven

SingleKeys == {"tenant_id", "owner_user_id"}

RoutedKeys == {"permission_group", "business_domain", "doc_type"}

ListKeys == RoutedKeys \cup {"source", "visibility", "status"}

\* FILTERABLE_METADATA_KEYS
Keys == SingleKeys \cup ListKeys

Metadata == [Keys -> Texts \cup {NotGiven}]

\* RagAccessScope: what is NotGiven or empty restricts nothing.
Scope == [one: [SingleKeys -> Texts \cup {NotGiven}],
          any: [ListKeys -> SUBSET Texts],
          excluded: SUBSET Texts]

\* metadata_matches_access_scope
InScope(metadata, scope) ==
    /\ \A k \in SingleKeys : scope.one[k] \in {NotGiven, metadata[k]}
    /\ \A k \in ListKeys : scope.any[k] = {} \/ metadata[k] \in scope.any[k]
    /\ metadata["status"] \notin scope.excluded

(* Filters: groups of conditions on one key each.                          *)

Condition == [key: Keys, any: SUBSET Texts]

PayloadFilter == [must: SUBSET Condition, should: SUBSET Condition,
                  mustNot: SUBSET Condition]

\* build_match_condition, build_match_any_condition: none for what is not given.
Single(key, text) ==
    IF text = NotGiven THEN {} ELSE {[key |-> key, any |-> {text}]}

AnyOf(key, texts) ==
    IF texts = {} THEN {} ELSE {[key |-> key, any |-> texts]}

\* build_access_scope_filter
FilterOf(scope) ==
    [must |-> (UNION {Single(k, scope.one[k]) : k \in SingleKeys})
                \cup (UNION {AnyOf(k, scope.any[k]) : k \in ListKeys}),
     should |-> {},
     mustNot |-> AnyOf("status", scope.excluded)]

\* combine_payload_filters: each group is extended by that of the other.
Combined(f, g) ==
    [must |-> f.must \cup g.must,
     should |-> f.should \cup g.should,
     mustNot |-> f.mustNot \cup g.mustNot]

\* build_milvus_entity: what is stored of the metadata.
Entity(metadata) == [k \in Keys |-> IF metadata[k] = NotGiven THEN Blank ELSE metadata[k]]

\* The expression Milvus evaluates for a filter.
Holds(condition, payload) == payload[condition.key] \in condition.any

Passes(f, payload) ==
    /\ \A c \in f.must : Holds(c, payload)
    /\ f.should = {} \/ \E c \in f.should : Holds(c, payload)
    /\ \A c \in f.mustNot : ~Holds(c, payload)

(* The rule router.                                                        *)

\* RagKnowledgeBaseDefinition
KnowledgeBase == [intents: SUBSET Intents, keywords: SUBSET Words, fallback: BOOLEAN,
                  lists: [RoutedKeys -> SUBSET Texts]]

\* Every knowledge base of default_rag_knowledge_bases names its groups,
\* domains and types.
NamesItsLists(base) == \A k \in RoutedKeys : base.lists[k] # {}

\* _intersect_if_restricted
Narrowed(own, restricted) ==
    IF restricted = {} THEN own ELSE own \cap restricted

\* _build_route_scope: NotGiven when nothing of a named list is left.
RouteScope(base, scope) ==
    LET lists == [k \in RoutedKeys |-> Narrowed(base.lists[k], scope.any[k])] IN
    IF \E k \in RoutedKeys : base.lists[k] # {} /\ lists[k] = {} THEN NotGiven
    ELSE [scope EXCEPT !.any =
            [k \in ListKeys |-> IF k \in RoutedKeys THEN lists[k] ELSE scope.any[k]]]

\* RuleBasedRagKnowledgeRouter.route: the bases it ranks and takes the first of.
Candidates(bases, intent, words, scope) ==
    {base \in bases :
        /\ intent \in base.intents
        /\ base.keywords \cap words # {} \/ base.fallback
        /\ RouteScope(base, scope) # NotGiven}
=============================================================================
