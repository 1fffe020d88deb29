------------------------------ MODULE EvalGates ------------------------------
(***************************************************************************)
(* evaluation/eval_platform.py, evaluation/snapshot_store.py and           *)
(* agents/eval_suite.py: what an evaluation run amounts to, when it counts *)
(* as worse than the run before it, and which runs are remembered; and     *)
(* agents/bad_case_analysis.py with evaluation/bad_case_registry.py: what  *)
(* a failed case is taken for.  Rates are counted in millionths, the six   *)
(* digits _ratio rounds to.                                                *)
(***************************************************************************)
EXTENDS Integers, Sequences, FiniteSets, FiniteSetsExt

Million == 1000000

-----------------------------------------------------------------------------
(* A run of the agent suites over the selected cases.                      *)

\* filter_agent_eval_cases: an empty priority or no tags select everything.
SelectedCases(cases, tags, priority) ==
    {c \in cases : (priority # "" => c.priority = priority) /\ tags \subseteq c.tags}

\* run_agent_eval_suites_for_cases: a suite passes that has no failed case, a
\* run that has no failed suite.
RunReport(suites) ==
    [suites    |-> Len(suites),
     failing   |-> Cardinality({i \in DOMAIN suites : suites[i].failed > 0}),
     evaluated |-> MapThenSumSet(LAMBDA i : suites[i].cases, DOMAIN suites),
     failed    |-> MapThenSumSet(LAMBDA i : suites[i].failed, DOMAIN suites)]

\* The numbers a report can have: there is always a suite, and a case.
Reports ==
    {r \in [suites: Nat, failing: Nat, evaluated: Nat, failed: Nat] :
        /\ r.suites > 0 /\ r.evaluated > 0
        /\ r.failing <= r.suites /\ r.failed <= r.evaluated
        /\ r.failing = 0 <=> r.failed = 0}

\* _ratio
Ratio(part, all) ==
    IF all <= 0 THEN Million ELSE (2 * part * Million + all) \div (2 * all)

Directions == {"higher_is_better", "lower_is_better"}

RunMetric(value, direction) == [value |-> value, direction |-> direction]

\* build_agent_eval_run_snapshot
RunSnapshot(report, dataset) ==
    [dataset |-> dataset, failed |-> report.failed, passed |-> report.failing = 0,
     metrics |->
        [suite_pass_rate |->
            RunMetric(Ratio(report.suites - report.failing, report.suites), "higher_is_better"),
         check_pass_rate |->
            RunMetric(Ratio(report.evaluated - report.failed, report.evaluated), "higher_is_better"),
         failed_suites |-> RunMetric(report.failing * Million, "lower_is_better"),
         failed_checks |-> RunMetric(report.failed * Million, "lower_is_better")]]

\* Any snapshot, of whatever metrics; a dataset is its name and version.
IsSnapshot(s) ==
    /\ s.failed \in Nat /\ s.passed \in BOOLEAN
    /\ \A m \in DOMAIN s.metrics :
          s.metrics[m].value \in Int /\ s.metrics[m].direction \in Directions

-----------------------------------------------------------------------------
(* Comparing a run with the one before it.                                 *)

CommonMetrics(base, new) == DOMAIN base.metrics \cap DOMAIN new.metrics

\* What compare_eval_run_snapshots does not raise ValueError for.
Comparable(base, new, tolerance) ==
    /\ base.dataset = new.dataset /\ tolerance >= 0
    /\ \A m \in CommonMetrics(base, new) :
          base.metrics[m].direction = new.metrics[m].direction

\* _compare_metric
Regressed(base, new, tolerance) ==
    IF base.direction = "higher_is_better" THEN new.value < base.value - tolerance
                                           ELSE new.value > base.value + tolerance

RegressedMetrics(base, new, tolerance) ==
    {m \in CommonMetrics(base, new) : Regressed(base.metrics[m], new.metrics[m], tolerance)}

\* _build_regression_blocking_reasons
Blocks(base, new, tolerance) ==
    \/ RegressedMetrics(base, new, tolerance) # {}
    \/ base.passed /\ ~new.passed
    \/ new.failed > base.failed

-----------------------------------------------------------------------------
(* The snapshots that are kept, and what the overview shows of them.       *)

DefaultMaxSnapshots == 50

\* snapshots[-max:] after the append: with a maximum of zero all are kept.
Trimmed(list, max) ==
    IF max = 0 \/ Len(list) <= max THEN list ELSE SubSeq(list, Len(list) - max + 1, Len(list))

\* A file that cannot be read is neither compared with nor written again.
SnapshotFile(snapshots) == [readable: BOOLEAN, list: Seq(snapshots)]

\* SnapshotStore.save, which reads the file before it replaces it.
SavedSnapshots(file, new, max) ==
    IF file.readable THEN [readable |-> TRUE, list |-> Trimmed(Append(file.list, new), max)]
    ELSE file

\* evaluation_overview: the run is compared with the latest snapshot, if there
\* is one of the same dataset, and then becomes the latest one itself.
ComparedWith(file, new) ==
    IF file.readable /\ file.list # << >> /\ file.list[Len(file.list)].dataset = new.dataset
    THEN {file.list[Len(file.list)]} ELSE {}

RegressionShown(file, new) == \E base \in ComparedWith(file, new) : Blocks(base, new, 0)

-----------------------------------------------------------------------------
(* Failed cases.  Evidence is the set of telling words in a case's lines.  *)

EvalSuites == {"intent", "field", "route", "rag"}

RouteWords == {"expected_path", "actual_path", "forbidden_nodes", "missing_required_nodes"}

EvidenceWords ==
    RouteWords \cup {"missing_sources", "expected_sources", "should_create_ticket",
                     "ticket_need_source", "field_accuracy", "missing_fields",
                     "expected=", "actual="}

\* _classify_bad_case_category
Category(suite, evidence) ==
    LET mentions(words) == evidence \cap words # {} IN
    IF mentions({"missing_sources"}) \/ (suite = "rag" /\ mentions({"expected_sources"}))
      THEN "rag_retrieval_or_citation"
    ELSE IF mentions({"should_create_ticket", "ticket_need_source"})
      THEN "agent_decision_after_rag"
    ELSE IF suite = "route" \/ mentions(RouteWords)
      THEN "agent_routing"
    ELSE IF suite = "field" \/ mentions({"field_accuracy", "missing_fields"})
      THEN "ticket_field_extraction"
    ELSE IF suite = "intent" \/ mentions({"expected=", "actual="})
      THEN "intent_classification"
    ELSE "unknown"

\* _map_analysis_category_to_failure_layer
FailureLayer(category) ==
    CASE category = "intent_classification"     -> "intent"
      [] category = "ticket_field_extraction"   -> "field_extraction"
      [] category = "agent_routing"             -> "routing"
      [] category = "rag_retrieval_or_citation" -> "rag_citation"
      [] category = "agent_decision_after_rag"  -> "agent_decision"
      [] OTHER                                  -> "unknown"

\* _severity_from_priority
CaseSeverity(priority) ==
    CASE priority = "p0" -> "critical" [] priority = "p1" -> "high" [] OTHER -> "medium"

\* build_bad_case_record_from_analysis_item: the id is made of the case and
\* of the layer, and cases without one are all called "unknown".
GeneratedCase(suite, case, priority, evidence) ==
    LET layer == FailureLayer(Category(suite, evidence)) IN
    [id |-> <<IF case = "unknown_case" THEN "unknown" ELSE case, layer>>, source |-> "eval",
     status |-> "open", severity |-> CaseSeverity(priority), layer |-> layer]

\* _load_or_generate_bad_cases, of sets of records with different ids; of two
\* records of one id the registered one is shown.  The file is left alone.
ShownCases(registered, generated) ==
    IF registered # {} /\ \A r \in registered : r.source # "production" THEN registered
    ELSE registered \cup {g \in generated : \A r \in registered : r.id # g.id}

\* build_bad_case_registry_summary
CaseSummary(cases) ==
    [records |-> Cardinality(cases),
     open    |-> Cardinality({c \in cases : c.status = "open"}),
     added   |-> Cardinality({c \in cases : c.status = "regression_added"})]

\* mark_bad_case_regression_added
RegressionAdded(case) == [case EXCEPT !.status = "regression_added"]

\* ProductionRegressionSpec: an assertion has its own field and no other.
AssertionField ==
    [intent |-> {"expected_intent"}, citation_present |-> {}, ticket_confirmation_required |-> {},
     tool_called |-> {"expected_tool"}, must_ask_for |-> {"must_ask_fields"},
     must_not_reveal |-> {"must_not_reveal_terms"}]

ValidRegressionSpec(assertion, given) == given = AssertionField[assertion]
=============================================================================
