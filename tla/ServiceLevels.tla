---------------------------- MODULE ServiceLevels ----------------------------
(***************************************************************************)
(* core/production_monitoring.py, core/slo_runbook.py and                  *)
(* rag/production_readiness.py: what is measured and alerted on, the       *)
(* objectives and their error budgets, what an incident calls for, and     *)
(* whether a release may go out.  Ratios, thresholds and targets are       *)
(* counted in thousandths.                                                 *)
(***************************************************************************)
EXTENDS Integers, Sequences

Whole == 1000

\* evaluate_alert_condition, for alerts, incident signals and objectives.
Meets(value, comparator, threshold) ==
    CASE comparator = ">"  -> value > threshold
      [] comparator = ">=" -> value >= threshold
      [] comparator = "<"  -> value < threshold
      [] comparator = "<=" -> value <= threshold
      [] comparator = "==" -> value = threshold

NamesDiffer(list) == \A i, j \in DOMAIN list : list[i].name = list[j].name => i = j

-----------------------------------------------------------------------------
(* Metrics and alerts.                                                     *)

LowCardinality ==
    {"route", "method", "status_code_class", "flow", "provider", "model", "model_tier",
     "operation", "dependency", "tool_name", "tool_access_level", "vector_store",
     "knowledge_base", "error_code", "fallback_reason", "rate_limit_scope",
     "safety_reason", "tenant_tier"}

HighCardinality ==
    {"trace_id", "span_id", "request_id", "session_id", "thread_id", "user_id", "actor_id",
     "order_id", "ticket_id", "email", "phone", "query", "prompt", "message"}

Metric(name, domain, labels) == [name |-> name, domain |-> domain, labels |-> labels]

Alert(name, metric, severity, comparator, threshold, window) ==
    [name |-> name, metric |-> metric, severity |-> severity, comparator |-> comparator,
     threshold |-> threshold, window |-> window]

\* validate_metric_spec
ValidMetric(m) == m.labels \cap HighCardinality = {} /\ m.labels \subseteq LowCardinality

\* validate_alert_rule
ValidAlert(r) == ~(r.window = "5m" /\ r.severity = "info")

\* validate_catalog
ValidCatalog(metrics, alerts) ==
    /\ NamesDiffer(metrics) /\ NamesDiffer(alerts)
    /\ \A i \in DOMAIN metrics : ValidMetric(metrics[i])
    /\ \A i \in DOMAIN alerts :
          ValidAlert(alerts[i]) /\ \E j \in DOMAIN metrics : metrics[j].name = alerts[i].metric

\* find_high_cardinality_metric_labels
HighCardinalityLabels(metrics) ==
    UNION {metrics[i].labels \cap HighCardinality : i \in DOMAIN metrics}

\* evaluate_alert_rule
Fires(rule, value) == Meets(value, rule.comparator, rule.threshold)

DefaultMetrics ==
    << Metric("http.server.requests", "http", {"route", "method", "status_code_class"}),
       Metric("http.server.duration", "http", {"route", "method", "status_code_class"}),
       Metric("llm.calls", "llm", {"provider", "model", "model_tier", "operation"}),
       Metric("llm.failures", "llm", {"provider", "model", "operation", "error_code"}),
       Metric("llm.fallbacks", "resilience", {"provider", "model", "operation", "fallback_reason"}),
       Metric("llm.tokens", "cost", {"provider", "model", "operation"}),
       Metric("llm.estimated_cost", "cost", {"provider", "model", "operation"}),
       Metric("rag.retrieval.duration", "rag", {"vector_store", "knowledge_base"}),
       Metric("rag.retrieval.empty_results", "rag", {"vector_store", "knowledge_base"}),
       Metric("rag.citation.failures", "rag", {"knowledge_base", "error_code"}),
       Metric("tool.calls", "tool", {"tool_name", "tool_access_level"}),
       Metric("tool.failures", "tool", {"tool_name", "error_code"}),
       Metric("java.client.duration", "java", {"operation", "error_code"}),
       Metric("rate_limit.rejections", "resilience", {"rate_limit_scope", "route"}),
       Metric("safety.blocks", "safety", {"safety_reason", "route"}) >>

DefaultAlerts ==
    << Alert("High HTTP 5xx rate", "http.server.requests", "critical", ">=", 50, "15m"),
       Alert("High p95 request latency", "http.server.duration", "warning", ">=", 5000000, "15m"),
       Alert("High LLM failure rate", "llm.failures", "critical", ">=", 100, "15m"),
       Alert("Cost burn rate high", "llm.estimated_cost", "warning", ">=", 10000, "1h"),
       Alert("RAG no-context spike", "rag.retrieval.empty_results", "warning", ">=", 200, "30m"),
       Alert("Safety block spike", "safety.blocks", "warning", ">=", 20000, "15m") >>

-----------------------------------------------------------------------------
(* Objectives, error budgets, incidents and runbooks.                      *)

Objective(name, metric, unit, comparator, target) ==
    [name |-> name, metric |-> metric, unit |-> unit, comparator |-> comparator,
     target |-> target]

\* validate_ratio_targets, and the bound on target_value.
ValidObjective(o) == o.target >= 0 /\ (o.unit = "ratio" => o.target <= Whole)

DefaultObjectives ==
    << Objective("ai_service_availability", "http.server.requests", "ratio", ">=", 995),
       Objective("chat_p95_latency", "http.server.duration", "ms", "<=", 5000000),
       Objective("llm_success_ratio", "llm.failures", "ratio", ">=", 980),
       Objective("rag_citation_quality", "rag.citation.failures", "ratio", ">=", 970),
       Objective("tool_success_ratio", "tool.failures", "ratio", ">=", 980) >>

\* What build_ratio_error_budget_snapshot accepts.
Budgeted(o, actual) == o.unit = "ratio" /\ o.comparator = ">=" /\ actual \in 0..Whole

\* build_ratio_error_budget_snapshot; the two percentages are left out.
ErrorBudget(o, actual) ==
    LET allowed  == Whole - o.target
        consumed == Whole - actual
    IN  [allowed |-> allowed, consumed |-> consumed,
         exhausted |-> IF allowed > 0 THEN consumed * 100 >= allowed * 100 ELSE TRUE]

IncidentSeverity == {"p0", "p1", "p2", "p3"}

SeverityRank == [p0 |-> 0, p1 |-> 1, p2 |-> 2, p3 |-> 3]

IncidentSignal == [severity: IncidentSeverity, value: Int, comparator: {">", ">=", "<", "<=", "=="},
                   threshold: Int]

BreachedAmong(signals) == {s \in signals : Meets(s.value, s.comparator, s.threshold)}

Highest(signals) ==
    CHOOSE p \in {s.severity : s \in signals} :
        \A s \in signals : SeverityRank[p] <= SeverityRank[s.severity]

ActionFor(severity) ==
    CASE severity = "p0" -> "escalate"
      [] severity = "p1" -> "rollback"
      [] severity = "p2" -> "degrade"
      [] severity = "p3" -> "investigate"

\* classify_incident
Incident(signals) ==
    IF BreachedAmong(signals) = {} THEN "monitor"
    ELSE ActionFor(Highest(BreachedAmong(signals)))

\* From the calmest action to the most urgent one.
Urgency == [monitor |-> 0, investigate |-> 1, degrade |-> 2, rollback |-> 3, escalate |-> 4]

Runbook(name, alerts, severity, policies, actions) ==
    [name |-> name, alerts |-> alerts, severity |-> severity, policies |-> policies,
     steps |-> [i \in DOMAIN actions |-> [order |-> i, action |-> actions[i]]]]

\* validate_step_order
ValidRunbook(r) ==
    /\ r.steps # << >>
    /\ \A i, j \in DOMAIN r.steps : i < j => r.steps[i].order < r.steps[j].order

\* IncidentResponsePlan.validate_unique_names
ValidResponsePlan(objectives, runbooks) ==
    /\ NamesDiffer(objectives) /\ NamesDiffer(runbooks)
    /\ \A i \in DOMAIN objectives : ValidObjective(objectives[i])
    /\ \A i \in DOMAIN runbooks : ValidRunbook(runbooks[i])

DefaultRunbooks ==
    << Runbook("llm_provider_failure_runbook", {"High LLM failure rate"}, "p1",
               {"llm-balanced-model-canary"}, <<"investigate", "degrade", "rollback">>),
       Runbook("high_latency_runbook", {"High p95 request latency"}, "p2",
               {"llm-balanced-model-canary", "rag-parameter-canary"},
               <<"investigate", "degrade", "rollback">>),
       Runbook("rag_quality_drop_runbook", {"RAG no-context spike"}, "p2",
               {"rag-parameter-canary"}, <<"investigate", "degrade", "rollback">>),
       Runbook("cost_burn_runbook", {"Cost burn rate high"}, "p2",
               {"llm-balanced-model-canary"}, <<"investigate", "degrade", "monitor">>) >>

\* build_default_rollout_policies of release_control.py: names and guardrails.
DefaultPolicies ==
    << [name |-> "llm-balanced-model-canary",
        guardrails |-> {"llm.failures", "http.server.duration", "llm.estimated_cost"}],
       [name |-> "rag-parameter-canary",
        guardrails |-> {"rag.retrieval.empty_results", "rag.citation.failures",
                        "http.server.duration"}],
       [name |-> "safety-policy-canary",
        guardrails |-> {"safety.blocks", "http.server.requests"}] >>

\* The defaults of the three modules, written down apart, name each other
\* rightly, and every runbook has a step for what its severity calls for.
DefaultsFit ==
    /\ ValidCatalog(DefaultMetrics, DefaultAlerts)
    /\ HighCardinalityLabels(DefaultMetrics) = {}
    /\ ValidResponsePlan(DefaultObjectives, DefaultRunbooks)
    /\ LET names(list) == {list[i].name : i \in DOMAIN list} IN
       /\ {DefaultObjectives[i].metric : i \in DOMAIN DefaultObjectives} \subseteq names(DefaultMetrics)
       /\ \A i \in DOMAIN DefaultPolicies :
             DefaultPolicies[i].guardrails \subseteq names(DefaultMetrics)
       /\ \A i \in DOMAIN DefaultRunbooks :
             LET r == DefaultRunbooks[i] IN
             /\ r.alerts \subseteq names(DefaultAlerts)
             /\ r.policies \subseteq names(DefaultPolicies)
             /\ \E k \in DOMAIN r.steps : r.steps[k].action = ActionFor(r.severity)

-----------------------------------------------------------------------------
(* The checklist a release of the RAG service has to answer.  A checklist  *)
(* says of each check whether it blocks; answers are a function from some  *)
(* of the checks, as two answers to one check and answers to unknown ones  *)
(* are refused.                                                            *)

AnswerStatus == {"passed", "warning", "failed", "not_checked"}

QualityChecks ==
    [retrieval_metrics |-> TRUE, answer_quality |-> TRUE, citation_verification |-> TRUE,
     bad_case_process |-> FALSE]

SecurityChecks ==
    [permission_filter |-> TRUE, prompt_injection |-> TRUE, safe_logging |-> TRUE,
     tool_boundaries |-> TRUE]

PerformanceChecks == [timeouts |-> TRUE, degradation |-> TRUE, cache_safety |-> TRUE]

CostChecks == [token_budget |-> FALSE, provider_fallback |-> FALSE]

ObservabilityChecks == [rag_event |-> TRUE, warning_codes |-> FALSE]

DataChecks == [update_plan |-> TRUE, metadata_validation |-> TRUE, reindex_policy |-> FALSE]

BoundaryChecks == [owner_decision |-> TRUE, write_confirmation |-> TRUE, rag_as_context |-> TRUE]

\* default_rag_production_readiness_checklist
DefaultChecklist ==
    LET both(f, g) == [c \in DOMAIN f \cup DOMAIN g |-> IF c \in DOMAIN f THEN f[c] ELSE g[c]]
    IN  both(QualityChecks, both(SecurityChecks, both(PerformanceChecks, both(CostChecks,
             both(ObservabilityChecks, both(DataChecks, BoundaryChecks))))))

\* An empty checklist stands for the default one.
Checklist(given) == IF DOMAIN given = {} THEN DefaultChecklist ELSE given

\* _answers_by_id, and the refusal of unknown checks.
Answers(checklist) == UNION {[some -> AnswerStatus] : some \in SUBSET DOMAIN checklist}

StatusOf(answers, check) == IF check \in DOMAIN answers THEN answers[check] ELSE "not_checked"

ReleaseBlockers(checklist, answers) ==
    {c \in DOMAIN checklist : checklist[c] /\ StatusOf(answers, c) \in {"failed", "not_checked"}}

\* What the report lists: every check that did not pass.
ReadinessFindings(checklist, answers) ==
    {c \in DOMAIN checklist : StatusOf(answers, c) # "passed"}

\* _release_status
ReleaseStatus(checklist, answers) ==
    IF ReleaseBlockers(checklist, answers) # {} THEN "blocked"
    ELSE IF ReadinessFindings(checklist, answers) # {} THEN "conditional"
    ELSE "ready"

Readiness == [blocked |-> 0, conditional |-> 1, ready |-> 2]
=============================================================================
