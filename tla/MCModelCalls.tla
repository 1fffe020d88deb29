---------------------------- MODULE MCModelCalls ----------------------------
(* A small instance of ModelCalls. *)
EXTENDS ModelCalls, TLC

CONSTANTS r1, r2, c1, m1, m2

TwoRequests == {r1, r2}
OneClient == {c1}
TwoModels == [fast |-> m1, balanced |-> m1, strong |-> m2]
SmallLimits == [client |-> 2, route |-> 2, ai |-> 1, tool |-> 1]
SmallInputs == {2, 7, 8, 10}

Symmetric == Permutations(TwoRequests)

\* Releases with two policies and a few shares.
Rollouts ==
    INSTANCE Releases WITH
        PolicyNames <- {"p"}, Subjects <- {"u", "v"}, Tiers <- {"internal"}, Versions <- {"old", "new"},
        Bucket <- [n \in {"p"} |-> ("u" :> 0) @@ ("v" :> 99)]

SomePolicies ==
    [name: {"p"}, status: Rollouts!RolloutStatus, stable: {"old"}, candidate: {"new"},
     percentage: {0, 1, 99, 100}, tiers: SUBSET {"internal"}]

\* WideningKeepsCandidates and SignalsNeverSoften on this instance.
ASSUME RolloutsAreStable ==
    /\ \A p, q \in SomePolicies, subject \in {"u", "v"}, tier \in {"internal", "other"} :
          /\ Rollouts!Widens(p, q) /\ Rollouts!Selected(p, subject, tier)
          /\ q.status = "full" => q.percentage = 100
          => Rollouts!Version(q, subject, tier) = "new"
    /\ LET some == UNION {[1..n -> Rollouts!Severities] : n \in 0..2} IN
       \A s, t \in some :
          Rollouts!Harshness[Rollouts!Decision(s)] <= Rollouts!Harshness[Rollouts!Decision(s \o t)]

Levels == INSTANCE ServiceLevels

SomeSignals ==
    {[severity |-> p, value |-> v, comparator |-> ">=", threshold |-> 1] :
        p \in Levels!IncidentSeverity, v \in {0, 1}}

SomeChecklist == [c1 |-> TRUE, c2 |-> TRUE, c3 |-> FALSE]

\* The defaults of monitoring, objectives, runbooks and rollouts fit together,
\* and MoreSignalsNeverCalm, MissedMeansSpent and SilenceNeverHelps hold here.
ASSUME LevelsAreKept ==
    /\ Levels!DefaultsFit
    /\ \A s, t \in SUBSET SomeSignals :
          s \subseteq t => Levels!Urgency[Levels!Incident(s)] <= Levels!Urgency[Levels!Incident(t)]
    /\ \A o \in {Levels!Objective("o", "m", "ratio", ">=", target) : target \in {0, 1, 998, 999, 1000}},
          actual \in {0, 1, 997, 998, 999, 1000} :
          LET spent == Levels!ErrorBudget(o, actual).exhausted IN
          /\ ~Levels!Meets(actual, o.comparator, o.target) => spent
          /\ spent /\ o.target < Levels!Whole => actual <= o.target
    /\ Levels!Checklist(<< >>) = Levels!DefaultChecklist
    /\ \A a \in Levels!Answers(SomeChecklist), given \in SUBSET DOMAIN SomeChecklist :
          LET b == [c \in given \cap DOMAIN a |-> a[c]] IN
          /\ Levels!Readiness[Levels!ReleaseStatus(SomeChecklist, b)]
                <= Levels!Readiness[Levels!ReleaseStatus(SomeChecklist, a)]
          /\ Levels!ReleaseStatus(SomeChecklist, a) = "ready"
                <=> a = [c \in DOMAIN SomeChecklist |-> "passed"]

Gates == INSTANCE EvalGates

SomeReports ==
    {Gates!RunReport(suites) :
        suites \in UNION {[1..n -> {r \in [cases: 0..2, failed: 0..2] : r.failed <= r.cases}] : n \in 1..2}}

SomeRuns ==
    {Gates!RunSnapshot(report, d) :
        report \in {r \in SomeReports : r.evaluated > 0}, d \in {"d", "e"}}

SomeFiles == [readable: BOOLEAN, list: UNION {[1..n -> SomeRuns] : n \in 0..1}]

\* A report of suites is one of Reports; SameRunPasses, PassedRunPasses,
\* NothingIsLostBetween, LatestIsKept and ShownOnlyOnce hold here, and a failed
\* case of the rag suite, which always tells the sources it expected, is never
\* taken for a wrong decision after the retrieval.
ASSUME GatesAreSound ==
    /\ \A r \in SomeReports : r.evaluated > 0 => r \in Gates!Reports
    /\ \A a, b \in SomeRuns, tolerance \in {0, 200000} :
          /\ Gates!IsSnapshot(a)
          /\ Gates!Comparable(a, b, tolerance) <=> a.dataset = b.dataset
          /\ ~Gates!Blocks(a, a, tolerance)
          /\ b.passed => ~Gates!Blocks(a, b, tolerance)
          /\ \A c \in SomeRuns :
                ~Gates!Blocks(a, b, 0) /\ ~Gates!Blocks(b, c, 0) => ~Gates!Blocks(a, c, 0)
    /\ \A file \in SomeFiles, run \in SomeRuns, max \in {1, Gates!DefaultMaxSnapshots} :
          LET after == Gates!SavedSnapshots(file, run, max) IN
          /\ ~Gates!RegressionShown(after, run)
          /\ file.readable => Len(after.list) <= max /\ after.list[Len(after.list)] = run
    /\ \A words \in SUBSET Gates!EvidenceWords :
          "expected_sources" \in words => Gates!Category("rag", words) = "rag_retrieval_or_citation"
=============================================================================
