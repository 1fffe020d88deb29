------------------------------- MODULE Releases -------------------------------
(***************************************************************************)
(* release_control.py: which version of a model, a prompt or a parameter   *)
(* set a subject gets while a candidate is rolled out, and what the        *)
(* guardrail signals advise.                                               *)
(***************************************************************************)
EXTENDS Naturals, Sequences

CONSTANTS
    PolicyNames,
    Subjects,
    Tiers,      \* tenant tiers
    Versions,
    Bucket      \* Bucket[name][subject]: the digest of both, modulo 100

Buckets == [PolicyNames -> [Subjects -> 0..99]]

\* RolloutStatus
RolloutStatus == {"disabled", "internal", "canary", "expanded", "full", "rolled_back"}

\* RolloutPolicy and what validate_status_and_percentage demands; no tier
\* named means every tier.
RolloutPolicy ==
    {p \in [name: PolicyNames, status: RolloutStatus, stable: Versions, candidate: Versions,
            percentage: 0..100, tiers: SUBSET Tiers] :
        /\ p.status \in {"disabled", "rolled_back"} => p.percentage = 0
        /\ p.status = "full" => p.percentage = 100}

\* stable_percentage_bucket
InCanary(p, subject) == Bucket[p.name][subject] < p.percentage

EnabledFor(p, tier) == p.tiers = {} \/ tier \in p.tiers

\* assign_rollout_version: who gets the candidate.
Selected(p, subject, tier) ==
    /\ p.status \notin {"disabled", "rolled_back"}
    /\ EnabledFor(p, tier)
    /\ p.status \in {"internal", "full"} \/ InCanary(p, subject)

Version(p, subject, tier) == IF Selected(p, subject, tier) THEN p.candidate ELSE p.stable

\* RollbackSeverity, for signals in a sequence.
Severities == {"critical", "warning"}

Has(signals, severity) == \E i \in DOMAIN signals : signals[i] = severity

\* build_rollback_decision
Decision(signals) ==
    IF Has(signals, "critical") THEN "rollback"
    ELSE IF Has(signals, "warning") THEN "hold"
    ELSE "continue"

\* From the mildest decision to the hardest.
Harshness == [continue |-> 0, hold |-> 1, rollback |-> 2]

\* q rolls the same candidate out further than p.
Widens(p, q) ==
    /\ q.name = p.name /\ q.candidate = p.candidate
    /\ p.status \in {"canary", "expanded"} /\ q.status \in {"canary", "expanded", "full"}
    /\ p.percentage <= q.percentage
    /\ q.tiers = {} \/ (p.tiers # {} /\ p.tiers \subseteq q.tiers)
=============================================================================
