---------------------------- MODULE RuleDiagnoser ----------------------------
(***************************************************************************)
(* The offline rule engine of the operator (internal/diagnosis/rules.go)   *)
(* and the evidence levels it is run at (internal/evidence).               *)
(*                                                                         *)
(* A bundle is a set of evidence items.  A text (an item's resource or     *)
(* message) is the set of the keywords that occur in it, so that "the text *)
(* contains one of" is a non-empty intersection.                           *)
(***************************************************************************)
EXTENDS Sequences, FiniteSetsExt

EvidenceTypes == {"GitDiff", "ChangedFile", "KubernetesEvent", "PodLog", "JobLog", "TestResult",
                  "TraceSpan", "Metric", "PreviewCondition", "ReconcileEvent"}

Levels == <<"C1", "C2", "C3", "C4", "C5">>

\* BundleFromReportAtLevel: what one C5 capture shows at a lower level.
EvidenceTypesForLevel(level) ==
  CASE level = "C1" -> {"PodLog", "JobLog"}
    [] level = "C2" -> {"PodLog", "JobLog", "KubernetesEvent"}
    [] level = "C3" -> {"PodLog", "JobLog", "KubernetesEvent", "TestResult"}
    [] OTHER        -> EvidenceTypes

BundleFromReportAtLevel(report, level) ==
  {it \in report : it.type \in EvidenceTypesForLevel(level)}

-----------------------------------------------------------------------------

ContainsAny(text, subs) == text \intersect subs # {}

\* firstItem(...) # nil, for an item of one of the types whose message says so.
Says(b, types, subs) == \E it \in b : it.type \in types /\ ContainsAny(it.message, subs)

IsFailureItem(it) ==
  \/ it.relevance = "high"
  \/ ContainsAny(it.message, {"phase=failed", "failed=1", "failed=2", "failed=3",
                              "failed=4", "failed=5", "backofflimitexceeded"})

FailedSuite(b, suite) ==
  \E it \in b : it.type = "TestResult" /\ it.resource = {suite} /\ IsFailureItem(it)

ChangedFileRefs(b, hints) ==
  {it \in b : /\ it.type = "ChangedFile"
              /\ ContainsAny(it.resource, hints) \/ ContainsAny(it.message, hints)}

HasInfraSymptom(b) ==
  Says(b, EvidenceTypes, {"crashloopbackoff", "imagepullbackoff", "errimagepull",
                          "readiness probe failed", "liveness probe failed", "oomkilled"})

HasErrorLog(b) ==
  Says(b, {"PodLog", "JobLog"}, {"traceback", "exception", "error:", "syntax error",
                                 "connection refused", "keyerror"})

-----------------------------------------------------------------------------
(* One operator per rule: does it match?  Confidence, references and      *)
(* recommendations are left out.                                           *)

RuleInvalidMigration(b) ==
  Says(b, {"JobLog", "PodLog"},
       {"syntax error", "programmingerror", "operationalerror", "integrityerror",
        "datatypemismatch", "sqlalchemy.exc", "psycopg2.error",
        "traceback (most recent call last)"})

RuleImagePull(b) ==
  Says(b, {"KubernetesEvent"},
       {"imagepullbackoff", "errimagepull", "failed to pull image", "not found: manifest unknown"})

RuleMissingConfig(b) ==
  Says(b, {"PodLog", "JobLog"},
       {"keyerror", "environment variable", "is not set", "not configured",
        "missing required", "missingconfiguration"})

RuleDBReadiness(b) ==
  Says(b, {"PodLog", "JobLog"},
       {"connection refused", "could not connect", "could not translate host",
        "the database system is starting up", "connection timed out", "operationalerror"})

RuleServiceSelector(b) ==
  Says(b, EvidenceTypes,
       {"no endpoints", "endpoints not available", "failed to find any endpoints",
        "no active endpoints"})

RuleContractBreak(b) == FailedSuite(b, "contract")

RuleLatencyTimeout(b) ==
  /\ \/ Says(b, {"TraceSpan"}, {"slow", "latency", "duration", "exceeded"})
     \/ Says(b, {"PodLog", "TestResult"}, {"timeout", "timed out", "deadline exceeded"})
  /\ ~HasInfraSymptom(b)

RuleFrontendBreak(b) ==
  /\ FailedSuite(b, "e2e")
  /\ ChangedFileRefs(b, {"frontend", "ui", ".js", ".ts", ".jsx", ".tsx", ".html", ".css"}) # {}

RuleSeedData(b) ==
  \/ \E it \in b : it.type \in {"JobLog", "PodLog"} /\ ContainsAny(it.resource, {"seed"})
  \/ FailedSuite(b, "regression")

RuleFlakyTest(b) ==
  /\ \E it \in b : it.type = "TestResult" /\ IsFailureItem(it)
  /\ ~HasInfraSymptom(b)
  /\ ~HasErrorLog(b)

\* The first rule that matches decides.
OrderedRules(b) ==
  <<[match |-> RuleInvalidMigration(b), component |-> "migration-job"],
    [match |-> RuleImagePull(b),        component |-> "app-deployment"],
    [match |-> RuleMissingConfig(b),    component |-> "app-deployment"],
    [match |-> RuleDBReadiness(b),      component |-> "app-deployment"],
    [match |-> RuleServiceSelector(b),  component |-> "service"],
    [match |-> RuleContractBreak(b),    component |-> "backend"],
    [match |-> RuleLatencyTimeout(b),   component |-> "backend"],
    [match |-> RuleFrontendBreak(b),    component |-> "frontend"],
    [match |-> RuleSeedData(b),         component |-> "seed-job"],
    [match |-> RuleFlakyTest(b),        component |-> "test-suite"]>>

Diagnose(b) ==
  LET rules == OrderedRules(b)
      hits == {i \in DOMAIN rules : rules[i].match}
  IN  IF hits = {} THEN "unknown" ELSE rules[Min(hits)].component
=============================================================================
