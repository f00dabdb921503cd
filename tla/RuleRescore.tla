----------------------------- MODULE RuleRescore -----------------------------
(***************************************************************************)
(* The port of the operator's rules to Python and its second version       *)
(* (analysis/11-rule-rescore.py).  v2 is FALSE for the port of the frozen  *)
(* rules, TRUE for the fixes.  Texts are sets of keywords, as in           *)
(* RuleDiagnoser.                                                          *)
(***************************************************************************)
EXTENDS Sequences, FiniteSetsExt

T_LOGS == {"PodLog", "JobLog"}

LEVEL_TYPES(level, all) ==
  CASE level = "C1" -> T_LOGS
    [] level = "C2" -> T_LOGS \union {"KubernetesEvent"}
    [] level = "C3" -> T_LOGS \union {"KubernetesEvent", "TestResult"}
    [] OTHER        -> all

filter_to_level(items, level) ==
  {it \in items : it.type \in LEVEL_TYPES(level, {i.type : i \in items})}

contains_any(s, subs) == s \intersect subs # {}

is_failure_item(it) ==
  \/ it.relevance = "high"
  \/ contains_any(it.message, {"phase=failed", "failed=1", "failed=2", "failed=3",
                               "failed=4", "failed=5", "backofflimitexceeded"})

first_item(items, types, subs) ==
  \E it \in items : it.type \in types /\ contains_any(it.message, subs)

failed_suite(items, suite) ==
  \E it \in items : it.type = "TestResult" /\ it.resource = {suite} /\ is_failure_item(it)

changed_file_refs(items, hints) ==
  \E it \in items : it.type = "ChangedFile" /\ contains_any(it.resource \union it.message, hints)

changed_file_refs_resource_only(items, hints) ==
  \E it \in items : it.type = "ChangedFile" /\ contains_any(it.resource, hints)

has_infra_symptom(items) ==
  \E it \in items :
    contains_any(it.message, {"crashloopbackoff", "imagepullbackoff", "errimagepull",
                              "readiness probe failed", "liveness probe failed", "oomkilled"})

has_error_log(items) ==
  first_item(items, T_LOGS, {"traceback", "exception", "error:", "syntax error",
                             "connection refused", "keyerror"})

-----------------------------------------------------------------------------

SQL_ERROR_KEYWORDS_V2 ==
  {"syntax error", "programmingerror", "operationalerror", "integrityerror",
   "datatypemismatch", "sqlalchemy.exc", "psycopg2.error"}
SQL_ERROR_KEYWORDS == SQL_ERROR_KEYWORDS_V2 \union {"traceback (most recent call last)"}
MIGRATION_RESOURCE_HINTS == {"migration", "alembic", "migrate"}

rule_invalid_migration(items, v2) ==
  \E it \in items :
    /\ it.type \in T_LOGS
    /\ IF v2 THEN /\ contains_any(it.resource, MIGRATION_RESOURCE_HINTS)
                  /\ contains_any(it.message, SQL_ERROR_KEYWORDS_V2)
             ELSE contains_any(it.message, SQL_ERROR_KEYWORDS)

rule_image_pull(items) ==
  first_item(items, {"KubernetesEvent"},
    {"imagepullbackoff", "errimagepull", "failed to pull image", "not found: manifest unknown"})

rule_missing_config(items) ==
  first_item(items, T_LOGS, {"keyerror", "environment variable", "is not set", "not configured",
                             "missing required", "missingconfiguration"})

rule_db_readiness(items) ==
  first_item(items, T_LOGS,
    {"connection refused", "could not connect", "could not translate host",
     "the database system is starting up", "connection timed out", "operationalerror"})

rule_service_selector(items) ==
  \E it \in items :
    contains_any(it.message, {"no endpoints", "endpoints not available",
                              "failed to find any endpoints", "no active endpoints"})

BACKEND_FILES == {"app.py", "/api/", "/route", "/controller", "/handler", "backend/"}
FRONTEND_FILES == {"frontend", "ui", ".js", ".ts", ".jsx", ".tsx", ".html", ".css", "frontend.py"}
SEED_FILES == {"seed", "ai-seed"}
TEST_FILES == {"tests/", "/test_", "_test.py", "conftest"}

\* The contract rule also defers to files it knows by a name of their own.
rule_contract_break(items, v2) ==
  /\ failed_suite(items, "contract")
  /\ v2 => ~(/\ changed_file_refs_resource_only(items,
                  UNION {FRONTEND_FILES, SEED_FILES, TEST_FILES,
                         {"regression", "test_app.py", "test_seed.py", "test_smoke.py"}})
             /\ ~changed_file_refs_resource_only(items, BACKEND_FILES))

rule_latency_timeout(items) ==
  /\ \/ first_item(items, {"TraceSpan"}, {"slow", "latency", "duration", "exceeded"})
     \/ first_item(items, {"PodLog", "TestResult"}, {"timeout", "timed out", "deadline exceeded"})
  /\ ~has_infra_symptom(items)

rule_frontend_break(items) ==
  /\ failed_suite(items, "e2e")
  /\ changed_file_refs(items, FRONTEND_FILES \ {"frontend.py"})

rule_seed_data(items) ==
  \/ \E it \in items : it.type \in T_LOGS /\ contains_any(it.resource, {"seed"})
  \/ failed_suite(items, "regression")

rule_flaky_test(items) ==
  /\ \E it \in items : it.type = "TestResult" /\ is_failure_item(it)
  /\ ~has_infra_symptom(items)
  /\ ~has_error_log(items)

-----------------------------------------------------------------------------

\* Mutant: a changed file of the backend does not count.
RoutesAnyway(items) ==
  changed_file_refs_resource_only(items, UNION {FRONTEND_FILES, SEED_FILES, TEST_FILES})

has_offsite_routing(items) ==
  /\ ~changed_file_refs_resource_only(items, BACKEND_FILES)
  /\ changed_file_refs_resource_only(items, UNION {FRONTEND_FILES, SEED_FILES, TEST_FILES})

\* Mutant: ported in another order.
FrontendBeforeLatency ==
  <<"invalid-migration", "image-pull", "missing-config", "db-readiness", "service-selector",
    "contract-break", "frontend-break", "latency-timeout", "seed-data", "flaky-test">>

RULES_V1 == <<"invalid-migration", "image-pull", "missing-config", "db-readiness",
              "service-selector", "contract-break", "latency-timeout", "frontend-break",
              "seed-data", "flaky-test">>

\* What the changed files point at goes before the backend's two rules.
RULES_V2_ROUTED == SubSeq(RULES_V1, 1, 5) \o SubSeq(RULES_V1, 8, 10) \o SubSeq(RULES_V1, 6, 7)

hit(name, items, v2) ==
  CASE name = "invalid-migration" -> rule_invalid_migration(items, v2)
    [] name = "image-pull"        -> rule_image_pull(items)
    [] name = "missing-config"    -> rule_missing_config(items)
    [] name = "db-readiness"      -> rule_db_readiness(items)
    [] name = "service-selector"  -> rule_service_selector(items)
    [] name = "contract-break"    -> rule_contract_break(items, v2)
    [] name = "latency-timeout"   -> rule_latency_timeout(items)
    [] name = "frontend-break"    -> rule_frontend_break(items)
    [] name = "seed-data"         -> rule_seed_data(items)
    [] name = "flaky-test"        -> rule_flaky_test(items)

component(name) ==
  CASE name = "invalid-migration" -> "migration-job"
    [] name \in {"image-pull", "missing-config", "db-readiness"} -> "app-deployment"
    [] name = "service-selector"  -> "service"
    [] name \in {"contract-break", "latency-timeout"} -> "backend"
    [] name = "frontend-break"    -> "frontend"
    [] name = "seed-data"         -> "seed-job"
    [] name = "flaky-test"        -> "test-suite"

diagnose(items, v2) ==
  LET rules == IF v2 /\ has_offsite_routing(items) THEN RULES_V2_ROUTED ELSE RULES_V1
      hits == {i \in DOMAIN rules : hit(rules[i], items, v2)}
  IN  IF hits = {} THEN "unknown" ELSE component(rules[Min(hits)])
=============================================================================
