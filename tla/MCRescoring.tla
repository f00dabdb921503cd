----------------------------- MODULE MCRescoring -----------------------------
EXTENDS Rescoring

Item(type, resource, message, relevance) ==
  [type |-> type, resource |-> resource, message |-> message, relevance |-> relevance]

Log(type, resource, message) == Item(type, resource, message, "high")
Event(message) == Item("KubernetesEvent", {}, message, "high")
Failed(suite, message) ==
  Item("TestResult", {suite}, {"phase=failed", "failed=1"} \union message, "high")
File(path, class) == Item("ChangedFile", path, class, IF class = {} THEN "low" ELSE "high")

Traceback == {"traceback", "traceback (most recent call last)"}

\* The suites whose failures occur together, in any combination.
Suites == {Failed("contract", {}), Failed("e2e", {}), Failed("regression", {})}

Evidence ==
  {Log("JobLog", {"migrate"}, {}),
   Log("JobLog", {"migrate"}, Traceback \union {"syntax error", "programmingerror"}),
   Log("PodLog", {}, Traceback \union {"keyerror", "error:"}),
   Log("PodLog", {}, Traceback \union {"operationalerror", "connection refused"}),
   Log("PodLog", {}, Traceback),
   Log("PodLog", {}, {"connection refused"}),
   Log("PodLog", {}, {"timed out"}),
   Log("JobLog", {"seed"}, {}),
   Event({"imagepullbackoff"}), Event({"crashloopbackoff"}),
   Event({"readiness probe failed"}), Event({"no endpoints"}),
   Failed("smoke", {"timed out"}), Item("TestResult", {"contract"}, {}, "low"),
   Item("TraceSpan", {}, {"slow", "duration"}, "high"),
   Item("PreviewCondition", {}, {"crashloopbackoff"}, "high"),
   File({"app.py"}, {"backend"}), File({"frontend", "frontend.py"}, {"backend"}),
   File({"tests/"}, {}), File({"tests/", "/test_", "test_app.py", "app.py"}, {}),
   File({"test_smoke.py"}, {}), File({"seed"}, {}), File({"ui"}, {})}

Combinations == {{}} \union {{a, b, c} : a, b, c \in Evidence}
MCReports == {some \union suites : some \in Combinations, suites \in SUBSET Suites}

MCNames ==
  {"migration-job", "migration", "database migration", "db migration", "db-migration",
   "postgres-migrate", "alembic", "database", "app-deployment", "app", "application",
   "deployment", "Deployment/app", "backend", "Backend", "svc-backend", "api", "api-endpoint",
   "route", "app.py", "image", "image-pull", "frontend", "frontend.py", "svc-frontend", "ui",
   "web", "catalogue", "html", "database connection", "db readiness", "postgres", "service",
   "selector", "routing", "endpoint", "endpoints", "networking", "latency", "observability",
   "seed-job", "seed", "ai-seed", "catalogue-seed", "data", "test data", "regression",
   "test-suite", "test suite", "tests", "test", "test-reliability", "flaky test", "flaky",
   "e2e-tests", "regression-tests", "smoke-tests", "contract-tests",
   "e2e", "playwright", "pytest", "listmonk", "hc-web", "healthchecks",
   "umami", "next.js", "petclinic", "spring-petclinic", "prisma-migrate", "flyway",
   "django-migrate", "unknown"}

Problem(structured, details) == [structured |-> structured, details |-> details]
Advice == {"environment variable", "configuration"}
MCNoise == Problem({}, Advice)

Problems ==
  {Problem({"imagepullbackoff", "postgres-migrate"}, {}),
   Problem({"no endpoints", "service"}, {"selector"}), Problem({"crashloopbackoff"}, Advice),
   Problem({"postgres-migrate", "migrate"}, {"migration"}), Problem({"frontend"}, {}),
   Problem({"required"}, {}), Problem({"timeout"}, {"latency"}), Problem({}, {"deployment"}),
   Problem({}, {})}

MCFindings == {<<>>} \union {<<p>> : p \in Problems} \union (Problems \X Problems)
=============================================================================
