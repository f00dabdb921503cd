------------------------------ MODULE Matchers ------------------------------
(***************************************************************************)
(* The tables by which the analysis scripts credit a diagnosed component.  *)
(* A fault is the number behind the F; the i-th entry of a table of faults *)
(* is that of fault i.  A pattern is written out as the names it accepts,  *)
(* of the spellings that are in use.                                       *)
(***************************************************************************)
EXTENDS Naturals, Sequences, FiniteSetsExt

Faults == 1..10
Subjects == {"s1", "s2", "s3", "s4", "s5"}

\* Lower case, without any character but letters, digits, "-" and " ".
Normalise(name) ==
  CASE name = "app.py"         -> "apppy"
    [] name = "frontend.py"    -> "frontendpy"
    [] name = "next.js"        -> "nextjs"
    [] name = "Deployment/app" -> "deploymentapp"
    [] name = "Backend"        -> "backend"
    [] OTHER -> name

GROUND_TRUTH ==
  <<"migration-job", "app-deployment", "app-deployment", "backend", "frontend",
    "app-deployment", "service", "backend", "seed-job", "test-suite">>

SCENARIO_ROLE ==
  <<"migration-job", "app", "app", "backend", "frontend", "app", "service", "backend",
    "seed-job", "test-suite">>

-----------------------------------------------------------------------------
(* S1: the table of 08-vocab-rescore.py and the copies of it *)

ALIASES_08 ==
  <<{"migration-job", "migration", "database migration", "db migration", "postgres-migrate",
     "alembic", "database"},
    {"app-deployment", "app", "backend", "svc-backend", "application", "deployment"},
    {"app-deployment", "app", "backend", "svc-backend", "application", "deployment", "image",
     "image-pull"},
    {"backend", "svc-backend", "api", "api-endpoint", "application", "route", "app.py"},
    {"frontend", "svc-frontend", "ui", "catalogue", "catalog", "html", "frontend.py"},
    {"app-deployment", "app", "backend", "svc-backend", "application", "database connection",
     "db readiness"},
    {"service", "svc-backend", "backend", "selector", "routing", "endpoint", "endpoints",
     "networking"},
    {"backend", "svc-backend", "api", "application", "latency", "observability", "app.py"},
    {"seed-job", "seed", "seeding", "ai-seed", "data", "test data", "regression"},
    {"test-suite", "test suite", "tests", "test", "test-reliability", "flaky test", "flaky",
     "regression"}>>

DEPLOYMENT_09 == {"app-deployment", "app", "backend", "svc-backend", "application"}
ALIASES_09 ==
  <<{"alembic", "database", "database migration", "db migration", "migration",
     "migration-job", "postgres-migrate"},
    DEPLOYMENT_09 \union {"deployment"},
    DEPLOYMENT_09 \union {"deployment", "image", "image-pull"},
    {"api", "api-endpoint", "app.py", "application", "backend", "route", "svc-backend"},
    {"catalog", "catalogue", "frontend", "frontend.py", "html", "svc-frontend", "ui"},
    DEPLOYMENT_09 \union {"database connection", "db readiness"},
    {"backend", "endpoint", "endpoints", "networking", "routing", "selector", "service",
     "svc-backend"},
    {"api", "app.py", "application", "backend", "latency", "observability", "svc-backend"},
    {"ai-seed", "data", "regression", "seed", "seed-job", "seeding", "test data"},
    {"flaky", "flaky test", "regression", "test", "test suite", "test-reliability",
     "test-suite", "tests"}>>

BACKEND_11 == {"backend", "svc-backend", "api", "application", "app.py"}
DEPLOYMENT_11 == {"app-deployment", "app", "backend", "svc-backend", "application"}
ALIASES_11 ==
  <<{"migration-job", "migration", "database migration", "db migration", "postgres-migrate",
     "alembic", "database"},
    DEPLOYMENT_11 \union {"deployment"},
    DEPLOYMENT_11 \union {"deployment", "image", "image-pull"},
    BACKEND_11 \union {"api-endpoint", "route"},
    {"frontend", "svc-frontend", "ui", "catalogue", "catalog", "html", "frontend.py"},
    DEPLOYMENT_11 \union {"database connection", "db readiness"},
    {"service", "svc-backend", "backend", "selector", "routing", "endpoint", "endpoints",
     "networking"},
    BACKEND_11 \union {"latency", "observability"},
    {"seed-job", "seed", "seeding", "ai-seed", "data", "test data", "regression"},
    {"test-suite", "test suite", "tests", "test", "test-reliability", "flaky test", "flaky",
     "regression"}>>

\* Mutant: a copy that has lost a name.
ShortCopy == [ALIASES_09 EXCEPT ![4] = @ \ {"api-endpoint"}]

APP_12 == {"app-deployment", "app", "backend", "svc-backend", "application"}
ALIASES_12 ==
  <<{"migration-job", "migration", "database migration", "db migration", "postgres-migrate",
     "alembic", "database"},
    APP_12 \union {"deployment"},
    APP_12 \union {"deployment", "image", "image-pull"},
    {"backend", "svc-backend", "api", "api-endpoint", "application", "route", "app.py"},
    {"frontend", "svc-frontend", "ui", "catalogue", "catalog", "html", "frontend.py"},
    APP_12 \union {"database connection", "db readiness"},
    {"service", "svc-backend", "backend", "selector", "routing", "endpoint", "endpoints",
     "networking"},
    {"backend", "svc-backend", "api", "application", "latency", "observability", "app.py"},
    {"seed-job", "seed", "seeding", "ai-seed", "data", "test data", "regression"},
    {"test-suite", "test suite", "tests", "test", "test-reliability", "flaky test", "flaky",
     "regression"}>>

APP_14 == {"app-deployment", "app", "backend", "svc-backend", "application"}
ALIASES_14 ==
  <<{"migration-job", "migration", "database migration", "db migration", "postgres-migrate",
     "alembic", "database"},
    APP_14 \union {"deployment"},
    APP_14 \union {"deployment", "image", "image-pull"},
    {"backend", "svc-backend", "api", "api-endpoint", "application", "route", "app.py"},
    {"frontend", "svc-frontend", "ui", "catalogue", "catalog", "html", "frontend.py"},
    APP_14 \union {"database connection", "db readiness"},
    {"service", "svc-backend", "backend", "selector", "routing", "endpoint", "endpoints",
     "networking"},
    {"backend", "svc-backend", "api", "application", "latency", "observability", "app.py"},
    {"seed-job", "seed", "seeding", "ai-seed", "data", "test data", "regression"},
    {"test-suite", "test suite", "tests", "test", "test-reliability", "flaky test", "flaky",
     "regression"}>>

\* 23-mcnemar.py has a table of its own.
ALIASES_23 ==
  <<{"migration-job", "migration", "db migration", "db-migration", "postgres-migrate"},
    {"app-deployment", "app", "backend", "svc-backend", "application"},
    {"app-deployment", "app", "image", "image-pull", "deployment"},
    {"backend", "svc-backend", "api", "application", "route"},
    {"frontend", "ui", "catalogue", "catalog"},
    {"app-deployment", "app", "backend", "application", "database connection", "db readiness"},
    {"service", "svc-backend", "backend", "selector", "routing", "endpoint", "networking"},
    {"backend", "svc-backend", "api", "application", "latency"},
    {"seed-job", "seed", "ai-seed", "data"},
    {"test-suite", "test suite", "tests", "flaky"}>>

\* aligned_match() of these scripts.
Credits(table, fault, name) == Normalise(name) \in table[fault]

-----------------------------------------------------------------------------
(* The annotator of the blinded sample (15a) *)

ALIAS_15a ==
  <<{"migration-job", "postgres-migrate", "migration", "migrate", "db-migration",
     "database-migration"},
    {"app-deployment", "app", "application", "idp-preview", "backend", "svc-backend"},
    {"app-deployment", "app", "application", "deployment", "image", "container"},
    {"backend", "svc-backend", "backend-service", "api"},
    {"frontend", "ui", "web", "client"},
    {"app-deployment", "app", "application", "postgres", "database", "db"},
    {"service", "svc", "svc-backend", "networking", "network", "ingress", "routing"},
    {"backend", "svc-backend", "api"},
    {"seed-job", "seed", "catalogue-seed", "ai-enrichment", "enrichment", "data", "test-data"},
    {}>>

SYMPTOM_COMPONENTS ==
  {"e2e-tests", "test-suite", "regression-tests", "smoke-tests", "contract-tests", "tests"}

\* Its normalize() joins the words of a name by "-" and keeps a ".".
Hyphened(name) ==
  CASE name = "database migration"  -> "database-migration"
    [] name = "db migration"        -> "db-migration"
    [] name = "database connection" -> "database-connection"
    [] name = "db readiness"        -> "db-readiness"
    [] name = "test data"           -> "test-data"
    [] name = "test suite"          -> "test-suite"
    [] name = "flaky test"          -> "flaky-test"
    [] name = "Deployment/app"      -> "deployment-app"
    [] name = "Backend"             -> "backend"
    [] OTHER -> name

decide(fault, name) ==
  IF fault = 10 THEN Hyphened(name) = "test-suite" ELSE Hyphened(name) \in ALIAS_15a[fault]

-----------------------------------------------------------------------------
(* S2 to S5: a table per subject and role *)

Roles == <<"migration-job", "app", "service", "backend", "frontend", "seed-job", "test-suite">>

\* The entry of a subject's table for a role.
For(role, table) == table[CHOOSE i \in 1..Len(Roles) : Roles[i] = role]

\* 17-multiapp-rescore.py
MIGRATION_17 == {"migration-job", "migration", "database migration", "postgres-migrate", "database"}
APP_17 == {"app", "backend", "svc-backend", "application", "app-deployment", "deployment",
           "image", "image-pull"}
SERVICE_17 == {"service", "svc-backend", "backend", "selector", "endpoints"}
TESTS_17 == {"test-suite", "test", "tests", "flaky", "e2e-tests", "smoke-tests", "regression-tests"}

SUBJECT_ALIASES_17 ==
  [s1 |-> <<MIGRATION_17 \union {"alembic"}, APP_17, SERVICE_17 \union {"networking"},
            {"backend", "svc-backend", "api", "app.py", "application", "app", "route"},
            {"frontend", "ui", "catalogue", "catalog", "html", "frontend.py", "web"},
            {"seed-job", "seed", "ai-seed", "data", "seeding", "ai-enrichment", "catalogue-seed"},
            TESTS_17>>,
   s2 |-> <<MIGRATION_17 \union {"listmonk-migrate", "listmonk-install", "install"},
            APP_17 \union {"listmonk", "newsletter"},
            SERVICE_17 \union {"listmonk", "networking"},
            {"backend", "svc-backend", "listmonk", "api", "application", "app"},
            {"frontend", "admin", "ui", "web"},
            {"seed-job", "seed", "migration", "data"}, TESTS_17>>,
   s3 |-> <<MIGRATION_17 \union {"hc-migrate", "healthchecks-migrate", "django-migrate", "manage"},
            APP_17 \union {"web", "hc-web", "healthchecks", "django"},
            SERVICE_17 \union {"web", "hc-web", "healthchecks"},
            {"backend", "svc-backend", "hc-web", "healthchecks", "web", "api", "application"},
            {"frontend", "web", "ui", "django-ui"},
            {"seed-job", "seed", "migration", "data"}, TESTS_17>>,
   s4 |-> <<MIGRATION_17 \union {"umami-migrate", "prisma", "prisma-migrate"},
            APP_17 \union {"umami", "next", "nextjs", "analytics"},
            SERVICE_17 \union {"umami"},
            {"backend", "svc-backend", "umami", "api", "application", "app", "nextjs"},
            {"frontend", "ui", "web", "nextjs"},
            {"seed-job", "seed", "prisma-seed", "data"}, TESTS_17>>,
   s5 |-> <<MIGRATION_17 \union {"petclinic-migrate", "flyway", "flyway-migrate"},
            APP_17 \union {"petclinic", "spring-petclinic", "spring", "springboot", "java"},
            SERVICE_17 \union {"petclinic", "spring-petclinic"},
            {"backend", "svc-backend", "petclinic", "spring-petclinic", "api", "application",
             "spring", "spring-boot"},
            {"frontend", "ui", "web", "swagger"},
            {"seed-job", "seed", "flyway", "migration", "data"}, TESTS_17>>]

aligned_match_17(subject, fault, name) ==
  Normalise(name) \in For(SCENARIO_ROLE[fault], SUBJECT_ALIASES_17[subject])

\* 09b-baseline-b0-multiapp.py: three roles, and five of the faults.
APP_09b == {"backend", "svc-backend", "app", "application"}
MIGRATION_09b == {"migration-job", "postgres-migrate", "migration"}
SUBJECT_ALIASES_09b ==
  [s2 |-> <<MIGRATION_09b \union {"db migration", "db-migration"},
            APP_09b \union {"listmonk", "app-deployment"},
            {"service", "svc-backend", "backend", "routing", "endpoint", "networking"}>>,
   s3 |-> <<MIGRATION_09b \union {"django-migrate"}, APP_09b \union {"healthchecks", "hc-web"},
            {"service", "svc-backend", "backend", "routing", "endpoint"}>>,
   s4 |-> <<MIGRATION_09b \union {"prisma-migrate"}, APP_09b \union {"umami"},
            {"service", "svc-backend", "backend", "routing"}>>,
   s5 |-> <<MIGRATION_09b \union {"flyway"}, APP_09b \union {"spring-petclinic", "petclinic"},
            {"service", "svc-backend", "backend", "routing"}>>]
SCENARIOS_09b == {1, 2, 3, 6, 7}

aligned_match_09b(subject, fault, name) ==
  /\ fault \in SCENARIOS_09b
  /\ Normalise(name) \in For(SCENARIO_ROLE[fault], SUBJECT_ALIASES_09b[subject])

\* 14b-cluster-baselines-multiapp.py: the same table for every subject.
SUBJECT_ALIASES_14b ==
  <<{"migration-job", "postgres-migrate", "migration", "db migration", "db-migration",
     "prisma-migrate", "flyway", "django-migrate"},
    {"app", "application", "app-deployment", "backend", "svc-backend", "listmonk",
     "healthchecks", "hc-web", "umami", "spring-petclinic", "petclinic"},
    {"service", "svc", "svc-backend", "backend", "networking", "routing"},
    {"backend", "svc-backend", "api", "application", "route", "listmonk", "umami", "petclinic",
     "spring-petclinic", "hc-web", "healthchecks"},
    {"frontend", "ui", "web", "admin", "static"},
    {"seed-job", "seed", "catalogue-seed", "ai-enrichment", "data", "test-data"},
    {"test-suite", "test", "tests", "flaky", "e2e-tests", "smoke-tests", "regression-tests"}>>

\* Mutant: the regression suite stands for the seed data here too, as in 08.
RegressionIsSeed(fault, name) ==
  Normalise(name) \in For(SCENARIO_ROLE[fault], SUBJECT_ALIASES_14b)
                       \union (IF fault = 9 THEN {"regression"} ELSE {})

aligned_match_14b(fault, name) ==
  Normalise(name) \in For(SCENARIO_ROLE[fault], SUBJECT_ALIASES_14b)

\* 29-b0-multiapp-fair.py compares with the component of the ground truth, and
\* lets every "." stand.
COMMON_ALIAS(component) ==
  CASE component = "migration-job" -> {"postgres-migrate", "db-migration", "migration",
                                       "migration job", "database migration"}
    [] component = "app-deployment" -> {"application", "app", "deployment", "main pod"}
    [] component = "service" -> {"svc", "kubernetes service", "service object"}
    [] component = "seed-job" -> {"db-seed", "seed", "data seeder"}
    [] component = "test-suite" -> {"e2e", "e2e-tests", "playwright", "regression", "test"}
    [] OTHER -> {}

ALIAS_29 ==
  [s2 |-> [backend |-> {"listmonk", "listmonk-app"}, frontend |-> {"listmonk-frontend"}],
   s3 |-> [backend |-> {"hc-web", "healthchecks", "django"}, frontend |-> {"hc-web-frontend"}],
   s4 |-> [backend |-> {"umami", "umami-app", "next.js"}, frontend |-> {"umami-frontend"}],
   s5 |-> [backend |-> {"spring-petclinic", "spring-boot", "petclinic"},
           frontend |-> {"petclinic-frontend"}]]

aligned_match_29(subject, fault, name) ==
  LET truth == GROUND_TRUTH[fault]
      lower == IF name = "Backend" THEN "backend" ELSE name
  IN  \/ lower = truth
      \/ lower \in COMMON_ALIAS(truth)
      \/ truth \in DOMAIN ALIAS_29[subject] /\ lower \in ALIAS_29[subject][truth]

-----------------------------------------------------------------------------
(* B2 of S2 to S5: a role is looked for in the answer, by keywords *)

\* The keywords \b...\b finds in a name or a text: a name contains itself, and
\* its words.
Within(text) ==
  {text} \union
  (CASE text = "migration-job"    -> {"migration"}
     [] text \in {"database migration", "db migration", "db-migration"} -> {"migration"}
     [] text \in {"postgres-migrate", "prisma-migrate", "django-migrate"} -> {"migrate"}
     [] text = "svc-backend"      -> {"backend"}
     [] text = "Backend"          -> {"backend"}
     [] text \in {"svc-frontend", "frontend.py"} -> {"frontend"}
     [] text = "app-deployment"   -> {"app", "deployment"}
     [] text \in {"app.py"}       -> {"app"}
     [] text = "Deployment/app"   -> {"deployment", "app"}
     [] text = "api-endpoint"     -> {"api", "endpoint"}
     [] text \in {"ai-seed", "seed-job"} -> {"seed"}
     [] text = "catalogue-seed"   -> {"catalogue", "seed"}
     [] text \in {"test-suite", "test suite", "test data", "test-reliability"} -> {"test"}
     [] text = "flaky test"       -> {"flaky", "test"}
     [] text \in {"e2e-tests", "regression-tests", "smoke-tests", "contract-tests"} -> {"tests"}
     [] text = "spring-petclinic" -> {"petclinic"}
     [] OTHER -> {})

\* The first row of a keyword table that one of the keywords is in.
FirstRole(table, words) ==
  LET hits == {i \in DOMAIN table : table[i][1] \intersect words # {}}
  IN  IF hits = {} THEN "" ELSE table[Min(hits)][2]

KEYWORD_ROLES_14c ==
  << <<{"migration", "migrate"}, "migration-job">>,
     <<{"seed", "seeding", "seed-job", "catalogue", "test data"}, "seed-job">>,
     <<{"image pull", "imagepullbackoff", "errimagepull"}, "app">>,
     <<{"crashloopbackoff", "configuration", "env var", "keyerror"}, "app">>,
     <<{"service does not exist", "service selector"}, "service">>,
     <<{"endpoint", "networking", "routing", "connection refused", "no such pod"}, "service">>,
     <<{"timeout", "latency", "slow", "pg_sleep"}, "backend">>,
     <<{"test suite", "flaky"}, "test-suite">>,
     <<{"frontend", "html", "javascript", "next.js", "nextjs", "admin ui"}, "frontend">>,
     <<{"backend", "svc-backend"}, "backend">>,
     <<{"database connection", "db readiness", "postgres unreachable"}, "app">>,
     <<{"deployment", "deploy", "pod not ready"}, "app">> >>

SUBJECT_ALIASES_ROLE_14c(role) ==
  CASE role \in {"postgres-migrate", "prisma-migrate", "flyway", "django-migrate"} -> "migration-job"
    [] role \in {"application", "app-deployment", "deployment", "listmonk", "healthchecks",
                 "hc-web", "umami", "petclinic", "spring-petclinic"} -> "app"
    [] role \in {"svc-backend", "api"} -> "backend"
    [] role = "ui" -> "frontend"
    [] role = "svc" -> "service"
    [] role = "seed" -> "seed-job"
    [] role \in {"tests", "flaky"} -> "test-suite"
    [] OTHER -> role

KEYWORD_ROLES_34 ==
  << <<{"postgres-migrate", "migration-job", "migration job", "alembic", "prisma-migrate",
        "flyway", "django-migrate"}, "migration-job">>,
     <<{"seed-job", "seed", "ai-seed"}, "seed-job">>,
     <<{"test-suite", "pytest", "playwright", "flaky", "test", "tests"}, "test-suite">>,
     <<{"svc-backend", "service", "endpoint", "endpoints", "selector"}, "service">>,
     <<{"frontend", "catalogue", "ui"}, "frontend">>,
     <<{"backend", "api", "route", "listmonk", "umami", "healthchecks", "hc-web", "petclinic",
        "spring-petclinic"}, "backend">>,
     <<{"app-deployment", "app", "application", "deployment"}, "app">> >>

SUBJECT_ALIASES_ROLE_34(role) ==
  CASE role = "postgres-migrate" -> "migration-job"
    [] role \in {"application", "app-deployment", "deployment", "listmonk", "healthchecks",
                 "hc-web", "umami", "petclinic", "spring-petclinic"} -> "app"
    [] role \in {"svc-backend", "api"} -> "backend"
    [] role = "ui" -> "frontend"
    [] role = "svc" -> "service"
    [] role = "seed" -> "seed-job"
    [] role \in {"tests", "flaky"} -> "test-suite"
    [] OTHER -> role

\* fingerprint_role(comp) or comp
KagentRole(table, name) ==
  LET role == FirstRole(table, Within(name)) IN IF role = "" THEN name ELSE role

aligned_for_14c(fault, role) ==
  role # "" /\ SUBJECT_ALIASES_ROLE_14c(role) = SCENARIO_ROLE[fault]
aligned_for_34(fault, role) ==
  role # "" /\ SUBJECT_ALIASES_ROLE_34(role) = SCENARIO_ROLE[fault]

-----------------------------------------------------------------------------
(* K8sGPT lists problems: a problem is the keywords of its structured part *)
(* (kind, name, errors) and those of the details a language model wrote.   *)

\* 14: the hints are looked for in what is structured, of all the problems.
\* They have no word boundaries: "required" contains "ui".
HINTS_14 ==
  << <<{"image pull", "imagepullbackoff", "errimagepull"}, "app-deployment">>,
     <<{"no endpoints", "endpoints not available", "selector mismatch"}, "service">>,
     <<{"crashloopbackoff", "missing env", "keyerror", "environment variable"},
       "app-deployment">>,
     <<{"contract failed", "backend endpoint"}, "backend">>,
     <<{"frontend", "catalogue", "playwright", "ui", "required"}, "frontend">>,
     <<{"slow", "latency", "timeout", "deadline exceeded"}, "backend">>,
     <<{"seed-job", "ai-seed"}, "seed-job">>,
     <<{"migration", "alembic", "postgres-migrate"}, "migration-job">> >>

k8sgpt_to_component_14(problems) ==
  LET body == UNION {problems[i].structured : i \in DOMAIN problems}
      comp == FirstRole(HINTS_14, body)
  IN  CASE problems = <<>> -> "no-issue-detected"
        [] comp # ""       -> comp
        [] OTHER           -> "kind/name"

\* 14b: the first 80 characters of the first problem are the component.
k8sgpt_to_component_14b(problems) == IF problems = <<>> THEN "" ELSE "kind name details"

Text(problem) == problem.structured \union problem.details

\* 14c: the first problem.
k8sgpt_extract_14c(problems) ==
  IF problems = <<>> THEN "" ELSE FirstRole(KEYWORD_ROLES_14c, Text(problems[1]))

\* Mutant: only the first problem, as in 14c.
FirstProblem(problems) ==
  IF problems = <<>> THEN "" ELSE FirstRole(KEYWORD_ROLES_34, Text(problems[1]))

\* 34: the first problem that has a keyword.
k8sgpt_extract_34(problems) ==
  LET role(i) == FirstRole(KEYWORD_ROLES_34, Text(problems[i]))
      hits == {i \in DOMAIN problems : role(i) # ""}
  IN  IF hits = {} THEN "" ELSE role(Min(hits))
=============================================================================
