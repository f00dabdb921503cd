---------------------------- MODULE FaultDispatch ----------------------------
(***************************************************************************)
(* The fault injectors of the multi-application experiment                 *)
(* (multiapp/injectors_multiapp/dispatch.py): prepare() copies the subject *)
(* of meta.yaml, changes the copy, and returns it with an image as the     *)
(* plan to deploy.  A fault is the number behind the F.                    *)
(*                                                                         *)
(* A migration is an argument list of three: the program and the text of   *)
(* its last argument, a sequence of lines, each a sequence of tokens.  An  *)
(* environment variable is its name, with the value where it matters.      *)
(***************************************************************************)
EXTENDS Naturals, Sequences

SubjectIds == {"s1", "s2", "s3", "s4", "s5"}
Faults == 1..10

CriticalTables == {"s2", "s3", "s4", "s5"}

Unroutable == "DATABASE_URL=10.255.255.1"
BrokenFrontend == "FP_F5_BROKEN_FRONTEND"
Flaky == "FP_F10_FLAKY"
ClosedPort == 19999

Variables == {"APP_MODE", "BACKEND_URL", Unroutable, BrokenFrontend, Flaky}
Tokens == {"head", "seed", "&&", "install", ";", "CREATE INDX", "sever", "delay", "null"}

ServiceType == [name : {"backend", "frontend", "probe"}, port : Nat, env : Seq(Variables)]
MigrationType == [program : {"alembic", "sh"}, text : Seq(Seq(Tokens))]
SubjectType == [id : SubjectIds, services : Seq(ServiceType), migration : MigrationType]

\* DeployPlan; post_deploy is left out, no injector sets it any more.
PlanType == [subject : SubjectType, image : {"stock", "fp-f3-nonexistent"}]
Plan(s) == [subject |-> s, image |-> "stock"]

-----------------------------------------------------------------------------
(* subjects/<id>/meta.yaml *)

Port == [s2 |-> 9000, s3 |-> 8000, s4 |-> 3000, s5 |-> 9966]

Flask ==
  [id |-> "s1",
   services |-> <<[name |-> "backend", port |-> 8080, env |-> <<>>],
                  [name |-> "frontend", port |-> 3000, env |-> <<"APP_MODE", "BACKEND_URL">>]>>,
   migration |-> [program |-> "alembic", text |-> << <<"head">> >>]]

\* The command of S2-S5 is a YAML block scalar: its text ends in a newline,
\* that is, in an empty line.
Upstream(sid) ==
  [id |-> sid,
   services |-> <<[name |-> "backend", port |-> Port[sid], env |-> <<>>],
                  [name |-> "probe", port |-> 9090, env |-> <<>>]>>,
   migration |-> [program |-> "sh", text |-> << <<"seed">>, <<>> >>]]

Stock(sid) == IF sid = "s1" THEN Flask ELSE Upstream(sid)

-----------------------------------------------------------------------------
(* prepare(), one operator per fault *)

Extended(svc, var) == [svc EXCEPT !.env = Append(@, var)]
OnEveryService(s, var) ==
  [s EXCEPT !.services = [i \in DOMAIN s.services |-> Extended(s.services[i], var)]]

\* original[2] + ' && apt-get install ...; psql -c "<command>"': the text goes
\* on where the original ends.
Suffixed(s, command) ==
  LET text == s.migration.text
  IN  [s EXCEPT !.migration.text =
         [text EXCEPT ![Len(text)] = @ \o <<"&&", "install", ";", command>>]]

InvalidMigration(s) ==
  Plan([s EXCEPT !.migration = [program |-> "sh", text |-> << <<"CREATE INDX">> >>]])

MissingEnv(s) ==
  LET first == s.services[1]
  IN  Plan([s EXCEPT !.services[1] = IF first.env # <<>>
                                     THEN [first EXCEPT !.env = Tail(@)]
                                     ELSE Extended(first, Unroutable)])

InvalidImage(s) == [Plan(s) EXCEPT !.image = "fp-f3-nonexistent"]
BrokenRoute(s) == Plan(Suffixed(s, "sever"))
FrontendBug(s) == Plan(OnEveryService(s, BrokenFrontend))
DatabaseTimeout(s) == Plan(OnEveryService(s, Unroutable))
WrongPort(s) == Plan([s EXCEPT !.services[1].port = ClosedPort])
SlowWrites(s) == Plan(Suffixed(s, "delay"))
BadSeed(s) == Plan(Suffixed(s, "null"))
FlakyTest(s) == Plan(OnEveryService(s, Flaky))

\* The ValueError of a subject without a known critical table.
Unprepared(s, fault) == fault \in {4, 8, 9} /\ s.id \notin CriticalTables

Prepare(s, fault) ==
  CASE fault = 1 -> InvalidMigration(s)
    [] fault = 2 -> MissingEnv(s)
    [] fault = 3 -> InvalidImage(s)
    [] fault = 4 -> BrokenRoute(s)
    [] fault = 5 -> FrontendBug(s)
    [] fault = 6 -> DatabaseTimeout(s)
    [] fault = 7 -> WrongPort(s)
    [] fault = 8 -> SlowWrites(s)
    [] fault = 9 -> BadSeed(s)
    [] fault = 10 -> FlakyTest(s)

\* Mutant: prepare() changes the loaded subject in place.
PreparedInPlace(s, plan) == plan.subject

\* The loaded subject is what it was: prepare() works on a deep copy.
LoadedAfter(s, plan) == s

-----------------------------------------------------------------------------
(* What becomes of a deployed plan *)

Symptoms == {"image-pull", "migration-failed", "refused", "db-unreachable", "frontend-broken",
             "flaky-test", "table-missing", "slow", "bad-row", "none"}

\* POSIX shells run a script line by line: the lines before a line that begins
\* with && are run, then the shell ends with a syntax error.
Misparsed(line) == line # <<>> /\ line[1] = "&&"
RunLines(text) == {i \in DOMAIN text : \A k \in 1..i : ~Misparsed(text[k])}
RunTokens(text) == UNION {{text[i][k] : k \in DOMAIN text[i]} : i \in RunLines(text)}
MigrationFails(m) ==
  m.program = "sh" /\ (RunLines(m.text) # DOMAIN m.text \/ "CREATE INDX" \in RunTokens(m.text))

Carries(s, var) == \E i \in DOMAIN s.services[1].env : s.services[1].env[i] = var

Symptom(plan) ==
  LET s == plan.subject
      ran == RunTokens(s.migration.text)
  IN  CASE plan.image # "stock" -> "image-pull"
        [] plan.image = "stock" /\ MigrationFails(s.migration) -> "migration-failed"
        [] OTHER -> IF s.services[1].port = ClosedPort THEN "refused"
                    ELSE IF Carries(s, Unroutable) THEN "db-unreachable"
                    ELSE IF Carries(s, BrokenFrontend) THEN "frontend-broken"
                    ELSE IF Carries(s, Flaky) THEN "flaky-test"
                    ELSE IF "sever" \in ran THEN "table-missing"
                    ELSE IF "delay" \in ran THEN "slow"
                    ELSE IF "null" \in ran THEN "bad-row"
                    ELSE "none"

\* What each injector says it makes the system show; F2 falls back to the
\* unroutable database, no subject declares a variable on its first service.
Intended ==
  <<"migration-failed", "db-unreachable", "image-pull", "table-missing", "frontend-broken",
    "db-unreachable", "refused", "slow", "bad-row", "flaky-test">>
=============================================================================
