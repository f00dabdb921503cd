----------------------------- MODULE SuiteScripts -----------------------------
(***************************************************************************)
(* The three test scripts of a subject (harness-adapter/tests/smoke.py,    *)
(* regression.py, e2e.py) against its wrapper and the shared probe service *)
(* (multiapp/subjects/probe/probe.py), with the operator's reset of the    *)
(* database between them.  The scripts measure the isolation: each leaves  *)
(* a marker in run_log, the next one expects not to find it and to count   *)
(* no more entities than the seed.  Of the database the model keeps which  *)
(* markers and which scripts' entities it holds.                           *)
(***************************************************************************)
EXTENDS Wrapper, Sequences

CONSTANTS Isolations,  \* of {"off", "restore", "migration"}, spec.testSuite's isolation
          InitTables,  \* whether probe.py's init_db succeeded
          MaxSlow,     \* bound: requests a script stops waiting for
          MaxDbErrors, \* bound: statements that fail
          MaxMishaps   \* bound: the three kinds together

ASSUME ScriptsAssumption ==
  /\ Subjects \subseteq {"s2", "s3", "s5"}
  /\ Isolations \subseteq {"off", "restore", "migration"}
  /\ InitTables \subseteq BOOLEAN
  /\ MaxSlow \in Nat /\ MaxDbErrors \in Nat /\ MaxMishaps \in Nat

VARIABLES isolation,
          stage,     \* what the operator runs
          pc,        \* the next request of the script
          failed,    \* the script's counter is above 0
          created,   \* it has the id of the entity it created
          verdict,   \* of each suite: "none", "pass", "fail"
          clean,     \* run_log_clean of each suite: "none", "pass", "fail"
          counted,   \* the seed count of each suite: "none", "pass", "fail"
          flaked,    \* suites that were answered with a flake
          table,     \* run_log exists
          log,       \* suites with a marker in run_log
          entities,  \* suites whose entity is in the database
          known,     \* suites whose entity should be, after what they were told
          late,      \* writes nobody waits for any more
          slow, dberrors

scriptVars == <<isolation, stage, pc, failed, created, verdict, clean, counted, flaked,
                table, log, entities, known, late, slow, dberrors>>
vars == <<wrapperVars, scriptVars>>

Suites == {"smoke", "regression", "e2e"}
Stages == <<"deploy", "smoke", "reset", "regression", "reset", "e2e", "done">>
Suite == Stages[stage]

-----------------------------------------------------------------------------
(* The scripts.  "check" is what a script asks of the answer, "safe" that  *)
(* the request is made inside t() or a try.                                *)

Req(op, route, check, safe) == [op |-> op, route |-> route, check |-> check, safe |-> safe]
Health == Req("health", "healthz", "status", TRUE)
Read   == Req("read", "api", "status", TRUE)
Shape  == Req("read", "api", "json", TRUE)
Html   == Req("html", "html", "status", TRUE)
Log    == Req("log", "probe", "clean", FALSE)
Mark   == Req("mark", "probe", "any", FALSE)
Count  == Req("count", "api", "count", FALSE)
Create == Req("create", "api", "created", FALSE)
Add    == Req("add", "api", "created", FALSE)      \* an entity nobody counts
Get    == Req("get", "api", "status", TRUE)
Ping   == Req("ping", "other", "status", TRUE)
Update == Req("update", "api", "status", FALSE)
Delete == Req("delete", "api", "status", TRUE)
NeedId == {"get", "ping", "update", "delete"}
Unsafe(r) == [r EXCEPT !.safe = FALSE]

SafeMark == [Mark EXCEPT !.safe = TRUE]
Smoke ==
  [s2 |-> <<Health, Read, SafeMark, Html>>,
   s3 |-> <<Health, Read, SafeMark, Html>>,
   s5 |-> <<Health, Shape, SafeMark, Html>>]

RegressionS2 ==
  <<Log, Health, Req("read", "api", "results", FALSE), Create, Get, Delete,
    [Add EXCEPT !.check = "status"], Count, Read, Mark>>
RegressionS3 == <<Log, Health, Read, Create, Get, Ping, Delete, Count, Mark>>
RegressionS5 == <<Log, Health, Shape, Add, Get, Update, Delete, Count, Shape, Mark>>
Regression == [s2 |-> RegressionS2, s3 |-> RegressionS3, s5 |-> RegressionS5]

E2ES2 == <<Log, Count, Health, Create, Add, Get, Read, Mark>>
E2ES3 == <<Log, Count, Health, Create, Ping, Unsafe(Get), Delete, Mark>>
E2ES5 == <<Log, Count, Health, Shape, Add, Unsafe(Shape), Mark>>
E2E == [s2 |-> E2ES2, s3 |-> E2ES3, s5 |-> E2ES5]

Script == CASE Suite = "smoke" -> Smoke[sid]
            [] Suite = "regression" -> Regression[sid]
            [] Suite = "e2e" -> E2E[sid]
            [] OTHER -> <<>>
Previous == IF Suite = "e2e" THEN "regression" ELSE "smoke"

NeedsJson(c, kind) ==
  c.check \in {"json", "results", "count", "clean"} \/ (c.check = "created" /\ kind = "torn")
\* requests raised, or .json() did.
Raises(c, kind) ==
  kind = "none" \/ (NeedsJson(c, kind) /\ kind \in {"proxyError", "torn", "broken"})
\* Mutant: every answer passes but a wrong count, as the shapes of s5 do.
AnyAnswer(c, a) == c.check # "count" \/ a.fits
Passes(c, a) ==
  CASE c.check = "status" -> a.kind \in {"ok", "torn"}
    [] c.check \in {"created", "results"} -> a.kind = "ok"
    [] c.check = "count" -> a.kind = "ok" /\ a.fits
    [] c.check = "clean" -> a.fits
    [] OTHER -> TRUE

-----------------------------------------------------------------------------

Running == Suite \in Suites
NextStage == stage' = stage + 1 /\ pc' = 1 /\ failed' = FALSE /\ created' = FALSE
Measures == <<clean, counted, flaked>>
Database == <<table, log, entities>>
Told == <<isolation, slow, dberrors>>

\* The operator starts the suite once the Deployment is ready.
Ready ==
  /\ Suite = "deploy" /\ phase = "serving" /\ NextStage
  /\ UNCHANGED <<wrapperVars, verdict, Measures, Database, known, late, Told>>

\* Mutant: the reset leaves the probe's table alone.
ResetSubjectOnly ==
  /\ Suite = "reset" /\ NextStage
  /\ entities' = IF isolation = "off" THEN entities ELSE {}
  /\ known' = IF isolation = "off" THEN known ELSE {}
  /\ UNCHANGED <<wrapperVars, verdict, Measures, table, log, late, Told>>
\* restoreCheckpointScript empties every table; the migration replay drops the schema
\* and runs the subject's own migration, which knows nothing of run_log.
DropsSchema == isolation = "migration"
Reset ==
  /\ Suite = "reset" /\ NextStage
  /\ IF isolation = "off" THEN UNCHANGED <<Database, known>>
     ELSE /\ log' = {} /\ entities' = {} /\ known' = {}
          /\ table' = (table /\ ~DropsSchema)
  /\ UNCHANGED <<wrapperVars, verdict, Measures, late, Told>>

Unasked == Running /\ call.st = "idle" /\ pc <= Len(Script)
HasId == Script[pc].op \in NeedId => created

Send ==
  /\ Unasked /\ HasId
  /\ call' = [op |-> Script[pc].op, route |-> Script[pc].route, st |-> "sent",
              kind |-> "none", fits |-> TRUE]
  /\ UNCHANGED <<sid, env, phase, app, early, crashes, scriptVars>>

\* "no check created": counted as failures.
SkipWithoutId ==
  /\ Unasked /\ ~HasId
  /\ pc' = pc + 1 /\ failed' = TRUE
  /\ UNCHANGED <<wrapperVars, isolation, stage, created, verdict, Measures, Database, known,
                 late, slow, dberrors>>

\* sys.exit, or an exception nobody caught: exit code 1.
Exits(v) ==
  /\ NextStage /\ verdict' = [verdict EXCEPT ![Suite] = v]

Ends ==
  /\ Running /\ call.st = "idle" /\ pc > Len(Script)
  /\ Exits(IF failed THEN "fail" ELSE "pass")
  /\ UNCHANGED <<wrapperVars, Measures, Database, known, late, Told>>

Result(passed) == IF passed THEN "pass" ELSE "fail"

\* What the script does with an answer, or with an exception.
Consume(kind, fits) ==
  LET c == Script[pc]
      passed == Passes(c, [kind |-> kind, fits |-> fits])
      raised == Raises(c, kind)
  IN /\ call' = NoCall
     /\ clean' = IF c.check = "clean" /\ ~raised
                 THEN [clean EXCEPT ![Suite] = Result(passed)] ELSE clean
     /\ counted' = IF c.check = "count" /\ ~raised /\ kind = "ok"
                   THEN [counted EXCEPT ![Suite] = Result(passed)] ELSE counted
     /\ known' = IF raised \/ ~passed THEN known
                 ELSE CASE c.op = "create" -> known \cup {Suite}
                        [] c.op = "delete" -> known \ {Suite}
                        [] OTHER -> known
     /\ \/ raised /\ ~c.safe /\ Exits("fail")
        \/ /\ ~raised \/ c.safe
           /\ pc' = pc + 1
           /\ failed' = (failed \/ raised \/ ~passed)
           /\ created' = IF c.check = "created" THEN passed ELSE created
           /\ UNCHANGED <<stage, verdict>>

Return ==
  /\ call.st = "answered"
  /\ Consume(call.kind, call.fits)
  /\ UNCHANGED <<sid, env, phase, app, early, crashes, flaked, Database, late, Told>>

Writes == {"create", "delete", "mark"}

\* The script's timeout is shorter than the proxy's: the request lives on without it.
TimeOut ==
  /\ call.st \in {"sent", "forwarded"}
  /\ \/ Upstream /\ app = "hung" /\ UNCHANGED slow
     \/ ~(Upstream /\ app = "hung") /\ slow < MaxSlow /\ slow' = slow + 1
  /\ Consume("none", TRUE)
  /\ late' = IF call.op \in Writes THEN late \cup {<<call.op, Suite>>} ELSE late
  /\ UNCHANGED <<sid, env, phase, app, early, crashes, flaked, Database, isolation, dberrors>>

-----------------------------------------------------------------------------
(* The wrapper, the application and the probe service serve a request.      *)

Counts == sid # "s5"   \* s5 counts pets; its scripts create owners

Effect(op, suite) ==
  entities' = CASE op = "create" /\ Counts -> entities \cup {suite}
                [] op = "delete" /\ Counts -> entities \ {suite}
                [] OTHER -> entities

HandleRequest ==
  \/ (Refuse \/ Healthz \/ BrokenFrontend \/ Forward \/ ProxyError) /\ UNCHANGED scriptVars
  \/ /\ Flake
     /\ flaked' = flaked \cup {Suite}
     /\ UNCHANGED <<isolation, stage, pc, failed, created, verdict, clean, counted, Database,
                    known, late, slow, dberrors>>

Unscripted == <<isolation, stage, pc, failed, created, verdict, Measures, known, late, slow>>

\* The seed count compares with what is in the database now.
Served ==
  /\ Upstream /\ app = "up"
  /\ call' = [call EXCEPT !.st = "answered", !.kind = "ok", !.fits = entities = {}]
  /\ Effect(call.op, Suite)
  /\ UNCHANGED <<sid, env, phase, app, early, crashes, table, log, dberrors, Unscripted>>

Torn ==
  /\ AppDiesAnswering
  /\ Effect(call.op, Suite)
  /\ UNCHANGED <<table, log, dberrors, Unscripted>>

AppFails ==
  /\ AppAnswers("error") /\ dberrors < MaxDbErrors
  /\ dberrors' = dberrors + 1
  /\ UNCHANGED <<Database, Unscripted>>

ToProbe(op) == call.st = "sent" /\ call.route = "probe" /\ call.op = op
ProbeAnswers(kind, fits) ==
  /\ call' = [call EXCEPT !.st = "answered", !.kind = kind, !.fits = fits]
  /\ UNCHANGED <<sid, env, phase, app, early, crashes>>

\* Mutant: the connection is closed without a commit.
PostRunLogUncommitted ==
  /\ ToProbe("mark") /\ table
  /\ ProbeAnswers("ok", TRUE)
  /\ UNCHANGED scriptVars
PostRunLog ==
  /\ ToProbe("mark") /\ table
  /\ log' = log \cup {Suite}
  /\ ProbeAnswers("ok", TRUE)
  /\ UNCHANGED <<table, entities, dberrors, Unscripted>>

\* GROUP BY suite: the script finds its predecessor's markers or none.
GetRunLog ==
  /\ ToProbe("log") /\ table
  /\ ProbeAnswers("ok", Previous \notin log)
  /\ UNCHANGED scriptVars

\* Every exception is a 500 with {"error": ...}, in which a script finds no marker either.
ProbeFails ==
  /\ ToProbe("mark") \/ ToProbe("log")
  /\ \/ ~table /\ UNCHANGED dberrors
     \/ table /\ dberrors < MaxDbErrors /\ dberrors' = dberrors + 1
  /\ ProbeAnswers("error", TRUE)
  /\ UNCHANGED <<Database, Unscripted>>

\* A request nobody waits for is applied in the end, or lost.
LateLands ==
  \E w \in late :
    /\ late' = late \ {w}
    /\ \/ w[1] = "mark" /\ table /\ log' = log \cup {w[2]} /\ UNCHANGED entities
       \/ w[1] # "mark" /\ app = "up" /\ Effect(w[1], w[2]) /\ UNCHANGED log
       \/ UNCHANGED <<log, entities>>
    /\ UNCHANGED <<wrapperVars, isolation, stage, pc, failed, created, verdict, Measures, table,
                   known, slow, dberrors>>

Finished == Suite = "done" /\ UNCHANGED vars

Init ==
  /\ WrapperInit
  /\ isolation \in Isolations /\ table \in InitTables
  /\ stage = 1 /\ pc = 1 /\ failed = FALSE /\ created = FALSE
  /\ verdict = [s \in Suites |-> "none"]
  /\ clean = [s \in Suites |-> "none"] /\ counted = [s \in Suites |-> "none"]
  /\ flaked = {} /\ log = {} /\ entities = {} /\ known = {} /\ late = {}
  /\ slow = 0 /\ dberrors = 0

ScriptStep == Ready \/ Reset \/ Send \/ SkipWithoutId \/ Ends \/ Return
ServiceStep == HandleRequest \/ Served \/ PostRunLog \/ GetRunLog \/ ProbeFails

Next ==
  /\ \/ Lifecycle /\ UNCHANGED scriptVars
     \/ ScriptStep \/ TimeOut \/ ServiceStep \/ Torn \/ AppFails \/ LateLands
     \/ Finished
  /\ crashes' + slow' + dberrors' <= MaxMishaps

\* The script and the threads that serve it run on, the kubelet restarts the container, and
\* an application that is not killed boots; nothing else is fair.
ContainerStep ==
  \/ Boot \/ Open \/ PollSeesExit \/ ExitWithApp \/ Restart
  \/ PollGivesUp /\ UNCHANGED crashes

Fairness ==
  /\ WF_vars(ScriptStep \/ ServiceStep)
  /\ WF_vars(ContainerStep /\ UNCHANGED scriptVars)

Spec == Init /\ [][Next]_vars /\ Fairness
-----------------------------------------------------------------------------
(* Properties.                                                             *)

Undisturbed == crashes = 0 /\ slow = 0 /\ dberrors = 0

\* A suite of a healthy subject fails for no other reason than missing isolation.  For the
\* subjects whose wrapper only sleeps this needs an application that was up in time; the
\* polling of s5 (wrapper.py:117-122) makes it true of every start.
NoFalseAlarm ==
  (env = "none" /\ Undisturbed /\ (early => sid = "s5")) =>
    \A s \in Suites : verdict[s] = "fail" => isolation = "off" /\ s # "smoke"

\* regression.py:36-39: without isolation the marker of the suite before is found, as long
\* as run_log exists and that suite came as far as its marker.
DriftSeen ==
  (isolation = "off" /\ table /\ slow = 0 /\ dberrors = 0) =>
    /\ clean["regression"] # "pass"
    /\ clean["e2e"] = "pass" => crashes > 0 \/ early

\* With isolation, a marker or an entity too many is no accident of the scripts: only a
\* write that outlived its client puts one behind the reset.
DriftReal ==
  (clean["regression"] = "fail" \/ clean["e2e"] = "fail" \/ counted["e2e"] = "fail") =>
    isolation = "off" \/ slow > 0 \/ crashes > 0

\* What the scripts were told of their creates and deletes is what the database holds:
\* an injected answer never hides a write that was made, nor reports one that was not.
ToldIsTrue == (Counts /\ Undisturbed /\ call.st = "idle") => entities = known

\* Under F10, a suite of s2 or s3 that met one flake fails (wrapper.py, F10: a failing suite
\* is what gets the FailureReport captured).  s5's smoke checks the shape of the JSON only.
FlakeSeen == \A s \in flaked : sid # "s5" => verdict[s] # "pass"

\* Every suite comes to an end: no request of a script stays without answer, timeout or
\* exception, and a subject that does not boot is started again.
SuitesFinish == <>(Suite = "done")
==============================================================================
