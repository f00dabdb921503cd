------------------------------ MODULE TestSuite ------------------------------
(***************************************************************************)
(* The test-suite pipeline of the preview operator                         *)
(* (internal/controller/tests.go, internal/controller/checkpoint.go): the  *)
(* reconciler walks status.tests.step through the stages, creates one Job  *)
(* per stage, reads its outcome, and isolates the regression and e2e       *)
(* suites by restoring the "after-seed" checkpoint before each of them.    *)
(*                                                                         *)
(* The operator is a single worker.  One of its actions is the part of a   *)
(* Reconcile call between two points where something else can matter: the  *)
(* Job it created survives when the status update that follows is lost to  *)
(* a conflict or a crash, and the work after the verdict is persisted is   *)
(* done call by call.  The environment runs the Jobs, collects them, moves *)
(* the informer caches, edits the spec and asks for checkpoints.           *)
(*                                                                         *)
(* The ghosts source, dying, base, wanted and disturbed, and the field     *)
(* "left" of a Job, are history: they guard no step.                       *)
(***************************************************************************)
EXTENDS Naturals, FiniteSets

CONSTANTS
  Configs,       \* the Preview specs considered (see ConfigType)
  Plans,         \* the accepted TestPlans, each the set of suites it selects
  MaxGen,        \* bound: generations of the spec, the first one included
  MaxCrashes,    \* bound: crashes of the operator in the work after the verdict
  MaxSwitches,   \* bound: changes of the accepted plan within a generation
  Requests,      \* TRUE: checkpoints are asked for through the spec
  InformerLag,   \* TRUE: the Job cache may miss a Job the operator has created
  ApiErrors,     \* TRUE: a call to the API server may fail
  SlowGC,        \* TRUE: a deleted Job stays visible until it is collected
  PromptOperator \* TRUE: a Job's outcome is recorded before its TTL runs out

Suites == {"smoke", "migration", "contract", "regression", "e2e"}
Stages == Suites \cup {"saving", "import-spec", "restore-regression", "restore-e2e"}

ConfigType == [enabled : SUBSET Suites, db : BOOLEAN, isolation : BOOLEAN,
               mode : {"restore", "migration"}, specURL : BOOLEAN]

ASSUME ConfigsAssumption == Configs \subseteq ConfigType /\ Configs # {}
ASSUME PlansAssumption   == Plans \subseteq SUBSET Suites /\ Plans # {}
ASSUME BoundsAssumption  == MaxGen \in Nat \ {0} /\ MaxCrashes \in Nat /\ MaxSwitches \in Nat
ASSUME FlagsAssumption   ==
  /\ Requests \in BOOLEAN /\ InformerLag \in BOOLEAN /\ ApiErrors \in BOOLEAN
  /\ SlowGC \in BOOLEAN /\ PromptOperator \in BOOLEAN

VARIABLES
  cfg,       \* the live spec: what is enabled, and how the database is isolated
  plan,      \* the suites the accepted TestPlan selects
  request,   \* the spec carries a request for a checkpoint (checkpointSave)
  gen,       \* metadata.generation
  observed,  \* status.observedGeneration
  tests,     \* status.tests
  source,    \* ghost: the generation of the Job each recorded result came from
  dying,     \* ghost: suites whose result was read off a Job being deleted
  base,      \* ghost: the generation status.tests was last cleared for
  wanted,    \* ghost: suites spec and plan have asked for ever since then
  disturbed, \* ghost: a reset, an edit, another plan, a Job left running or a
             \* suite run again has come between the suites
  jobs,      \* the Job of every stage (each stage has exactly one Job name)
  strays,    \* stages with a pod that outlived the deletion of its Job
  db,        \* contents of the preview database
  dump,      \* contents of ConfigMap db-checkpoint-after-seed
  after,     \* what Reconcile still does after persisting the verdict
  reported,  \* the current verdict has been written to a FailureReport
  crashes, switches

vars == <<cfg, plan, request, gen, observed, tests, source, dying, base, wanted, disturbed,
          jobs, strays, db, dump, after, reported, crashes, switches>>

-----------------------------------------------------------------------------
(* Types.  The empty string of the Go fields is written "unset". *)

Phases    == {"unset", "Running", "Succeeded", "Failed"}
Outcomes  == {"Succeeded", "Failed"}
Results   == {"unset", "Running", "Succeeded", "Failed", "Skipped"}
DBStates  == {"seeded", "dirty", "wiped", "schema"}
JobStates == {"absent", "active", "midway", "succeeded", "failed"}
Gens      == 0 .. MaxGen

JobType == [st : JobStates, gen : Gens, term : BOOLEAN, seen : BOOLEAN,
            mode : {"none", "restore", "migration"}, out : DBStates \cup {"none"},
            left : BOOLEAN]

TypeOK ==
  /\ cfg \in Configs /\ plan \in Plans /\ request \in BOOLEAN
  /\ gen \in 1 .. MaxGen /\ observed \in 1 .. MaxGen
  /\ tests \in [phase : Phases, step : Stages \cup {"unset"}, res : [Suites -> Results]]
  /\ source \in [Suites -> Gens] /\ dying \subseteq Suites
  /\ base \in 1 .. MaxGen /\ wanted \subseteq Suites /\ disturbed \in BOOLEAN
  /\ jobs \in [Stages -> JobType]
  /\ strays \subseteq Stages
  /\ db \in DBStates /\ dump \in DBStates \cup {"none"}
  /\ after \in {"none", "note", "report", "comment"}
  /\ reported \in BOOLEAN
  /\ crashes \in 0 .. MaxCrashes /\ switches \in 0 .. MaxSwitches

-----------------------------------------------------------------------------
(* The spec and the plan, as the pipeline reads them *)

Runs(s)  == s \in cfg.enabled /\ s \in plan
Isolated == cfg.db /\ cfg.isolation

\* A request the operator takes up: it has no database to save otherwise.
Pending == request /\ cfg.db

\* Stages reached from contract and regression, and from smoke or migration.
\* After contract the code looks at the spec only, not at the plan.
AfterContract == IF Isolated /\ "regression" \in cfg.enabled
                 THEN "restore-regression" ELSE "regression"

\* Mutant: contract runs only when there is a specification to import.
ContractNeedsImport ==
  IF Runs("contract") /\ cfg.specURL THEN "import-spec"
  ELSE IF Isolated /\ Runs("regression") THEN "restore-regression" ELSE "regression"

AfterMigration ==
  IF Runs("contract")
  THEN IF cfg.specURL THEN "import-spec" ELSE "contract"
  ELSE IF Isolated /\ Runs("regression") THEN "restore-regression" ELSE "regression"

AfterSmoke == IF Runs("migration") THEN "migration" ELSE AfterMigration

AfterRegression == IF Isolated /\ Runs("e2e") THEN "restore-e2e" ELSE "e2e"

-----------------------------------------------------------------------------
(* Jobs, as the operator sees and creates them *)

RestoreStages == {"restore-regression", "restore-e2e"}

NoJob == [st |-> "absent", gen |-> 0, term |-> FALSE, seen |-> TRUE, mode |-> "none",
          out |-> "none", left |-> FALSE]

\* A Job is created for the spec of the moment; a restore Job carries the mode.
NewJob(j) == [NoJob EXCEPT !.st = "active", !.gen = gen, !.seen = ~InformerLag,
                           !.mode = IF j \in RestoreStages THEN cfg.mode ELSE "none"]

Live(j)   == jobs[j].st # "absent"
Active(j) == jobs[j].st \in {"active", "midway"}

\* Mutant: a running suite counts as final.
RunningIsFinal(o) == o \in {"Succeeded", "Failed", "Skipped", "Running"}

Final(o) == o \in {"Succeeded", "Failed", "Skipped"}

\* Create, when the Job does not exist; AlreadyExists leaves it alone.
Ensured(j) == IF Live(j) THEN jobs ELSE [jobs EXCEPT ![j] = NewJob(j)]

\* Mutants: the Job's own word for its state is returned; the JobFailed
\* condition is not looked at.
ObserveRaw(j) == IF Live(j) THEN jobs[j].st ELSE "Running"
ObserveSucceededOnly(j) ==
  IF Live(j) /\ jobs[j].seen /\ jobs[j].st = "succeeded" THEN "Succeeded" ELSE "Running"

\* The state checkOrCreateTestJob returns.  A Job the cache does not show is
\* created; when it is there after all, Create fails and so does the suite.
Observe(j) ==
  IF Live(j) /\ ~jobs[j].seen THEN "Failed"
  ELSE CASE jobs[j].st = "succeeded" -> "Succeeded"
         [] jobs[j].st = "failed"    -> "Failed"
         [] OTHER                    -> "Running"

\* An error of Get or Create is a failure of the suite as well.
Observed(j) == {Observe(j)} \cup (IF ApiErrors THEN {"Failed"} ELSE {})

\* Mutant: a Job that has finished, either way, is done.
DoneWhenFinished(j) == Live(j) /\ jobs[j].seen /\ jobs[j].st \in {"succeeded", "failed"}

\* A save or restore Job is done when the cache shows it succeeded; a failed
\* one, or one the cache misses, makes Reconcile return an error and retry.
Done(j) == Live(j) /\ jobs[j].seen /\ jobs[j].st = "succeeded"

\* Delete with the default policy: the Job object goes, at once or when the
\* garbage collector has orphaned its pod; a pod that was running runs on.
\* Every Job there is, deleted or not, is left behind from here on.
Deleted(S) == [j \in Stages |->
                 IF ~Live(j) \/ (j \in S /\ ~SlowGC) THEN NoJob
                 ELSE [jobs[j] EXCEPT !.term = @ \/ j \in S, !.left = TRUE]]
Orphans(S) == IF SlowGC THEN {} ELSE {j \in S : Active(j)}

-----------------------------------------------------------------------------
(* Initial state: a fresh preview whose database has just been seeded *)

NoTests == [phase |-> "unset", step |-> "unset", res |-> [s \in Suites |-> "unset"]]

Init ==
  /\ cfg \in Configs /\ plan \in Plans
  /\ request = FALSE /\ gen = 1 /\ observed = 1
  /\ tests = NoTests /\ source = [s \in Suites |-> 0] /\ dying = {}
  /\ base = 1 /\ wanted = {s \in Suites : Runs(s)} /\ disturbed = FALSE
  /\ jobs = [j \in Stages |-> NoJob] /\ strays = {}
  /\ db = "seeded" /\ dump = "none"
  /\ after = "none" /\ reported = FALSE
  /\ crashes = 0 /\ switches = 0

-----------------------------------------------------------------------------
(* The operator.  saved: the status update at the end of the pass goes      *)
(* through (FALSE: conflict, error or crash before it).                     *)

\* The pass reaches the suite, at stage s: no request is served before it.
At(s) == after = "none" /\ ~Pending /\ tests.step = s /\ tests.phase \in {"unset", "Running"}

\* Mutant: the regression Job survives the reset.
ResetJobsButRegression == {"smoke", "contract", "e2e"}

\* Jobs resetDerivedStateForNewGeneration deletes, of those modelled here.
ResetJobs == {"smoke", "contract", "regression", "e2e"}

\* resetDerivedStateForNewGeneration: the spec is newer than the status.
ResetForNewGeneration(saved) ==
  /\ after = "none" /\ observed # gen /\ ~Pending
  /\ jobs' = Deleted(ResetJobs)
  /\ strays' = strays \cup Orphans(ResetJobs)
  /\ disturbed' = TRUE
  /\ IF saved
     THEN /\ observed' = gen /\ tests' = NoTests /\ reported' = FALSE
          /\ source' = [s \in Suites |-> 0] /\ dying' = {}
          /\ base' = gen /\ wanted' = {s \in Suites : Runs(s)}
     ELSE UNCHANGED <<observed, tests, reported, source, dying, base, wanted>>
  /\ UNCHANGED <<cfg, plan, request, gen, db, dump, after, crashes, switches>>

\* ... with a request pending, the generation is noted and nothing is reset.
NoteGeneration(saved) ==
  /\ after = "none" /\ observed # gen /\ Pending
  /\ observed' = IF saved THEN gen ELSE observed
  /\ UNCHANGED <<cfg, plan, request, gen, tests, source, dying, base, wanted, disturbed, jobs,
                 strays, db, dump, after, reported, crashes, switches>>

\* clearCheckpointRequest, once the checkpoint is stored: the patch of the spec
\* makes a generation of its own ...
ServeRequest ==
  /\ after = "none" /\ Pending /\ gen < MaxGen
  /\ request' = FALSE /\ gen' = gen + 1 /\ after' = "note"
  /\ UNCHANGED <<cfg, plan, observed, tests, source, dying, base, wanted, disturbed, jobs, strays,
                 db, dump, reported, crashes, switches>>

\* ... and the status notes the generation read after it, whoever made it.
NoteServed(saved) ==
  /\ after = "note" /\ after' = "none"
  /\ observed' = IF saved THEN gen ELSE observed
  /\ UNCHANGED <<cfg, plan, request, gen, tests, source, dying, base, wanted, disturbed, jobs,
                 strays, db, dump, reported, crashes, switches>>

\* First entry: choose the first stage.
StartSuite ==
  /\ At("unset")
  /\ tests' = [tests EXCEPT !.phase = "Running", !.step = IF Isolated THEN "saving" ELSE "smoke"]
  /\ UNCHANGED <<cfg, plan, request, gen, observed, source, dying, base, wanted, disturbed, jobs,
                 strays, db, dump, after, reported, crashes, switches>>

MoveTo(s, saved) ==
  IF saved THEN tests' = [tests EXCEPT !.step = s] ELSE UNCHANGED tests

\* Stage "saving".  An existing ConfigMap ends it whatever it holds.
SaveCheckpoint(saved) ==
  /\ At("saving")
  /\ \/ dump # "none" /\ MoveTo("smoke", saved) /\ UNCHANGED <<jobs, dump>>
     \/ dump = "none" /\ ~Live("saving") /\ jobs' = Ensured("saving") /\ UNCHANGED <<tests, dump>>
     \/ /\ dump = "none" /\ Done("saving")
        /\ dump' = jobs["saving"].out
        /\ MoveTo("smoke", saved) /\ UNCHANGED jobs
  /\ UNCHANGED <<cfg, plan, request, gen, observed, source, dying, base, wanted, disturbed, strays,
                 db, after, reported, crashes, switches>>

\* Stages "restore-regression" and "restore-e2e".  In "restore" mode a missing
\* checkpoint is an error, returned on every pass.
RestoreCheckpoint(j, next, saved) ==
  /\ At(j)
  /\ cfg.mode = "restore" => dump # "none"
  /\ \/ ~Live(j) /\ jobs' = Ensured(j) /\ UNCHANGED tests
     \/ Done(j) /\ MoveTo(next, saved) /\ UNCHANGED jobs
  /\ UNCHANGED <<cfg, plan, request, gen, observed, source, dying, base, wanted, disturbed, strays,
                 db, dump, after, reported, crashes, switches>>

\* The outcomes a pass may find for suite s, and the Job it leaves behind.
Found(s)   == IF Runs(s) THEN Observed(s) ELSE {"Skipped"}

\* An outcome is recorded that the Job of s, which is there, has not come to.
Abandoned(s, o) == Live(s) /\ o \in {"Skipped", "Failed"} /\ ~(o = "Failed" /\ jobs[s].st = "failed")

Left(s, o, saved) == IF o = "Running" THEN Ensured(s)
                     ELSE IF saved /\ Abandoned(s, o) THEN [jobs EXCEPT ![s].left = TRUE]
                     ELSE jobs

\* The generation whose Job (or whose failure to get one) gave outcome o.
Source(s, o) == IF o \in Outcomes
                THEN [source EXCEPT ![s] = IF Live(s) THEN jobs[s].gen ELSE gen]
                ELSE source

Dying(s, o) == IF o \in Outcomes /\ Live(s) /\ jobs[s].term THEN dying \cup {s} ELSE dying \ {s}

\* Stage "import-spec": the outcome of the import is not looked at.
ImportSpec(saved) ==
  /\ At("import-spec")
  /\ \E o \in Observed("import-spec") :
       /\ jobs' = Left("import-spec", o, saved)
       /\ disturbed' = (disturbed \/ (saved /\ Abandoned("import-spec", o)))
       /\ IF Final(o) THEN MoveTo("contract", saved) ELSE UNCHANGED tests
  /\ UNCHANGED <<cfg, plan, request, gen, observed, source, dying, base, wanted, strays, db, dump,
                 after, reported, crashes, switches>>

\* A suite stage, but for the last: a suite that does not run is skipped, one
\* that runs is waited for and recorded, and the pipeline moves on with it.
RunSuite(s, next, saved) ==
  /\ At(s)
  /\ \E o \in Found(s) :
       /\ jobs' = Left(s, o, saved)
       /\ disturbed' = (disturbed \/ (saved /\ Abandoned(s, o)))
       /\ IF saved
          THEN /\ tests' = [tests EXCEPT !.res[s] = o, !.phase = "Running",
                                         !.step = IF Final(o) THEN next ELSE s]
               /\ source' = Source(s, o) /\ dying' = Dying(s, o)
          ELSE UNCHANGED <<tests, source, dying>>
  /\ UNCHANGED <<cfg, plan, request, gen, observed, base, wanted, strays, db, dump, after,
                 reported, crashes, switches>>

\* Mutant: the verdict overlooks the migration suite.
VerdictOfStandard(res) ==
  IF \E s \in Suites \ {"migration"} : res[s] = "Failed" THEN "Failed" ELSE "Succeeded"

Verdict(res) == IF \E s \in Suites : res[s] = "Failed" THEN "Failed" ELSE "Succeeded"

\* What is left to do once the verdict v is persisted.
AfterVerdict(v) == IF v = "Failed" THEN "report" ELSE "comment"

\* Stage "e2e": as above, and the verdict is persisted with the result.
RunE2E(saved) ==
  /\ At("e2e")
  /\ \E o \in Found("e2e") :
       LET res == [tests.res EXCEPT !["e2e"] = o]
       IN  /\ jobs' = Left("e2e", o, saved)
           /\ disturbed' = (disturbed \/ (saved /\ Abandoned("e2e", o)))
           /\ IF saved
              THEN /\ tests' = [tests EXCEPT !.res = res,
                                  !.phase = IF Final(o) THEN Verdict(res) ELSE "Running"]
                   /\ source' = Source("e2e", o) /\ dying' = Dying("e2e", o)
                   /\ after' = IF Final(o) THEN AfterVerdict(Verdict(res)) ELSE "none"
              ELSE UNCHANGED <<tests, source, dying, after>>
  /\ UNCHANGED <<cfg, plan, request, gen, observed, base, wanted, strays, db, dump, reported,
                 crashes, switches>>

\* captureFailureReport, then postTestResultsComment: both best-effort, and
\* no later pass comes back to them (a terminal phase returns at once).
CaptureReport ==
  /\ after = "report"
  /\ after' = "comment"
  /\ IF ApiErrors THEN reported' \in {TRUE, reported} ELSE reported' = TRUE
  /\ UNCHANGED <<cfg, plan, request, gen, observed, tests, source, dying, base, wanted, disturbed,
                 jobs, strays, db, dump, crashes, switches>>

PostComment ==
  /\ after = "comment"
  /\ after' = "none"
  /\ UNCHANGED <<cfg, plan, request, gen, observed, tests, source, dying, base, wanted, disturbed,
                 jobs, strays, db, dump, reported, crashes, switches>>

Crash ==
  /\ after # "none" /\ crashes < MaxCrashes
  /\ after' = "none" /\ crashes' = crashes + 1
  /\ UNCHANGED <<cfg, plan, request, gen, observed, tests, source, dying, base, wanted, disturbed,
                 jobs, strays, db, dump, reported, switches>>

Reconcile(saved) ==
  \/ ResetForNewGeneration(saved)
  \/ NoteGeneration(saved)
  \/ saved /\ StartSuite
  \/ SaveCheckpoint(saved)
  \/ RunSuite("smoke", AfterSmoke, saved)
  \/ RunSuite("migration", AfterMigration, saved)
  \/ ImportSpec(saved)
  \/ RunSuite("contract", AfterContract, saved)
  \/ RestoreCheckpoint("restore-regression", "regression", saved)
  \/ RunSuite("regression", AfterRegression, saved)
  \/ RestoreCheckpoint("restore-e2e", "e2e", saved)
  \/ RunE2E(saved)

-----------------------------------------------------------------------------
(* The environment *)

\* What restore Job j leaves in the database: the dump, or in "migration" mode
\* the schema the migration command creates.
Restored(j) == IF jobs[j].mode = "restore" THEN dump ELSE "schema"

\* A restore empties the tables (or the schema) first, and replays second.
RestoreWipes(j) ==
  /\ j \in RestoreStages /\ jobs[j].st = "active"
  /\ jobs' = [jobs EXCEPT ![j].st = "midway"] /\ db' = "wiped"
  /\ UNCHANGED <<cfg, plan, request, gen, observed, tests, source, dying, base, wanted, disturbed,
                 strays, dump, after, reported, crashes, switches>>

JobSucceeds(j) ==
  /\ IF j \in RestoreStages
     THEN /\ jobs[j].st = "midway" /\ Restored(j) # "none"
          /\ db' = Restored(j)
     ELSE jobs[j].st = "active" /\ UNCHANGED db
  /\ jobs' = [jobs EXCEPT ![j].st = "succeeded", ![j].out = IF j = "saving" THEN db ELSE "none"]
  /\ UNCHANGED <<cfg, plan, request, gen, observed, tests, source, dying, base, wanted, disturbed,
                 strays, dump, after, reported, crashes, switches>>

JobFails(j) ==
  /\ Active(j)
  /\ jobs' = [jobs EXCEPT ![j].st = "failed"]
  /\ UNCHANGED <<cfg, plan, request, gen, observed, tests, source, dying, base, wanted, disturbed,
                 strays, db, dump, after, reported, crashes, switches>>

\* Stages whose Job is read by checkOrCreateTestJob: its failure is recorded,
\* that of a save or restore Job is an error until the Job has expired.
Tested(j) == j \in Suites \cup {"import-spec"}

\* TTLSecondsAfterFinished: the Job and its pod are deleted.
JobExpires(j) ==
  /\ jobs[j].st \in {"succeeded", "failed"}
  /\ PromptOperator => \/ tests.step # j \/ tests.phase \in Outcomes
                       \/ jobs[j].st = "failed" /\ ~Tested(j)
  /\ jobs' = [jobs EXCEPT ![j] = NoJob]
  /\ disturbed' = (disturbed \/ (j \in Suites /\ tests.step = j /\ tests.phase \notin Outcomes))
  /\ UNCHANGED <<cfg, plan, request, gen, observed, tests, source, dying, base, wanted, strays, db,
                 dump, after, reported, crashes, switches>>

\* The garbage collector finishes the deletion of a Job.
JobCollected(j) ==
  /\ jobs[j].term
  /\ jobs' = [jobs EXCEPT ![j] = NoJob]
  /\ strays' = IF Active(j) THEN strays \cup {j} ELSE strays
  /\ UNCHANGED <<cfg, plan, request, gen, observed, tests, source, dying, base, wanted, disturbed,
                 db, dump, after, reported, crashes, switches>>

JobSeen(j) ==
  /\ Live(j) /\ ~jobs[j].seen
  /\ jobs' = [jobs EXCEPT ![j].seen = TRUE]
  /\ UNCHANGED <<cfg, plan, request, gen, observed, tests, source, dying, base, wanted, disturbed,
                 strays, db, dump, after, reported, crashes, switches>>

StrayEnds(j) ==
  /\ j \in strays
  /\ strays' = strays \ {j}
  /\ UNCHANGED <<cfg, plan, request, gen, observed, tests, source, dying, base, wanted, disturbed,
                 jobs, db, dump, after, reported, crashes, switches>>

\* A suite's pod writes to the preview database.
SuiteWrites(s) ==
  /\ s \in Suites /\ (Active(s) \/ s \in strays)
  /\ db # "dirty" /\ db' = "dirty"
  /\ UNCHANGED <<cfg, plan, request, gen, observed, tests, source, dying, base, wanted, disturbed,
                 jobs, strays, dump, after, reported, crashes, switches>>

\* A new image, or any other edit of the spec; a request for a checkpoint comes
\* by itself or with an edit.  The bound leaves a generation for serving it.
SpecChange ==
  /\ gen < MaxGen /\ gen' = gen + 1
  /\ cfg' \in Configs /\ plan' \in Plans /\ switches' = 0
  /\ request' \in {request} \cup (IF Requests THEN {TRUE} ELSE {})
  /\ request' => gen' < MaxGen
  /\ wanted' = {s \in wanted : Runs(s)'}
  /\ disturbed' = (disturbed \/ cfg' # cfg \/ plan' # plan)
  /\ UNCHANGED <<observed, tests, source, dying, base, jobs, strays, db, dump, after, reported,
                 crashes>>

\* reconcileTestStrategy accepts another plan while the suite runs (a late
\* agent plan replacing the full-suite fallback).
SwitchPlan ==
  /\ switches < MaxSwitches /\ switches' = switches + 1
  /\ plan' \in Plans \ {plan}
  /\ wanted' = wanted \cap plan' /\ disturbed' = TRUE
  /\ UNCHANGED <<cfg, request, gen, observed, tests, source, dying, base, jobs, strays, db, dump,
                 after, reported, crashes>>

Environment ==
  \/ \E j \in Stages :
       RestoreWipes(j) \/ JobSucceeds(j) \/ JobFails(j) \/ JobExpires(j)
       \/ JobCollected(j) \/ JobSeen(j) \/ StrayEnds(j) \/ SuiteWrites(j)
  \/ SpecChange \/ SwitchPlan

Operator == \/ \E saved \in BOOLEAN : Reconcile(saved) \/ NoteServed(saved)
            \/ ServeRequest \/ CaptureReport \/ PostComment \/ Crash

Next == Operator \/ Environment

Spec == Init /\ [][Next]_vars

-----------------------------------------------------------------------------
(* Fairness.  A pass is requeued after an error or a conflict until one goes *)
(* through, and it begins with the reset; caches, the TTL and the garbage    *)
(* collector do their work.  A Job with activeDeadlineSeconds ends; nothing  *)
(* makes the other Jobs end.                                                 *)

Deadlined == {"smoke", "migration", "regression"}

FairSpec ==
  /\ Spec
  /\ WF_vars(ResetForNewGeneration(TRUE)) /\ WF_vars(Reconcile(TRUE))
  /\ WF_vars(ServeRequest) /\ WF_vars(\E saved \in BOOLEAN : NoteServed(saved))
  /\ WF_vars(CaptureReport) /\ WF_vars(PostComment)
  /\ \A j \in Stages : WF_vars(JobSeen(j)) /\ WF_vars(JobCollected(j)) /\ WF_vars(JobExpires(j))
  /\ \A j \in Deadlined : WF_vars(JobSucceeds(j) \/ JobFails(j))

-----------------------------------------------------------------------------
(* Properties *)

\* The pipeline implements its abstract specification: whatever the Jobs, the
\* caches and the conflicts do, status.tests settles the suites in order, never
\* touches a settled result again, and its verdict agrees with the results.
Pipeline == INSTANCE SuitePipeline WITH phase <- tests.phase, step <- tests.step, res <- tests.res
PipelineSpec == Pipeline!Spec

\* A Succeeded verdict covers every suite that spec and plan have asked for
\* ever since the results were last cleared: it was run and it succeeded (none
\* is lost on the many ways through the stages, whatever is edited, requested
\* or planned meanwhile).
VerdictCoversSpec ==
  tests.phase = "Succeeded" => \A s \in wanted : tests.res[s] = "Succeeded"

\* A recorded result came from a Job created since the results were last
\* cleared, not from one an earlier generation left behind; only a Job whose
\* deletion is still under way can break this.  The Job of the migration suite
\* is not among those the reset deletes, and is left out.
FreshResults ==
  \A s \in Suites \ ({"migration"} \cup dying) :
    tests.res[s] \in Outcomes => source[s] >= base

\* Every Job that runs beside the pipeline was left behind by a reset, by a
\* result recorded against it, or by a skip: at most one other Job runs.
OneAtATime == Cardinality({j \in Stages : Active(j) /\ ~jobs[j].left}) <= 1

\* No suite can write to the database.
QuietDatabase == \A t \in Suites : ~Active(t) /\ t \notin strays

\* The Job of suite s is created in this step, under isolation.
StartsIsolated(s) == Isolated /\ ~Live(s) /\ jobs'[s].st = "active"


\* The same in "restore" mode, as long as nothing has come between the suites:
\* lost updates, failing and repeated restores, lagging caches and requests for
\* checkpoints do not break the isolation.
IsolationKept ==
  [][\A s \in {"regression", "e2e"} :
       StartsIsolated(s) /\ cfg.mode = "restore" /\ ~disturbed =>
         db = "seeded" /\ QuietDatabase]_vars

\* A Succeeded verdict covers the spec its generation is recorded with: what an
\* edit that arrives with a request asks for is run as well.
VerdictCoversEdit ==
  observed = gen /\ tests.phase = "Succeeded" =>
    \A s \in Suites : Runs(s) => tests.res[s] = "Succeeded"

\* The pipeline reaches a verdict.
SuiteTerminates == <>[](tests.phase \in Outcomes)
=============================================================================
