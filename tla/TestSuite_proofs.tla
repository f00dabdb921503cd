--------------------------- MODULE TestSuite_proofs ---------------------------
(***************************************************************************)
(* Theorems about TestSuite, for every set of specs and plans, any number  *)
(* of generations, crashes and plan changes, and every setting of the five *)
(* environment flags.                                                      *)
(***************************************************************************)
EXTENDS TestSuite, TLAPS

\* What a reconcile pass needs of the constants.
LEMMA ConfigFacts ==
  ASSUME cfg \in Configs
  PROVE  /\ cfg.enabled \subseteq Suites
         /\ cfg.mode \in {"restore", "migration"}
         /\ cfg.db \in BOOLEAN /\ cfg.isolation \in BOOLEAN /\ cfg.specURL \in BOOLEAN
  BY ConfigsAssumption DEF ConfigType

\* The next stages are stages.
LEMMA NextStages ==
  /\ AfterSmoke \in Stages /\ AfterMigration \in Stages
  /\ AfterContract \in Stages /\ AfterRegression \in Stages
  BY DEF AfterSmoke, AfterMigration, AfterContract, AfterRegression, Stages, Suites

\* Creating, leaving and deleting Jobs keep the table of Jobs well formed.
LEMMA EnsuredType ==
  ASSUME TypeOK, NEW j \in Stages
  PROVE  Ensured(j) \in [Stages -> JobType]
<1>1. gen \in Gens
  BY BoundsAssumption DEF TypeOK, Gens
<1>2. cfg.mode \in {"restore", "migration"}
  BY ConfigFacts DEF TypeOK
<1>3. NewJob(j) \in JobType
  BY <1>1, <1>2, FlagsAssumption DEF NewJob, NoJob, JobType, JobStates
<1> QED
  BY <1>3 DEF TypeOK, Ensured

LEMMA NoJobType == NoJob \in JobType
  BY BoundsAssumption DEF NoJob, JobType, JobStates, Gens

LEMMA DeletedType ==
  ASSUME TypeOK, NEW S
  PROVE  Deleted(S) \in [Stages -> JobType]
<1>1. ASSUME NEW j \in Stages
      PROVE  [jobs[j] EXCEPT !.term = @ \/ j \in S, !.left = TRUE] \in JobType
  <2>1. jobs[j] \in JobType
    BY DEF TypeOK
  <2>2. (jobs[j].term \/ j \in S) \in BOOLEAN
    OBVIOUS
  <2> QED
    BY <2>1, <2>2 DEF JobType
<1> QED
  BY <1>1, NoJobType DEF Deleted

\* What a pass finds for a suite is a result, and what is not final is "Running".
LEMMA FoundType ==
  ASSUME NEW s \in Suites, NEW o \in Found(s)
  PROVE  /\ o \in Results
         /\ ~Final(o) => o = "Running"
         /\ Final(o) => o \in {"Succeeded", "Failed", "Skipped"}
  BY DEF Found, Observed, Observe, Results, Final

-----------------------------------------------------------------------------
(* Type correctness, one lemma for the operator and one for the rest *)

LEMMA InitType == Init => TypeOK
<1>1. NoTests \in [phase : Phases, step : Stages \cup {"unset"}, res : [Suites -> Results]]
  BY DEF NoTests, Phases, Results
<1>2. 0 \in Gens /\ 1 \in 1 .. MaxGen /\ 0 \in 0 .. MaxCrashes /\ 0 \in 0 .. MaxSwitches
  BY BoundsAssumption DEF Gens
<1> QED
  BY <1>1, <1>2, NoJobType, BoundsAssumption DEF Init, TypeOK, DBStates

LEMMA ResetType ==
  ASSUME TypeOK, NEW saved \in BOOLEAN, ResetForNewGeneration(saved)
  PROVE  TypeOK'
<1>1. jobs' \in [Stages -> JobType]
  BY DeletedType DEF ResetForNewGeneration
<1>2. strays' \subseteq Stages
  BY DEF ResetForNewGeneration, Orphans, ResetJobs, TypeOK, Stages, Suites
<1>a. 0 \in Gens
  BY BoundsAssumption DEF Gens
<1>3. observed' \in 1 .. MaxGen /\ reported' \in BOOLEAN /\ source' \in [Suites -> Gens]
  BY <1>a DEF ResetForNewGeneration, TypeOK
<1>b. base' \in 1 .. MaxGen /\ wanted' \subseteq Suites /\ dying' \subseteq Suites
  BY DEF ResetForNewGeneration, TypeOK
<1>4. tests' \in [phase : Phases, step : Stages \cup {"unset"}, res : [Suites -> Results]]
  BY DEF ResetForNewGeneration, TypeOK, NoTests, Phases, Results
<1> QED
  BY <1>1, <1>2, <1>3, <1>b, <1>4 DEF ResetForNewGeneration, TypeOK

\* Noting a generation, and serving a request.
LEMMA RequestType ==
  ASSUME TypeOK, NEW saved \in BOOLEAN,
         NoteGeneration(saved) \/ ServeRequest \/ NoteServed(saved)
  PROVE  TypeOK'
<1>1. CASE NoteGeneration(saved)
  BY <1>1 DEF NoteGeneration, TypeOK
<1>2. CASE ServeRequest
  <2>1. gen' \in 1 .. MaxGen
    BY <1>2, BoundsAssumption DEF ServeRequest, TypeOK
  <2> QED
    BY <1>2, <2>1 DEF ServeRequest, TypeOK
<1>3. CASE NoteServed(saved)
  BY <1>3 DEF NoteServed, TypeOK
<1> QED
  BY <1>1, <1>2, <1>3

LEMMA MoveType ==
  ASSUME TypeOK, NEW s \in Stages, NEW saved \in BOOLEAN, MoveTo(s, saved)
  PROVE  tests' \in [phase : Phases, step : Stages \cup {"unset"}, res : [Suites -> Results]]
  BY DEF MoveTo, TypeOK

LEMMA StartType == TypeOK /\ StartSuite => TypeOK'
  BY DEF StartSuite, TypeOK, Phases, Stages, Suites

LEMMA SaveType ==
  ASSUME TypeOK, NEW saved \in BOOLEAN, SaveCheckpoint(saved)
  PROVE  TypeOK'
<1>1. jobs' \in [Stages -> JobType]
  BY EnsuredType DEF SaveCheckpoint, TypeOK, Stages
<1>2. tests' \in [phase : Phases, step : Stages \cup {"unset"}, res : [Suites -> Results]]
  BY MoveType DEF SaveCheckpoint, TypeOK, Stages, Suites
<1>3. dump' \in DBStates \cup {"none"}
  BY DEF SaveCheckpoint, TypeOK, JobType, Stages
<1> QED
  BY <1>1, <1>2, <1>3 DEF SaveCheckpoint, TypeOK

LEMMA RestoreType ==
  ASSUME TypeOK, NEW j \in Stages, NEW next \in Stages, NEW saved \in BOOLEAN,
         RestoreCheckpoint(j, next, saved)
  PROVE  TypeOK'
<1>1. jobs' \in [Stages -> JobType]
  BY EnsuredType DEF RestoreCheckpoint, TypeOK
<1>2. tests' \in [phase : Phases, step : Stages \cup {"unset"}, res : [Suites -> Results]]
  BY MoveType DEF RestoreCheckpoint, TypeOK
<1> QED
  BY <1>1, <1>2 DEF RestoreCheckpoint, TypeOK

\* The Job, the source and the mark a suite stage leaves behind.
LEMMA LeftType ==
  ASSUME TypeOK, NEW s \in Stages, NEW o, NEW saved
  PROVE  Left(s, o, saved) \in [Stages -> JobType]
<1>1. [jobs EXCEPT ![s].left = TRUE] \in [Stages -> JobType]
  BY ZenonT(60) DEF TypeOK, JobType
<1> QED
  BY <1>1, EnsuredType DEF Left, TypeOK

LEMMA SuiteJobType ==
  ASSUME TypeOK, NEW s \in Suites, NEW o
  PROVE  /\ Source(s, o) \in [Suites -> Gens]
         /\ Dying(s, o) \subseteq Suites
<1>1. gen \in Gens
  BY BoundsAssumption DEF TypeOK, Gens
<1>2. jobs[s].gen \in Gens
  BY DEF TypeOK, JobType, Stages
<1>3. Source(s, o) \in [Suites -> Gens]
  BY <1>1, <1>2 DEF Source, TypeOK
<1> QED
  BY <1>3 DEF Dying, TypeOK

LEMMA ImportType ==
  ASSUME TypeOK, NEW saved \in BOOLEAN, ImportSpec(saved)
  PROVE  TypeOK'
<1>1. jobs' \in [Stages -> JobType]
  BY LeftType DEF ImportSpec, Stages
<1>2. tests' \in [phase : Phases, step : Stages \cup {"unset"}, res : [Suites -> Results]]
  BY MoveType DEF ImportSpec, TypeOK, Stages, Suites
<1>3. disturbed' \in BOOLEAN
  BY DEF ImportSpec
<1> QED
  BY <1>1, <1>2, <1>3 DEF ImportSpec, TypeOK

LEMMA SuiteType ==
  ASSUME TypeOK, NEW s \in Suites, NEW next \in Stages, NEW saved \in BOOLEAN,
         RunSuite(s, next, saved)
  PROVE  TypeOK'
<1>1. PICK o \in Found(s) :
        /\ jobs' = Left(s, o, saved)
        /\ disturbed' = (disturbed \/ (saved /\ Abandoned(s, o)))
        /\ IF saved
           THEN /\ tests' = [tests EXCEPT !.res[s] = o, !.phase = "Running",
                                          !.step = IF Final(o) THEN next ELSE s]
                /\ source' = Source(s, o) /\ dying' = Dying(s, o)
           ELSE UNCHANGED <<tests, source, dying>>
  BY DEF RunSuite
<1>2. jobs' \in [Stages -> JobType]
  BY <1>1, LeftType DEF Stages
<1>a. source' \in [Suites -> Gens] /\ dying' \subseteq Suites /\ disturbed' \in BOOLEAN
  BY <1>1, SuiteJobType DEF TypeOK
<1>3. o \in Results /\ s \in Stages
  BY FoundType DEF Stages
<1>4. tests' \in [phase : Phases, step : Stages \cup {"unset"}, res : [Suites -> Results]]
  <2>1. tests.res \in [Suites -> Results]
    BY DEF TypeOK
  <2>2. [tests.res EXCEPT ![s] = o] \in [Suites -> Results]
    BY <1>3, <2>1
  <2>3. CASE saved
    BY <1>1, <1>3, <2>2, <2>3 DEF TypeOK, Phases
  <2>4. CASE ~saved
    BY <1>1, <2>4 DEF TypeOK
  <2> QED
    BY <2>3, <2>4
<1> QED
  BY <1>2, <1>a, <1>4 DEF RunSuite, TypeOK

LEMMA E2EType ==
  ASSUME TypeOK, NEW saved \in BOOLEAN, RunE2E(saved)
  PROVE  TypeOK'
<1>1. PICK o \in Found("e2e") :
        LET res == [tests.res EXCEPT !["e2e"] = o]
        IN  /\ jobs' = Left("e2e", o, saved)
            /\ disturbed' = (disturbed \/ (saved /\ Abandoned("e2e", o)))
            /\ IF saved
               THEN /\ tests' = [tests EXCEPT !.res = res,
                                   !.phase = IF Final(o) THEN Verdict(res) ELSE "Running"]
                    /\ source' = Source("e2e", o) /\ dying' = Dying("e2e", o)
                    /\ after' = IF Final(o) THEN AfterVerdict(Verdict(res)) ELSE "none"
               ELSE UNCHANGED <<tests, source, dying, after>>
  BY DEF RunE2E
<1>2. "e2e" \in Suites /\ "e2e" \in Stages
  BY DEF Suites, Stages
<1>3. jobs' \in [Stages -> JobType]
  BY <1>1, <1>2, LeftType
<1>a. source' \in [Suites -> Gens] /\ dying' \subseteq Suites /\ disturbed' \in BOOLEAN
  BY <1>1, <1>2, SuiteJobType DEF TypeOK
<1>4. o \in Results
  BY <1>2, FoundType
<1>5. tests' \in [phase : Phases, step : Stages \cup {"unset"}, res : [Suites -> Results]]
  <2>1. tests.res \in [Suites -> Results]
    BY DEF TypeOK
  <2>2. [tests.res EXCEPT !["e2e"] = o] \in [Suites -> Results]
    BY <1>2, <1>4, <2>1
  <2>3. CASE saved
    BY <1>1, <2>2, <2>3 DEF TypeOK, Phases, Verdict
  <2>4. CASE ~saved
    BY <1>1, <2>4 DEF TypeOK
  <2> QED
    BY <2>3, <2>4
<1>6. after' \in {"none", "note", "report", "comment"}
  BY <1>1 DEF TypeOK, AfterVerdict
<1> QED
  BY <1>3, <1>a, <1>5, <1>6 DEF RunE2E, TypeOK

LEMMA AfterType == TypeOK /\ (CaptureReport \/ PostComment \/ Crash) => TypeOK'
<1>1. ASSUME TypeOK, CaptureReport PROVE TypeOK'
  <2>1. reported' \in BOOLEAN
    <3>1. CASE ApiErrors
      BY <1>1, <3>1 DEF TypeOK, CaptureReport
    <3>2. CASE ~ApiErrors
      BY <1>1, <3>2 DEF CaptureReport
    <3> QED
      BY <3>1, <3>2
  <2> QED
    BY <1>1, <2>1 DEF TypeOK, CaptureReport
<1>2. ASSUME TypeOK, PostComment PROVE TypeOK'
  BY <1>2 DEF TypeOK, PostComment
<1>3. ASSUME TypeOK, Crash PROVE TypeOK'
  BY <1>3, BoundsAssumption DEF TypeOK, Crash
<1> QED
  BY <1>1, <1>2, <1>3

\* A pass of the operator, and what it does after the verdict.
LEMMA OperatorType == TypeOK /\ Operator => TypeOK'
<1> SUFFICES ASSUME TypeOK, Operator PROVE TypeOK'
  OBVIOUS
<1>1. ASSUME NEW saved \in BOOLEAN, Reconcile(saved) PROVE TypeOK'
  <2>1. {"smoke", "migration", "contract", "regression"} \subseteq Suites
    BY DEF Suites
  <2>2. {"restore-regression", "restore-e2e", "regression", "e2e"} \subseteq Stages
    BY DEF Suites, Stages
  <2> QED
    BY <1>1, <2>1, <2>2, NextStages, ResetType, RequestType, StartType, SaveType, ImportType,
       RestoreType, SuiteType, E2EType DEF Reconcile
<1> QED
  BY <1>1, RequestType, AfterType DEF Operator

\* What the environment does to one Job, and to the spec and the plan.
LEMMA JobStepType ==
  ASSUME TypeOK, NEW j \in Stages,
         \/ RestoreWipes(j) \/ JobSucceeds(j) \/ JobFails(j) \/ JobExpires(j)
         \/ JobCollected(j) \/ JobSeen(j) \/ StrayEnds(j) \/ SuiteWrites(j)
  PROVE  TypeOK'
<1>1. CASE RestoreWipes(j)
  BY <1>1 DEF RestoreWipes, TypeOK, JobType, JobStates, DBStates
<1>2. CASE JobSucceeds(j)
  <2>1. db' \in DBStates
    BY <1>2 DEF JobSucceeds, Restored, TypeOK, DBStates
  <2>2. jobs' \in [Stages -> JobType]
    <3>1. (IF j = "saving" THEN db ELSE "none") \in DBStates \cup {"none"}
      BY DEF TypeOK
    <3>2. ASSUME NEW o \in DBStates \cup {"none"}
          PROVE  [jobs EXCEPT ![j].st = "succeeded", ![j].out = o] \in [Stages -> JobType]
      <4> DEFINE k == [jobs[j] EXCEPT !.st = "succeeded", !.out = o]
      <4>3. jobs[j] \in JobType
        BY DEF TypeOK
      <4>1. k \in JobType
        BY <4>3 DEF JobType, JobStates
      <4>2. [jobs EXCEPT ![j].st = "succeeded", ![j].out = o] = [jobs EXCEPT ![j] = k]
        BY DEF TypeOK, JobType
      <4> HIDE DEF k
      <4> QED
        BY <4>1, <4>2 DEF TypeOK
    <3> QED
      BY <1>2, <3>1, <3>2 DEF JobSucceeds
  <2> QED
    BY <1>2, <2>1, <2>2 DEF JobSucceeds, TypeOK
<1>3. CASE JobFails(j)
  BY <1>3 DEF JobFails, TypeOK, JobType, JobStates
<1>4. CASE JobExpires(j)
  BY <1>4, NoJobType DEF JobExpires, TypeOK
<1>5. CASE JobCollected(j)
  BY <1>5, NoJobType DEF JobCollected, TypeOK
<1>6. CASE JobSeen(j)
  BY <1>6, ZenonT(60) DEF JobSeen, TypeOK, JobType
<1>7. CASE StrayEnds(j)
  BY <1>7 DEF StrayEnds, TypeOK
<1>8. CASE SuiteWrites(j)
  BY <1>8 DEF SuiteWrites, TypeOK, DBStates
<1> QED
  BY <1>1, <1>2, <1>3, <1>4, <1>5, <1>6, <1>7, <1>8

LEMMA EditType == TypeOK /\ (SpecChange \/ SwitchPlan) => TypeOK'
<1> SUFFICES ASSUME TypeOK, SpecChange \/ SwitchPlan PROVE TypeOK'
  OBVIOUS
<1>1. gen' \in 1 .. MaxGen /\ switches' \in 0 .. MaxSwitches
  <2>1. gen \in 1 .. MaxGen /\ switches \in 0 .. MaxSwitches
    BY DEF TypeOK
  <2>2. CASE SpecChange
    <3>1. gen < MaxGen /\ gen' = gen + 1 /\ switches' = 0
      BY <2>2 DEF SpecChange
    <3> QED
      BY <2>1, <3>1, BoundsAssumption
  <2>3. CASE SwitchPlan
    <3>1. gen' = gen /\ switches < MaxSwitches /\ switches' = switches + 1
      BY <2>3 DEF SwitchPlan
    <3> QED
      BY <2>1, <3>1, BoundsAssumption
  <2> QED
    BY <2>2, <2>3
<1>2. wanted' \subseteq Suites /\ request' \in BOOLEAN
  BY DEF SpecChange, SwitchPlan, TypeOK
<1> QED
  BY <1>1, <1>2 DEF SpecChange, SwitchPlan, TypeOK

LEMMA NextType == TypeOK /\ [Next]_vars => TypeOK'
<1>1. CASE UNCHANGED vars
  BY <1>1 DEF vars, TypeOK
<1> QED
  BY <1>1, OperatorType, JobStepType, EditType DEF Next, Environment

\* Every reachable state is well formed: the stage, the results and the Jobs
\* never leave the values the status and the cluster can hold.
THEOREM TypeCorrect == Spec => []TypeOK
  BY InitType, NextType, PTL DEF Spec

-----------------------------------------------------------------------------
(* Refinement.  The abstract pipeline needs one fact about reachable states: *)
(* a stage is set only while the suite is running or after it has ended.     *)

Started == tests.step # "unset" => tests.phase # "unset"
IInv    == TypeOK /\ Started

\* The abstract variables have the types SuitePipeline gives them.
LEMMA SameNames == Pipeline!Suites = Suites /\ Pipeline!Stages = Stages
  BY DEF Pipeline!Suites, Pipeline!Stages, Suites, Stages

LEMMA InitMaps == Init => Pipeline!Init
  BY DEF Init, NoTests, Pipeline!Init, Pipeline!Unset, Pipeline!Suites, Suites

LEMMA ResetMaps ==
  ASSUME NEW saved, ResetForNewGeneration(saved)
  PROVE  [Pipeline!Next]_(Pipeline!vars)
<1>1. CASE saved
  BY <1>1 DEF ResetForNewGeneration, NoTests, Pipeline!Next, Pipeline!Restart, Pipeline!Unset,
              Pipeline!Suites, Suites
<1>2. CASE ~saved
  BY <1>2 DEF ResetForNewGeneration, Pipeline!vars
<1> QED
  BY <1>1, <1>2

LEMMA StartMaps == StartSuite => Pipeline!Next
  BY DEF StartSuite, At, Pipeline!Next, Pipeline!Start

\* Stage t comes after stage s, with no standard suite in between.
InOrder(s, t) ==
  /\ Pipeline!Place[s] < Pipeline!Place[t]
  /\ \A u \in Pipeline!Standard :
       ~(Pipeline!Place[s] < Pipeline!Place[u] /\ Pipeline!Place[u] < Pipeline!Place[t])

LEMMA Places ==
  /\ Pipeline!Place["saving"] = 1      /\ Pipeline!Place["smoke"] = 2
  /\ Pipeline!Place["migration"] = 3   /\ Pipeline!Place["import-spec"] = 4
  /\ Pipeline!Place["contract"] = 5    /\ Pipeline!Place["restore-regression"] = 6
  /\ Pipeline!Place["regression"] = 7  /\ Pipeline!Place["restore-e2e"] = 8
  /\ Pipeline!Place["e2e"] = 9
  BY DEF Pipeline!Place, Pipeline!Stages, Pipeline!Suites

LEMMA Orders ==
  /\ InOrder("saving", "smoke")                  /\ InOrder("smoke", AfterSmoke)
  /\ InOrder("migration", AfterMigration)        /\ InOrder("import-spec", "contract")
  /\ InOrder("contract", AfterContract)          /\ InOrder("restore-regression", "regression")
  /\ InOrder("regression", AfterRegression)      /\ InOrder("restore-e2e", "e2e")
  BY Places DEF InOrder, Pipeline!Standard, AfterSmoke, AfterMigration, AfterContract,
                AfterRegression

\* Leaving a stage that runs no suite.
LEMMA MoveMaps ==
  ASSUME IInv, NEW s \in Stages \ Suites, NEW t \in Stages, InOrder(s, t), At(s),
         NEW saved, MoveTo(t, saved) \/ UNCHANGED tests
  PROVE  [Pipeline!Next]_(Pipeline!vars)
<1>1. CASE UNCHANGED tests
  BY <1>1 DEF Pipeline!vars
<1>2. CASE tests' = [tests EXCEPT !.step = t]
  <2>1. tests.step = s /\ tests.phase = "Running"
    BY DEF IInv, Started, At, Stages, Suites
  <2>2. tests'.step = t /\ tests'.phase = tests.phase /\ tests'.res = tests.res
    BY <1>2 DEF IInv, TypeOK
  <2> QED
    BY <2>1, <2>2, SameNames DEF InOrder, Pipeline!Next, Pipeline!Advance
<1> QED
  BY <1>1, <1>2 DEF MoveTo

\* A pass in a suite stage reports the suite as running or settles it.
LEMMA SuiteMaps ==
  ASSUME IInv, NEW s \in Suites, NEW t \in Stages, InOrder(s, t), NEW saved,
         RunSuite(s, t, saved)
  PROVE  [Pipeline!Next]_(Pipeline!vars)
<1>1. CASE UNCHANGED tests
  BY <1>1 DEF Pipeline!vars
<1>2. ASSUME NEW o \in Found(s),
             tests' = [tests EXCEPT !.res[s] = o, !.phase = "Running",
                                    !.step = IF Final(o) THEN t ELSE s]
      PROVE  Pipeline!Next
  <2>1. tests.step = s /\ tests.phase = "Running"
    BY DEF RunSuite, IInv, Started, At, Suites
  <2>2. /\ tests'.phase = "Running"
        /\ tests'.step = IF Final(o) THEN t ELSE s
        /\ tests'.res = [tests.res EXCEPT ![s] = o]
    BY <1>2 DEF IInv, TypeOK
  <2>3. CASE Final(o)
    <3>1. o \in Pipeline!Settled /\ s \in Stages
      BY <2>3, FoundType DEF Pipeline!Settled, Stages
    <3> QED
      BY <2>1, <2>2, <2>3, <3>1, SameNames DEF InOrder, Pipeline!Next, Pipeline!Advance
  <2>4. CASE ~Final(o)
    BY <2>1, <2>2, <2>4, FoundType, SameNames DEF Pipeline!Next, Pipeline!Report
  <2> QED
    BY <2>3, <2>4
<1> QED
  BY <1>1, <1>2 DEF RunSuite

\* The last suite concludes the pipeline.
LEMMA E2EMaps ==
  ASSUME IInv, NEW saved, RunE2E(saved)
  PROVE  [Pipeline!Next]_(Pipeline!vars)
<1>1. CASE UNCHANGED tests
  BY <1>1 DEF Pipeline!vars
<1>2. ASSUME NEW o \in Found("e2e"), NEW res, res = [tests.res EXCEPT !["e2e"] = o],
             tests' = [tests EXCEPT !.res = res,
                         !.phase = IF Final(o) THEN Verdict(res) ELSE "Running"]
      PROVE  Pipeline!Next
  <2>1. tests.step = "e2e" /\ tests.phase = "Running" /\ "e2e" \in Suites
    BY DEF RunE2E, IInv, Started, At, Suites
  <2>2. /\ tests'.phase = IF Final(o) THEN Verdict(res) ELSE "Running"
        /\ tests'.step = "e2e"
        /\ tests'.res = res
    BY <1>2, <2>1 DEF IInv, TypeOK
  <2>3. CASE Final(o)
    <3>1. o \in Pipeline!Settled
      BY <2>1, <2>3, FoundType DEF Pipeline!Settled
    <3> QED
      BY <1>2, <2>1, <2>2, <2>3, <3>1, SameNames DEF Pipeline!Next, Pipeline!Conclude, Verdict
  <2>4. CASE ~Final(o)
    BY <1>2, <2>1, <2>2, <2>4, FoundType, SameNames DEF Pipeline!Next, Pipeline!Report
  <2> QED
    BY <2>3, <2>4
<1> QED
  BY <1>1, <1>2 DEF RunE2E

\* Every step of a pass, and every other step, is a step of the abstract
\* pipeline or leaves it alone.
LEMMA PassMaps ==
  ASSUME IInv, NEW saved, Reconcile(saved)
  PROVE  [Pipeline!Next]_(Pipeline!vars)
<1>1. /\ {"smoke", "migration", "contract", "regression"} \subseteq Suites
      /\ {"smoke", "contract", "regression", "e2e"} \subseteq Stages
      /\ {"saving", "import-spec", "restore-regression", "restore-e2e"} \subseteq Stages \ Suites
  BY DEF Suites, Stages
<1>2. CASE ResetForNewGeneration(saved) \/ NoteGeneration(saved)
  BY <1>2, ResetMaps DEF NoteGeneration, Pipeline!vars
<1>3. CASE StartSuite
  BY <1>3, StartMaps
<1>4. CASE SaveCheckpoint(saved)
  <2>1. At("saving") /\ (MoveTo("smoke", saved) \/ UNCHANGED tests)
    BY <1>4 DEF SaveCheckpoint
  <2> QED
    BY <1>1, <2>1, Orders, MoveMaps
<1>5. CASE ImportSpec(saved)
  <2>1. At("import-spec") /\ (MoveTo("contract", saved) \/ UNCHANGED tests)
    BY <1>5 DEF ImportSpec
  <2> QED
    BY <1>1, <2>1, Orders, MoveMaps
<1>6. CASE RestoreCheckpoint("restore-regression", "regression", saved)
  <2>1. At("restore-regression") /\ (MoveTo("regression", saved) \/ UNCHANGED tests)
    BY <1>6 DEF RestoreCheckpoint
  <2> QED
    BY <1>1, <2>1, Orders, MoveMaps
<1>7. CASE RestoreCheckpoint("restore-e2e", "e2e", saved)
  <2>1. At("restore-e2e") /\ (MoveTo("e2e", saved) \/ UNCHANGED tests)
    BY <1>7 DEF RestoreCheckpoint
  <2> QED
    BY <1>1, <2>1, Orders, MoveMaps
<1>8. CASE RunSuite("smoke", AfterSmoke, saved)
  BY <1>1, <1>8, NextStages, Orders, SuiteMaps
<1>9. CASE RunSuite("migration", AfterMigration, saved)
  BY <1>1, <1>9, NextStages, Orders, SuiteMaps
<1>10. CASE RunSuite("contract", AfterContract, saved)
  BY <1>1, <1>10, NextStages, Orders, SuiteMaps
<1>11. CASE RunSuite("regression", AfterRegression, saved)
  BY <1>1, <1>11, NextStages, Orders, SuiteMaps
<1>12. CASE RunE2E(saved)
  BY <1>12, E2EMaps
<1> QED
  BY <1>2, <1>3, <1>4, <1>5, <1>6, <1>7, <1>8, <1>9, <1>10, <1>11, <1>12 DEF Reconcile

LEMMA OthersKeepTests ==
  ASSUME \/ \E saved \in BOOLEAN : NoteServed(saved)
         \/ ServeRequest \/ CaptureReport \/ PostComment \/ Crash \/ Environment
         \/ UNCHANGED vars
  PROVE  UNCHANGED tests
  BY DEF ServeRequest, NoteServed, CaptureReport, PostComment, Crash, Environment, RestoreWipes, JobSucceeds, JobFails,
         JobExpires, JobCollected, JobSeen, StrayEnds, SuiteWrites, SpecChange, SwitchPlan, vars

LEMMA StepMaps == IInv /\ [Next]_vars => [Pipeline!Next]_(Pipeline!vars)
<1> SUFFICES ASSUME IInv, [Next]_vars PROVE [Pipeline!Next]_(Pipeline!vars)
  OBVIOUS
<1>1. ASSUME NEW saved \in BOOLEAN, Reconcile(saved)
      PROVE  [Pipeline!Next]_(Pipeline!vars)
  BY <1>1, PassMaps
<1>2. CASE UNCHANGED tests
  BY <1>2 DEF Pipeline!vars
<1> QED
  BY <1>1, <1>2, OthersKeepTests DEF Next, Operator

\* Once started, a pass never returns to an unset verdict with a stage set.
LEMMA StartedNext == IInv /\ [Next]_vars => Started'
<1> SUFFICES ASSUME IInv, [Next]_vars PROVE Started'
  OBVIOUS
<1>1. CASE UNCHANGED tests
  BY <1>1 DEF IInv, Started
<1>2. ASSUME NEW saved \in BOOLEAN, Reconcile(saved) PROVE Started'
  <2>1. CASE ResetForNewGeneration(saved) \/ NoteGeneration(saved)
    BY <2>1, <1>1 DEF ResetForNewGeneration, NoteGeneration, NoTests, Started
  <2>2. CASE StartSuite
    BY <2>2 DEF StartSuite, Started, IInv, TypeOK
  <2>3. ASSUME NEW s \in Stages, NEW t \in Stages, At(s), MoveTo(t, saved) \/ UNCHANGED tests
        PROVE  Started'
    BY <2>3 DEF MoveTo, At, Started, IInv, TypeOK, Stages, Suites
  <2>4. ASSUME NEW s \in Suites, NEW t \in Stages, RunSuite(s, t, saved)
        PROVE  Started'
    BY <1>1, <2>4 DEF RunSuite, Started, IInv, TypeOK
  <2>5. CASE RunE2E(saved)
    BY <1>1, <2>5 DEF RunE2E, Verdict, Started, IInv, TypeOK
  <2>6. /\ {"smoke", "migration", "contract", "regression"} \subseteq Suites
        /\ {"smoke", "contract", "regression", "e2e", "saving", "import-spec",
            "restore-regression", "restore-e2e"} \subseteq Stages
    BY DEF Suites, Stages
  <2>7. CASE \/ SaveCheckpoint(saved) \/ ImportSpec(saved)
             \/ RestoreCheckpoint("restore-regression", "regression", saved)
             \/ RestoreCheckpoint("restore-e2e", "e2e", saved)
    BY <2>3, <2>6, <2>7 DEF SaveCheckpoint, ImportSpec, RestoreCheckpoint
  <2> QED
    BY <1>2, <2>1, <2>2, <2>4, <2>5, <2>6, <2>7, NextStages DEF Reconcile
<1> QED
  BY <1>1, <1>2, OthersKeepTests DEF Next, Operator

\* The detailed pipeline, with its Jobs, conflicts, crashes and garbage
\* collection, implements what status.tests promises its readers.
THEOREM PipelineRefined == Spec => PipelineSpec
<1>1. Init => IInv
  BY InitType DEF Init, NoTests, IInv, Started
<1>2. IInv /\ [Next]_vars => IInv'
  BY NextType, StartedNext DEF IInv
<1> QED
  BY <1>1, <1>2, InitMaps, StepMaps, PTL DEF Spec, PipelineSpec, Pipeline!Spec

-----------------------------------------------------------------------------
(* The verdict covers the spec.  Every suite that spec and plan have asked   *)
(* for since the results were cleared, and that the pipeline has gone past,  *)
(* has been run: the stages are chosen by what is asked for at the moment.   *)

Past(s) ==
  \/ tests.phase \in Outcomes
  \/ tests.step # "unset" /\ Pipeline!Place[s] < Pipeline!Place[tests.step]

Covered ==
  /\ \A s \in wanted : Runs(s)
  /\ \A s \in wanted : Past(s) => tests.res[s] \in Outcomes
  /\ tests.phase = "Succeeded" => \A s \in Suites : tests.res[s] # "Failed"

CInv == IInv /\ Covered

\* No suite that runs lies strictly between a stage and the one after it.
SkipsOnly(s, t) ==
  \A u \in Suites :
    Pipeline!Place[s] < Pipeline!Place[u] /\ Pipeline!Place[u] < Pipeline!Place[t] => ~Runs(u)

LEMMA Skipping ==
  /\ SkipsOnly("saving", "smoke")                /\ SkipsOnly("smoke", AfterSmoke)
  /\ SkipsOnly("migration", AfterMigration)      /\ SkipsOnly("import-spec", "contract")
  /\ SkipsOnly("contract", AfterContract)        /\ SkipsOnly("restore-regression", "regression")
  /\ SkipsOnly("regression", AfterRegression)    /\ SkipsOnly("restore-e2e", "e2e")
  BY Places DEF SkipsOnly, Suites, AfterSmoke, AfterMigration, AfterContract, AfterRegression

\* Places are numbers, and no two stages share one.
LEMMA PlaceType ==
  /\ \A s \in Stages : Pipeline!Place[s] \in 1 .. 9
  /\ \A s, t \in Stages : Pipeline!Place[s] = Pipeline!Place[t] => s = t
  BY Places DEF Stages, Suites

\* A suite that runs is found in a final state only with an outcome.
LEMMA FinalRuns ==
  ASSUME NEW s \in Suites, NEW o \in Found(s), Final(o), Runs(s)
  PROVE  o \in Outcomes
  BY DEF Found, Observed, Observe, Final, Outcomes

LEMMA MoveCovers ==
  ASSUME CInv, NEW s \in Stages \ Suites, NEW t \in Stages, At(s), SkipsOnly(s, t),
         NEW saved, MoveTo(t, saved) \/ UNCHANGED tests, UNCHANGED <<cfg, plan, wanted>>
  PROVE  Covered'
<1>1. CASE UNCHANGED tests
  BY <1>1 DEF CInv, Covered, Past, Runs
<1>2. CASE tests' = [tests EXCEPT !.step = t]
  <2>1. tests.step = s /\ tests.phase \notin Outcomes /\ s # "unset"
    BY DEF At, Outcomes, Stages, Suites
  <2>2. tests'.step = t /\ tests'.phase = tests.phase /\ tests'.res = tests.res
    BY <1>2 DEF CInv, IInv, TypeOK
  <2>3. ASSUME NEW u \in Suites, u \in wanted, Past(u)'
        PROVE  tests.res[u] \in Outcomes
    <3>1. Pipeline!Place[u] < Pipeline!Place[t]
      BY <2>1, <2>2, <2>3 DEF Past
    <3>2. Pipeline!Place[u] # Pipeline!Place[s]
      BY PlaceType DEF Stages
    <3>3. ~(Pipeline!Place[s] < Pipeline!Place[u])
      BY <2>3, <3>1 DEF SkipsOnly, CInv, Covered
    <3>4. Pipeline!Place[u] < Pipeline!Place[s]
      BY <3>2, <3>3, PlaceType DEF Stages
    <3> QED
      BY <2>1, <2>3, <3>4 DEF CInv, Covered, Past
  <2> QED
    BY <2>2, <2>3 DEF CInv, IInv, TypeOK, Covered, Runs
<1> QED
  BY <1>1, <1>2 DEF MoveTo

LEMMA SuiteCovers ==
  ASSUME CInv, NEW s \in Suites, NEW t \in Stages, SkipsOnly(s, t), NEW saved,
         RunSuite(s, t, saved)
  PROVE  Covered'
<1>1. UNCHANGED <<cfg, plan, wanted>> /\ At(s)
  BY DEF RunSuite
<1>2. CASE UNCHANGED tests
  BY <1>1, <1>2 DEF CInv, Covered, Past, Runs
<1>3. ASSUME NEW o \in Found(s),
             tests' = [tests EXCEPT !.res[s] = o, !.phase = "Running",
                                    !.step = IF Final(o) THEN t ELSE s]
      PROVE  Covered'
  <2>1. tests.step = s /\ s \in Stages /\ s # "unset"
    BY <1>1 DEF At, Stages, Suites
  <2>2. /\ tests'.phase = "Running"
        /\ tests'.step = IF Final(o) THEN t ELSE s
        /\ tests'.res = [tests.res EXCEPT ![s] = o]
        /\ tests.res \in [Suites -> Results]
    BY <1>3 DEF CInv, IInv, TypeOK
  <2>3. ASSUME NEW u \in Suites, u \in wanted, Past(u)'
        PROVE  tests'.res[u] \in Outcomes
    <3>1. Pipeline!Place[u] < Pipeline!Place[tests'.step]
      BY <2>2, <2>3 DEF Past, Outcomes
    <3>2. CASE u = s
      <4>1. Final(o)
        BY <2>2, <3>1, <3>2, PlaceType DEF Stages
      <4> QED
        BY <2>2, <2>3, <3>2, <4>1, FinalRuns DEF CInv, Covered
    <3>3. CASE u # s
      <4>1. Pipeline!Place[u] # Pipeline!Place[s]
        BY <2>1, <3>3, PlaceType DEF Stages
      <4>2. ~(Pipeline!Place[s] < Pipeline!Place[u])
        BY <2>1, <2>2, <2>3, <3>1, PlaceType DEF SkipsOnly, Stages, CInv, Covered
      <4>3. Pipeline!Place[u] < Pipeline!Place[s]
        BY <2>1, <4>1, <4>2, PlaceType DEF Stages
      <4>4. tests.res[u] \in Outcomes
        BY <2>1, <2>3, <4>3 DEF CInv, Covered, Past
      <4> QED
        BY <2>2, <3>3, <4>4
    <3> QED
      BY <3>2, <3>3
  <2> QED
    BY <1>1, <2>2, <2>3 DEF CInv, IInv, TypeOK, Covered, Runs
<1> QED
  BY <1>2, <1>3 DEF RunSuite

LEMMA E2ECovers ==
  ASSUME CInv, NEW saved, RunE2E(saved)
  PROVE  Covered'
<1>1. UNCHANGED <<cfg, plan, wanted>> /\ At("e2e")
  BY DEF RunE2E
<1>2. CASE UNCHANGED tests
  BY <1>1, <1>2 DEF CInv, Covered, Past, Runs
<1>3. ASSUME NEW o \in Found("e2e"), NEW res, res = [tests.res EXCEPT !["e2e"] = o],
             tests' = [tests EXCEPT !.res = res,
                         !.phase = IF Final(o) THEN Verdict(res) ELSE "Running"]
      PROVE  Covered'
  <2>1. tests.step = "e2e" /\ "e2e" \in Suites
    BY <1>1 DEF At, Suites
  <2>2. /\ tests'.phase = IF Final(o) THEN Verdict(res) ELSE "Running"
        /\ tests'.step = "e2e"
        /\ tests'.res = res
        /\ tests.res \in [Suites -> Results]
    BY <1>3, <2>1 DEF CInv, IInv, TypeOK
  <2>3. ASSUME NEW u \in Suites, u \in wanted, Past(u)'
        PROVE  res[u] \in Outcomes
    <3>1. CASE u = "e2e"
      <4>1. Final(o)
        BY <2>2, <2>3, <3>1, PlaceType DEF Past, Outcomes, Stages
      <4> QED
        BY <1>3, <2>2, <2>3, <3>1, <4>1, FinalRuns DEF CInv, Covered
    <3>2. CASE u # "e2e"
      <4>1. Pipeline!Place[u] < Pipeline!Place["e2e"]
        BY <3>2, Places DEF Suites
      <4>2. tests.res[u] \in Outcomes
        BY <2>1, <2>3, <4>1 DEF CInv, Covered, Past
      <4> QED
        BY <1>3, <2>2, <3>2, <4>2
    <3> QED
      BY <3>1, <3>2
  <2>4. tests'.phase = "Succeeded" => \A u \in Suites : res[u] # "Failed"
    BY <2>2 DEF Verdict
  <2> QED
    BY <1>1, <2>2, <2>3, <2>4 DEF CInv, IInv, TypeOK, Covered, Runs
<1> QED
  BY <1>2, <1>3 DEF RunE2E

LEMMA PassCovers ==
  ASSUME CInv, NEW saved \in BOOLEAN, Reconcile(saved)
  PROVE  Covered'
<1>1. /\ {"smoke", "migration", "contract", "regression"} \subseteq Suites
      /\ {"smoke", "contract", "regression", "e2e"} \subseteq Stages
      /\ {"saving", "import-spec", "restore-regression", "restore-e2e"} \subseteq Stages \ Suites
  BY DEF Suites, Stages
<1>2. CASE ResetForNewGeneration(saved)
  <2>1. CASE saved
    BY <1>2, <2>1
    DEF ResetForNewGeneration, NoTests, CInv, IInv, TypeOK, Covered, Past, Outcomes, Runs
  <2>2. CASE ~saved
    BY <1>2, <2>2 DEF ResetForNewGeneration, CInv, Covered, Past, Runs
  <2> QED
    BY <2>1, <2>2
<1>13. CASE NoteGeneration(saved)
  BY <1>13 DEF NoteGeneration, CInv, Covered, Past, Runs
<1>3. CASE StartSuite
  <2>1. /\ tests.step = "unset" /\ tests'.phase = "Running" /\ tests'.res = tests.res
        /\ tests'.step \in {"saving", "smoke"}
        /\ UNCHANGED <<cfg, plan, wanted>>
    BY <1>3 DEF StartSuite, At, CInv, IInv, TypeOK
  <2>2. \A s \in Suites : ~Past(s)'
    BY <2>1, Places DEF Past, Outcomes, Suites
  <2> QED
    BY <2>1, <2>2 DEF CInv, IInv, TypeOK, Covered, Runs
<1>4. CASE SaveCheckpoint(saved)
  <2>1. /\ At("saving") /\ (MoveTo("smoke", saved) \/ UNCHANGED tests)
        /\ UNCHANGED <<cfg, plan, wanted>>
    BY <1>4 DEF SaveCheckpoint
  <2> QED
    BY <1>1, <2>1, Skipping, MoveCovers
<1>5. CASE ImportSpec(saved)
  <2>1. /\ At("import-spec") /\ (MoveTo("contract", saved) \/ UNCHANGED tests)
        /\ UNCHANGED <<cfg, plan, wanted>>
    BY <1>5 DEF ImportSpec
  <2> QED
    BY <1>1, <2>1, Skipping, MoveCovers
<1>6. CASE RestoreCheckpoint("restore-regression", "regression", saved)
  <2>1. /\ At("restore-regression") /\ (MoveTo("regression", saved) \/ UNCHANGED tests)
        /\ UNCHANGED <<cfg, plan, wanted>>
    BY <1>6 DEF RestoreCheckpoint
  <2> QED
    BY <1>1, <2>1, Skipping, MoveCovers
<1>7. CASE RestoreCheckpoint("restore-e2e", "e2e", saved)
  <2>1. /\ At("restore-e2e") /\ (MoveTo("e2e", saved) \/ UNCHANGED tests)
        /\ UNCHANGED <<cfg, plan, wanted>>
    BY <1>7 DEF RestoreCheckpoint
  <2> QED
    BY <1>1, <2>1, Skipping, MoveCovers
<1>8. CASE RunSuite("smoke", AfterSmoke, saved)
  BY <1>1, <1>8, NextStages, Skipping, SuiteCovers
<1>9. CASE RunSuite("migration", AfterMigration, saved)
  BY <1>1, <1>9, NextStages, Skipping, SuiteCovers
<1>10. CASE RunSuite("contract", AfterContract, saved)
  BY <1>1, <1>10, NextStages, Skipping, SuiteCovers
<1>11. CASE RunSuite("regression", AfterRegression, saved)
  BY <1>1, <1>11, NextStages, Skipping, SuiteCovers
<1>12. CASE RunE2E(saved)
  BY <1>12, E2ECovers
<1> QED
  BY <1>2, <1>3, <1>4, <1>5, <1>6, <1>7, <1>8, <1>9, <1>10, <1>11, <1>12, <1>13 DEF Reconcile

\* Everything else leaves the verdict alone; an edit and another plan take
\* suites off those wanted.
LEMMA RestCovers ==
  ASSUME CInv,
         \/ \E saved \in BOOLEAN : NoteServed(saved)
         \/ ServeRequest \/ CaptureReport \/ PostComment \/ Crash \/ Environment
         \/ UNCHANGED vars
  PROVE  Covered'
<1>1. CASE SpecChange
  <2>1. UNCHANGED tests /\ wanted' \subseteq wanted /\ \A s \in wanted' : Runs(s)'
    BY <1>1 DEF SpecChange
  <2> QED
    BY <2>1 DEF CInv, Covered, Past
<1>2. CASE SwitchPlan
  <2>1. UNCHANGED <<tests, cfg>> /\ wanted' = wanted \cap plan'
    BY <1>2 DEF SwitchPlan
  <2>2. \A s \in wanted' : Runs(s)'
    BY <2>1 DEF CInv, Covered, Runs
  <2> QED
    BY <2>1, <2>2 DEF CInv, Covered, Past
<1>3. CASE ~SpecChange /\ ~SwitchPlan
  <2>1. UNCHANGED <<tests, cfg, plan, wanted>>
    BY <1>3
    DEF ServeRequest, NoteServed, CaptureReport, PostComment, Crash, Environment, RestoreWipes,
        JobSucceeds, JobFails, JobExpires, JobCollected, JobSeen, StrayEnds, SuiteWrites, vars
  <2> QED
    BY <2>1 DEF CInv, Covered, Past, Runs
<1> QED
  BY <1>1, <1>2, <1>3

\* A preview whose suite Succeeded has run, with success, every suite that spec
\* and plan have asked for since the results were last cleared, whatever was
\* edited, requested, planned, lost or deleted meanwhile.
THEOREM VerdictCovers == Spec => []VerdictCoversSpec
<1>1. Init => CInv
  BY InitType DEF Init, NoTests, CInv, IInv, Started, Covered, Past, Outcomes, Runs
<1>2. CInv /\ [Next]_vars => CInv'
  BY NextType, StartedNext, PassCovers, RestCovers DEF CInv, IInv, Next, Operator
<1>3. CInv => VerdictCoversSpec
  BY DEF CInv, IInv, TypeOK, Covered, Past, VerdictCoversSpec, Outcomes
<1> QED
  BY <1>1, <1>2, <1>3, PTL DEF Spec
=============================================================================
