------------------------- MODULE TestSuiteJobs_proofs -------------------------
(***************************************************************************)
(* Theorems about the Jobs of TestSuite: which generation a result comes   *)
(* from, how many run at a time, and what the database holds when one      *)
(* starts.  The type theorem they rest on is in TestSuite_proofs.          *)
(***************************************************************************)
EXTENDS TestSuite_proofs, FiniteSetTheorems

-----------------------------------------------------------------------------
(* Results of the generation cleared for.  Nothing is assumed: plans and     *)
(* specs change, requests come, calls fail, the Job cache lags, deletions    *)
(* take their time, the operator crashes.                                    *)

\* The Jobs the reset deletes are, but for those still going, as new as the last
\* clearing, and so is what is recorded of them.
FreshJobs ==
  /\ base <= gen
  /\ \A s \in Suites \ {"migration"} :
       /\ Live(s) /\ ~jobs[s].term => jobs[s].gen >= base
       /\ tests.res[s] \in Outcomes /\ s \notin dying => source[s] >= base

LEMMA InitFresh == Init => FreshJobs
<1> SUFFICES ASSUME Init PROVE FreshJobs
  OBVIOUS
<1>1. base <= gen
  BY DEF Init
<1>2. ASSUME NEW s \in Suites PROVE ~Live(s) /\ tests.res[s] \notin Outcomes
  <2>1. s \in Stages
    BY DEF Stages
  <2>2. jobs[s] = NoJob /\ tests.res[s] = "unset"
    BY <2>1 DEF Init, NoTests
  <2> QED
    BY <2>2 DEF Live, NoJob, Outcomes
<1> QED
  BY <1>1, <1>2 DEF FreshJobs

\* A step that records nothing and creates no Job for an older generation.
LEMMA FreshKept ==
  ASSUME TypeOK, FreshJobs, gen' >= gen, gen' \in Nat, UNCHANGED <<base, source, dying>>,
         tests'.res = tests.res,
         \A s \in Suites \ {"migration"} :
           jobs'[s].st # "absent" /\ ~jobs'[s].term =>
             \/ Live(s) /\ ~jobs[s].term /\ jobs'[s].gen = jobs[s].gen
             \/ jobs'[s].gen = gen
  PROVE  FreshJobs'
<1>1. base \in Nat /\ gen \in Nat
  BY BoundsAssumption DEF TypeOK
<1>2. base <= gen'
  BY <1>1 DEF FreshJobs
<1>3. ASSUME NEW s \in Suites \ {"migration"}, jobs'[s].st # "absent", ~jobs'[s].term
      PROVE  jobs'[s].gen >= base
  BY <1>1, <1>3 DEF FreshJobs
<1>4. ASSUME NEW s \in Suites \ {"migration"}, tests'.res[s] \in Outcomes, s \notin dying
      PROVE  source'[s] >= base
  BY <1>4 DEF FreshJobs
<1> QED
  BY <1>2, <1>3, <1>4 DEF FreshJobs, Live

\* The Jobs a pass leaves: those it found, or one more for this generation.
LEMMA EnsuredGen ==
  ASSUME TypeOK, NEW j \in Stages, NEW s \in Stages, Ensured(j)[s].st # "absent",
         ~Ensured(j)[s].term
  PROVE  \/ Live(s) /\ ~jobs[s].term /\ Ensured(j)[s].gen = jobs[s].gen
         \/ Ensured(j)[s].gen = gen
<1>1. NewJob(j).gen = gen
  BY DEF NewJob, NoJob
<1> QED
  BY <1>1 DEF Ensured, Live, TypeOK

LEMMA LeftGen ==
  ASSUME TypeOK, NEW j \in Stages, NEW o, NEW saved, NEW s \in Stages,
         Left(j, o, saved)[s].st # "absent", ~Left(j, o, saved)[s].term
  PROVE  \/ Live(s) /\ ~jobs[s].term /\ Left(j, o, saved)[s].gen = jobs[s].gen
         \/ Left(j, o, saved)[s].gen = gen
<1>1. CASE Left(j, o, saved) = Ensured(j)
  BY <1>1, EnsuredGen
<1>2. CASE Left(j, o, saved) = jobs
  BY <1>2 DEF Live
<1>3. CASE Left(j, o, saved) = [jobs EXCEPT ![j].left = TRUE]
  <2>1. jobs \in [Stages -> JobType] /\ jobs[j] \in JobType
    BY DEF TypeOK
  <2>2. /\ Left(j, o, saved)[s].st = jobs[s].st /\ Left(j, o, saved)[s].term = jobs[s].term
        /\ Left(j, o, saved)[s].gen = jobs[s].gen
    BY <1>3, <2>1 DEF JobType
  <2> QED
    BY <2>2 DEF Live
<1> QED
  BY <1>1, <1>2, <1>3 DEF Left

LEMMA SuiteFresh ==
  ASSUME TypeOK, FreshJobs, NEW s \in Suites, NEW o \in Found(s), NEW saved,
         jobs' = Left(s, o, saved), UNCHANGED <<base, gen>>,
         \/ UNCHANGED <<tests, source, dying>>
         \/ /\ tests'.res = [tests.res EXCEPT ![s] = o]
            /\ source' = Source(s, o) /\ dying' = Dying(s, o)
  PROVE  FreshJobs'
<1>1. s \in Stages /\ Suites \subseteq Stages
  BY DEF Stages
<1>2. base \in Nat /\ gen \in Nat /\ base <= gen
  BY BoundsAssumption DEF TypeOK, FreshJobs
<1>3. ASSUME NEW u \in Suites \ {"migration"}, jobs'[u].st # "absent", ~jobs'[u].term
      PROVE  jobs'[u].gen >= base
  <2>1. \/ Live(u) /\ ~jobs[u].term /\ jobs'[u].gen = jobs[u].gen
        \/ jobs'[u].gen = gen
    BY <1>1, <1>3, LeftGen
  <2> QED
    BY <1>2, <2>1 DEF FreshJobs
<1>4. ASSUME NEW u \in Suites \ {"migration"}, tests'.res[u] \in Outcomes, u \notin dying'
      PROVE  source'[u] >= base
  <2>1. CASE UNCHANGED <<tests, source, dying>>
    BY <1>4, <2>1 DEF FreshJobs
  <2>2. CASE /\ tests'.res = [tests.res EXCEPT ![s] = o] /\ source' = Source(s, o)
             /\ dying' = Dying(s, o)
    <3>1. tests.res \in [Suites -> Results] /\ source \in [Suites -> Gens]
      BY DEF TypeOK
    <3>2. CASE u # s
      <4>1. source'[u] = source[u] /\ tests'.res[u] = tests.res[u]
        BY <2>2, <3>1, <3>2 DEF Source
      <4>2. u \notin dying
        BY <1>4, <2>2, <3>2 DEF Dying
      <4> QED
        BY <1>4, <4>1, <4>2 DEF FreshJobs
    <3>3. CASE u = s
      <4>1. o \in Outcomes
        BY <1>4, <2>2, <3>1, <3>3
      <4>2. source'[s] = IF Live(s) THEN jobs[s].gen ELSE gen
        BY <2>2, <3>1, <4>1 DEF Source
      <4>3. Live(s) => ~jobs[s].term
        BY <1>4, <2>2, <3>3, <4>1 DEF Dying
      <4> QED
        BY <1>2, <3>3, <4>2, <4>3 DEF FreshJobs
    <3> QED
      BY <3>2, <3>3
  <2> QED
    BY <2>1, <2>2
<1> QED
  BY <1>2, <1>3, <1>4 DEF FreshJobs, Live

LEMMA PassFresh ==
  ASSUME TypeOK, FreshJobs, NEW saved \in BOOLEAN, Reconcile(saved)
  PROVE  FreshJobs'
<1>1. /\ Suites \subseteq Stages /\ "saving" \in Stages /\ "import-spec" \in Stages
      /\ RestoreStages \subseteq Stages
      /\ {"smoke", "migration", "contract", "regression", "e2e"} \subseteq Suites
  BY DEF Stages, Suites, RestoreStages
<1>2. gen \in Nat /\ base \in Nat /\ base <= gen
  BY BoundsAssumption DEF TypeOK, FreshJobs
<1>3. CASE ResetForNewGeneration(saved)
  <2>1. ASSUME NEW s \in Suites \ {"migration"} PROVE jobs'[s].st = "absent" \/ jobs'[s].term
    <3>1. s \in ResetJobs /\ s \in Stages
      BY <1>1 DEF ResetJobs, Suites
    <3>2. jobs'[s] = IF ~Live(s) \/ ~SlowGC THEN NoJob
                     ELSE [jobs[s] EXCEPT !.term = @ \/ s \in ResetJobs, !.left = TRUE]
      BY <1>3, <3>1 DEF ResetForNewGeneration, Deleted
    <3>3. jobs[s] \in JobType
      BY <3>1 DEF TypeOK
    <3>4. CASE ~Live(s) \/ ~SlowGC
      BY <3>2, <3>4 DEF NoJob
    <3>5. CASE ~(~Live(s) \/ ~SlowGC)
      <4>1. jobs'[s] = [jobs[s] EXCEPT !.term = @ \/ s \in ResetJobs, !.left = TRUE]
        BY <3>2, <3>5
      <4>2. [jobs[s] EXCEPT !.term = @ \/ s \in ResetJobs, !.left = TRUE].term
        BY <3>1, <3>3 DEF JobType
      <4> QED
        BY <4>1, <4>2
    <3> QED
      BY <3>4, <3>5
  <2>3. CASE saved
    <3>1. base' = gen /\ gen' = gen /\ tests' = NoTests
      BY <1>3, <2>3 DEF ResetForNewGeneration
    <3>2. \A s \in Suites : tests'.res[s] \notin Outcomes
      BY <3>1 DEF NoTests, Outcomes
    <3> QED
      BY <1>2, <2>1, <3>1, <3>2 DEF FreshJobs, Live
  <2>4. CASE ~saved
    <3>1. UNCHANGED <<base, gen, tests, source, dying>>
      BY <1>3, <2>4 DEF ResetForNewGeneration
    <3> QED
      BY <1>2, <2>1, <3>1, FreshKept
  <2> QED
    BY <2>3, <2>4
<1>4. CASE StartSuite \/ NoteGeneration(saved)
  <2>1. UNCHANGED <<jobs, base, gen, source, dying>> /\ tests'.res = tests.res
    BY <1>4 DEF StartSuite, NoteGeneration, TypeOK
  <2> QED
    BY <1>2, <2>1, FreshKept DEF Live
<1>5. ASSUME NEW j \in Stages, NEW o, jobs' \in {jobs, Ensured(j), Left(j, o, saved)},
             UNCHANGED <<base, gen, source, dying>>, tests'.res = tests.res
      PROVE  FreshJobs'
  <2>1. \A s \in Suites \ {"migration"} :
          jobs'[s].st # "absent" /\ ~jobs'[s].term =>
             \/ Live(s) /\ ~jobs[s].term /\ jobs'[s].gen = jobs[s].gen
             \/ jobs'[s].gen = gen
    <3>1. CASE jobs' = jobs
      BY <3>1 DEF Live
    <3>2. CASE jobs' = Ensured(j)
      BY <1>1, <1>5, <3>2, EnsuredGen
    <3>3. CASE jobs' = Left(j, o, saved)
      BY <1>1, <1>5, <3>3, LeftGen
    <3> QED
      BY <1>5, <3>1, <3>2, <3>3
  <2> QED
    BY <1>2, <1>5, <2>1, FreshKept
<1>6. CASE SaveCheckpoint(saved)
  <2>1. /\ jobs' \in {jobs, Ensured("saving")} /\ UNCHANGED <<base, gen, source, dying>>
        /\ tests'.res = tests.res
    BY <1>6 DEF SaveCheckpoint, MoveTo, TypeOK
  <2> QED
    BY <1>1, <1>5, <2>1
<1>7. CASE ImportSpec(saved)
  <2>1. PICK o \in Observed("import-spec") : jobs' = Left("import-spec", o, saved)
    BY <1>7 DEF ImportSpec
  <2>2. UNCHANGED <<base, gen, source, dying>> /\ tests'.res = tests.res
    BY <1>7 DEF ImportSpec, MoveTo, TypeOK
  <2> QED
    BY <1>1, <1>5, <2>1, <2>2
<1>8. ASSUME NEW j \in RestoreStages, NEW t, RestoreCheckpoint(j, t, saved)
      PROVE  FreshJobs'
  <2>1. /\ jobs' \in {jobs, Ensured(j)} /\ UNCHANGED <<base, gen, source, dying>>
        /\ tests'.res = tests.res
    BY <1>8 DEF RestoreCheckpoint, MoveTo, TypeOK
  <2> QED
    BY <1>1, <1>5, <2>1
<1>9. ASSUME NEW s \in Suites, NEW n, RunSuite(s, n, saved)
      PROVE  FreshJobs'
  <2>1. PICK o \in Found(s) :
          /\ jobs' = Left(s, o, saved)
          /\ IF saved
             THEN /\ tests' = [tests EXCEPT !.res[s] = o, !.phase = "Running",
                                            !.step = IF Final(o) THEN n ELSE s]
                  /\ source' = Source(s, o) /\ dying' = Dying(s, o)
             ELSE UNCHANGED <<tests, source, dying>>
    BY <1>9 DEF RunSuite
  <2>2. UNCHANGED <<base, gen>>
    BY <1>9 DEF RunSuite
  <2>3. \/ UNCHANGED <<tests, source, dying>>
        \/ /\ tests'.res = [tests.res EXCEPT ![s] = o]
           /\ source' = Source(s, o) /\ dying' = Dying(s, o)
    BY <2>1 DEF TypeOK
  <2> QED
    BY <2>1, <2>2, <2>3, SuiteFresh
<1>10. CASE RunE2E(saved)
  <2>1. PICK o \in Found("e2e") :
          LET res == [tests.res EXCEPT !["e2e"] = o]
          IN  /\ jobs' = Left("e2e", o, saved)
              /\ disturbed' = (disturbed \/ (saved /\ Abandoned("e2e", o)))
              /\ IF saved
                 THEN /\ tests' = [tests EXCEPT !.res = res,
                                     !.phase = IF Final(o) THEN Verdict(res) ELSE "Running"]
                      /\ source' = Source("e2e", o) /\ dying' = Dying("e2e", o)
                      /\ after' = IF Final(o) THEN AfterVerdict(Verdict(res)) ELSE "none"
                 ELSE UNCHANGED <<tests, source, dying, after>>
    BY <1>10 DEF RunE2E
  <2>2. UNCHANGED <<base, gen>>
    BY <1>10 DEF RunE2E
  <2>3. \/ UNCHANGED <<tests, source, dying>>
        \/ /\ tests'.res = [tests.res EXCEPT !["e2e"] = o]
           /\ source' = Source("e2e", o) /\ dying' = Dying("e2e", o)
    BY <2>1 DEF TypeOK
  <2>4. jobs' = Left("e2e", o, saved)
    BY <2>1
  <2> QED
    BY <1>1, <2>2, <2>3, <2>4, SuiteFresh
<1> QED
  BY <1>1, <1>3, <1>4, <1>6, <1>7, <1>8, <1>9, <1>10 DEF Reconcile, RestoreStages

\* Serving a request and the work after the verdict touch no Job; the environment
\* runs, collects and shows Jobs, but creates none.
LEMMA RestFresh ==
  ASSUME TypeOK, FreshJobs,
         \/ ServeRequest \/ (\E saved \in BOOLEAN : NoteServed(saved))
         \/ CaptureReport \/ PostComment \/ Crash \/ Environment \/ UNCHANGED vars
  PROVE  FreshJobs'
<1>1. gen \in Nat
  BY BoundsAssumption DEF TypeOK
<1>2. ASSUME UNCHANGED <<base, source, dying, tests, gen>>,
             NEW j \in Stages, NEW k, jobs' = [jobs EXCEPT ![j] = k],
             k.st # "absent" => Live(j) /\ k.gen = jobs[j].gen /\ k.term = jobs[j].term
      PROVE  FreshJobs'
  <2>1. Suites \subseteq Stages /\ jobs \in [Stages -> JobType]
    BY DEF Stages, TypeOK
  <2>2. ASSUME NEW s \in Suites \ {"migration"}, jobs'[s].st # "absent", ~jobs'[s].term
        PROVE  Live(s) /\ ~jobs[s].term /\ jobs'[s].gen = jobs[s].gen
    BY <1>2, <2>1, <2>2 DEF Live
  <2> QED
    BY <1>1, <1>2, <2>2, FreshKept
<1>3. CASE UNCHANGED <<jobs, base, source, dying, tests, gen>>
  BY <1>1, <1>3, FreshKept DEF Live
<1>4. CASE SpecChange \/ ServeRequest
  <2>1. gen' = gen + 1 /\ UNCHANGED <<jobs, base, source, dying, tests>>
    BY <1>4 DEF SpecChange, ServeRequest
  <2> QED
    BY <1>1, <2>1, FreshKept DEF Live
<1>5. ASSUME NEW j \in Stages, RestoreWipes(j) \/ JobSucceeds(j) \/ JobFails(j) \/ JobSeen(j)
      PROVE  FreshJobs'
  <2>1. /\ UNCHANGED <<base, source, dying, tests, gen>> /\ Live(j)
        /\ jobs' = [jobs EXCEPT ![j] = jobs'[j]]
        /\ jobs'[j].gen = jobs[j].gen /\ jobs'[j].term = jobs[j].term
    BY <1>5 DEF RestoreWipes, JobSucceeds, JobFails, JobSeen, Live, Active, TypeOK, JobType
  <2> QED
    BY <1>2, <2>1
<1>6. ASSUME NEW j \in Stages, JobExpires(j) \/ JobCollected(j)
      PROVE  FreshJobs'
  <2>1. /\ UNCHANGED <<base, source, dying, tests, gen>>
        /\ jobs' = [jobs EXCEPT ![j] = NoJob]
    BY <1>6 DEF JobExpires, JobCollected
  <2>2. NoJob.st = "absent"
    BY DEF NoJob
  <2> QED
    BY <1>2, <2>1, <2>2
<1>7. CASE CaptureReport \/ PostComment \/ Crash \/ SwitchPlan \/ UNCHANGED vars
  BY <1>3, <1>7 DEF CaptureReport, PostComment, Crash, SwitchPlan, vars
<1>8. ASSUME NEW j \in Stages, StrayEnds(j) \/ SuiteWrites(j)
      PROVE  FreshJobs'
  BY <1>3, <1>8 DEF StrayEnds, SuiteWrites
<1>9. ASSUME NEW saved \in BOOLEAN, NoteServed(saved)
      PROVE  FreshJobs'
  BY <1>3, <1>9 DEF NoteServed
<1> QED
  BY <1>4, <1>5, <1>6, <1>7, <1>8, <1>9 DEF Environment

\* Every result on the status, unless it was read off a Job whose deletion was
\* still under way, comes from a Job created since the results were last cleared:
\* whatever the spec, the plan and the requests do meanwhile, however late the Job
\* cache and however slow the garbage collector is.
THEOREM FreshResultsAlways == Spec => []FreshResults
<1>1. Init => TypeOK /\ FreshJobs
  BY InitType, InitFresh
<1>2. TypeOK /\ FreshJobs /\ [Next]_vars => (TypeOK /\ FreshJobs)'
  BY NextType, PassFresh, RestFresh DEF Next, Operator
<1>3. FreshJobs => FreshResults
  BY DEF FreshJobs, FreshResults
<1> QED
  BY <1>1, <1>2, <1>3, PTL DEF Spec

-----------------------------------------------------------------------------
(* One Job at a time.  A Job runs only while the status is at its stage: the *)
(* stage is left when the Job has ended, or the Job is left behind for good. *)

InTurn ==
  /\ \A j \in Stages : Active(j) /\ ~jobs[j].left => tests.step = j
  /\ Active("saving") /\ ~jobs["saving"].left => dump = "none"

TInv == TypeOK /\ InTurn

LEMMA StageNames ==
  /\ "saving" \in Stages /\ "import-spec" \in Stages /\ "unset" \notin Stages
  /\ RestoreStages \subseteq Stages /\ Suites \subseteq Stages
  /\ RestoreStages \cap Suites = {}
  /\ "saving" \notin RestoreStages /\ "import-spec" \notin RestoreStages
  /\ "saving" \notin Suites /\ "import-spec" \notin Suites
  /\ {"smoke", "migration", "contract", "regression", "e2e"} \subseteq Suites
  BY DEF Stages, Suites, RestoreStages

LEMMA InitTurn == Init => InTurn
<1> SUFFICES ASSUME Init PROVE InTurn
  OBVIOUS
<1>1. \A j \in Stages : jobs[j] = NoJob
  BY DEF Init
<1> QED
  BY <1>1, StageNames DEF InTurn, Active, NoJob

\* A pass that waits in stage j, having created its Job or found it there.
LEMMA WaitTurn ==
  ASSUME TInv, NEW j \in Stages, tests.step = j, tests'.step = j,
         j = "saving" => dump = "none", jobs' \in {jobs, Ensured(j)}, dump' = dump
  PROVE  InTurn'
<1>1. jobs \in [Stages -> JobType]
  BY DEF TInv, TypeOK
<1>2. ASSUME NEW i \in Stages, jobs'[i].st \in {"active", "midway"}, ~jobs'[i].left
      PROVE  i = j
  <2>1. CASE i # j
    <3>1. jobs'[i] = jobs[i]
      BY <1>1, <2>1 DEF Ensured
    <3> QED
      BY <1>2, <3>1 DEF TInv, InTurn, Active
  <2> QED
    BY <2>1
<1>3. ASSUME jobs'["saving"].st \in {"active", "midway"}, ~jobs'["saving"].left
      PROVE  dump = "none"
  BY <1>2, <1>3, StageNames
<1> QED
  BY <1>2, <1>3 DEF InTurn, Active

\* A pass that leaves stage j behind, its Job ended or left; other Jobs are as
\* they were.
LEMMA LeaveTurn ==
  ASSUME TInv, NEW j, tests.step = j,
         \A i \in Stages : i # j => jobs'[i] = jobs[i],
         j \in Stages => ~(jobs'[j].st \in {"active", "midway"} /\ ~jobs'[j].left)
  PROVE  InTurn'
<1>1. ASSUME NEW i \in Stages, jobs'[i].st \in {"active", "midway"}, ~jobs'[i].left
      PROVE  FALSE
  <2>1. CASE i = j
    BY <1>1, <2>1
  <2>2. CASE i # j
    BY <1>1, <2>2 DEF TInv, InTurn, Active
  <2> QED
    BY <2>1, <2>2
<1> QED
  BY <1>1, StageNames DEF InTurn, Active

\* A final outcome means that the Job of the stage has ended, or is left behind.
LEMMA FinalLeft ==
  ASSUME TInv, NEW j \in Stages, NEW o, Final(o),
         (j \in Suites /\ o \in Found(j)) \/ o \in Observed(j),
         jobs' = Left(j, o, TRUE)
  PROVE  /\ \A i \in Stages : i # j => jobs'[i] = jobs[i]
         /\ ~(jobs'[j].st \in {"active", "midway"} /\ ~jobs'[j].left)
<1>1. jobs \in [Stages -> JobType] /\ jobs[j] \in JobType
  BY DEF TInv, TypeOK
<1>2. o # "Running"
  BY DEF Final
<1>3. CASE Abandoned(j, o)
  <2>1. jobs' = [jobs EXCEPT ![j].left = TRUE]
    BY <1>2, <1>3 DEF Left
  <2>2. jobs'[j].left
    BY <1>1, <2>1 DEF JobType
  <2> QED
    BY <1>1, <2>1, <2>2
<1>4. CASE ~Abandoned(j, o)
  <2>1. jobs' = jobs
    BY <1>2, <1>4 DEF Left
  <2>2. CASE o = "Succeeded"
    <3>1. o \in Observed(j)
      BY <2>2 DEF Found
    <3>2. o = Observe(j)
      BY <2>2, <3>1 DEF Observed
    <3>3. ~Active(j)
      BY <2>2, <3>2 DEF Observe, Active
    <3> QED
      BY <2>1, <3>3 DEF Active
  <2>3. CASE o \in {"Skipped", "Failed"}
    <3>1. ~Live(j) \/ jobs[j].st = "failed"
      BY <1>4, <2>3 DEF Abandoned
    <3> QED
      BY <2>1, <3>1 DEF Live
  <2> QED
    BY <2>1, <2>2, <2>3 DEF Final
<1> QED
  BY <1>3, <1>4

LEMMA PassTurn ==
  ASSUME TInv, NEW saved \in BOOLEAN, Reconcile(saved)
  PROVE  InTurn'
<1>1. CASE ResetForNewGeneration(saved)
  <2>1. ASSUME NEW i \in Stages
        PROVE  ~(jobs'[i].st \in {"active", "midway"} /\ ~jobs'[i].left)
    <3>1. jobs[i] \in JobType
      BY DEF TInv, TypeOK
    <3>2. CASE jobs'[i] = NoJob
      BY <3>2 DEF NoJob
    <3>3. CASE jobs'[i] = [jobs[i] EXCEPT !.term = @ \/ i \in ResetJobs, !.left = TRUE]
      <4>1. [jobs[i] EXCEPT !.term = @ \/ i \in ResetJobs, !.left = TRUE].left
        BY <3>1 DEF JobType
      <4> QED
        BY <3>3, <4>1
    <3>4. jobs' = Deleted(ResetJobs)
      BY <1>1 DEF ResetForNewGeneration
    <3> QED
      BY <3>2, <3>3, <3>4 DEF Deleted
  <2> QED
    BY <2>1, StageNames DEF InTurn, Active
<1>2. CASE NoteGeneration(saved)
  BY <1>2 DEF NoteGeneration, TInv, InTurn, Active
<1>3. CASE StartSuite
  <2>1. tests.step = "unset" /\ UNCHANGED jobs
    BY <1>3 DEF StartSuite, At
  <2> QED
    BY <2>1, LeaveTurn, StageNames
<1>4. CASE SaveCheckpoint(saved)
  <2>1. tests.step = "saving"
    BY <1>4 DEF SaveCheckpoint, At
  <2>2. CASE dump # "none" \/ Done("saving")
    <3>1. UNCHANGED jobs
      BY <1>4, <2>2 DEF SaveCheckpoint, Done
    <3>2. ~(Active("saving") /\ ~jobs["saving"].left)
      BY <2>2 DEF TInv, InTurn, Done, Active
    <3> QED
      BY <2>1, <3>1, <3>2, LeaveTurn DEF Active
  <2>3. CASE dump = "none" /\ ~Done("saving")
    <3>1. jobs' = Ensured("saving") /\ UNCHANGED <<tests, dump>>
      BY <1>4, <2>3 DEF SaveCheckpoint
    <3> QED
      BY <2>1, <2>3, <3>1, StageNames, WaitTurn
  <2> QED
    BY <2>2, <2>3
<1>5. CASE ImportSpec(saved)
  <2>1. tests.step = "import-spec" /\ dump' = dump
    BY <1>5 DEF ImportSpec, At
  <2>2. PICK o \in Observed("import-spec") :
          /\ jobs' = Left("import-spec", o, saved)
          /\ IF Final(o) THEN MoveTo("contract", saved) ELSE UNCHANGED tests
    BY <1>5 DEF ImportSpec
  <2>3. CASE saved /\ Final(o)
    <3>1. jobs' = Left("import-spec", o, TRUE)
      BY <2>2, <2>3
    <3> QED
      BY <2>1, <2>3, <3>1, StageNames, FinalLeft, LeaveTurn
  <2>4. CASE ~(saved /\ Final(o))
    <3>1. UNCHANGED tests
      BY <2>2, <2>4 DEF MoveTo
    <3>2. jobs' \in {jobs, Ensured("import-spec")}
      <4>1. CASE ~saved
        BY <2>2, <4>1 DEF Left
      <4>2. CASE ~Final(o)
        BY <2>2, <4>2 DEF Left, Final, Observed, Observe
      <4> QED
        BY <2>4, <4>1, <4>2
    <3> QED
      BY <2>1, <3>1, <3>2, StageNames, WaitTurn
  <2> QED
    BY <2>3, <2>4
<1>6. ASSUME NEW j \in RestoreStages, NEW t, RestoreCheckpoint(j, t, saved)
      PROVE  InTurn'
  <2>1. tests.step = j /\ j \in Stages /\ j # "saving" /\ dump' = dump
    BY <1>6, StageNames DEF RestoreCheckpoint, At
  <2>2. CASE jobs' = Ensured(j) /\ UNCHANGED tests
    BY <2>1, <2>2, WaitTurn
  <2>3. CASE Done(j) /\ UNCHANGED jobs
    BY <2>1, <2>3, LeaveTurn DEF Done
  <2> QED
    BY <1>6, <2>2, <2>3 DEF RestoreCheckpoint
<1>7. ASSUME NEW s \in Suites, NEW o \in Found(s), tests.step = s, dump' = dump,
             jobs' = Left(s, o, saved), ~(saved /\ Final(o)) => tests'.step = s
      PROVE  InTurn'
  <2>1. s \in Stages /\ s # "saving"
    BY StageNames
  <2>2. CASE saved /\ Final(o)
    <3>1. jobs' = Left(s, o, TRUE)
      BY <1>7, <2>2
    <3> QED
      BY <1>7, <2>1, <2>2, <3>1, FinalLeft, LeaveTurn
  <2>3. CASE ~(saved /\ Final(o))
    <3>1. jobs' \in {jobs, Ensured(s)}
      <4>1. CASE ~saved
        BY <1>7, <4>1 DEF Left
      <4>2. CASE ~Final(o)
        BY <1>7, <4>2 DEF Left, Final, Found, Observed, Observe
      <4> QED
        BY <2>3, <4>1, <4>2
    <3> QED
      BY <1>7, <2>1, <2>3, <3>1, WaitTurn
  <2> QED
    BY <2>2, <2>3
<1>8. ASSUME NEW s \in Suites, NEW n, RunSuite(s, n, saved)
      PROVE  InTurn'
  <2>1. tests.step = s /\ dump' = dump
    BY <1>8 DEF RunSuite, At
  <2>2. PICK o \in Found(s) :
          /\ jobs' = Left(s, o, saved)
          /\ IF saved
             THEN /\ tests' = [tests EXCEPT !.res[s] = o, !.phase = "Running",
                                            !.step = IF Final(o) THEN n ELSE s]
                  /\ source' = Source(s, o) /\ dying' = Dying(s, o)
             ELSE UNCHANGED <<tests, source, dying>>
    BY <1>8 DEF RunSuite
  <2>3. ~(saved /\ Final(o)) => tests'.step = s
    BY <2>1, <2>2 DEF TInv, TypeOK
  <2> QED
    BY <1>7, <2>1, <2>2, <2>3
<1>9. CASE RunE2E(saved)
  <2>1. tests.step = "e2e" /\ dump' = dump
    BY <1>9 DEF RunE2E, At
  <2>2. PICK o \in Found("e2e") :
          LET res == [tests.res EXCEPT !["e2e"] = o]
          IN  /\ jobs' = Left("e2e", o, saved)
              /\ disturbed' = (disturbed \/ (saved /\ Abandoned("e2e", o)))
              /\ IF saved
                 THEN /\ tests' = [tests EXCEPT !.res = res,
                                     !.phase = IF Final(o) THEN Verdict(res) ELSE "Running"]
                      /\ source' = Source("e2e", o) /\ dying' = Dying("e2e", o)
                      /\ after' = IF Final(o) THEN AfterVerdict(Verdict(res)) ELSE "none"
                 ELSE UNCHANGED <<tests, source, dying, after>>
    BY <1>9 DEF RunE2E
  <2>3. tests'.step = "e2e"
    BY <2>1, <2>2 DEF TInv, TypeOK
  <2>4. jobs' = Left("e2e", o, saved)
    BY <2>2
  <2> QED
    BY <1>7, <2>1, <2>3, <2>4, StageNames
<1> QED
  BY <1>1, <1>2, <1>3, <1>4, <1>5, <1>6, <1>8, <1>9, StageNames DEF Reconcile, RestoreStages

\* What happens to a Job outside a pass starts none, and no one forgets that a
\* Job was left.
LEMMA RestTurn ==
  ASSUME TInv,
         \/ ServeRequest \/ (\E saved \in BOOLEAN : NoteServed(saved))
         \/ CaptureReport \/ PostComment \/ Crash \/ Environment \/ UNCHANGED vars
  PROVE  InTurn'
<1>1. ASSUME UNCHANGED <<tests, dump>>,
             NEW j \in Stages, NEW k, jobs' = [jobs EXCEPT ![j] = k],
             k.st \in {"active", "midway"} => Active(j) /\ k.left = jobs[j].left
      PROVE  InTurn'
  <2>1. jobs \in [Stages -> JobType]
    BY DEF TInv, TypeOK
  <2>2. ASSUME NEW i \in Stages, jobs'[i].st \in {"active", "midway"}, ~jobs'[i].left
        PROVE  Active(i) /\ ~jobs[i].left
    BY <1>1, <2>1, <2>2 DEF Active
  <2> QED
    BY <1>1, <2>2, StageNames DEF TInv, InTurn, Active
<1>2. CASE UNCHANGED <<jobs, tests, dump>>
  BY <1>2 DEF TInv, InTurn, Active
<1>3. ASSUME NEW j \in Stages, RestoreWipes(j) \/ JobSucceeds(j) \/ JobFails(j) \/ JobSeen(j)
      PROVE  InTurn'
  <2>1. UNCHANGED <<tests, dump>> /\ jobs' = [jobs EXCEPT ![j] = jobs'[j]]
    BY <1>3 DEF RestoreWipes, JobSucceeds, JobFails, JobSeen, TInv, TypeOK, JobType
  <2>2. jobs'[j].left = jobs[j].left
    BY <1>3 DEF RestoreWipes, JobSucceeds, JobFails, JobSeen, TInv, TypeOK, JobType
  <2>3. jobs'[j].st \in {"active", "midway"} => Active(j)
    BY <1>3 DEF RestoreWipes, JobSucceeds, JobFails, JobSeen, Active, TInv, TypeOK, JobType
  <2> QED
    BY <1>1, <2>1, <2>2, <2>3
<1>4. ASSUME NEW j \in Stages, JobExpires(j) \/ JobCollected(j)
      PROVE  InTurn'
  <2>1. UNCHANGED <<tests, dump>> /\ jobs' = [jobs EXCEPT ![j] = NoJob]
    BY <1>4 DEF JobExpires, JobCollected
  <2>2. NoJob.st = "absent"
    BY DEF NoJob
  <2> QED
    BY <1>1, <2>1, <2>2
<1>5. ASSUME NEW j \in Stages, StrayEnds(j) \/ SuiteWrites(j) PROVE InTurn'
  BY <1>2, <1>5 DEF StrayEnds, SuiteWrites
<1>6. ASSUME NEW saved \in BOOLEAN, NoteServed(saved) PROVE InTurn'
  BY <1>2, <1>6 DEF NoteServed
<1>7. CASE \/ ServeRequest \/ CaptureReport \/ PostComment \/ Crash \/ SpecChange \/ SwitchPlan
           \/ UNCHANGED vars
  BY <1>2, <1>7 DEF ServeRequest, CaptureReport, PostComment, Crash, SpecChange, SwitchPlan, vars
<1> QED
  BY <1>3, <1>4, <1>5, <1>6, <1>7 DEF Environment

LEMMA TurnNext == TInv /\ [Next]_vars => TInv'
  BY NextType, PassTurn, RestTurn DEF TInv, Next, Operator

LEMMA TurnOneAtATime == InTurn => OneAtATime
<1> SUFFICES ASSUME InTurn PROVE OneAtATime
  OBVIOUS
<1> DEFINE A == {j \in Stages : Active(j) /\ ~jobs[j].left}
<1>1. A \subseteq {tests.step}
  BY DEF InTurn
<1>2. IsFiniteSet({tests.step}) /\ Cardinality({tests.step}) = 1
  BY FS_Singleton
<1>3. Cardinality(A) \in Nat /\ Cardinality(A) <= 1
  BY <1>1, <1>2, FS_Subset, FS_CardinalityType
<1> QED
  BY <1>3 DEF OneAtATime

\* At most one Job runs that the operator has not turned its back on - by a reset,
\* by a result recorded against the running Job, or by a skip: through every edit,
\* request, conflict, failed call, late cache, crash, failed Job and expired Job.
THEOREM OneAtATimeAlways == Spec => []OneAtATime
<1>1. Init => TInv
  BY InitType, InitTurn DEF TInv
<1>2. TInv /\ [Next]_vars => TInv'
  BY TurnNext
<1>3. TInv => OneAtATime
  BY TurnOneAtATime DEF TInv
<1> QED
  BY <1>1, <1>2, <1>3, PTL DEF Spec

-----------------------------------------------------------------------------
(* Isolation, as long as nothing has come between the suites.  The database  *)
(* is followed through the stages: it is seeded until the checkpoint is      *)
(* taken, again when a restore Job has succeeded, and until the suite's own  *)
(* Job starts.                                                               *)

\* Nothing the operator has turned its back on still runs, or is still there.
Quiet == strays = {} /\ \A j \in Stages : ~jobs[j].term /\ ~jobs[j].left

\* Stage j is still to come.
Ahead(j) == tests.step = "unset" \/ Pipeline!Place[tests.step] < Pipeline!Place[j]

\* Suite s is about to get its Job, after a restore.
Awaits(s) == tests.step = s /\ tests.phase \notin Outcomes /\ Isolated /\ Runs(s) /\ ~Live(s)

Seeded ==
  /\ \A j \in Stages : Ahead(j) => ~Live(j)
  /\ dump \in {"none", "seeded"}
  /\ jobs["saving"].st = "succeeded" => jobs["saving"].out = "seeded"
  /\ tests.step \in {"unset", "saving"} => db = "seeded"
  /\ \A j \in RestoreStages :
       /\ Live(j) => jobs[j].mode = "restore"
       /\ tests.step = j /\ jobs[j].st = "succeeded" => db = "seeded"
  /\ \A s \in {"regression", "e2e"} : Awaits(s) => db = "seeded"

SInv == TInv /\ Quiet /\ Seeded

\* What has come between the suites is not forgotten.
IsolInv == TInv /\ (~disturbed /\ cfg.mode = "restore" => Quiet /\ Seeded)

LEMMA InitSeeded == Init => Seeded
<1> SUFFICES ASSUME Init PROVE Seeded
  OBVIOUS
<1>1. \A j \in Stages : jobs[j].st = "absent"
  BY DEF Init, NoJob
<1>2. tests.step = "unset" /\ db = "seeded" /\ dump = "none"
  BY DEF Init, NoTests
<1> QED
  BY <1>1, <1>2, StageNames DEF Seeded, Live, Awaits

LEMMA InitQuiet == Init => Quiet
  BY DEF Init, Quiet, NoJob

\* A pass that stays in stage j.
LEMMA WaitSeeded ==
  ASSUME SInv, cfg.mode = "restore", ~disturbed', NEW j \in Stages, tests.step = j, tests'.step = j,
         tests.phase \notin Outcomes,
         jobs' \in {jobs, Ensured(j)}, UNCHANGED <<cfg, plan, db, dump>>
  PROVE  Seeded'
<1>1. jobs \in [Stages -> JobType] /\ j # "unset"
  BY StageNames DEF SInv, TInv, TypeOK
<1>2. \/ jobs' = jobs
      \/ ~Live(j) /\ jobs' = [jobs EXCEPT ![j] = NewJob(j)]
  BY DEF Ensured
<1>3. CASE jobs' = jobs
  BY <1>3 DEF SInv, Seeded, Ahead, Awaits, Live, Isolated, Runs
<1>4. CASE ~Live(j) /\ jobs' = [jobs EXCEPT ![j] = NewJob(j)]
  <2>1. jobs'[j] = NewJob(j) /\ \A i \in Stages \ {j} : jobs'[i] = jobs[i]
    BY <1>1, <1>4
  <2>2. NewJob(j).st = "active" /\ (j \in RestoreStages => NewJob(j).mode = "restore")
    BY DEF NewJob, NoJob
  <2>3. ~(Pipeline!Place[j] < Pipeline!Place[j])
    BY PlaceType
  <2>4. \A i \in Stages : Ahead(i)' => ~Live(i)'
    BY <1>1, <2>1, <2>3 DEF SInv, Seeded, Ahead, Live
  <2>5. jobs'["saving"].st = "succeeded" => jobs'["saving"].out = "seeded"
    BY <2>1, <2>2, StageNames DEF SInv, Seeded
  <2>6. ASSUME NEW i \in RestoreStages
        PROVE  /\ jobs'[i].st # "absent" => jobs'[i].mode = "restore"
               /\ j = i /\ jobs'[i].st = "succeeded" => db = "seeded"
    BY <2>1, <2>2, StageNames DEF SInv, Seeded, Live
  <2>7. ASSUME NEW s \in {"regression", "e2e"}, Awaits(s)'
        PROVE  FALSE
    BY <2>1, <2>2, <2>7 DEF Awaits, Live
  <2>8. j \in {"unset", "saving"} => db = "seeded"
    BY DEF SInv, Seeded
  <2> QED
    BY <2>4, <2>5, <2>6, <2>7, <2>8 DEF SInv, Seeded, Live
<1> QED
  BY <1>2, <1>3, <1>4

\* A pass that goes from stage j on to stage t.
LEMMA LeaveSeeded ==
  ASSUME SInv, NEW j \in Stages \cup {"unset"}, NEW t \in Stages,
         tests.step = j, tests'.step = t,
         j # "unset" => Pipeline!Place[j] < Pipeline!Place[t],
         t = "saving" => j = "unset",
         t \in {"regression", "e2e"} /\ Isolated /\ Runs(t) => j \in RestoreStages /\ Done(j),
         dump' \in {dump, "seeded"}, UNCHANGED <<jobs, cfg, plan, db>>
  PROVE  Seeded'
<1>1. \A i \in Stages : Ahead(i)' => Ahead(i)
  BY StageNames, PlaceType DEF Ahead
<1>2. Ahead(t)
  BY DEF Ahead
<1>3. ~Live(t)
  BY <1>2 DEF SInv, Seeded
<1>4. \A i \in Stages : Ahead(i)' => ~Live(i)'
  BY <1>1 DEF SInv, Seeded, Live
<1>5. t \in {"unset", "saving"} => db = "seeded"
  BY StageNames DEF SInv, Seeded
<1>6. ASSUME NEW i \in RestoreStages
      PROVE  /\ Live(i)' => jobs'[i].mode = "restore"
             /\ t = i /\ jobs'[i].st = "succeeded" => db = "seeded"
  BY <1>3 DEF SInv, Seeded, Live
<1>7. ASSUME NEW s \in {"regression", "e2e"}, Awaits(s)'
      PROVE  db = "seeded"
  <2>1. t = s /\ Isolated /\ Runs(t)
    BY <1>7 DEF Awaits, Isolated, Runs
  <2>2. j \in RestoreStages /\ jobs[j].st = "succeeded"
    BY <2>1 DEF Done
  <2> QED
    BY <2>2 DEF SInv, Seeded
<1> QED
  BY <1>4, <1>5, <1>6, <1>7 DEF SInv, Seeded

\* Where a stage that restores nothing may lead.
Onward(j, t) ==
  /\ t \in Stages /\ t # "saving" /\ Pipeline!Place[j] < Pipeline!Place[t]
  /\ ~(t \in {"regression", "e2e"} /\ Isolated /\ Runs(t))

LEMMA Onwards ==
  /\ Onward("saving", "smoke")              /\ Onward("smoke", AfterSmoke)
  /\ Onward("migration", AfterMigration)    /\ Onward("import-spec", "contract")
  /\ Onward("contract", AfterContract)      /\ Onward("regression", AfterRegression)
  BY Places DEF Onward, Stages, Suites, AfterSmoke, AfterMigration, AfterContract,
                AfterRegression, Runs

LEMMA OnwardSeeded ==
  ASSUME SInv, NEW j \in Stages, NEW t, Onward(j, t), tests.step = j, tests'.step = t,
         dump' \in {dump, "seeded"}, UNCHANGED <<jobs, cfg, plan, db>>
  PROVE  Seeded'
<1>1. t \in Stages /\ j # "unset" /\ Pipeline!Place[j] < Pipeline!Place[t]
  BY StageNames DEF Onward
<1>2. t # "saving" /\ ~(t \in {"regression", "e2e"} /\ Isolated /\ Runs(t))
  BY DEF Onward
<1> QED
  BY <1>1, <1>2, LeaveSeeded

\* A suite stage: it waits, or it is settled and leads onward.
LEMMA SuiteSeeded ==
  ASSUME SInv, cfg.mode = "restore", ~disturbed', NEW s \in Suites, NEW n, Onward(s, n), NEW saved \in BOOLEAN,
         RunSuite(s, n, saved)
  PROVE  Seeded'
<1>1. /\ tests.step = s /\ tests.phase \notin Outcomes /\ s \in Stages
      /\ UNCHANGED <<cfg, plan, db, dump>>
  BY StageNames DEF RunSuite, At, Outcomes
<1>2. PICK o \in Found(s) :
        /\ jobs' = Left(s, o, saved)
        /\ disturbed' = (disturbed \/ (saved /\ Abandoned(s, o)))
        /\ IF saved
           THEN /\ tests' = [tests EXCEPT !.res[s] = o, !.phase = "Running",
                                          !.step = IF Final(o) THEN n ELSE s]
                /\ source' = Source(s, o) /\ dying' = Dying(s, o)
           ELSE UNCHANGED <<tests, source, dying>>
  BY DEF RunSuite
<1>3. ~(saved /\ Abandoned(s, o))
  BY <1>2
<1>4. CASE saved /\ Final(o)
  <2>1. tests'.step = n
    BY <1>2, <1>4 DEF SInv, TInv, TypeOK
  <2>2. jobs' = jobs
    BY <1>2, <1>3, <1>4 DEF Left, Final
  <2> QED
    BY <1>1, <2>1, <2>2, OnwardSeeded
<1>5. CASE ~(saved /\ Final(o))
  <2>1. tests'.step = s
    BY <1>1, <1>2, <1>5 DEF SInv, TInv, TypeOK
  <2>2. jobs' \in {jobs, Ensured(s)}
    BY <1>2, <1>3 DEF Left
  <2> QED
    BY <1>1, <2>1, <2>2, WaitSeeded
<1> QED
  BY <1>4, <1>5

LEMMA E2ESeeded ==
  ASSUME SInv, cfg.mode = "restore", ~disturbed', NEW saved \in BOOLEAN, RunE2E(saved)
  PROVE  Seeded'
<1>1. /\ tests.step = "e2e" /\ tests.phase \notin Outcomes /\ "e2e" \in Stages
      /\ UNCHANGED <<cfg, plan, db, dump>>
  BY StageNames DEF RunE2E, At, Outcomes
<1>2. PICK o \in Found("e2e") :
        LET res == [tests.res EXCEPT !["e2e"] = o]
        IN  /\ jobs' = Left("e2e", o, saved)
            /\ disturbed' = (disturbed \/ (saved /\ Abandoned("e2e", o)))
            /\ IF saved
               THEN /\ tests' = [tests EXCEPT !.res = res,
                                   !.phase = IF Final(o) THEN Verdict(res) ELSE "Running"]
                    /\ source' = Source("e2e", o) /\ dying' = Dying("e2e", o)
                    /\ after' = IF Final(o) THEN AfterVerdict(Verdict(res)) ELSE "none"
               ELSE UNCHANGED <<tests, source, dying, after>>
  BY DEF RunE2E
<1>3. tests'.step = "e2e"
  BY <1>1, <1>2 DEF SInv, TInv, TypeOK
<1>4. jobs' \in {jobs, Ensured("e2e")}
  BY <1>2 DEF Left
<1> QED
  BY <1>1, <1>3, <1>4, WaitSeeded

\* Before regression and before e2e the restore Job must have succeeded.
LEMMA RestoreSeeded ==
  ASSUME SInv, cfg.mode = "restore", ~disturbed', NEW j \in RestoreStages, NEW t \in {"regression", "e2e"},
         Pipeline!Place[j] < Pipeline!Place[t], NEW saved \in BOOLEAN,
         RestoreCheckpoint(j, t, saved)
  PROVE  Seeded'
<1>1. /\ tests.step = j /\ tests.phase \notin Outcomes /\ j \in Stages
      /\ t \in Stages /\ t # "saving"
      /\ UNCHANGED <<cfg, plan, db, dump>>
  BY StageNames DEF RestoreCheckpoint, At, Outcomes
<1>2. CASE UNCHANGED tests
  BY <1>1, <1>2, WaitSeeded DEF RestoreCheckpoint
<1>3. CASE Done(j) /\ UNCHANGED jobs /\ tests' = [tests EXCEPT !.step = t]
  <2>1. tests'.step = t
    BY <1>3 DEF SInv, TInv, TypeOK
  <2> QED
    BY <1>1, <1>3, <2>1, LeaveSeeded
<1> QED
  BY <1>2, <1>3 DEF RestoreCheckpoint, MoveTo

LEMMA SaveSeeded ==
  ASSUME SInv, cfg.mode = "restore", ~disturbed', NEW saved \in BOOLEAN, SaveCheckpoint(saved)
  PROVE  Seeded'
<1>1. /\ tests.step = "saving" /\ tests.phase \notin Outcomes /\ "saving" \in Stages
      /\ UNCHANGED <<cfg, plan, db>>
  BY StageNames DEF SaveCheckpoint, At, Outcomes
<1>2. dump' \in {dump, "seeded"}
  BY DEF SaveCheckpoint, Done, SInv, Seeded
<1>3. CASE tests' = [tests EXCEPT !.step = "smoke"] /\ UNCHANGED jobs
  <2>1. tests'.step = "smoke"
    BY <1>3 DEF SInv, TInv, TypeOK
  <2> QED
    BY <1>1, <1>2, <1>3, <2>1, Onwards, OnwardSeeded
<1>4. CASE UNCHANGED <<tests, dump>> /\ jobs' \in {jobs, Ensured("saving")}
  BY <1>1, <1>4, WaitSeeded
<1>5. CASE UNCHANGED <<tests, jobs>> /\ dump' = "seeded"
  BY <1>5 DEF SInv, Seeded, Ahead, Awaits, Live, Isolated, Runs, SaveCheckpoint
<1> QED
  BY <1>2, <1>3, <1>4, <1>5 DEF SaveCheckpoint, MoveTo

LEMMA ImportSeeded ==
  ASSUME SInv, cfg.mode = "restore", ~disturbed', NEW saved \in BOOLEAN, ImportSpec(saved)
  PROVE  Seeded'
<1>1. /\ tests.step = "import-spec" /\ tests.phase \notin Outcomes /\ "import-spec" \in Stages
      /\ UNCHANGED <<cfg, plan, db, dump>>
  BY StageNames DEF ImportSpec, At, Outcomes
<1>2. PICK o \in Observed("import-spec") :
        /\ jobs' = Left("import-spec", o, saved)
        /\ disturbed' = (disturbed \/ (saved /\ Abandoned("import-spec", o)))
        /\ IF Final(o) THEN MoveTo("contract", saved) ELSE UNCHANGED tests
  BY DEF ImportSpec
<1>3. ~(saved /\ Abandoned("import-spec", o))
  BY <1>2
<1>4. jobs' \in {jobs, Ensured("import-spec")} /\ (Final(o) => jobs' = jobs)
  BY <1>2, <1>3 DEF Left, Final
<1>5. CASE UNCHANGED tests
  BY <1>1, <1>4, <1>5, WaitSeeded
<1>6. CASE Final(o) /\ tests' = [tests EXCEPT !.step = "contract"]
  <2>1. tests'.step = "contract"
    BY <1>6 DEF SInv, TInv, TypeOK
  <2> QED
    BY <1>1, <1>4, <1>6, <2>1, Onwards, OnwardSeeded
<1> QED
  BY <1>2, <1>5, <1>6 DEF MoveTo

LEMMA PassSeeded ==
  ASSUME SInv, cfg.mode = "restore", ~disturbed', NEW saved \in BOOLEAN, Reconcile(saved)
  PROVE  Seeded'
<1>1. ~ResetForNewGeneration(saved)
  BY DEF ResetForNewGeneration
<1>2. CASE StartSuite
  <2>1. /\ tests.step = "unset" /\ UNCHANGED <<jobs, cfg, plan, db, dump>>
        /\ tests'.step \in {"saving", "smoke"}
    BY <1>2 DEF StartSuite, At, SInv, TInv, TypeOK
  <2>2. "saving" \in Stages /\ "smoke" \in Stages
    BY DEF Stages, Suites
  <2> QED
    BY <2>1, <2>2, LeaveSeeded
<1>3. CASE NoteGeneration(saved)
  BY <1>3 DEF NoteGeneration, SInv, Seeded, Ahead, Awaits, Live, Isolated, Runs
<1>6. /\ RestoreStages = {"restore-regression", "restore-e2e"}
      /\ Pipeline!Place["restore-regression"] < Pipeline!Place["regression"]
      /\ Pipeline!Place["restore-e2e"] < Pipeline!Place["e2e"]
  BY Places DEF RestoreStages
<1>4. CASE \/ RestoreCheckpoint("restore-regression", "regression", saved)
           \/ RestoreCheckpoint("restore-e2e", "e2e", saved)
  BY <1>4, <1>6, RestoreSeeded
<1>5. CASE \/ RunSuite("smoke", AfterSmoke, saved) \/ RunSuite("migration", AfterMigration, saved)
           \/ RunSuite("contract", AfterContract, saved)
           \/ RunSuite("regression", AfterRegression, saved)
  BY <1>5, StageNames, Onwards, SuiteSeeded
<1> QED
  BY <1>1, <1>2, <1>3, <1>4, <1>5, SaveSeeded, ImportSeeded, E2ESeeded DEF Reconcile

\* The Jobs: only a restore and the suite of the current stage write.
LEMMA WipesSeeded ==
  ASSUME SInv, NEW j \in Stages, RestoreWipes(j)
  PROVE  Seeded'
<1>1. /\ j \in RestoreStages /\ tests.step = j /\ Live(j) /\ UNCHANGED <<cfg, plan, tests, dump>>
      /\ jobs' = [jobs EXCEPT ![j].st = "midway"]
  BY DEF RestoreWipes, SInv, TInv, InTurn, Quiet, Active, Live
<1>2. /\ \A i \in Stages \ {j} : jobs'[i] = jobs[i]
      /\ jobs'[j].st = "midway" /\ jobs'[j].mode = jobs[j].mode
  BY <1>1 DEF SInv, TInv, TypeOK, JobType
<1>3. j \notin {"unset", "saving", "regression", "e2e"}
  BY <1>1, StageNames DEF RestoreStages
<1>4. \A i \in Stages : Live(i)' = Live(i) /\ Ahead(i)' = Ahead(i)
  BY <1>1, <1>2 DEF Live, Ahead
<1>5. jobs'["saving"] = jobs["saving"]
  BY <1>2, <1>3, StageNames
<1>6. ASSUME NEW i \in RestoreStages
      PROVE  /\ Live(i)' => jobs'[i].mode = "restore"
             /\ ~(tests'.step = i /\ jobs'[i].st = "succeeded")
  BY <1>1, <1>2, <1>4, StageNames DEF SInv, Seeded
<1>7. \A s \in {"regression", "e2e"} : ~Awaits(s)'
  BY <1>1, <1>3 DEF Awaits
<1> QED
  BY <1>1, <1>3, <1>4, <1>5, <1>6, <1>7 DEF SInv, Seeded

LEMMA SucceedsSeeded ==
  ASSUME SInv, NEW j \in Stages, JobSucceeds(j)
  PROVE  Seeded'
<1>1. /\ tests.step = j /\ Live(j) /\ UNCHANGED <<cfg, plan, tests, dump>>
  BY DEF JobSucceeds, SInv, TInv, InTurn, Quiet, Active, Live
<1>2. PICK k \in JobType :
        /\ jobs' = [jobs EXCEPT ![j] = k]
        /\ k.st = "succeeded" /\ k.mode = jobs[j].mode
        /\ j = "saving" => k.out = db
  <2>1. (IF j = "saving" THEN db ELSE "none") \in DBStates \cup {"none"}
    BY DEF SInv, TInv, TypeOK
  <2>2. PICK o \in DBStates \cup {"none"} :
          /\ jobs' = [jobs EXCEPT ![j].st = "succeeded", ![j].out = o]
          /\ j = "saving" => o = db
    BY <2>1 DEF JobSucceeds
  <2> DEFINE k == [jobs[j] EXCEPT !.st = "succeeded", !.out = o]
  <2>3. jobs' = [jobs EXCEPT ![j] = k]
    BY <2>2 DEF SInv, TInv, TypeOK, JobType
  <2>4. k \in JobType /\ k.st = "succeeded" /\ k.mode = jobs[j].mode /\ k.out = o
    BY DEF SInv, TInv, TypeOK, JobType, JobStates
  <2> HIDE DEF k
  <2> QED
    BY <2>2, <2>3, <2>4
<1>3. jobs'[j] = k /\ \A i \in Stages \ {j} : jobs'[i] = jobs[i]
  BY <1>2 DEF SInv, TInv, TypeOK
<1>4. \A i \in Stages : Live(i)' = Live(i) /\ Ahead(i)' = Ahead(i)
  BY <1>1, <1>2, <1>3 DEF Live, Ahead
<1>5. db' = db \/ db' = "seeded"
  <2>1. CASE j \in RestoreStages
    BY <1>1, <2>1 DEF JobSucceeds, Restored, SInv, Seeded
  <2>2. CASE j \notin RestoreStages
    BY <2>2 DEF JobSucceeds
  <2> QED
    BY <2>1, <2>2
<1>6. tests'.step \in {"unset", "saving"} => db' = "seeded"
  BY <1>1, <1>5 DEF SInv, Seeded
<1>7. jobs'["saving"].st = "succeeded" => jobs'["saving"].out = "seeded"
  <2>1. CASE j = "saving"
    BY <1>1, <1>2, <1>3, <2>1 DEF SInv, Seeded
  <2>2. CASE j # "saving"
    BY <1>3, <2>2, StageNames DEF SInv, Seeded
  <2> QED
    BY <2>1, <2>2
<1>8. ASSUME NEW i \in RestoreStages
      PROVE  Live(i)' => jobs'[i].mode = "restore"
  BY <1>2, <1>3, <1>4, StageNames DEF SInv, Seeded
<1>9. ASSUME NEW i \in RestoreStages, tests'.step = i
      PROVE  db' = "seeded"
  BY <1>1, <1>9 DEF JobSucceeds, Restored, SInv, Seeded
<1>10. \A s \in {"regression", "e2e"} : Awaits(s)' => Awaits(s)
  BY <1>1, <1>4, StageNames DEF Awaits, Isolated, Runs
<1> QED
  BY <1>1, <1>4, <1>5, <1>6, <1>7, <1>8, <1>9, <1>10 DEF SInv, Seeded

\* A Job that fails, or expires once its outcome has been recorded.
LEMMA EndsSeeded ==
  ASSUME SInv, cfg.mode = "restore", ~disturbed', NEW j \in Stages, JobFails(j) \/ JobExpires(j)
  PROVE  Seeded'
<1>1. UNCHANGED <<cfg, plan, tests, db, dump>> /\ jobs \in [Stages -> JobType]
  BY DEF JobFails, JobExpires, SInv, TInv, TypeOK
<1>2. PICK k :
        /\ jobs' = [jobs EXCEPT ![j] = k]
        /\ k.st \in {"absent", "failed"}
        /\ k.st # "absent" => Live(j) /\ k.mode = jobs[j].mode
        /\ j \in Suites /\ tests.step = j /\ tests.phase \notin Outcomes => k.st # "absent"
  <2>1. CASE JobFails(j)
    <3> DEFINE k == [jobs[j] EXCEPT !.st = "failed"]
    <3>1. jobs' = [jobs EXCEPT ![j] = k] /\ Live(j)
      BY <2>1 DEF JobFails, Live, Active
    <3>2. k.st = "failed" /\ k.mode = jobs[j].mode
      BY <1>1 DEF JobType
    <3> HIDE DEF k
    <3> QED
      BY <3>1, <3>2
  <2>2. CASE JobExpires(j)
    BY <2>2 DEF JobExpires, NoJob
  <2> QED
    BY <2>1, <2>2
<1>3. jobs'[j] = k /\ \A i \in Stages \ {j} : jobs'[i] = jobs[i]
  BY <1>1, <1>2
<1>4. \A i \in Stages : (Live(i)' => Live(i)) /\ Ahead(i)' = Ahead(i)
  BY <1>1, <1>2, <1>3 DEF Live, Ahead
<1>5. jobs'["saving"].st = "succeeded" => jobs'["saving"].out = "seeded"
  BY <1>2, <1>3, StageNames DEF SInv, Seeded
<1>6. ASSUME NEW i \in RestoreStages
      PROVE  /\ Live(i)' => jobs'[i].mode = "restore"
             /\ tests.step = i /\ jobs'[i].st = "succeeded" => db = "seeded"
  BY <1>2, <1>3, <1>4, StageNames DEF SInv, Seeded, Live
<1>7. ASSUME NEW s \in {"regression", "e2e"}, Awaits(s)'
      PROVE  Awaits(s)
  <2>1. /\ tests.step = s /\ tests.phase \notin Outcomes /\ Isolated /\ Runs(s)
        /\ jobs'[s].st = "absent" /\ s \in Suites /\ s \in Stages
    BY <1>1, <1>7, StageNames DEF Awaits, Isolated, Runs, Live
  <2>2. s # j
    BY <1>2, <1>3, <2>1
  <2> QED
    BY <1>3, <2>1, <2>2 DEF Awaits, Live
<1> QED
  BY <1>1, <1>4, <1>5, <1>6, <1>7 DEF SInv, Seeded

LEMMA WritesSeeded ==
  ASSUME SInv, NEW s \in Stages, SuiteWrites(s)
  PROVE  Seeded'
<1>1. /\ s \in Suites /\ tests.step = s /\ Live(s)
      /\ UNCHANGED <<cfg, plan, tests, jobs, dump>>
  BY DEF SuiteWrites, SInv, TInv, InTurn, Quiet, Active, Live
<1>2. s \notin {"unset", "saving"} /\ s \notin RestoreStages
  BY <1>1, StageNames
<1>3. ASSUME NEW i \in RestoreStages
      PROVE  tests'.step # i
  BY <1>1, <1>2
<1>4. \A u \in {"regression", "e2e"} : ~Awaits(u)'
  BY <1>1 DEF Awaits, Live
<1> QED
  BY <1>1, <1>2, <1>3, <1>4 DEF SInv, Seeded, Ahead, Live

LEMMA RestSeeded ==
  ASSUME SInv, cfg.mode = "restore", ~disturbed',
         \/ ServeRequest \/ (\E saved \in BOOLEAN : NoteServed(saved))
         \/ CaptureReport \/ PostComment \/ Crash \/ Environment \/ UNCHANGED vars
  PROVE  Seeded'
<1>1. ASSUME UNCHANGED <<cfg, plan, tests, jobs, db, dump>>
      PROVE  Seeded'
  BY <1>1 DEF SInv, Seeded, Ahead, Awaits, Live, Isolated, Runs
<1>2. ~SwitchPlan
  BY DEF SwitchPlan
<1>3. CASE SpecChange
  BY <1>1, <1>3 DEF SpecChange
<1>4. ASSUME NEW j \in Stages PROVE ~JobCollected(j) /\ ~StrayEnds(j)
  BY DEF JobCollected, StrayEnds, SInv, Quiet
<1>5. ASSUME NEW j \in Stages, JobSeen(j) PROVE Seeded'
  <2>1. UNCHANGED <<cfg, plan, tests, db, dump>> /\ jobs' = [jobs EXCEPT ![j].seen = TRUE]
    BY <1>5 DEF JobSeen
  <2>2. \A i \in Stages : /\ jobs'[i].st = jobs[i].st /\ jobs'[i].mode = jobs[i].mode
                          /\ jobs'[i].out = jobs[i].out
    BY <2>1 DEF SInv, TInv, TypeOK, JobType
  <2>3. \A i \in Stages : Live(i)' = Live(i) /\ Ahead(i)' = Ahead(i)
    BY <2>1, <2>2 DEF Live, Ahead
  <2>4. \A s \in {"regression", "e2e"} : Awaits(s)' => Awaits(s)
    BY <2>1, <2>3, StageNames DEF Awaits, Isolated, Runs
  <2> QED
    BY <2>1, <2>2, <2>3, <2>4, StageNames DEF SInv, Seeded
<1>6. ASSUME NEW saved \in BOOLEAN, NoteServed(saved) PROVE Seeded'
  BY <1>1, <1>6 DEF NoteServed
<1>7. CASE ServeRequest \/ CaptureReport \/ PostComment \/ Crash \/ UNCHANGED vars
  BY <1>1, <1>7 DEF ServeRequest, CaptureReport, PostComment, Crash, vars
<1> QED
  BY <1>2, <1>3, <1>4, <1>5, <1>6, <1>7, WipesSeeded, SucceedsSeeded, EndsSeeded, WritesSeeded
  DEF Environment

\* No pod and no Job is left behind by a step that comes not between the suites.
LEMMA QuietKept ==
  ASSUME TypeOK, Quiet, [Next]_vars, ~disturbed'
  PROVE  Quiet'
<1>1. jobs \in [Stages -> JobType] /\ \A j \in Stages : jobs[j] \in JobType
  BY DEF TypeOK
<1>2. ASSUME strays' = strays, \A j \in Stages : jobs'[j] \in {jobs[j], NoJob, NewJob(j)}
      PROVE  Quiet'
  <2>1. \A j \in Stages : ~NewJob(j).term /\ ~NewJob(j).left /\ ~NoJob.term /\ ~NoJob.left
    BY DEF NewJob, NoJob
  <2> QED
    BY <1>2, <2>1 DEF Quiet
<1>3. CASE UNCHANGED <<strays, jobs>>
  BY <1>2, <1>3
<1>4. ASSUME NEW j \in Stages, jobs' \in {jobs, Ensured(j)}, strays' = strays
      PROVE  Quiet'
  <2>1. ASSUME NEW i \in Stages PROVE jobs'[i] \in {jobs[i], NewJob(i)}
    BY <1>1, <1>4 DEF Ensured
  <2> QED
    BY <1>2, <1>4, <2>1
<1>5. ASSUME NEW j \in Stages, NEW o, NEW saved, jobs' = Left(j, o, saved), strays' = strays,
             ~(saved /\ Abandoned(j, o))
      PROVE  Quiet'
  BY <1>4, <1>5 DEF Left
<1>6. ASSUME NEW saved \in BOOLEAN, Reconcile(saved)
      PROVE  Quiet'
  <2>1. ~ResetForNewGeneration(saved)
    BY DEF ResetForNewGeneration
  <2>2. CASE NoteGeneration(saved) \/ StartSuite
    BY <1>3, <2>2 DEF NoteGeneration, StartSuite
  <2>3. CASE SaveCheckpoint(saved)
    BY <1>4, <2>3, StageNames DEF SaveCheckpoint
  <2>4. CASE ImportSpec(saved)
    <3>1. PICK o \in Observed("import-spec") :
            /\ jobs' = Left("import-spec", o, saved)
            /\ disturbed' = (disturbed \/ (saved /\ Abandoned("import-spec", o)))
      BY <2>4 DEF ImportSpec
    <3> QED
      BY <1>5, <2>4, <3>1, StageNames DEF ImportSpec
  <2>5. ASSUME NEW j \in RestoreStages, NEW t, RestoreCheckpoint(j, t, saved)
        PROVE  Quiet'
    BY <1>4, <2>5, StageNames DEF RestoreCheckpoint
  <2>6. ASSUME NEW s \in Suites, NEW n, RunSuite(s, n, saved)
        PROVE  Quiet'
    <3>1. PICK o \in Found(s) :
            /\ jobs' = Left(s, o, saved)
            /\ disturbed' = (disturbed \/ (saved /\ Abandoned(s, o)))
      BY <2>6 DEF RunSuite
    <3> QED
      BY <1>5, <2>6, <3>1, StageNames DEF RunSuite
  <2>7. CASE RunE2E(saved)
    <3>1. PICK o \in Found("e2e") :
            /\ jobs' = Left("e2e", o, saved)
            /\ disturbed' = (disturbed \/ (saved /\ Abandoned("e2e", o)))
      BY <2>7 DEF RunE2E
    <3> QED
      BY <1>5, <2>7, <3>1, StageNames DEF RunE2E
  <2> QED
    BY <1>6, <2>1, <2>2, <2>3, <2>4, <2>5, <2>6, <2>7, StageNames DEF Reconcile, RestoreStages
<1>7. ASSUME NEW saved \in BOOLEAN, NoteServed(saved)
      PROVE  Quiet'
  BY <1>3, <1>7 DEF NoteServed
<1>8. ASSUME NEW j \in Stages, RestoreWipes(j) \/ JobSucceeds(j) \/ JobFails(j) \/ JobSeen(j)
      PROVE  Quiet'
  <2>1. strays' = strays
    BY <1>8 DEF RestoreWipes, JobSucceeds, JobFails, JobSeen
  <2>2. ASSUME NEW i \in Stages
        PROVE  jobs'[i].term = jobs[i].term /\ jobs'[i].left = jobs[i].left
    BY <1>1, <1>8 DEF RestoreWipes, JobSucceeds, JobFails, JobSeen, JobType
  <2> QED
    BY <2>1, <2>2 DEF Quiet
<1>9. ASSUME NEW j \in Stages, JobExpires(j)
      PROVE  Quiet'
  <2>1. strays' = strays /\ jobs' = [jobs EXCEPT ![j] = NoJob]
    BY <1>9 DEF JobExpires
  <2>2. ASSUME NEW i \in Stages
        PROVE  jobs'[i] \in {jobs[i], NoJob}
    BY <1>1, <2>1
  <2> QED
    BY <1>2, <2>1, <2>2
<1>10. ASSUME NEW j \in Stages PROVE ~JobCollected(j) /\ ~StrayEnds(j)
  BY DEF JobCollected, StrayEnds, Quiet
<1>11. ASSUME NEW j \in Stages, SuiteWrites(j)
       PROVE  Quiet'
  BY <1>3, <1>11 DEF SuiteWrites
<1>12. CASE \/ ServeRequest \/ CaptureReport \/ PostComment \/ Crash \/ SpecChange \/ SwitchPlan
            \/ UNCHANGED vars
  BY <1>3, <1>12 DEF ServeRequest, CaptureReport, PostComment, Crash, SpecChange, SwitchPlan, vars
<1> QED
  BY <1>6, <1>7, <1>8, <1>9, <1>10, <1>11, <1>12 DEF Next, Operator, Environment

\* What has come between the suites stays so, and the spec is the same until then.
LEMMA DisturbedStays ==
  ASSUME TypeOK, [Next]_vars, ~disturbed'
  PROVE  ~disturbed /\ cfg' = cfg
<1>1. ASSUME NEW saved \in BOOLEAN, Reconcile(saved) \/ NoteServed(saved)
      PROVE  ~disturbed /\ cfg' = cfg
  <2>1. CASE \/ ResetForNewGeneration(saved) \/ NoteGeneration(saved) \/ StartSuite
             \/ SaveCheckpoint(saved) \/ NoteServed(saved)
    BY <2>1 DEF ResetForNewGeneration, NoteGeneration, StartSuite, SaveCheckpoint, NoteServed
  <2>2. ASSUME NEW j, NEW t, RestoreCheckpoint(j, t, saved) PROVE ~disturbed /\ cfg' = cfg
    BY <2>2 DEF RestoreCheckpoint
  <2>3. ASSUME NEW s, NEW n, RunSuite(s, n, saved) PROVE ~disturbed /\ cfg' = cfg
    BY <2>3 DEF RunSuite
  <2>4. CASE ImportSpec(saved) \/ RunE2E(saved)
    BY <2>4 DEF ImportSpec, RunE2E
  <2> QED
    BY <1>1, <2>1, <2>2, <2>3, <2>4 DEF Reconcile
<1>2. ASSUME NEW j \in Stages,
             \/ RestoreWipes(j) \/ JobSucceeds(j) \/ JobFails(j)
             \/ JobCollected(j) \/ JobSeen(j) \/ StrayEnds(j) \/ SuiteWrites(j)
      PROVE  ~disturbed /\ cfg' = cfg
  BY <1>2 DEF RestoreWipes, JobSucceeds, JobFails, JobCollected, JobSeen, StrayEnds, SuiteWrites
<1>3. ASSUME NEW j \in Stages, JobExpires(j) PROVE ~disturbed /\ cfg' = cfg
  BY <1>3, Zenon DEF JobExpires
<1>4. CASE SpecChange
  <2>1. disturbed' = (disturbed \/ cfg' # cfg \/ plan' # plan)
    BY <1>4 DEF SpecChange
  <2> QED
    BY <2>1, Zenon
<1>5. CASE SwitchPlan
  BY <1>5 DEF SwitchPlan
<1>6. CASE ServeRequest \/ CaptureReport \/ PostComment \/ Crash \/ UNCHANGED vars
  <2>1. UNCHANGED <<disturbed, cfg>>
    BY <1>6 DEF ServeRequest, CaptureReport, PostComment, Crash, vars
  <2> QED
    BY <2>1
<1> QED
  BY <1>1, <1>2, <1>3, <1>4, <1>5, <1>6 DEF Next, Operator, Environment

\* The Job of a suite is created only by a pass in its stage, which the suite is in.
LEMMA StartsInStage ==
  ASSUME SInv, [Next]_vars, NEW s \in {"regression", "e2e"}, ~Live(s), jobs'[s].st = "active"
  PROVE  At(s) /\ Runs(s)
<1>1. jobs'[s] # jobs[s] /\ s \in Stages /\ s \in Suites /\ jobs \in [Stages -> JobType]
  BY StageNames DEF Live, SInv, TInv, TypeOK
<1>2. ASSUME NEW j \in Stages, jobs' \in {jobs, Ensured(j)}
      PROVE  j = s
  BY <1>1, <1>2 DEF Ensured
<1>3. ASSUME NEW u \in Suites, NEW o \in Found(u), NEW saved, jobs' = Left(u, o, saved)
      PROVE  u = s /\ Runs(s)
  <2>1. o = "Running" /\ jobs' = Ensured(u)
    <3>1. CASE jobs' = [jobs EXCEPT ![u].left = TRUE]
      <4>1. jobs'[s].st = jobs[s].st
        BY <1>1, <3>1 DEF JobType
      <4> QED
        BY <4>1 DEF Live
    <3> QED
      BY <1>1, <1>3, <3>1 DEF Left
  <2>2. u = s
    BY <1>2, <2>1, StageNames
  <2> QED
    BY <2>1, <2>2 DEF Found
<1>4. ASSUME NEW saved \in BOOLEAN, Reconcile(saved)
      PROVE  At(s) /\ Runs(s)
  <2>1. ~ResetForNewGeneration(saved)
    <3>1. ResetForNewGeneration(saved) => jobs'[s] = NoJob
      BY <1>1 DEF ResetForNewGeneration, Deleted
    <3> QED
      BY <3>1 DEF NoJob
  <2>2. ~StartSuite /\ ~NoteGeneration(saved) /\ ~SaveCheckpoint(saved)
    BY <1>1, <1>2, StageNames DEF StartSuite, NoteGeneration, SaveCheckpoint
  <2>3. ~ImportSpec(saved)
    <3>1. ASSUME ImportSpec(saved) PROVE FALSE
      <4>1. PICK o \in Observed("import-spec") : jobs' = Left("import-spec", o, saved)
        BY <3>1 DEF ImportSpec
      <4>2. s # "import-spec" /\ "import-spec" \in Stages
        BY <1>1, StageNames
      <4>3. jobs'[s] = jobs[s]
        BY <1>1, <4>1, <4>2 DEF Left, Ensured
      <4> QED
        BY <1>1, <4>3
    <3> QED
      BY <3>1
  <2>4. ASSUME NEW j \in RestoreStages, NEW t PROVE ~RestoreCheckpoint(j, t, saved)
    BY <1>1, <1>2, StageNames DEF RestoreCheckpoint
  <2>5. ASSUME NEW u \in Suites, NEW n, RunSuite(u, n, saved) PROVE At(s) /\ Runs(s)
    BY <1>3, <2>5 DEF RunSuite
  <2>6. CASE RunE2E(saved)
    <3>1. PICK o \in Found("e2e") : jobs' = Left("e2e", o, saved)
      BY <2>6 DEF RunE2E
    <3> QED
      BY <1>3, <2>6, <3>1, StageNames DEF RunE2E
  <2> QED
    BY <1>4, <2>1, <2>2, <2>3, <2>4, <2>5, <2>6, StageNames DEF Reconcile, RestoreStages
<1>5. ASSUME NEW j \in Stages,
             \/ RestoreWipes(j) \/ JobSucceeds(j) \/ JobFails(j) \/ JobExpires(j)
             \/ JobCollected(j) \/ JobSeen(j) \/ StrayEnds(j) \/ SuiteWrites(j)
      PROVE  FALSE
  <2>1. CASE j # s
    BY <1>1, <1>5, <2>1
    DEF RestoreWipes, JobSucceeds, JobFails, JobExpires, JobCollected, JobSeen, StrayEnds, SuiteWrites
  <2>2. CASE j = s
    <3>1. jobs[j].st = "absent" /\ NoJob.st = "absent"
      BY <2>2 DEF Live, NoJob
    <3>2. JobCollected(j) \/ StrayEnds(j) \/ SuiteWrites(j)
      BY <1>5, <2>2, <3>1, StageNames
      DEF RestoreWipes, JobSucceeds, JobFails, JobExpires, JobSeen, Active, Live
    <3> QED
      BY <1>1, <2>2, <3>1, <3>2 DEF JobCollected, StrayEnds, SuiteWrites
  <2> QED
    BY <2>1, <2>2
<1>6. ~(\/ ServeRequest \/ CaptureReport \/ PostComment \/ Crash \/ SpecChange \/ SwitchPlan
        \/ UNCHANGED vars)
  BY <1>1 DEF ServeRequest, CaptureReport, PostComment, Crash, SpecChange, SwitchPlan, vars
<1>7. ASSUME NEW saved \in BOOLEAN PROVE ~NoteServed(saved)
  BY <1>1 DEF NoteServed
<1> QED
  BY <1>4, <1>5, <1>6, <1>7 DEF Next, Operator, Environment

\* As long as nothing has come between the suites, no regression or e2e Job of a
\* preview isolated in restore mode starts on anything but the seeded data, or with
\* another suite's pod able to write to it: through lost updates, failing calls, a
\* late Job cache, requests, crashes, and however many restore Jobs fail and expire.
THEOREM IsolationKeptAlways == Spec => IsolationKept
<1>1. Init => IsolInv
  BY InitType, InitTurn, InitSeeded, InitQuiet DEF IsolInv, TInv
<1>2. IsolInv /\ [Next]_vars => IsolInv'
  <2> SUFFICES ASSUME IsolInv, [Next]_vars, ~disturbed', cfg'.mode = "restore"
               PROVE  Quiet' /\ Seeded'
    BY TurnNext DEF IsolInv
  <2>1. ~disturbed /\ cfg' = cfg /\ TypeOK
    BY DisturbedStays DEF IsolInv, TInv
  <2>2. SInv /\ cfg.mode = "restore"
    BY <2>1 DEF IsolInv, SInv
  <2>3. Quiet'
    BY <2>1, <2>2, QuietKept DEF SInv
  <2>4. Seeded'
    BY <2>2, PassSeeded, RestSeeded DEF Next, Operator
  <2> QED
    BY <2>3, <2>4
<1>3. ASSUME IsolInv, [Next]_vars, NEW s \in {"regression", "e2e"}, StartsIsolated(s),
             cfg.mode = "restore", ~disturbed
      PROVE  db = "seeded" /\ QuietDatabase
  <2>1. SInv /\ Isolated /\ ~Live(s) /\ jobs'[s].st = "active"
    BY <1>3 DEF IsolInv, SInv, StartsIsolated
  <2>2. At(s) /\ Runs(s)
    BY <1>3, <2>1, StartsInStage
  <2>3. Awaits(s)
    BY <2>1, <2>2 DEF At, Awaits, Outcomes
  <2>4. ASSUME NEW t \in Suites, Active(t) PROVE t = s
    <3>1. t \in Stages /\ tests.step = s
      BY <2>3, StageNames DEF Awaits
    <3> QED
      BY <2>1, <2>4, <3>1 DEF SInv, TInv, InTurn, Quiet
  <2>5. ~Active(s)
    BY <2>1 DEF Live, Active
  <2> QED
    BY <2>1, <2>3, <2>4, <2>5 DEF SInv, Quiet, Seeded, QuietDatabase
<1>4. IsolInv /\ [Next]_vars =>
        [\A s \in {"regression", "e2e"} :
           StartsIsolated(s) /\ cfg.mode = "restore" /\ ~disturbed =>
             db = "seeded" /\ QuietDatabase]_vars
  BY <1>3
<1> QED
  BY <1>1, <1>2, <1>4, PTL DEF Spec, IsolationKept
=============================================================================
