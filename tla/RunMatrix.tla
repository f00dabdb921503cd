------------------------------ MODULE RunMatrix ------------------------------
(***************************************************************************)
(* The matrix runner (multiapp/run-matrix.py, harness/preview_factory.py): *)
(* a process takes the units (subject, fault, repetition) of its subjects  *)
(* through a pool of threads.  Each unit deploys a Preview with its fault, *)
(* waits for the FailureReport the operator captures, stores it, collects  *)
(* artifacts and deletes the Preview.  A process may be killed and started *)
(* again, several run side by side, and kubectl may fail.  Of a plan the   *)
(* units and Previews keep what it makes the system show.                  *)
(***************************************************************************)
EXTENDS FaultDispatch, FiniteSets, Functions

CONSTANTS Procs,        \* the processes started side by side
          Enabled,      \* [Procs -> Seq(SubjectIds)], their --subjects
          Scope,        \* cfg["faults"], the faults of each subject
          Reps,         \* --reps
          Concurrency,  \* --concurrency
          MaxStarts,    \* bound: starts of each process
          MaxErrors     \* bound: failing calls of kubectl

ASSUME RunMatrixAssumption ==
  /\ Enabled \in [Procs -> Seq(SubjectIds)]
  /\ Scope \in [SubjectIds -> SUBSET Faults]
  /\ Reps \in 1..100
  /\ Concurrency \in Nat \ {0}
  /\ MaxStarts \in [Procs -> Nat]
  /\ MaxErrors \in Nat

VARIABLES up,         \* processes that run
          starts,     \* how often each was started
          todo,       \* units waiting for a thread
          loaded,     \* the subjects read from meta.yaml, shared by the threads
          jobs,       \* units in the threads
          rows,       \* the rows of this start
          disk,       \* report.json of each unit, the content a set of at most one
          artifacts,  \* what was collected for each unit
          previews,   \* the Preview of each name, a set of at most one
          reports,    \* the FailureReport of each name, a set of at most one
          errors

vars == <<up, starts, todo, loaded, jobs, rows, disk, artifacts, previews, reports, errors>>

-----------------------------------------------------------------------------

UnitsOf(p) ==
  {u \in [sid : Range(Enabled[p]), fault : Faults, rep : 1..Reps] : u.fault \in Scope[u.sid]}
Units == UNION {UnitsOf(p) : p \in Procs}

SUBJECT_IDX ==
  [sid \in {"s2", "s3", "s4", "s5"} |-> CASE sid = "s2" -> 0 [] sid = "s3" -> 1
                                          [] sid = "s4" -> 2 [] sid = "s5" -> 3]

Position(p, sid) == (CHOOSE i \in DOMAIN Enabled[p] : Enabled[p][i] = sid) - 1
\* Mutant: the position in --subjects, which run_unit warns of.
PositionIdx(p, sid) == Position(p, sid)

StableIdx(p, sid) == IF sid \in DOMAIN SUBJECT_IDX THEN SUBJECT_IDX[sid] ELSE Position(p, sid)
PRNumber(p, u) == 90000 + StableIdx(p, u.sid) * 1000 + u.fault * 100 + u.rep

Names == UNION {{PRNumber(p, u) : u \in UnitsOf(p)} : p \in Procs}

ReportType == [unit : Units, symptom : Symptoms]
Statuses == {"none", "skip-existing", "captured", "no-report", "error"}
Steps == {"create", "await", "write", "collect", "teardown"}
JobType == [unit : Units, step : Steps, shows : Symptoms]
PreviewType == [unit : Units, shows : Symptoms, deleting : BOOLEAN, failed : BOOLEAN]

TypeOK ==
  /\ up \subseteq Procs
  /\ \A p \in Procs : starts[p] \in 0..MaxStarts[p]
  /\ \A p \in Procs :
       /\ todo[p] \subseteq UnitsOf(p)
       /\ jobs[p] \subseteq JobType
       /\ Cardinality(jobs[p]) <= Concurrency
       /\ \A sid \in Range(Enabled[p]) : loaded[p][sid] \in SubjectType
  /\ rows \in [Procs -> [Units -> Statuses]]
  /\ \A u \in Units : disk[u].content \subseteq ReportType /\ disk[u].exists \in BOOLEAN
  /\ artifacts \in [Units -> {"none", "failing", "other"}]
  /\ \A n \in Names : Cardinality(previews[n]) <= 1 /\ previews[n] \subseteq PreviewType
  /\ \A n \in Names : Cardinality(reports[n]) <= 1 /\ reports[n] \subseteq ReportType
  /\ errors \in 0..MaxErrors

NoRows == [u \in Units |-> "none"]
Load(p) == [sid \in Range(Enabled[p]) |-> Stock(sid)]

Init ==
  /\ up = {}
  /\ starts = [p \in Procs |-> 0]
  /\ todo = [p \in Procs |-> {}]
  /\ loaded = [p \in Procs |-> Load(p)]
  /\ jobs = [p \in Procs |-> {}]
  /\ rows = [p \in Procs |-> NoRows]
  /\ disk = [u \in Units |-> [exists |-> FALSE, content |-> {}]]
  /\ artifacts = [u \in Units |-> "none"]
  /\ previews = [n \in Names |-> {}]
  /\ reports = [n \in Names |-> {}]
  /\ errors = 0

-----------------------------------------------------------------------------
(* main() *)

Start(p) ==
  /\ p \notin up
  /\ starts[p] < MaxStarts[p]
  /\ up' = up \union {p}
  /\ starts' = [starts EXCEPT ![p] = @ + 1]
  /\ todo' = [todo EXCEPT ![p] = UnitsOf(p)]
  /\ loaded' = [loaded EXCEPT ![p] = Load(p)]
  /\ rows' = [rows EXCEPT ![p] = NoRows]
  /\ UNCHANGED <<jobs, disk, artifacts, previews, reports, errors>>

\* Every future is done: runs.csv is written over and the process ends.
Finish(p) ==
  /\ p \in up
  /\ todo[p] = {}
  /\ jobs[p] = {}
  /\ up' = up \ {p}
  /\ UNCHANGED <<starts, todo, loaded, jobs, rows, disk, artifacts, previews, reports, errors>>

\* Bounded: only a process that may be started again is killed.
Crash(p) ==
  /\ p \in up
  /\ starts[p] < MaxStarts[p]
  /\ up' = up \ {p}
  /\ todo' = [todo EXCEPT ![p] = {}]
  /\ jobs' = [jobs EXCEPT ![p] = {}]
  /\ UNCHANGED <<starts, loaded, rows, disk, artifacts, previews, reports, errors>>

-----------------------------------------------------------------------------
(* run_unit() *)

\* Mutants: any file counts as captured; nothing does.
AnyFileCounts(u) == disk[u].exists
NeverSkips(u) == FALSE

HasReport(u) == disk[u].exists /\ disk[u].content # {}

Take(p, u) ==
  /\ p \in up
  /\ u \in todo[p]
  /\ Cardinality(jobs[p]) < Concurrency
  /\ todo' = [todo EXCEPT ![p] = @ \ {u}]
  /\ UNCHANGED <<up, starts, disk, artifacts, previews, reports, errors>>

Row(p, u, status) == rows' = [rows EXCEPT ![p][u] = status]

SkipExisting(p, u) ==
  /\ Take(p, u)
  /\ HasReport(u)
  /\ Row(p, u, "skip-existing")
  /\ UNCHANGED <<loaded, jobs>>

CannotPrepare(p, u) ==
  /\ Take(p, u)
  /\ ~HasReport(u)
  /\ Unprepared(loaded[p][u.sid], u.fault)
  /\ Row(p, u, "error")
  /\ UNCHANGED <<loaded, jobs>>

InjectFault(p, u) ==
  LET plan == Prepare(loaded[p][u.sid], u.fault)
  IN  /\ Take(p, u)
      /\ ~HasReport(u)
      /\ ~Unprepared(loaded[p][u.sid], u.fault)
      /\ jobs' = [jobs EXCEPT ![p] = @ \union
                   {[unit |-> u, step |-> "create", shows |-> Symptom(plan)]}]
      /\ loaded' = [loaded EXCEPT ![p][u.sid] = LoadedAfter(@, plan)]
      /\ UNCHANGED rows

\* The order of the steps once the report is there.
NextStep == [write |-> "collect", collect |-> "teardown"]

GoOn(p, j, step) == jobs' = [jobs EXCEPT ![p] = (@ \ {j}) \union {[j EXCEPT !.step = step]}]
End(p, j, status) ==
  /\ jobs' = [jobs EXCEPT ![p] = @ \ {j}]
  /\ Row(p, j.unit, status)

\* Mutant: kubectl create with a generated name.
CreatedBeside(j, old) ==
  old \union {[unit |-> j.unit, shows |-> j.shows, deleting |-> FALSE, failed |-> FALSE]}

\* kubectl apply creates the Preview or replaces the spec of the one with that
\* name; one that is being deleted stays so.
Applied(j, old) ==
  {[unit |-> j.unit, shows |-> j.shows, deleting |-> \E c \in old : c.deleting, failed |-> FALSE]}

Deleted(old) == {[c EXCEPT !.deleting = TRUE] : c \in old}

Create(p, j) ==
  LET n == PRNumber(p, j.unit)
  IN  /\ j.step = "create"
      /\ previews' = [previews EXCEPT ![n] = Applied(j, @)]
      /\ GoOn(p, j, "await")
      /\ UNCHANGED <<up, starts, todo, loaded, rows, disk, artifacts, reports, errors>>

\* check=True raises, whether the API server applied the manifest or not.
CreateFails(p, j) ==
  LET n == PRNumber(p, j.unit)
  IN  /\ j.step = "create"
      /\ errors < MaxErrors
      /\ errors' = errors + 1
      /\ previews' \in {previews, [previews EXCEPT ![n] = Applied(j, @)]}
      /\ End(p, j, "error")
      /\ UNCHANGED <<up, starts, todo, loaded, disk, artifacts, reports>>

\* The phase reads Captured; open("w") truncates the file before kubectl is
\* started.
SeeReport(p, j) ==
  /\ j.step = "await"
  /\ reports[PRNumber(p, j.unit)] # {}
  /\ disk' = [disk EXCEPT ![j.unit] = [exists |-> TRUE, content |-> {}]]
  /\ GoOn(p, j, "write")
  /\ UNCHANGED <<up, starts, todo, loaded, rows, artifacts, previews, reports, errors>>

\* Mutant: the Preview is deleted before the artifacts are collected.
WriteAndDelete(p, j) ==
  LET n == PRNumber(p, j.unit)
  IN  /\ j.step = "write"
      /\ disk' = [disk EXCEPT ![j.unit].content = reports[n]]
      /\ previews' = [previews EXCEPT ![n] = Deleted(@)]
      /\ GoOn(p, j, NextStep["write"])
      /\ UNCHANGED <<up, starts, todo, loaded, rows, artifacts, reports, errors>>

\* kubectl get with check=False: a failure leaves the file empty and is not noticed.
WriteReport(p, j) ==
  /\ j.step = "write"
  /\ \/ /\ disk' = [disk EXCEPT ![j.unit].content = reports[PRNumber(p, j.unit)]]
        /\ UNCHANGED errors
     \/ /\ errors < MaxErrors
        /\ errors' = errors + 1
        /\ UNCHANGED disk
  /\ GoOn(p, j, NextStep["write"])
  /\ UNCHANGED <<up, starts, todo, loaded, rows, artifacts, previews, reports>>

CollectArtifacts(p, j) ==
  /\ j.step = "collect"
  /\ artifacts' = [artifacts EXCEPT ![j.unit] =
       IF \E c \in previews[PRNumber(p, j.unit)] : c.failed /\ ~c.deleting
       THEN "failing" ELSE "other"]
  /\ GoOn(p, j, NextStep["collect"])
  /\ UNCHANGED <<up, starts, todo, loaded, rows, disk, previews, reports, errors>>

\* delete(wait=False): the object is marked, the operator's finalizer removes
\* it.  A deletion that raises makes the row an error.
Delete(p, j, status) ==
  LET n == PRNumber(p, j.unit)
      marked == [previews EXCEPT ![n] = Deleted(@)]
  IN  /\ \/ /\ previews' = marked
            /\ End(p, j, status)
            /\ UNCHANGED errors
         \/ /\ errors < MaxErrors
            /\ errors' = errors + 1
            /\ previews' \in {previews, marked}
            /\ End(p, j, "error")
      /\ UNCHANGED <<up, starts, todo, loaded, disk, artifacts, reports>>

Teardown(p, j) == j.step = "teardown" /\ Delete(p, j, "captured")

\* Mutants: the early return forgets the Preview; there is no deadline.
GiveUpLeaving(p, j) ==
  /\ j.step = "await"
  /\ End(p, j, "no-report")
  /\ UNCHANGED <<up, starts, todo, loaded, disk, artifacts, previews, reports, errors>>
NeverGivesUp(p, j) == FALSE

\* REPORT_TIMEOUT_S has passed without a report, or with one too late to be seen.
GiveUp(p, j) == j.step = "await" /\ Delete(p, j, "no-report")

JobStep(p, j) ==
  \/ Create(p, j)
  \/ CreateFails(p, j)
  \/ SeeReport(p, j)
  \/ GiveUp(p, j)
  \/ WriteReport(p, j)
  \/ CollectArtifacts(p, j)
  \/ Teardown(p, j)

TakeUnit(p) ==
  \E u \in todo[p] : SkipExisting(p, u) \/ CannotPrepare(p, u) \/ InjectFault(p, u)

Work(p) == TakeUnit(p) \/ Finish(p) \/ \E j \in jobs[p] : JobStep(p, j)

-----------------------------------------------------------------------------
(* The cluster: the operator captures a report, finalizers, spec.ttl *)

\* The FailureReport is named after the Preview, not owned by it, and written
\* over when the operator captures again.
OperatorCaptures(n) ==
  \E c \in previews[n] :
    /\ ~c.deleting
    /\ c.shows # "none"
    /\ reports' = [reports EXCEPT ![n] = {[unit |-> c.unit, symptom |-> c.shows]}]
    /\ previews' = [previews EXCEPT ![n] = {[c EXCEPT !.failed = TRUE]}]
    /\ UNCHANGED <<up, starts, todo, loaded, jobs, rows, disk, artifacts, errors>>

PreviewGone(n) ==
  /\ \E c \in previews[n] : c.deleting
  /\ previews' = [previews EXCEPT ![n] = {}]
  /\ UNCHANGED <<up, starts, todo, loaded, jobs, rows, disk, artifacts, reports, errors>>

Busy(n) == \E p \in Procs : \E j \in jobs[p] : PRNumber(p, j.unit) = n

\* Two hours: longer than any thread works on a Preview.
TtlExpires(n) ==
  /\ ~Busy(n)
  /\ \E c \in previews[n] : ~c.deleting
  /\ previews' = [previews EXCEPT ![n] = Deleted(@)]
  /\ UNCHANGED <<up, starts, todo, loaded, jobs, rows, disk, artifacts, reports, errors>>

Cluster == \E n \in Names : OperatorCaptures(n) \/ PreviewGone(n) \/ TtlExpires(n)

Next == Cluster \/ \E p \in Procs : Start(p) \/ Crash(p) \/ Work(p)

Fairness == \A p \in Procs : WF_vars(Work(p))

Spec == Init /\ [][Next]_vars
FairSpec == Spec /\ Fairness

-----------------------------------------------------------------------------

Stored(u) == disk[u].content # {}

\* The report filed under a unit is one of a Preview deployed for that unit
\* (the PR number is "collision-free", run_unit): no other process and no
\* other unit shares its Preview or its FailureReport.
OwnReport == \A u \in Units : \A r \in disk[u].content : r.unit = u

\* For the injectors that work as they say, a stored report shows the fault of
\* its unit and nothing of the faults injected before it into the same subject
\* by the same process (dispatch.prepare copies the subject).
Sound == {1, 2, 3, 5, 6, 7, 10}
ShowsItsFault ==
  \A u \in Units : \A r \in disk[u].content : u.fault \in Sound => r.symptom = Intended[u.fault]

\* F4 renames the critical table "so seeding still works, then the table is
\* severed" (dispatch.prepare): a report of F4 shows the missing table.
SeededThenSevered ==
  \A u \in Units : \A r \in disk[u].content : u.fault = 4 => r.symptom = "table-missing"

\* A unit reported as skipped has its report: an empty report.json left by a
\* crash or a failed kubectl does not count as captured (run_unit, st_size).
SkippedIsStored ==
  \A p \in Procs, u \in Units : rows[p][u] = "skip-existing" => Stored(u)

\* When a row says captured or no-report, the Preview of that unit is gone or
\* going: no worker leaves one behind (run_unit, step 5 and the early return).
TornDown ==
  \A p \in up : \A u \in UnitsOf(p) :
    rows[p][u] \in {"captured", "no-report"} => \A c \in previews[PRNumber(p, u)] : c.deleting

\* In the first start of a process the artifacts are those of a Preview that
\* has failed and is not being deleted ("collect raw kubectl artefacts BEFORE
\* teardown").  After a restart they need not be: see the README.
ArtifactsShowFailure ==
  \A p \in Procs : starts[p] <= 1 => \A u \in UnitsOf(p) : artifacts[u] # "other"

\* Once stored, a report is never truncated nor replaced, whatever crashes and
\* restarts follow (run_unit, "Idempotent restart").
ReportKept == [][\A u \in Units : Stored(u) => disk'[u] = disk[u]]_vars

\* However often they are started, the processes come to their end: every unit
\* gets a row although reports may never come (REPORT_TIMEOUT_S).
MatrixFinishes == <>[](up = {})
=============================================================================
