--------------------------- MODULE RunMatrix_proofs ---------------------------
(***************************************************************************)
(* Theorems about RunMatrix, for every set of processes, every scope and   *)
(* number of repetitions and any number of restarts and failures.          *)
(***************************************************************************)
EXTENDS RunMatrix, TLAPS

\* The subjects with a number of their own; s1 takes its position in --subjects.
StableSubjects == \A p \in Procs : Range(Enabled[p]) \subseteq DOMAIN SUBJECT_IDX

\* No unit is given to two processes that run side by side.
DisjointProcs == \A p, q \in Procs : p # q => UnitsOf(p) \cap UnitsOf(q) = {}

LEMMA UnitType ==
  ASSUME NEW p \in Procs, NEW u \in UnitsOf(p)
  PROVE  /\ u \in Units
         /\ u.sid \in Range(Enabled[p]) /\ u.fault \in 1..10 /\ u.rep \in 1..Reps
         /\ u = [sid |-> u.sid, fault |-> u.fault, rep |-> u.rep]
         /\ PRNumber(p, u) \in Names
  BY DEF UnitsOf, Units, Faults, Names

\* The PR numbers of two units of s2 to s5 differ, for up to 100 repetitions: the comment
\* of run_unit ("collision-free").
LEMMA CollisionFree ==
  ASSUME StableSubjects,
         NEW p \in Procs, NEW u \in UnitsOf(p), NEW q \in Procs, NEW v \in UnitsOf(q),
         PRNumber(p, u) = PRNumber(q, v)
  PROVE  u = v
<1>1. u.sid \in {"s2", "s3", "s4", "s5"} /\ v.sid \in {"s2", "s3", "s4", "s5"}
  BY UnitType DEF StableSubjects, SUBJECT_IDX
<1>2. u.fault \in 1..10 /\ v.fault \in 1..10 /\ u.rep \in 1..100 /\ v.rep \in 1..100
  <2>1. Reps \in 1..100
    BY RunMatrixAssumption
  <2>2. u.fault \in 1..10 /\ v.fault \in 1..10 /\ u.rep \in 1..Reps /\ v.rep \in 1..Reps
    BY UnitType
  <2> QED
    BY <2>1, <2>2
<1>3. StableIdx(p, u.sid) = SUBJECT_IDX[u.sid] /\ StableIdx(q, v.sid) = SUBJECT_IDX[v.sid]
  BY <1>1 DEF StableIdx, SUBJECT_IDX
<1>4. SUBJECT_IDX[u.sid] \in 0..3 /\ SUBJECT_IDX[v.sid] \in 0..3
  BY <1>1 DEF SUBJECT_IDX
<1>5. 90000 + SUBJECT_IDX[u.sid] * 1000 + u.fault * 100 + u.rep
        = 90000 + SUBJECT_IDX[v.sid] * 1000 + v.fault * 100 + v.rep
  BY <1>3 DEF PRNumber
<1>6. SUBJECT_IDX[u.sid] = SUBJECT_IDX[v.sid] /\ u.fault = v.fault /\ u.rep = v.rep
  <2> DEFINE a == SUBJECT_IDX[u.sid]
             b == SUBJECT_IDX[v.sid]
             f == u.fault
             g == v.fault
             r == u.rep
             s == v.rep
  <2>1. /\ a \in 0..3 /\ b \in 0..3 /\ f \in 1..10 /\ g \in 1..10 /\ r \in 1..100 /\ s \in 1..100
        /\ 90000 + a * 1000 + f * 100 + r = 90000 + b * 1000 + g * 100 + s
    BY <1>2, <1>4, <1>5
  <2> HIDE DEF a, b, f, g, r, s
  <2>2. a = b /\ f = g /\ r = s
    <3>1. f * 100 + r \in 101..1100 /\ g * 100 + s \in 101..1100
      BY <2>1
    <3>2. a * 1000 < b * 1000 + 1000 /\ b * 1000 < a * 1000 + 1000
      BY <2>1, <3>1
    <3>3. a = b
      BY <2>1, <3>2
    <3>4. f * 100 < g * 100 + 100 /\ g * 100 < f * 100 + 100
      BY <2>1, <3>3
    <3>5. f = g
      BY <2>1, <3>4
    <3> QED
      BY <2>1, <3>3, <3>5
  <2> QED
    BY <2>2 DEF a, b, f, g, r, s
<1>7. u.sid = v.sid
  BY <1>1, <1>6 DEF SUBJECT_IDX
<1> QED
  BY <1>6, <1>7, UnitType

-----------------------------------------------------------------------------
(* The shape of the state *)

Shape ==
  /\ up \subseteq Procs
  /\ todo \in [Procs -> SUBSET Units] /\ \A p \in Procs : todo[p] \subseteq UnitsOf(p)
  /\ jobs \in [Procs -> SUBSET JobType] /\ \A p \in Procs : \A j \in jobs[p] : j.unit \in UnitsOf(p)
  /\ rows \in [Procs -> [Units -> Statuses]]
  /\ disk \in [Units -> [exists : BOOLEAN, content : SUBSET ReportType]]
  /\ previews \in [Names -> SUBSET PreviewType]
  /\ reports \in [Names -> SUBSET ReportType]

LEMMA UnitsOfUnits == \A p \in Procs : UnitsOf(p) \subseteq Units
  BY DEF Units

LEMMA SymptomType == \A plan : Symptom(plan) \in Symptoms
  BY DEF Symptom, Symptoms

LEMMA AppliedType ==
  ASSUME NEW j \in JobType, NEW old
  PROVE  Applied(j, old) \subseteq PreviewType
  BY DEF Applied, JobType, PreviewType

LEMMA DeletedType ==
  ASSUME NEW old \in SUBSET PreviewType
  PROVE  /\ Deleted(old) \subseteq PreviewType
         /\ \A c \in Deleted(old) : \E d \in old : c.unit = d.unit
  BY DEF Deleted, PreviewType

LEMMA GoOnShape ==
  ASSUME Shape, NEW p \in Procs, NEW j \in jobs[p], NEW step \in Steps, GoOn(p, j, step)
  PROVE  /\ jobs' \in [Procs -> SUBSET JobType]
         /\ \A q \in Procs : \A k \in jobs'[q] : k.unit \in UnitsOf(q)
<1>1. j \in JobType /\ j.unit \in UnitsOf(p)
  BY DEF Shape
<1>2. [j EXCEPT !.step = step] \in JobType /\ [j EXCEPT !.step = step].unit = j.unit
  BY <1>1 DEF JobType
<1> QED
  BY <1>1, <1>2 DEF Shape, GoOn

LEMMA EndShape ==
  ASSUME Shape, NEW p \in Procs, NEW j \in jobs[p], NEW status \in Statuses, End(p, j, status)
  PROVE  /\ jobs' \in [Procs -> SUBSET JobType]
         /\ \A q \in Procs : \A k \in jobs'[q] : k.unit \in UnitsOf(q)
         /\ rows' \in [Procs -> [Units -> Statuses]]
<1>1. j.unit \in Units
  BY UnitsOfUnits DEF Shape
<1> QED
  BY <1>1 DEF Shape, End, Row

LEMMA JobName ==
  ASSUME Shape, NEW p \in Procs, NEW j \in jobs[p]
  PROVE  /\ j \in JobType /\ j.unit \in UnitsOf(p) /\ j.unit \in Units
         /\ PRNumber(p, j.unit) \in Names
  BY UnitType DEF Shape

LEMMA DeleteShape ==
  ASSUME Shape, NEW p \in Procs, NEW j \in jobs[p], NEW status \in Statuses, Delete(p, j, status)
  PROVE  Shape'
<1> DEFINE n == PRNumber(p, j.unit)
<1>1. n \in Names
  BY JobName
<1>2. [previews EXCEPT ![n] = Deleted(@)] \in [Names -> SUBSET PreviewType]
  BY <1>1, DeletedType DEF Shape
<1>3. previews' \in [Names -> SUBSET PreviewType]
  BY <1>2 DEF Delete, Shape
<1>4. End(p, j, status) \/ End(p, j, "error")
  BY DEF Delete
<1>5. /\ jobs' \in [Procs -> SUBSET JobType]
      /\ \A q \in Procs : \A k \in jobs'[q] : k.unit \in UnitsOf(q)
      /\ rows' \in [Procs -> [Units -> Statuses]]
  BY <1>4, EndShape DEF Statuses
<1> QED
  BY <1>3, <1>5 DEF Shape, Delete

LEMMA InitShape == Init => Shape
  BY DEF Init, Shape, NoRows, Statuses

LEMMA TakeShape ==
  ASSUME Shape, NEW p \in Procs, NEW u, Take(p, u)
  PROVE  /\ u \in UnitsOf(p) /\ u \in Units
         /\ todo' \in [Procs -> SUBSET Units] /\ \A q \in Procs : todo'[q] \subseteq UnitsOf(q)
  BY UnitsOfUnits DEF Shape, Take

LEMMA StepShape == Shape /\ [Next]_vars => Shape'
<1> SUFFICES ASSUME Shape, [Next]_vars PROVE Shape'
  OBVIOUS
<1>1. CASE UNCHANGED vars
  BY <1>1 DEF Shape, vars
<1>2. ASSUME NEW p \in Procs, Start(p) \/ Crash(p) \/ Finish(p)
      PROVE  Shape'
  <2>1. NoRows \in [Units -> Statuses]
    BY DEF NoRows, Statuses
  <2>2. CASE Start(p)
    BY <2>1, <2>2, UnitsOfUnits DEF Shape, Start
  <2>3. CASE Crash(p)
    BY <2>3 DEF Shape, Crash
  <2>4. CASE Finish(p)
    BY <2>4 DEF Shape, Finish
  <2> QED
    BY <1>2, <2>2, <2>3, <2>4
<1>3. ASSUME NEW p \in Procs, NEW u \in todo[p], SkipExisting(p, u) \/ CannotPrepare(p, u)
      PROVE  Shape'
  <2>1. Take(p, u) /\ UNCHANGED jobs
    BY <1>3 DEF SkipExisting, CannotPrepare
  <2>2. \E s \in Statuses : Row(p, u, s)
    BY <1>3 DEF SkipExisting, CannotPrepare, Statuses
  <2>3. rows' \in [Procs -> [Units -> Statuses]]
    BY <2>1, <2>2, TakeShape DEF Row, Shape
  <2> QED
    BY <2>1, <2>3, TakeShape DEF Shape, Take
<1>4. ASSUME NEW p \in Procs, NEW u \in todo[p], InjectFault(p, u)
      PROVE  Shape'
  <2> DEFINE plan == Prepare(loaded[p][u.sid], u.fault)
             new == [unit |-> u, step |-> "create", shows |-> Symptom(plan)]
  <2>1. Take(p, u) /\ UNCHANGED rows /\ jobs' = [jobs EXCEPT ![p] = @ \union {new}]
    BY <1>4 DEF InjectFault
  <2>2. new \in JobType /\ new.unit \in UnitsOf(p)
    BY <2>1, TakeShape, SymptomType DEF JobType, Steps
  <2> HIDE DEF new
  <2> QED
    BY <2>1, <2>2, TakeShape DEF Shape, Take
<1>5. ASSUME NEW p \in Procs, NEW j \in jobs[p], Create(p, j) \/ CreateFails(p, j)
      PROVE  Shape'
  <2> DEFINE n == PRNumber(p, j.unit)
  <2>1. n \in Names /\ Applied(j, previews[n]) \subseteq PreviewType
    BY JobName, AppliedType
  <2>2. previews' \in [Names -> SUBSET PreviewType]
    BY <1>5, <2>1 DEF Create, CreateFails, Shape
  <2>3. /\ jobs' \in [Procs -> SUBSET JobType]
        /\ \A q \in Procs : \A k \in jobs'[q] : k.unit \in UnitsOf(q)
    BY <1>5, GoOnShape, EndShape DEF Create, CreateFails, Steps, Statuses
  <2>4. rows' \in [Procs -> [Units -> Statuses]]
    BY <1>5, EndShape DEF Create, CreateFails, Statuses, Shape
  <2> QED
    BY <1>5, <2>2, <2>3, <2>4 DEF Shape, Create, CreateFails
<1>6. ASSUME NEW p \in Procs, NEW j \in jobs[p],
             SeeReport(p, j) \/ WriteReport(p, j) \/ CollectArtifacts(p, j)
      PROVE  Shape'
  <2>1. \E step \in Steps : GoOn(p, j, step)
    BY <1>6 DEF SeeReport, WriteReport, CollectArtifacts, NextStep, Steps
  <2>2. /\ jobs' \in [Procs -> SUBSET JobType]
        /\ \A q \in Procs : \A k \in jobs'[q] : k.unit \in UnitsOf(q)
    BY <2>1, GoOnShape
  <2>3. disk' \in [Units -> [exists : BOOLEAN, content : SUBSET ReportType]]
    <3> DEFINE D == [exists : BOOLEAN, content : SUBSET ReportType]
    <3>1. j.unit \in Units /\ reports[PRNumber(p, j.unit)] \in SUBSET ReportType
      BY JobName DEF Shape
    <3>2. CASE SeeReport(p, j)
      <4>1. [exists |-> TRUE, content |-> {}] \in D
        OBVIOUS
      <4> QED
        BY <3>1, <3>2, <4>1 DEF SeeReport, Shape
    <3>3. CASE WriteReport(p, j)
      <4>1. \A S \in SUBSET ReportType : [disk[j.unit] EXCEPT !.content = S] \in D
        BY <3>1 DEF Shape
      <4>2. disk' = disk \/ disk' = [disk EXCEPT ![j.unit].content = reports[PRNumber(p, j.unit)]]
        BY <3>3 DEF WriteReport
      <4> QED
        BY <3>1, <4>1, <4>2 DEF Shape
    <3>4. CASE CollectArtifacts(p, j)
      BY <3>4 DEF CollectArtifacts, Shape
    <3> QED
      BY <1>6, <3>2, <3>3, <3>4
  <2> QED
    BY <1>6, <2>2, <2>3 DEF Shape, SeeReport, WriteReport, CollectArtifacts
<1>7. ASSUME NEW p \in Procs, NEW j \in jobs[p], GiveUp(p, j) \/ Teardown(p, j)
      PROVE  Shape'
  BY <1>7, DeleteShape DEF GiveUp, Teardown, Statuses
<1>8. ASSUME NEW n \in Names, OperatorCaptures(n) \/ PreviewGone(n) \/ TtlExpires(n)
      PROVE  Shape'
  <2>1. CASE OperatorCaptures(n)
    <3>1. PICK c \in previews[n] :
            /\ reports' = [reports EXCEPT ![n] = {[unit |-> c.unit, symptom |-> c.shows]}]
            /\ previews' = [previews EXCEPT ![n] = {[c EXCEPT !.failed = TRUE]}]
      BY <2>1 DEF OperatorCaptures
    <3>2. [unit |-> c.unit, symptom |-> c.shows] \in ReportType
          /\ [c EXCEPT !.failed = TRUE] \in PreviewType
      <4>1. c \in PreviewType
        BY DEF Shape
      <4> QED
        BY <4>1 DEF PreviewType, ReportType
    <3> QED
      BY <2>1, <3>1, <3>2 DEF Shape, OperatorCaptures
  <2>2. CASE PreviewGone(n)
    BY <2>2 DEF Shape, PreviewGone
  <2>3. CASE TtlExpires(n)
    BY <2>3, DeletedType DEF Shape, TtlExpires
  <2> QED
    BY <1>8, <2>1, <2>2, <2>3
<1> QED
  BY <1>1, <1>2, <1>3, <1>4, <1>5, <1>6, <1>7, <1>8 DEF Next, Work, TakeUnit, JobStep, Cluster

THEOREM ShapeAlways == Spec => []Shape
<1>1. Init => Shape
  BY InitShape
<1>2. Shape /\ [Next]_vars => Shape'
  BY StepShape
<1> QED
  BY <1>1, <1>2, PTL DEF Spec

-----------------------------------------------------------------------------
(* What a step does to the Previews, the FailureReports and the threads *)

LEMMA PreviewStep ==
  ASSUME Shape, [Next]_vars
  PROVE  \/ previews' = previews
         \/ \E n \in Names : \/ previews' = [previews EXCEPT ![n] = {}]
                             \/ previews' = [previews EXCEPT ![n] = Deleted(@)]
         \/ \E p \in Procs : \E j \in jobs[p] :
              previews' = [previews EXCEPT ![PRNumber(p, j.unit)] = Applied(j, @)]
         \/ \E n \in Names : \E c \in previews[n] :
              previews' = [previews EXCEPT ![n] = {[c EXCEPT !.failed = TRUE]}]
<1>1. ASSUME NEW p \in Procs,
             \/ Start(p) \/ Crash(p) \/ Finish(p)
             \/ \E u \in todo[p] : SkipExisting(p, u) \/ CannotPrepare(p, u) \/ InjectFault(p, u)
             \/ \E j \in jobs[p] : SeeReport(p, j) \/ WriteReport(p, j) \/ CollectArtifacts(p, j)
      PROVE  previews' = previews
  BY <1>1 DEF Start, Crash, Finish, SkipExisting, CannotPrepare, InjectFault, Take, SeeReport,
              WriteReport, CollectArtifacts
<1>2. ASSUME NEW p \in Procs, NEW j \in jobs[p], Create(p, j) \/ CreateFails(p, j)
      PROVE  \/ previews' = previews
             \/ previews' = [previews EXCEPT ![PRNumber(p, j.unit)] = Applied(j, @)]
  BY <1>2 DEF Create, CreateFails
<1>3. ASSUME NEW p \in Procs, NEW j \in jobs[p], GiveUp(p, j) \/ Teardown(p, j)
      PROVE  \/ previews' = previews
             \/ \E n \in Names : previews' = [previews EXCEPT ![n] = Deleted(@)]
  BY <1>3, JobName DEF GiveUp, Teardown, Delete
<1>4. ASSUME NEW n \in Names, PreviewGone(n) \/ TtlExpires(n)
      PROVE  \/ previews' = [previews EXCEPT ![n] = {}]
             \/ previews' = [previews EXCEPT ![n] = Deleted(@)]
  BY <1>4 DEF PreviewGone, TtlExpires
<1>5. ASSUME NEW n \in Names, OperatorCaptures(n)
      PROVE  \E c \in previews[n] : previews' = [previews EXCEPT ![n] = {[c EXCEPT !.failed = TRUE]}]
  BY <1>5 DEF OperatorCaptures
<1>6. CASE UNCHANGED vars
  BY <1>6 DEF vars
<1> QED
  BY <1>1, <1>2, <1>3, <1>4, <1>5, <1>6 DEF Next, Work, TakeUnit, JobStep, Cluster

LEMMA ReportStep ==
  ASSUME Shape, [Next]_vars
  PROVE  \/ reports' = reports
         \/ \E n \in Names : \E c \in previews[n] :
              reports' = [reports EXCEPT ![n] = {[unit |-> c.unit, symptom |-> c.shows]}]
<1>1. ASSUME NEW n \in Names, OperatorCaptures(n)
      PROVE  \E c \in previews[n] :
               reports' = [reports EXCEPT ![n] = {[unit |-> c.unit, symptom |-> c.shows]}]
  BY <1>1 DEF OperatorCaptures
<1>2. ASSUME NEW n \in Names, PreviewGone(n) \/ TtlExpires(n)
      PROVE  reports' = reports
  BY <1>2 DEF PreviewGone, TtlExpires
<1>3. ASSUME NEW p \in Procs,
             \/ Start(p) \/ Crash(p) \/ Finish(p)
             \/ \E u \in todo[p] : SkipExisting(p, u) \/ CannotPrepare(p, u) \/ InjectFault(p, u)
             \/ \E j \in jobs[p] : JobStep(p, j)
      PROVE  reports' = reports
  BY <1>3 DEF Start, Crash, Finish, SkipExisting, CannotPrepare, InjectFault, Take, JobStep,
              Create, CreateFails, SeeReport, GiveUp, WriteReport, CollectArtifacts, Teardown,
              Delete
<1>4. CASE UNCHANGED vars
  BY <1>4 DEF vars
<1> QED
  BY <1>1, <1>2, <1>3, <1>4 DEF Next, Work, TakeUnit, Cluster

\* A thread works on the unit it was given, with the plan made when it took it.
LEMMA JobsStep ==
  ASSUME Shape, [Next]_vars, NEW p \in Procs, NEW k \in jobs'[p]
  PROVE  \/ \E j \in jobs[p] : k.unit = j.unit /\ k.shows = j.shows
         \/ \E u \in todo[p] : /\ InjectFault(p, u)
                               /\ k.unit = u
                               /\ k.shows = Symptom(Prepare(loaded[p][u.sid], u.fault))
<1>1. ASSUME NEW q \in Procs,
             \/ Start(q) \/ Crash(q) \/ Finish(q)
             \/ \E u \in todo[q] : SkipExisting(q, u) \/ CannotPrepare(q, u)
      PROVE  k \in jobs[p]
  BY <1>1 DEF Start, Crash, Finish, SkipExisting, CannotPrepare, Take, Shape
<1>2. ASSUME NEW q \in Procs, NEW u \in todo[q], InjectFault(q, u), k \notin jobs[p]
      PROVE  /\ q = p /\ k.unit = u
             /\ k.shows = Symptom(Prepare(loaded[p][u.sid], u.fault))
  <2> DEFINE new == [unit |-> u, step |-> "create",
                     shows |-> Symptom(Prepare(loaded[q][u.sid], u.fault))]
  <2>1. jobs' = [jobs EXCEPT ![q] = @ \union {new}]
    BY <1>2 DEF InjectFault
  <2>2. q = p /\ k = new
    BY <1>2, <2>1 DEF Shape
  <2> QED
    BY <2>2
<1>3. ASSUME NEW q \in Procs, NEW j \in jobs[q], JobStep(q, j)
      PROVE  \E i \in jobs[p] : k.unit = i.unit /\ k.shows = i.shows
  <2>1. j \in JobType
    BY JobName
  <2>2. CASE \E status : End(q, j, status)
    <3>1. k \in jobs[p]
      BY <2>2 DEF End, Shape
    <3> QED
      BY <3>1
  <2>3. CASE \E step : GoOn(q, j, step)
    <3>1. PICK step : GoOn(q, j, step)
      BY <2>3
    <3>2. PICK l : l = [j EXCEPT !.step = step]
      OBVIOUS
    <3>3. l.unit = j.unit /\ l.shows = j.shows
      BY <2>1, <3>2 DEF JobType
    <3>4. jobs' = [jobs EXCEPT ![q] = (@ \ {j}) \union {l}]
      BY <3>1, <3>2 DEF GoOn
    <3>5. k \in jobs[p] \/ (q = p /\ k = l)
      BY <3>4 DEF Shape
    <3> QED
      BY <3>3, <3>5
  <2>4. (\E status : End(q, j, status)) \/ \E step : GoOn(q, j, step)
    BY <1>3 DEF JobStep, Create, CreateFails, SeeReport, GiveUp, WriteReport, CollectArtifacts,
                Teardown, Delete
  <2> QED
    BY <2>2, <2>3, <2>4
<1>4. ASSUME NEW n \in Names, OperatorCaptures(n) \/ PreviewGone(n) \/ TtlExpires(n)
      PROVE  k \in jobs[p]
  BY <1>4 DEF OperatorCaptures, PreviewGone, TtlExpires
<1>5. CASE UNCHANGED vars
  BY <1>5 DEF vars
<1> QED
  BY <1>1, <1>2, <1>3, <1>4, <1>5 DEF Next, Work, TakeUnit, Cluster

\* A Preview after a step is one of before, or the one a thread deploys for its unit.
LEMMA PreviewUnits ==
  ASSUME Shape, [Next]_vars, NEW n \in Names, NEW c \in previews'[n]
  PROVE  \/ \E d \in previews[n] : c.unit = d.unit /\ c.shows = d.shows
         \/ \E p \in Procs : \E j \in jobs[p] :
              n = PRNumber(p, j.unit) /\ c.unit = j.unit /\ c.shows = j.shows
<1>1. CASE previews' = previews
  BY <1>1
<1>2. ASSUME NEW m \in Names,
             \/ previews' = [previews EXCEPT ![m] = {}]
             \/ previews' = [previews EXCEPT ![m] = Deleted(@)]
      PROVE  \E d \in previews[n] : c.unit = d.unit /\ c.shows = d.shows
  <2>1. \A b \in Deleted(previews[n]) : \E d \in previews[n] : b.unit = d.unit /\ b.shows = d.shows
    BY DEF Deleted, Shape, PreviewType
  <2> QED
    BY <1>2, <2>1 DEF Shape
<1>3. ASSUME NEW p \in Procs, NEW j \in jobs[p],
             previews' = [previews EXCEPT ![PRNumber(p, j.unit)] = Applied(j, @)],
             c \notin previews[n]
      PROVE  n = PRNumber(p, j.unit) /\ c.unit = j.unit /\ c.shows = j.shows
  BY <1>3, JobName DEF Applied, Shape
<1>4. ASSUME NEW m \in Names, NEW d \in previews[m],
             previews' = [previews EXCEPT ![m] = {[d EXCEPT !.failed = TRUE]}],
             c \notin previews[n]
      PROVE  m = n /\ c.unit = d.unit /\ c.shows = d.shows
  <2>1. d \in PreviewType
    BY DEF Shape
  <2>2. m = n /\ c = [d EXCEPT !.failed = TRUE]
    BY <1>4 DEF Shape
  <2> QED
    BY <2>1, <2>2 DEF PreviewType
<1> QED
  BY <1>1, <1>2, <1>3, <1>4, PreviewStep

\* A FailureReport after a step is one of before, or captured from the Preview of that name.
LEMMA ReportUnits ==
  ASSUME Shape, [Next]_vars, NEW n \in Names, NEW r \in reports'[n]
  PROVE  r \in reports[n] \/ \E c \in previews[n] : r.unit = c.unit /\ r.symptom = c.shows
<1>1. ASSUME NEW m \in Names, NEW c \in previews[m],
             reports' = [reports EXCEPT ![m] = {[unit |-> c.unit, symptom |-> c.shows]}],
             r \notin reports[n]
      PROVE  m = n /\ r.unit = c.unit /\ r.symptom = c.shows
  BY <1>1 DEF Shape
<1> QED
  BY <1>1, ReportStep

\* A stored report after a step is one of before, or that of the name of its unit.
LEMMA DiskUnits ==
  ASSUME Shape, [Next]_vars, NEW u \in Units, NEW r \in disk'[u].content
  PROVE  \/ r \in disk[u].content
         \/ \E p \in Procs : \E j \in jobs[p] :
              u = j.unit /\ u \in UnitsOf(p) /\ r \in reports[PRNumber(p, u)]
<1>1. ASSUME NEW p \in Procs, NEW j \in jobs[p], SeeReport(p, j)
      PROVE  r \in disk[u].content
  BY <1>1, JobName DEF SeeReport, Shape
<1>2. ASSUME NEW p \in Procs, NEW j \in jobs[p], WriteReport(p, j), r \notin disk[u].content
      PROVE  u = j.unit /\ u \in UnitsOf(p) /\ r \in reports[PRNumber(p, u)]
  <2>1. disk' = disk \/ disk' = [disk EXCEPT ![j.unit].content = reports[PRNumber(p, j.unit)]]
    BY <1>2 DEF WriteReport
  <2>2. \/ disk'[u].content = disk[u].content
        \/ u = j.unit /\ disk'[u].content = reports[PRNumber(p, j.unit)]
    BY <2>1, JobName DEF Shape
  <2> QED
    BY <1>2, <2>2, JobName
<1>3. ASSUME NEW p \in Procs,
             \/ Start(p) \/ Crash(p) \/ Finish(p)
             \/ \E v \in todo[p] : SkipExisting(p, v) \/ CannotPrepare(p, v) \/ InjectFault(p, v)
             \/ \E j \in jobs[p] : \/ Create(p, j) \/ CreateFails(p, j) \/ CollectArtifacts(p, j)
                                  \/ GiveUp(p, j) \/ Teardown(p, j)
      PROVE  r \in disk[u].content
  BY <1>3 DEF Start, Crash, Finish, SkipExisting, CannotPrepare, InjectFault, Take, Create,
              CreateFails, CollectArtifacts, GiveUp, Teardown, Delete
<1>4. ASSUME NEW n \in Names, OperatorCaptures(n) \/ PreviewGone(n) \/ TtlExpires(n)
      PROVE  r \in disk[u].content
  BY <1>4 DEF OperatorCaptures, PreviewGone, TtlExpires
<1>5. CASE UNCHANGED vars
  BY <1>5 DEF vars
<1> QED
  BY <1>1, <1>2, <1>3, <1>4, <1>5 DEF Next, Work, TakeUnit, JobStep, Cluster

-----------------------------------------------------------------------------
(* A Preview and its FailureReport belong to a unit with that PR number;    *)
(* numbers differ, so what is read under a unit's number is the unit's own. *)

For(n, u) == \E p \in Procs : u \in UnitsOf(p) /\ PRNumber(p, u) = n

Named ==
  /\ \A n \in Names : \A c \in previews[n] : For(n, c.unit)
  /\ \A n \in Names : \A r \in reports[n] : For(n, r.unit)

LEMMA StepNamed == Shape /\ Named /\ [Next]_vars => Named'
<1> SUFFICES ASSUME Shape, Named, [Next]_vars PROVE Named'
  OBVIOUS
<1>1. \A n \in Names : \A c \in previews'[n] : For(n, c.unit)
  BY PreviewUnits, JobName DEF Named, For
<1>2. \A n \in Names : \A r \in reports'[n] : For(n, r.unit)
  BY ReportUnits DEF Named
<1> QED
  BY <1>1, <1>2 DEF Named

LEMMA NamedAlways == Spec => []Named
<1>1. Init => Named
  BY DEF Init, Named
<1> QED
  BY <1>1, StepNamed, ShapeAlways, PTL DEF Spec

\* For s2 to s5, whatever processes run side by side, even with the same subjects, and
\* whatever crashes: the report filed under a unit is one captured for that unit (run_unit,
\* the PR number is "collision-free").  With s1, whose number depends on its position, it
\* is not.
THEOREM OwnReportAlways == ASSUME StableSubjects PROVE Spec => []OwnReport
<1>1. Init => OwnReport
  BY DEF Init, OwnReport
<1>2. Shape /\ Named /\ OwnReport /\ [Next]_vars => OwnReport'
  <2> SUFFICES ASSUME Shape, Named, OwnReport, [Next]_vars,
                      NEW u \in Units, NEW r \in disk'[u].content
               PROVE  r.unit = u
    BY DEF OwnReport
  <2>1. ASSUME NEW p \in Procs, u \in UnitsOf(p), r \in reports[PRNumber(p, u)]
        PROVE  r.unit = u
    BY <2>1, UnitType, CollisionFree DEF Named, For
  <2> QED
    BY <2>1, DiskUnits DEF OwnReport
<1> QED
  BY <1>1, <1>2, ShapeAlways, NamedAlways, PTL DEF Spec

-----------------------------------------------------------------------------
(* A unit is in one place only: with a thread or waiting for one, never     *)
(* with two.  A thread that has not written its report yet found none.      *)

Unwritten == {"create", "await", "write"}

Unfiled(j) ==
  /\ j.step \in Unwritten => ~Stored(j.unit)
  /\ j.step = "write" => disk[j.unit].exists

Alone ==
  /\ \A p \in Procs \ up : jobs[p] = {}
  /\ \A p \in Procs : \A j \in jobs[p] :
       /\ j.unit \notin todo[p]
       /\ \A k \in jobs[p] : j.unit = k.unit => j = k
       /\ Unfiled(j)
  /\ \A u \in Units : ~disk[u].exists => disk[u].content = {}

\* What a step does to report.json: it writes one that holds no report yet, for the unit of
\* the thread that writes it.
LEMMA DiskStep ==
  ASSUME Shape, Alone, [Next]_vars
  PROVE  \/ disk' = disk
         \/ \E p \in Procs : \E j \in jobs[p] :
              /\ ~Stored(j.unit)
              /\ \A u \in Units \ {j.unit} : disk'[u] = disk[u]
<1>1. ASSUME NEW p \in Procs, NEW j \in jobs[p], SeeReport(p, j) \/ WriteReport(p, j)
      PROVE  ~Stored(j.unit) /\ \A u \in Units \ {j.unit} : disk'[u] = disk[u]
  <2>1. ~Stored(j.unit)
    BY <1>1 DEF Alone, Unfiled, Unwritten, SeeReport, WriteReport
  <2>2. \A u \in Units \ {j.unit} : disk'[u] = disk[u]
    BY <1>1 DEF Shape, SeeReport, WriteReport
  <2> QED
    BY <2>1, <2>2
<1>2. ASSUME NEW p \in Procs,
             \/ Start(p) \/ Crash(p) \/ Finish(p)
             \/ \E u \in todo[p] : SkipExisting(p, u) \/ CannotPrepare(p, u) \/ InjectFault(p, u)
             \/ \E j \in jobs[p] : \/ Create(p, j) \/ CreateFails(p, j) \/ CollectArtifacts(p, j)
                                  \/ GiveUp(p, j) \/ Teardown(p, j)
      PROVE  disk' = disk
  BY <1>2 DEF Start, Crash, Finish, SkipExisting, CannotPrepare, InjectFault, Take, Create,
              CreateFails, CollectArtifacts, GiveUp, Teardown, Delete
<1>3. ASSUME NEW n \in Names, OperatorCaptures(n) \/ PreviewGone(n) \/ TtlExpires(n)
      PROVE  disk' = disk
  BY <1>3 DEF OperatorCaptures, PreviewGone, TtlExpires
<1>4. CASE UNCHANGED vars
  BY <1>4 DEF vars
<1> QED
  BY <1>1, <1>2, <1>3, <1>4 DEF Next, Work, TakeUnit, JobStep, Cluster

LEMMA StoredKept ==
  ASSUME Shape, Alone, [Next]_vars, NEW u \in Units, Stored(u)
  PROVE  disk'[u] = disk[u]
  BY DiskStep

\* The steps that change no report.json keep Alone when they keep the threads' units apart.
LEMMA AloneWithoutWrite ==
  ASSUME Alone, disk' = disk,
         \A p \in Procs \ up' : jobs'[p] = {},
         \A p \in Procs : \A j \in jobs'[p] :
            /\ j.unit \notin todo'[p]
            /\ \A k \in jobs'[p] : j.unit = k.unit => j = k
            /\ Unfiled(j)
  PROVE  Alone'
  BY DEF Alone, Unfiled, Stored

\* A thread's next step, or its end.
LEMMA MovedJobs ==
  ASSUME Shape, Alone, NEW p \in Procs, NEW j \in jobs[p], UNCHANGED <<up, todo>>,
         NEW new \in SUBSET JobType, jobs' = [jobs EXCEPT ![p] = (@ \ {j}) \union new],
         \A k \in new : k.unit = j.unit, \A k, l \in new : k = l
  PROVE  /\ \A q \in Procs \ up' : jobs'[q] = {}
         /\ \A q \in Procs : \A k \in jobs'[q] :
              /\ k.unit \notin todo'[q]
              /\ \A l \in jobs'[q] : k.unit = l.unit => k = l
         /\ \A q \in Procs : \A k \in jobs'[q] : k \in jobs[q] \/ (q = p /\ k \in new)
         /\ \A k \in jobs'[p] \ new : k.unit # j.unit
<1>1. p \in up
  BY DEF Alone
<1>2. \A q \in Procs : q # p => jobs'[q] = jobs[q]
  BY DEF Shape
<1>3. jobs'[p] = (jobs[p] \ {j}) \union new
  BY DEF Shape
<1>4. \A k \in jobs[p] \ {j} : k.unit # j.unit
  BY DEF Alone
<1>5. \A k \in jobs'[p] : \A l \in jobs'[p] : k.unit = l.unit => k = l
  BY <1>3, <1>4 DEF Alone
<1> QED
  BY <1>1, <1>2, <1>3, <1>4, <1>5 DEF Alone

LEMMA GoOnAlone ==
  ASSUME Shape, Alone, NEW p \in Procs, NEW j \in jobs[p], NEW step \in Steps,
         GoOn(p, j, step), UNCHANGED <<up, todo, disk>>,
         step # "write", step \in Unwritten => j.step \in Unwritten
  PROVE  Alone'
<1> DEFINE k == [j EXCEPT !.step = step]
<1>1. k \in JobType /\ k.unit = j.unit /\ k.step = step
  BY DEF Shape, JobType
<1>2. jobs' = [jobs EXCEPT ![p] = (@ \ {j}) \union {k}]
  BY DEF GoOn
<1> HIDE DEF k
<1>3. Unfiled(k)
  BY <1>1 DEF Alone, Unfiled
<1> QED
  BY <1>1, <1>2, <1>3, MovedJobs, AloneWithoutWrite DEF Alone

LEMMA EndAlone ==
  ASSUME Shape, Alone, NEW p \in Procs, NEW j \in jobs[p], NEW status,
         End(p, j, status), UNCHANGED <<up, todo, disk>>
  PROVE  Alone'
<1>1. jobs' = [jobs EXCEPT ![p] = (@ \ {j}) \union {}]
  BY DEF End
<1> QED
  BY <1>1, MovedJobs, AloneWithoutWrite DEF Alone

LEMMA StepAlone == DisjointProcs /\ Shape /\ Alone /\ [Next]_vars => Alone'
<1> SUFFICES ASSUME DisjointProcs, Shape, Alone, [Next]_vars PROVE Alone'
  OBVIOUS
<1>1. CASE UNCHANGED vars
  BY <1>1, AloneWithoutWrite DEF Alone, vars
<1>2. ASSUME NEW p \in Procs, Start(p) \/ Crash(p) \/ Finish(p)
      PROVE  Alone'
  <2>1. disk' = disk
    BY <1>2 DEF Start, Crash, Finish
  <2>2. CASE Start(p)
    <3>1. jobs[p] = {} /\ \A q \in Procs : q # p => todo'[q] = todo[q]
      BY <2>2 DEF Start, Alone, Shape
    <3> QED
      BY <2>1, <2>2, <3>1, AloneWithoutWrite DEF Start, Alone
  <2>3. CASE Crash(p)
    <3>1. jobs'[p] = {}
      BY <2>3 DEF Crash, Shape
    <3>2. \A q \in Procs : q # p => jobs'[q] = jobs[q] /\ todo'[q] = todo[q]
      BY <2>3 DEF Crash, Shape
    <3> QED
      BY <2>1, <2>3, <3>1, <3>2, AloneWithoutWrite DEF Crash, Alone
  <2>4. CASE Finish(p)
    BY <2>1, <2>4, AloneWithoutWrite DEF Finish, Alone
  <2> QED
    BY <1>2, <2>2, <2>3, <2>4
<1>3. ASSUME NEW p \in Procs, NEW u \in todo[p], SkipExisting(p, u) \/ CannotPrepare(p, u)
      PROVE  Alone'
  <2>1. /\ UNCHANGED <<up, jobs, disk>>
        /\ \A q \in Procs : todo'[q] \subseteq todo[q]
    BY <1>3 DEF SkipExisting, CannotPrepare, Take, Shape
  <2> QED
    BY <2>1, AloneWithoutWrite DEF Alone
<1>4. ASSUME NEW p \in Procs, NEW u \in todo[p], InjectFault(p, u)
      PROVE  Alone'
  <2> DEFINE new == [unit |-> u, step |-> "create",
                     shows |-> Symptom(Prepare(loaded[p][u.sid], u.fault))]
  <2>1. /\ UNCHANGED <<up, disk>> /\ p \in up
        /\ jobs' = [jobs EXCEPT ![p] = @ \union {new}]
        /\ todo' = [todo EXCEPT ![p] = @ \ {u}]
        /\ ~HasReport(u)
    BY <1>4 DEF InjectFault, Take
  <2>2. u \in Units /\ new.unit = u
    BY UnitsOfUnits DEF Shape
  <2>3. ~Stored(u)
    BY <2>1, <2>2 DEF HasReport, Stored, Alone
  <2> HIDE DEF new
  <2>4. jobs'[p] = jobs[p] \union {new} /\ todo'[p] = todo[p] \ {u}
    BY <2>1 DEF Shape
  <2>5. \A q \in Procs : q # p => jobs'[q] = jobs[q] /\ todo'[q] = todo[q]
    BY <2>1 DEF Shape
  <2>6. \A j \in jobs[p] : j.unit # u
    BY DEF Alone
  <2>7. \A j \in jobs'[p] : /\ j.unit \notin todo'[p]
                            /\ \A k \in jobs'[p] : j.unit = k.unit => j = k
                            /\ Unfiled(j)
    <3>1. new.step = "create"
      BY DEF new
    <3>2. Unfiled(new)
      BY <2>2, <2>3, <3>1 DEF Unfiled
    <3> QED
      BY <2>2, <2>4, <2>6, <3>2 DEF Alone
  <2> QED
    BY <2>1, <2>5, <2>7, AloneWithoutWrite DEF Alone
<1>5. ASSUME NEW p \in Procs, NEW j \in jobs[p], Create(p, j)
      PROVE  Alone'
  BY <1>5, GoOnAlone DEF Create, Steps, Unwritten
<1>6. ASSUME NEW p \in Procs, NEW j \in jobs[p],
             CreateFails(p, j) \/ GiveUp(p, j) \/ Teardown(p, j)
      PROVE  Alone'
  <2>1. UNCHANGED <<up, todo, disk>> /\ \E status \in Statuses : End(p, j, status)
    BY <1>6 DEF CreateFails, GiveUp, Teardown, Delete, Statuses
  <2> QED
    BY <2>1, EndAlone
<1>7. ASSUME NEW p \in Procs, NEW j \in jobs[p], CollectArtifacts(p, j)
      PROVE  Alone'
  BY <1>7, GoOnAlone DEF CollectArtifacts, NextStep, Steps, Unwritten
<1>8. ASSUME NEW p \in Procs, NEW j \in jobs[p], SeeReport(p, j) \/ WriteReport(p, j)
      PROVE  Alone'
  <2>1. PICK step \in {"write", "collect"} :
          /\ GoOn(p, j, step)
          /\ step = "write" => SeeReport(p, j)
          /\ step = "collect" => WriteReport(p, j)
    BY <1>8 DEF SeeReport, WriteReport, NextStep
  <2> DEFINE k == [j EXCEPT !.step = step]
  <2>2. UNCHANGED <<up, todo>> /\ jobs' = [jobs EXCEPT ![p] = (@ \ {j}) \union {k}]
    BY <1>8, <2>1 DEF SeeReport, WriteReport, GoOn
  <2>3. j \in JobType /\ j.unit \in UnitsOf(p) /\ j.unit \in Units
    BY JobName
  <2>4. k \in JobType /\ k.unit = j.unit /\ k.step = step
    BY <2>3 DEF JobType, Steps
  <2> HIDE DEF k
  <2>5. /\ \A q \in Procs \ up' : jobs'[q] = {}
        /\ \A q \in Procs : \A i \in jobs'[q] :
             /\ i.unit \notin todo'[q]
             /\ \A l \in jobs'[q] : i.unit = l.unit => i = l
        /\ \A q \in Procs : \A i \in jobs'[q] : i \in jobs[q] \/ (q = p /\ i \in {k})
        /\ \A i \in jobs'[p] \ {k} : i.unit # j.unit
    <3> DEFINE new == {k}
    <3>1. /\ new \in SUBSET JobType /\ (\A i \in new : i.unit = j.unit)
          /\ \A i, l \in new : i = l
      BY <2>4
    <3>2. UNCHANGED <<up, todo>> /\ jobs' = [jobs EXCEPT ![p] = (@ \ {j}) \union new]
      BY <2>2
    <3> HIDE DEF new
    <3>3. /\ \A q \in Procs \ up' : jobs'[q] = {}
          /\ \A q \in Procs : \A i \in jobs'[q] :
               /\ i.unit \notin todo'[q]
               /\ \A l \in jobs'[q] : i.unit = l.unit => i = l
          /\ \A q \in Procs : \A i \in jobs'[q] : i \in jobs[q] \/ (q = p /\ i \in new)
          /\ \A i \in jobs'[p] \ new : i.unit # j.unit
      BY <3>1, <3>2, MovedJobs
    <3> QED
      BY <3>3 DEF new
  <2>6. \A u \in Units \ {j.unit} : disk'[u] = disk[u]
    BY <1>8 DEF Shape, SeeReport, WriteReport
  <2>7. /\ step = "write" => disk'[j.unit].exists /\ disk'[j.unit].content = {}
        /\ ~disk'[j.unit].exists => disk'[j.unit].content = {}
    <3>1. CASE step = "write"
      <4>1. disk'[j.unit] = [exists |-> TRUE, content |-> {}]
        BY <2>1, <2>3, <3>1 DEF SeeReport, Shape
      <4> QED
        BY <4>1
    <3>2. CASE step = "collect"
      <4>1. disk[j.unit].exists
        BY <2>1, <3>2 DEF Alone, Unfiled, WriteReport
      <4>2. disk'[j.unit].exists
        BY <2>1, <2>3, <3>2, <4>1 DEF WriteReport, Shape
      <4> QED
        BY <3>2, <4>2
    <3> QED
      BY <3>1, <3>2
  <2>8. \A q \in Procs : \A i \in jobs'[q] : Unfiled(i)'
    <3> SUFFICES ASSUME NEW q \in Procs, NEW i \in jobs'[q] PROVE Unfiled(i)'
      OBVIOUS
    <3>1. CASE q = p /\ i = k
      BY <2>1, <2>4, <2>7, <3>1 DEF Unfiled, Stored, Unwritten
    <3>2. CASE ~(q = p /\ i = k)
      <4>1. i \in jobs[q]
        BY <2>5, <3>2
      <4>2. i.unit \in UnitsOf(q) /\ i.unit \in Units /\ Unfiled(i)
        BY <4>1, JobName DEF Alone
      <4>3. i.unit # j.unit
        BY <2>3, <2>5, <3>2, <4>2 DEF DisjointProcs
      <4> QED
        BY <2>6, <4>2, <4>3 DEF Unfiled, Stored
    <3> QED
      BY <3>1, <3>2
  <2>9. \A u \in Units : ~disk'[u].exists => disk'[u].content = {}
    BY <2>6, <2>7 DEF Alone
  <2> QED
    BY <2>5, <2>8, <2>9 DEF Alone
<1>9. ASSUME NEW n \in Names, OperatorCaptures(n) \/ PreviewGone(n) \/ TtlExpires(n)
      PROVE  Alone'
  BY <1>9, AloneWithoutWrite DEF Alone, OperatorCaptures, PreviewGone, TtlExpires
<1> QED
  BY <1>1, <1>2, <1>3, <1>4, <1>5, <1>6, <1>7, <1>8, <1>9
     DEF Next, Work, TakeUnit, JobStep, Cluster

LEMMA AloneAlways == ASSUME DisjointProcs PROVE Spec => []Alone
<1>1. Init => Alone
  BY DEF Init, Alone
<1>2. Shape /\ Alone /\ [Next]_vars => Alone'
  BY StepAlone
<1> QED
  BY <1>1, <1>2, ShapeAlways, PTL DEF Spec

\* Whatever crashes, restarts and failing kubectl calls follow, a stored report is neither
\* truncated nor replaced (run_unit, "Idempotent restart"), when no unit is given to two
\* processes that run side by side.
THEOREM ReportKeptAlways == ASSUME DisjointProcs PROVE Spec => ReportKept
<1>1. Shape /\ Alone /\ [Next]_vars => [\A u \in Units : Stored(u) => disk'[u] = disk[u]]_vars
  BY StoredKept
<1> QED
  BY <1>1, ShapeAlways, AloneAlways, PTL DEF Spec, ReportKept

LEMMA StepSkipped == Shape /\ Alone /\ SkippedIsStored /\ [Next]_vars => SkippedIsStored'
<1> SUFFICES ASSUME Shape, Alone, SkippedIsStored, [Next]_vars,
                    NEW p \in Procs, NEW u \in Units, rows'[p][u] = "skip-existing"
             PROVE  Stored(u)'
  BY DEF SkippedIsStored
<1>1. CASE rows[p][u] = "skip-existing"
  <2>1. Stored(u) /\ disk'[u] = disk[u]
    BY <1>1, StoredKept DEF SkippedIsStored
  <2> QED
    BY <2>1 DEF Stored
<1>2. CASE rows[p][u] # "skip-existing"
  <2>1. rows' # rows
    BY <1>2
  <2>2. PICK q \in Procs : Start(q) \/ Work(q)
    BY <2>1 DEF Next, Cluster, OperatorCaptures, PreviewGone, TtlExpires, Crash, vars
  <2>3. ~Start(q)
    <3>1. SUFFICES ASSUME Start(q) PROVE FALSE
      OBVIOUS
    <3>2. rows'[p][u] \in {"none", rows[p][u]}
      BY <3>1 DEF Start, NoRows, Shape
    <3> QED
      BY <1>2, <3>2
  <2>4. \A j \in jobs[q] : \A status : End(q, j, status) => status = "skip-existing"
    BY <1>2 DEF End, Row, Shape
  <2>5. \A j \in jobs[q] : ~JobStep(q, j)
    <3> SUFFICES ASSUME NEW j \in jobs[q], JobStep(q, j) PROVE FALSE
      OBVIOUS
    <3>1. \E status : status # "skip-existing" /\ End(q, j, status)
      BY <2>1 DEF JobStep, Create, CreateFails, SeeReport, GiveUp, WriteReport,
                  CollectArtifacts, Teardown, Delete
    <3> QED
      BY <2>4, <3>1
  <2>6. PICK v \in todo[q] : SkipExisting(q, v) \/ CannotPrepare(q, v)
    BY <2>1, <2>2, <2>3, <2>5 DEF Work, TakeUnit, Finish, InjectFault
  <2>7. SkipExisting(q, v) /\ v = u
    BY <1>2, <2>6 DEF SkipExisting, CannotPrepare, Row, Shape
  <2> QED
    BY <2>7 DEF SkipExisting, Take, HasReport, Stored
<1> QED
  BY <1>1, <1>2

\* A unit counted as captured by an earlier start has a report in its file, not the empty
\* one a crash or a failed kubectl leaves (run_unit, st_size > 0), under the same condition.
THEOREM SkippedIsStoredAlways == ASSUME DisjointProcs PROVE Spec => []SkippedIsStored
<1>1. Init => SkippedIsStored
  BY DEF Init, SkippedIsStored, NoRows
<1>2. Shape /\ Alone /\ SkippedIsStored /\ [Next]_vars => SkippedIsStored'
  BY StepSkipped
<1> QED
  BY <1>1, <1>2, ShapeAlways, AloneAlways, PTL DEF Spec
==============================================================================
