----------------------- MODULE RunMatrixPreviews_proofs -----------------------
(***************************************************************************)
(* Theorems about RunMatrix that follow a unit's Preview through its life: *)
(* what it shows, whether it is torn down, what its artifacts are taken    *)
(* from; and the type invariant.                                           *)
(***************************************************************************)
EXTENDS RunMatrix_proofs, FiniteSetTheorems

(* The subjects of meta.yaml *)

LEMMA SeqOfNone == ASSUME NEW S PROVE <<>> \in Seq(S)
  OBVIOUS

LEMMA SeqOfOne == ASSUME NEW S, NEW a \in S PROVE <<a>> \in Seq(S)
  OBVIOUS

LEMMA SeqOfTwo ==
  ASSUME NEW S, NEW a \in S, NEW b \in S
  PROVE  /\ <<a, b>> \in Seq(S)
         /\ Len(<<a, b>>) = 2 /\ <<a, b>>[1] = a /\ <<a, b>>[2] = b
  OBVIOUS

LEMMA FlaskFacts ==
  /\ Flask \in SubjectType
  /\ Flask.id = "s1" /\ Len(Flask.services) = 2
  /\ Flask.services[1].env = <<>> /\ Flask.services[1].port = 8080
<1> DEFINE text == << <<"head">> >>
           backend == [name |-> "backend", port |-> 8080, env |-> <<>>]
           env == <<"APP_MODE", "BACKEND_URL">>
           frontend == [name |-> "frontend", port |-> 3000, env |-> env]
<1>1. text \in Seq(Seq(Tokens))
  <2>1. "head" \in Tokens
    BY DEF Tokens
  <2> QED
    BY <2>1, SeqOfOne
<1>2. backend \in ServiceType /\ frontend \in ServiceType
  <2>1. "APP_MODE" \in Variables /\ "BACKEND_URL" \in Variables
    BY DEF Variables
  <2>2. env \in Seq(Variables)
    BY <2>1, SeqOfTwo
  <2> HIDE DEF env
  <2>3. <<>> \in Seq(Variables)
    BY SeqOfNone
  <2> QED
    BY <2>2, <2>3 DEF ServiceType
<1>3. backend.env = <<>> /\ backend.port = 8080
  OBVIOUS
<1>4. Flask = [id |-> "s1", services |-> <<backend, frontend>>,
               migration |-> [program |-> "alembic", text |-> text]]
  BY DEF Flask
<1> HIDE DEF text, backend, frontend
<1>5. [program |-> "alembic", text |-> text] \in MigrationType
  BY <1>1 DEF MigrationType
<1>6. /\ <<backend, frontend>> \in Seq(ServiceType)
      /\ Len(<<backend, frontend>>) = 2 /\ <<backend, frontend>>[1] = backend
  BY <1>2, SeqOfTwo
<1> QED
  BY <1>3, <1>4, <1>5, <1>6 DEF SubjectType, SubjectIds

LEMMA UpstreamFacts ==
  ASSUME NEW sid \in {"s2", "s3", "s4", "s5"}
  PROVE  /\ Upstream(sid) \in SubjectType
         /\ Upstream(sid).id = sid /\ Len(Upstream(sid).services) = 2
         /\ Upstream(sid).services[1].env = <<>> /\ Upstream(sid).services[1].port # ClosedPort
<1> DEFINE text == << <<"seed">>, <<>> >>
           backend == [name |-> "backend", port |-> Port[sid], env |-> <<>>]
           probe == [name |-> "probe", port |-> 9090, env |-> <<>>]
<1>1. text \in Seq(Seq(Tokens))
  <2>1. "seed" \in Tokens
    BY DEF Tokens
  <2>2. <<"seed">> \in Seq(Tokens) /\ <<>> \in Seq(Tokens)
    BY <2>1, SeqOfOne, SeqOfNone
  <2> QED
    BY <2>2, SeqOfTwo
<1>2. Port[sid] \in Nat /\ Port[sid] # ClosedPort
  BY DEF Port, ClosedPort
<1>3. backend \in ServiceType /\ probe \in ServiceType
  <2>1. <<>> \in Seq(Variables)
    BY SeqOfNone
  <2> QED
    BY <1>2, <2>1 DEF ServiceType
<1>4. backend.env = <<>> /\ backend.port = Port[sid]
  OBVIOUS
<1>5. Upstream(sid) = [id |-> sid, services |-> <<backend, probe>>,
                       migration |-> [program |-> "sh", text |-> text]]
  BY DEF Upstream
<1> HIDE DEF text, backend, probe
<1>6. [program |-> "sh", text |-> text] \in MigrationType
  BY <1>1 DEF MigrationType
<1>7. /\ <<backend, probe>> \in Seq(ServiceType)
      /\ Len(<<backend, probe>>) = 2 /\ <<backend, probe>>[1] = backend
  BY <1>3, SeqOfTwo
<1> QED
  BY <1>2, <1>4, <1>5, <1>6, <1>7 DEF SubjectType, SubjectIds

LEMMA StockFacts ==
  ASSUME NEW sid \in SubjectIds
  PROVE  /\ Stock(sid) \in SubjectType
         /\ Stock(sid).id = sid /\ Len(Stock(sid).services) = 2
         /\ Stock(sid).services[1].env = <<>> /\ Stock(sid).services[1].port # ClosedPort
  BY FlaskFacts, UpstreamFacts DEF Stock, SubjectIds, ClosedPort

LEMMA StockMigrates ==
  ASSUME NEW sid \in SubjectIds
  PROVE  ~MigrationFails(Stock(sid).migration)
<1>1. CASE sid = "s1"
  <2>1. Stock(sid).migration.program = "alembic"
    BY <1>1 DEF Stock, Flask
  <2> QED
    BY <2>1 DEF MigrationFails
<1>2. CASE sid # "s1"
  <2> DEFINE text == << <<"seed">>, <<>> >>
  <2>1. Stock(sid).migration.text = text
    BY <1>2 DEF Stock, Upstream
  <2>2. DOMAIN text = {1, 2} /\ text[1] = <<"seed">> /\ text[2] = <<>>
    OBVIOUS
  <2>3. DOMAIN text[1] = {1} /\ text[1][1] = "seed" /\ DOMAIN text[2] = {}
    OBVIOUS
  <2>4. ~Misparsed(text[1]) /\ ~Misparsed(text[2])
    BY <2>2, <2>3 DEF Misparsed
  <2> HIDE DEF text
  <2>5. \A k \in DOMAIN text : ~Misparsed(text[k])
    BY <2>2, <2>4
  <2>6. \A i \in DOMAIN text : 1..i \subseteq DOMAIN text
    BY <2>2
  <2>7. RunLines(text) = DOMAIN text
    BY <2>5, <2>6 DEF RunLines
  <2>8. \A i \in DOMAIN text : \A k \in DOMAIN text[i] : text[i][k] = "seed"
    BY <2>2, <2>3
  <2>9. "CREATE INDX" \notin RunTokens(text)
    <3>1. SUFFICES ASSUME NEW i \in RunLines(text), NEW k \in DOMAIN text[i],
                          text[i][k] = "CREATE INDX"
                   PROVE  FALSE
      BY DEF RunTokens
    <3> QED
      BY <2>7, <2>8, <3>1
  <2> QED
    BY <2>1, <2>7, <2>9 DEF MigrationFails
<1> QED
  BY <1>1, <1>2

LEMMA CarriesOne == ASSUME NEW s, NEW var, NEW other, s.services[1].env = <<other>>
                    PROVE  Carries(s, var) <=> var = other
  BY DEF Carries

LEMMA RunningSymptom ==
  ASSUME NEW s, ~MigrationFails(s.migration), s.services[1].port # ClosedPort,
         NEW var \in {Unroutable, BrokenFrontend, Flaky}, s.services[1].env = <<var>>
  PROVE  Symptom(Plan(s)) = CASE var = Unroutable -> "db-unreachable"
                              [] var = BrokenFrontend -> "frontend-broken"
                              [] var = Flaky -> "flaky-test"
<1>1. Plan(s).image = "stock" /\ Plan(s).subject = s
  BY DEF Plan
<1>2. \A w : Carries(s, w) <=> w = var
  BY CarriesOne
<1>3. Unroutable # BrokenFrontend /\ Unroutable # Flaky /\ BrokenFrontend # Flaky
  BY DEF Unroutable, BrokenFrontend, Flaky
<1> QED
  BY <1>1, <1>2, <1>3 DEF Symptom

LEMMA AppendToNone == ASSUME NEW a PROVE Append(<<>>, a) = <<a>>
  OBVIOUS

LEMMA ExtendedStock ==
  ASSUME NEW sid \in SubjectIds, NEW var
  PROVE  /\ Extended(Stock(sid).services[1], var).env = <<var>>
         /\ Extended(Stock(sid).services[1], var).port # ClosedPort
<1> DEFINE first == Stock(sid).services[1]
<1>1. Stock(sid).services \in Seq(ServiceType) /\ Len(Stock(sid).services) = 2
  BY StockFacts DEF SubjectType
<1>2. first \in ServiceType /\ first.env = <<>> /\ first.port # ClosedPort
  BY <1>1, StockFacts
<1> HIDE DEF first
<1>3. /\ Extended(first, var).env = Append(first.env, var)
      /\ Extended(first, var).port = first.port
  BY <1>2 DEF Extended, ServiceType
<1>4. Extended(first, var).env = <<var>>
  BY <1>2, <1>3, AppendToNone
<1> QED
  BY <1>2, <1>3, <1>4 DEF first

LEMMA EveryServiceOfStock ==
  ASSUME NEW sid \in SubjectIds, NEW var \in {Unroutable, BrokenFrontend, Flaky}
  PROVE  Symptom(Plan(OnEveryService(Stock(sid), var)))
           = CASE var = Unroutable -> "db-unreachable"
               [] var = BrokenFrontend -> "frontend-broken"
               [] var = Flaky -> "flaky-test"
<1> DEFINE s == Stock(sid)
           t == OnEveryService(s, var)
<1>1. s \in SubjectType /\ Len(s.services) = 2 /\ s.services \in Seq(ServiceType)
  BY StockFacts DEF SubjectType
<1>2. 1 \in DOMAIN s.services
  BY <1>1
<1>3. t.services[1] = Extended(s.services[1], var) /\ t.migration = s.migration
  BY <1>1, <1>2 DEF OnEveryService, SubjectType
<1>4. /\ t.services[1].env = <<var>> /\ t.services[1].port # ClosedPort
      /\ ~MigrationFails(t.migration)
  BY <1>3, ExtendedStock, StockMigrates
<1> HIDE DEF t
<1> QED
  BY <1>4, RunningSymptom DEF t

LEMMA SymptomOfF1 == ASSUME NEW sid \in SubjectIds
                     PROVE  Symptom(InvalidMigration(Stock(sid))) = "migration-failed"
<1> DEFINE text == << <<"CREATE INDX">> >>
           m == [program |-> "sh", text |-> text]
           plan == InvalidMigration(Stock(sid))
<1>1. plan.image = "stock" /\ plan.subject.migration = m
  BY StockFacts DEF InvalidMigration, Plan, SubjectType
<1>2. 1 \in DOMAIN text /\ text[1] = <<"CREATE INDX">>
  <2> DEFINE line == <<"CREATE INDX">>
  <2>1. text = <<line>>
    OBVIOUS
  <2> HIDE DEF line, text
  <2>2. 1 \in DOMAIN text /\ text[1] = line
    BY <2>1
  <2> QED
    BY <2>2 DEF line
<1>3. 1 \in DOMAIN text[1] /\ text[1][1] = "CREATE INDX"
  OBVIOUS
<1>4. m.program = "sh" /\ m.text = text
  OBVIOUS
<1> HIDE DEF text, m, plan
<1>5. RunLines(text) = DOMAIN text => "CREATE INDX" \in RunTokens(text)
  <2>1. ASSUME RunLines(text) = DOMAIN text PROVE "CREATE INDX" \in RunTokens(text)
    <3>1. "CREATE INDX" \in {text[1][k] : k \in DOMAIN text[1]}
      BY <1>3
    <3> QED
      BY <1>2, <2>1, <3>1 DEF RunTokens
  <2> QED
    BY <2>1
<1>6. MigrationFails(m)
  BY <1>4, <1>5 DEF MigrationFails
<1>7. Symptom(plan) = "migration-failed"
  BY <1>1, <1>6 DEF Symptom
<1> QED
  BY <1>7 DEF plan

LEMMA SymptomOfF2 == ASSUME NEW sid \in SubjectIds
                     PROVE  Symptom(MissingEnv(Stock(sid))) = "db-unreachable"
<1> DEFINE s == Stock(sid)
           made == Extended(s.services[1], Unroutable)
           t == [s EXCEPT !.services[1] = made]
<1>1. s \in SubjectType /\ Len(s.services) = 2 /\ s.services \in Seq(ServiceType)
  BY StockFacts DEF SubjectType
<1>2. MissingEnv(s) = Plan(t)
  BY StockFacts DEF MissingEnv
<1>3. 1 \in DOMAIN s.services
  BY <1>1
<1>4. t.services[1] = made /\ t.migration = s.migration
  BY <1>1, <1>3 DEF SubjectType
<1>5. /\ t.services[1].env = <<Unroutable>> /\ t.services[1].port # ClosedPort
      /\ ~MigrationFails(t.migration)
  BY <1>4, ExtendedStock, StockMigrates
<1> HIDE DEF t
<1>6. Symptom(Plan(t)) = "db-unreachable"
  BY <1>5, RunningSymptom DEF Unroutable, BrokenFrontend, Flaky
<1> QED
  BY <1>2, <1>6

LEMMA SymptomOfF7 == ASSUME NEW sid \in SubjectIds
                     PROVE  Symptom(WrongPort(Stock(sid))) = "refused"
<1> DEFINE s == Stock(sid)
           t == [s EXCEPT !.services[1].port = ClosedPort]
<1>1. s \in SubjectType /\ Len(s.services) = 2 /\ s.services \in Seq(ServiceType)
  BY StockFacts DEF SubjectType
<1>2. 1 \in DOMAIN s.services /\ s.services[1] \in ServiceType
  BY <1>1
<1>3. t.services[1].port = ClosedPort /\ t.migration = s.migration
  BY <1>1, <1>2 DEF SubjectType, ServiceType
<1>4. ~MigrationFails(t.migration)
  BY <1>3, StockMigrates
<1> HIDE DEF t
<1>5. Plan(t).image = "stock" /\ Plan(t).subject = t
  BY DEF Plan
<1>6. Symptom(Plan(t)) = "refused"
  BY <1>3, <1>4, <1>5 DEF Symptom
<1> QED
  BY <1>6 DEF WrongPort, t

\* For the faults the matrix calls sound, the injector of each makes every subject show
\* what its docstring says (dispatch.prepare).
LEMMA SoundInjectors ==
  ASSUME NEW sid \in SubjectIds, NEW f \in Sound
  PROVE  Symptom(Prepare(Stock(sid), f)) = Intended[f]
<1> DEFINE s == Stock(sid)
<1>1. /\ Intended[1] = "migration-failed" /\ Intended[2] = "db-unreachable"
      /\ Intended[3] = "image-pull" /\ Intended[5] = "frontend-broken"
      /\ Intended[6] = "db-unreachable" /\ Intended[7] = "refused"
      /\ Intended[10] = "flaky-test"
  BY DEF Intended
<1>2. /\ Prepare(s, 1) = InvalidMigration(s) /\ Prepare(s, 2) = MissingEnv(s)
      /\ Prepare(s, 3) = InvalidImage(s) /\ Prepare(s, 5) = FrontendBug(s)
      /\ Prepare(s, 6) = DatabaseTimeout(s) /\ Prepare(s, 7) = WrongPort(s)
      /\ Prepare(s, 10) = FlakyTest(s)
  BY DEF Prepare
<1>3. Symptom(InvalidImage(s)) = "image-pull"
  BY DEF InvalidImage, Plan, Symptom
<1>4. /\ Symptom(FrontendBug(s)) = "frontend-broken"
      /\ Symptom(DatabaseTimeout(s)) = "db-unreachable"
      /\ Symptom(FlakyTest(s)) = "flaky-test"
  BY EveryServiceOfStock DEF FrontendBug, DatabaseTimeout, FlakyTest, Unroutable,
                             BrokenFrontend, Flaky
<1> QED
  BY <1>1, <1>2, <1>3, <1>4, SymptomOfF1, SymptomOfF2, SymptomOfF7 DEF Sound

-----------------------------------------------------------------------------
(* The type invariant *)

LEMMA LoadedSubjects ==
  ASSUME NEW p \in Procs
  PROVE  /\ \A sid \in Range(Enabled[p]) : sid \in SubjectIds /\ Load(p)[sid] = Stock(sid)
         /\ \A u \in UnitsOf(p) : u.sid \in SubjectIds /\ Load(p)[u.sid] = Stock(u.sid)
<1>1. Enabled[p] \in Seq(SubjectIds)
  BY RunMatrixAssumption
<1>2. \A sid \in Range(Enabled[p]) : sid \in SubjectIds
  BY <1>1 DEF Range
<1> QED
  BY <1>2, UnitType DEF Load

Counters ==
  /\ starts \in [Procs -> Nat] /\ \A p \in Procs : starts[p] <= MaxStarts[p]
  /\ errors \in 0..MaxErrors
  /\ artifacts \in [Units -> {"none", "failing", "other"}]

\* prepare() copies the subject: what a process has loaded is meta.yaml.
LoadedIsStock == loaded = [p \in Procs |-> Load(p)]

Pool == \A p \in Procs : IsFiniteSet(jobs[p]) /\ Cardinality(jobs[p]) <= Concurrency

OneOfEach ==
  /\ \A n \in Names : \A c, d \in previews[n] : c = d
  /\ \A n \in Names : \A r, t \in reports[n] : r = t

TypeInv == Counters /\ LoadedIsStock /\ Pool /\ OneOfEach

LEMMA StepLoaded == Shape /\ LoadedIsStock /\ [Next]_vars => LoadedIsStock'
<1> SUFFICES ASSUME Shape, LoadedIsStock, [Next]_vars PROVE loaded' = loaded
  BY DEF LoadedIsStock
<1>1. ASSUME NEW p \in Procs, Start(p)
      PROVE  loaded' = loaded
  BY <1>1 DEF Start, LoadedIsStock
<1>2. ASSUME NEW p \in Procs, NEW u \in todo[p], InjectFault(p, u)
      PROVE  loaded' = loaded
  <2>1. loaded' = [loaded EXCEPT ![p][u.sid] = loaded[p][u.sid]]
    BY <1>2 DEF InjectFault, LoadedAfter
  <2>2. u.sid \in Range(Enabled[p])
    BY UnitType DEF Shape
  <2>3. loaded[p] = Load(p)
    BY DEF LoadedIsStock
  <2>4. [Load(p) EXCEPT ![u.sid] = Load(p)[u.sid]] = Load(p)
    BY <2>2 DEF Load
  <2>5. loaded' = [loaded EXCEPT ![p] = Load(p)]
    BY <2>1, <2>3, <2>4
  <2> QED
    BY <2>5 DEF LoadedIsStock
<1>3. ASSUME NEW p \in Procs,
             \/ Crash(p) \/ Finish(p)
             \/ \E u \in todo[p] : SkipExisting(p, u) \/ CannotPrepare(p, u)
             \/ \E j \in jobs[p] : JobStep(p, j)
      PROVE  loaded' = loaded
  BY <1>3 DEF Crash, Finish, SkipExisting, CannotPrepare, JobStep, Create, CreateFails,
              SeeReport, GiveUp, WriteReport, CollectArtifacts, Teardown, Delete
<1>4. ASSUME NEW n \in Names, OperatorCaptures(n) \/ PreviewGone(n) \/ TtlExpires(n)
      PROVE  loaded' = loaded
  BY <1>4 DEF OperatorCaptures, PreviewGone, TtlExpires
<1>5. CASE UNCHANGED vars
  BY <1>5 DEF vars
<1> QED
  BY <1>1, <1>2, <1>3, <1>4, <1>5 DEF Next, Work, TakeUnit, Cluster

LEMMA StepCounters == Shape /\ Counters /\ [Next]_vars => Counters'
<1> SUFFICES ASSUME Shape, Counters, [Next]_vars PROVE Counters'
  OBVIOUS
<1>0. MaxErrors \in Nat /\ MaxStarts \in [Procs -> Nat]
  BY RunMatrixAssumption
<1>1. ASSUME NEW p \in Procs, Start(p)
      PROVE  Counters'
  BY <1>0, <1>1 DEF Start, Counters
<1>2. ASSUME NEW p \in Procs, NEW j \in jobs[p], JobStep(p, j)
      PROVE  Counters'
  <2>1. starts' = starts
    BY <1>2 DEF JobStep, Create, CreateFails, SeeReport, GiveUp, WriteReport, CollectArtifacts,
                Teardown, Delete
  <2>2. errors' \in 0..MaxErrors
    <3>1. errors' = errors \/ (errors < MaxErrors /\ errors' = errors + 1)
      BY <1>2 DEF JobStep, Create, CreateFails, SeeReport, GiveUp, WriteReport,
                  CollectArtifacts, Teardown, Delete
    <3> QED
      BY <1>0, <3>1 DEF Counters
  <2>3. artifacts' \in [Units -> {"none", "failing", "other"}]
    <3>1. \/ artifacts' = artifacts
          \/ artifacts' = [artifacts EXCEPT ![j.unit] = "failing"]
          \/ artifacts' = [artifacts EXCEPT ![j.unit] = "other"]
      BY <1>2 DEF JobStep, Create, CreateFails, SeeReport, GiveUp, WriteReport,
                  CollectArtifacts, Teardown, Delete
    <3> QED
      BY <3>1 DEF Counters
  <2> QED
    BY <2>1, <2>2, <2>3 DEF Counters
<1>3. ASSUME NEW p \in Procs,
             \/ Crash(p) \/ Finish(p)
             \/ \E u \in todo[p] : SkipExisting(p, u) \/ CannotPrepare(p, u) \/ InjectFault(p, u)
      PROVE  Counters'
  BY <1>3 DEF Counters, Crash, Finish, SkipExisting, CannotPrepare, InjectFault, Take
<1>4. ASSUME NEW n \in Names, OperatorCaptures(n) \/ PreviewGone(n) \/ TtlExpires(n)
      PROVE  Counters'
  BY <1>4 DEF Counters, OperatorCaptures, PreviewGone, TtlExpires
<1>5. CASE UNCHANGED vars
  BY <1>5 DEF Counters, vars
<1> QED
  BY <1>1, <1>2, <1>3, <1>4, <1>5 DEF Next, Work, TakeUnit, Cluster

\* A thread takes a unit only when the pool has room, and goes on in its own place.
LEMMA StepPool == Shape /\ Pool /\ [Next]_vars => Pool'
<1> SUFFICES ASSUME Shape, Pool, [Next]_vars PROVE Pool'
  OBVIOUS
<1>0. Concurrency \in Nat \ {0}
  BY RunMatrixAssumption
<1>1. ASSUME NEW p \in Procs, NEW u \in todo[p], InjectFault(p, u)
      PROVE  Pool'
  <2>1. PICK made : jobs' = [jobs EXCEPT ![p] = @ \union {made}]
    BY <1>1 DEF InjectFault
  <2>2. jobs'[p] = jobs[p] \union {made} /\ \A q \in Procs : q # p => jobs'[q] = jobs[q]
    BY <2>1 DEF Shape
  <2>3. IsFiniteSet(jobs[p]) /\ Cardinality(jobs[p]) < Concurrency
    BY <1>1 DEF Pool, InjectFault, Take
  <2>4. Cardinality(jobs[p]) \in Nat
    BY <2>3, FS_CardinalityType
  <2>5. /\ IsFiniteSet(jobs[p] \union {made})
        /\ Cardinality(jobs[p] \union {made}) \in {Cardinality(jobs[p]), Cardinality(jobs[p]) + 1}
    BY <2>3, FS_AddElement
  <2>6. IsFiniteSet(jobs'[p]) /\ Cardinality(jobs'[p]) <= Concurrency
    BY <1>0, <2>2, <2>3, <2>4, <2>5
  <2> QED
    BY <2>2, <2>6 DEF Pool
<1>2. ASSUME NEW p \in Procs, NEW j \in jobs[p], JobStep(p, j)
      PROVE  Pool'
  <2>1. IsFiniteSet(jobs[p]) /\ Cardinality(jobs[p]) \in Nat /\ Cardinality(jobs[p]) <= Concurrency
    BY FS_CardinalityType DEF Pool
  <2>2. /\ IsFiniteSet(jobs[p] \ {j})
        /\ Cardinality(jobs[p] \ {j}) = Cardinality(jobs[p]) - 1
    BY <2>1, FS_RemoveElement
  <2>3. (\E status : End(p, j, status)) \/ \E step : GoOn(p, j, step)
    BY <1>2 DEF JobStep, Create, CreateFails, SeeReport, GiveUp, WriteReport, CollectArtifacts,
                Teardown, Delete
  <2>4. CASE \E status : End(p, j, status)
    <3>1. jobs'[p] = jobs[p] \ {j} /\ \A q \in Procs : q # p => jobs'[q] = jobs[q]
      BY <2>4 DEF End, Shape
    <3>2. IsFiniteSet(jobs'[p]) /\ Cardinality(jobs'[p]) <= Concurrency
      BY <1>0, <2>1, <2>2, <3>1
    <3> QED
      BY <3>1, <3>2 DEF Pool
  <2>5. CASE \E step : GoOn(p, j, step)
    <3>1. PICK made : jobs' = [jobs EXCEPT ![p] = (@ \ {j}) \union {made}]
      BY <2>5 DEF GoOn
    <3>2. /\ jobs'[p] = (jobs[p] \ {j}) \union {made}
          /\ \A q \in Procs : q # p => jobs'[q] = jobs[q]
      BY <3>1 DEF Shape
    <3> DEFINE S == jobs[p] \ {j}
    <3>3. IsFiniteSet(S) /\ Cardinality(S) = Cardinality(jobs[p]) - 1
      BY <2>2
    <3> HIDE DEF S
    <3>4. IsFiniteSet(S \union {made}) /\ Cardinality(S \union {made}) \in {Cardinality(S), Cardinality(S) + 1}
      BY <3>3, FS_AddElement
    <3>5. jobs'[p] = S \union {made}
      BY <3>2 DEF S
    <3>6. IsFiniteSet(jobs'[p]) /\ Cardinality(jobs'[p]) <= Concurrency
      BY <1>0, <2>1, <3>3, <3>4, <3>5
    <3> QED
      BY <3>2, <3>6 DEF Pool
  <2> QED
    BY <2>3, <2>4, <2>5
<1>3. ASSUME NEW p \in Procs, Crash(p)
      PROVE  Pool'
  <2>1. jobs'[p] = {} /\ \A q \in Procs : q # p => jobs'[q] = jobs[q]
    BY <1>3 DEF Crash, Shape
  <2>2. IsFiniteSet({}) /\ Cardinality({}) = 0
    BY FS_EmptySet
  <2> QED
    BY <1>0, <2>1, <2>2 DEF Pool
<1>4. ASSUME NEW p \in Procs,
             \/ Start(p) \/ Finish(p)
             \/ \E u \in todo[p] : SkipExisting(p, u) \/ CannotPrepare(p, u)
      PROVE  Pool'
  BY <1>4 DEF Pool, Start, Finish, SkipExisting, CannotPrepare
<1>5. ASSUME NEW n \in Names, OperatorCaptures(n) \/ PreviewGone(n) \/ TtlExpires(n)
      PROVE  Pool'
  BY <1>5 DEF Pool, OperatorCaptures, PreviewGone, TtlExpires
<1>6. CASE UNCHANGED vars
  BY <1>6 DEF Pool, vars
<1> QED
  BY <1>1, <1>2, <1>3, <1>4, <1>5, <1>6 DEF Next, Work, TakeUnit, Cluster

\* kubectl apply and the operator replace the object of that name.
LEMMA StepOneOfEach == Shape /\ OneOfEach /\ [Next]_vars => OneOfEach'
<1> SUFFICES ASSUME Shape, OneOfEach, [Next]_vars PROVE OneOfEach'
  OBVIOUS
<1>1. \A n \in Names : \A c, d \in previews'[n] : c = d
  <2>1. \A n \in Names : \A c, d \in Deleted(previews[n]) : c = d
    BY DEF Deleted, OneOfEach
  <2>2. \A j, old : \A c, d \in Applied(j, old) : c = d
    BY DEF Applied
  <2>3. ASSUME NEW n \in Names, NEW S, previews' = [previews EXCEPT ![n] = S],
               \A c, d \in S : c = d
        PROVE  \A m \in Names : \A c, d \in previews'[m] : c = d
    BY <2>3 DEF OneOfEach, Shape
  <2>4. CASE previews' = previews
    BY <2>4 DEF OneOfEach
  <2>5. ASSUME NEW n \in Names,
               \/ previews' = [previews EXCEPT ![n] = {}]
               \/ previews' = [previews EXCEPT ![n] = Deleted(@)]
        PROVE  \A m \in Names : \A c, d \in previews'[m] : c = d
    BY <2>1, <2>3, <2>5
  <2>6. ASSUME NEW p \in Procs, NEW j \in jobs[p],
               previews' = [previews EXCEPT ![PRNumber(p, j.unit)] = Applied(j, @)]
        PROVE  \A m \in Names : \A c, d \in previews'[m] : c = d
    <3> DEFINE n == PRNumber(p, j.unit)
               S == Applied(j, previews[n])
    <3>1. n \in Names /\ previews' = [previews EXCEPT ![n] = S] /\ \A c, d \in S : c = d
      BY <2>2, <2>6, JobName
    <3> HIDE DEF n, S
    <3> QED
      BY <2>3, <3>1
  <2>7. ASSUME NEW n \in Names, NEW c \in previews[n],
               previews' = [previews EXCEPT ![n] = {[c EXCEPT !.failed = TRUE]}]
        PROVE  \A m \in Names : \A b, d \in previews'[m] : b = d
    <3>1. PICK e : e = [c EXCEPT !.failed = TRUE]
      OBVIOUS
    <3> DEFINE S == {e}
    <3>2. previews' = [previews EXCEPT ![n] = S] /\ \A b, d \in S : b = d
      BY <2>7, <3>1
    <3> HIDE DEF S
    <3> QED
      BY <2>3, <3>2
  <2> QED
    BY <2>4, <2>5, <2>6, <2>7, PreviewStep
<1>2. \A n \in Names : \A r, t \in reports'[n] : r = t
  <2>1. CASE reports' = reports
    BY <2>1 DEF OneOfEach
  <2>2. CASE reports' # reports
    <3>1. PICK n \in Names : \E made : reports' = [reports EXCEPT ![n] = {made}]
      BY <2>2, ReportStep
    <3>2. PICK made : reports' = [reports EXCEPT ![n] = {made}]
      BY <3>1
    <3> QED
      BY <3>2 DEF OneOfEach, Shape
  <2> QED
    BY <2>1, <2>2
<1> QED
  BY <1>1, <1>2 DEF OneOfEach

LEMMA AtMostOne ==
  ASSUME NEW S, \A c, d \in S : c = d
  PROVE  Cardinality(S) <= 1
<1>1. CASE S = {}
  BY <1>1, FS_EmptySet
<1>2. CASE S # {}
  <2>1. PICK c \in S : TRUE
    BY <1>2
  <2>2. S = {c}
    BY <2>1
  <2>3. Cardinality({c}) = 1
    BY FS_Singleton
  <2>4. Cardinality(S) = 1
    BY <2>2, <2>3
  <2> QED
    BY <2>4
<1> QED
  BY <1>1, <1>2

LEMMA TypeInvAlways == Spec => []TypeInv
<1>1. Init => TypeInv
  <2>1. IsFiniteSet({}) /\ Cardinality({}) = 0
    BY FS_EmptySet
  <2>2. Concurrency \in Nat \ {0} /\ MaxStarts \in [Procs -> Nat] /\ MaxErrors \in Nat
    BY RunMatrixAssumption
  <2> QED
    BY <2>1, <2>2 DEF Init, TypeInv, Counters, LoadedIsStock, Pool, OneOfEach
<1>2. Shape /\ TypeInv /\ [Next]_vars => TypeInv'
  BY StepCounters, StepLoaded, StepPool, StepOneOfEach DEF TypeInv
<1> QED
  BY <1>1, <1>2, ShapeAlways, PTL DEF Spec

\* Every variable keeps its type.  The pool never holds more threads than --concurrency, a
\* name has one Preview and one FailureReport, and the subjects a process has loaded stay
\* those of meta.yaml (run_unit, dispatch.prepare).
THEOREM TypeCorrect == Spec => []TypeOK
<1>1. Shape /\ TypeInv => TypeOK
  <2> SUFFICES ASSUME Shape, TypeInv PROVE TypeOK
    OBVIOUS
  <2>1. \A p \in Procs : starts[p] \in 0..MaxStarts[p]
    BY RunMatrixAssumption DEF TypeInv, Counters
  <2>2. ASSUME NEW p \in Procs
        PROVE  /\ todo[p] \subseteq UnitsOf(p)
               /\ jobs[p] \subseteq JobType
               /\ Cardinality(jobs[p]) <= Concurrency
               /\ \A sid \in Range(Enabled[p]) : loaded[p][sid] \in SubjectType
    <3>1. \A sid \in Range(Enabled[p]) : loaded[p][sid] \in SubjectType
      BY LoadedSubjects, StockFacts DEF TypeInv, LoadedIsStock
    <3> QED
      BY <3>1 DEF Shape, TypeInv, Pool
  <2>3. \A u \in Units : disk[u].content \subseteq ReportType /\ disk[u].exists \in BOOLEAN
    BY DEF Shape
  <2>4. \A n \in Names : Cardinality(previews[n]) <= 1 /\ previews[n] \subseteq PreviewType
    BY AtMostOne DEF TypeInv, OneOfEach, Shape
  <2>5. \A n \in Names : Cardinality(reports[n]) <= 1 /\ reports[n] \subseteq ReportType
    BY AtMostOne DEF TypeInv, OneOfEach, Shape
  <2> QED
    BY <2>1, <2>2, <2>3, <2>4, <2>5 DEF TypeOK, TypeInv, Counters, Shape
<1> QED
  BY <1>1, ShapeAlways, TypeInvAlways, PTL

-----------------------------------------------------------------------------
(* What a thread deploys, the operator captures and a report shows is what  *)
(* the injector of that unit makes of the subject of meta.yaml.             *)

SymptomOf(u) == Symptom(Prepare(Stock(u.sid), u.fault))

Traced ==
  /\ \A p \in Procs : \A j \in jobs[p] : j.shows = SymptomOf(j.unit)
  /\ \A n \in Names : \A c \in previews[n] : c.shows = SymptomOf(c.unit)
  /\ \A n \in Names : \A r \in reports[n] : r.symptom = SymptomOf(r.unit)

LEMMA StepTraced == Shape /\ LoadedIsStock /\ Traced /\ [Next]_vars => Traced'
<1> SUFFICES ASSUME Shape, LoadedIsStock, Traced, [Next]_vars PROVE Traced'
  OBVIOUS
<1>1. ASSUME NEW p \in Procs, NEW k \in jobs'[p]
      PROVE  k.shows = SymptomOf(k.unit)
  <2>1. ASSUME NEW u \in todo[p]
        PROVE  loaded[p][u.sid] = Stock(u.sid)
    BY LoadedSubjects DEF LoadedIsStock, Shape
  <2> QED
    BY <2>1, JobsStep DEF Traced, SymptomOf
<1>2. \A n \in Names : \A c \in previews'[n] : c.shows = SymptomOf(c.unit)
  BY PreviewUnits DEF Traced
<1>3. \A n \in Names : \A r \in reports'[n] : r.symptom = SymptomOf(r.unit)
  BY ReportUnits DEF Traced
<1> QED
  BY <1>1, <1>2, <1>3 DEF Traced

LEMMA TracedAlways == Spec => []Traced
<1>1. Init => Traced
  BY DEF Init, Traced
<1>2. TypeInv => LoadedIsStock
  BY DEF TypeInv
<1> QED
  BY <1>1, <1>2, StepTraced, ShapeAlways, TypeInvAlways, PTL DEF Spec

\* Units with the same PR number have the same fault, even when that of s1 depends on its
\* position in --subjects.
LEMMA SameFault ==
  ASSUME NEW p \in Procs, NEW u \in UnitsOf(p), NEW q \in Procs, NEW v \in UnitsOf(q),
         PRNumber(p, u) = PRNumber(q, v)
  PROVE  u.fault = v.fault
<1> DEFINE a == StableIdx(p, u.sid)
           b == StableIdx(q, v.sid)
           f == u.fault
           g == v.fault
           r == u.rep
           s == v.rep
<1>1. ASSUME NEW i \in Procs, NEW sid \in Range(Enabled[i])
      PROVE  StableIdx(i, sid) \in Int
  <2>1. Enabled[i] \in Seq(SubjectIds)
    BY RunMatrixAssumption
  <2>2. \E k \in DOMAIN Enabled[i] : Enabled[i][k] = sid
    BY DEF Range
  <2>3. Position(i, sid) \in Int
    BY <2>1, <2>2 DEF Position
  <2>4. sid \in DOMAIN SUBJECT_IDX => SUBJECT_IDX[sid] \in Int
    BY DEF SUBJECT_IDX
  <2> QED
    BY <2>3, <2>4 DEF StableIdx
<1>2. a \in Int /\ b \in Int
  BY <1>1, UnitType
<1>3. f \in 1..10 /\ g \in 1..10 /\ r \in 1..100 /\ s \in 1..100
  <2>1. Reps \in 1..100
    BY RunMatrixAssumption
  <2>2. f \in 1..10 /\ g \in 1..10 /\ r \in 1..Reps /\ s \in 1..Reps
    BY UnitType
  <2> QED
    BY <2>1, <2>2
<1>4. 90000 + a * 1000 + f * 100 + r = 90000 + b * 1000 + g * 100 + s
  BY DEF PRNumber
<1> HIDE DEF a, b, f, g, r, s
<1>5. f * 100 + r \in 101..1100 /\ g * 100 + s \in 101..1100
  BY <1>3
<1>6. a * 1000 < b * 1000 + 1000 /\ b * 1000 < a * 1000 + 1000
  BY <1>2, <1>3, <1>4, <1>5
<1>7. a = b
  BY <1>2, <1>6
<1>8. f * 100 < g * 100 + 100 /\ g * 100 < f * 100 + 100
  BY <1>2, <1>3, <1>4, <1>7
<1>9. f = g
  BY <1>3, <1>8
<1> QED
  BY <1>9 DEF f, g

FaultFiled ==
  \A u \in Units : \A r \in disk[u].content :
    r.unit.fault = u.fault /\ r.symptom = SymptomOf(r.unit)

LEMMA StepFaultFiled == Shape /\ Named /\ Traced /\ FaultFiled /\ [Next]_vars => FaultFiled'
<1> SUFFICES ASSUME Shape, Named, Traced, FaultFiled, [Next]_vars,
                    NEW u \in Units, NEW r \in disk'[u].content
             PROVE  r.unit.fault = u.fault /\ r.symptom = SymptomOf(r.unit)
  BY DEF FaultFiled
<1>1. ASSUME NEW p \in Procs, u \in UnitsOf(p), r \in reports[PRNumber(p, u)]
      PROVE  r.unit.fault = u.fault /\ r.symptom = SymptomOf(r.unit)
  <2>1. PRNumber(p, u) \in Names
    BY <1>1, UnitType
  <2>2. For(PRNumber(p, u), r.unit) /\ r.symptom = SymptomOf(r.unit)
    BY <1>1, <2>1 DEF Named, Traced
  <2>3. r.unit.fault = u.fault
    BY <1>1, <2>2, SameFault DEF For
  <2> QED
    BY <2>2, <2>3
<1> QED
  BY <1>1, DiskUnits DEF FaultFiled

\* A stored report shows what the injector of its fault says it makes the system show, for
\* the injectors that work as they say, and nothing left behind by the faults injected
\* before into the same subject (dispatch.prepare copies it).  It holds even for s1, whose
\* reports may be those of another unit: the unit has the same fault.
THEOREM ShowsItsFaultAlways == Spec => []ShowsItsFault
<1>1. Init => FaultFiled
  BY DEF Init, FaultFiled
<1>2. Shape /\ FaultFiled => ShowsItsFault
  <2> SUFFICES ASSUME Shape, FaultFiled,
                      NEW u \in Units, NEW r \in disk[u].content, u.fault \in Sound
               PROVE  r.symptom = Intended[u.fault]
    BY DEF ShowsItsFault
  <2>1. r.unit \in Units
    BY DEF Shape, ReportType
  <2>2. PICK p \in Procs : r.unit \in UnitsOf(p)
    BY <2>1 DEF Units
  <2>3. r.unit.sid \in SubjectIds
    BY <2>2, LoadedSubjects
  <2>4. r.unit.fault = u.fault /\ r.symptom = SymptomOf(r.unit)
    BY DEF FaultFiled
  <2> QED
    BY <2>3, <2>4, SoundInjectors DEF SymptomOf
<1> QED
  BY <1>1, <1>2, StepFaultFiled, ShapeAlways, NamedAlways, TracedAlways, PTL DEF Spec

-----------------------------------------------------------------------------
(* When numbers differ, only the thread of a unit touches its Preview *)

\* The numbers of the units differ: those of s2 to s5 always do, those of s1 when its
\* position in --subjects is not that of another subject of the scope.
PRNumbersDiffer ==
  \A p, q \in Procs : \A u \in UnitsOf(p) : \A v \in UnitsOf(q) :
    PRNumber(p, u) = PRNumber(q, v) => u = v

LEMMA StableNumbersDiffer == StableSubjects => PRNumbersDiffer
  BY CollisionFree DEF PRNumbersDiffer

LEMMA SameThread ==
  ASSUME DisjointProcs, PRNumbersDiffer, Shape, Alone,
         NEW p \in Procs, NEW u \in UnitsOf(p), NEW q \in Procs, NEW j \in jobs[q],
         PRNumber(q, j.unit) = PRNumber(p, u)
  PROVE  q = p /\ j.unit = u
<1>1. j.unit \in UnitsOf(q)
  BY JobName
<1>2. j.unit = u
  BY <1>1 DEF PRNumbersDiffer
<1> QED
  BY <1>1, <1>2 DEF DisjointProcs

LEMMA NameStep ==
  ASSUME Shape, [Next]_vars, NEW n \in Names
  PROVE  \/ previews'[n] = previews[n] /\ reports'[n] = reports[n]
         \/ OperatorCaptures(n) \/ PreviewGone(n) \/ TtlExpires(n)
         \/ \E p \in Procs : \E j \in jobs[p] :
              /\ PRNumber(p, j.unit) = n
              /\ reports' = reports
              /\ Create(p, j) \/ CreateFails(p, j) \/ GiveUp(p, j) \/ Teardown(p, j)
<1>1. ASSUME NEW p \in Procs,
             \/ Start(p) \/ Crash(p) \/ Finish(p)
             \/ \E u \in todo[p] : SkipExisting(p, u) \/ CannotPrepare(p, u) \/ InjectFault(p, u)
             \/ \E j \in jobs[p] : SeeReport(p, j) \/ WriteReport(p, j) \/ CollectArtifacts(p, j)
      PROVE  previews' = previews /\ reports' = reports
  BY <1>1 DEF Start, Crash, Finish, SkipExisting, CannotPrepare, InjectFault, Take, SeeReport,
              WriteReport, CollectArtifacts
<1>2. ASSUME NEW p \in Procs, NEW j \in jobs[p],
             Create(p, j) \/ CreateFails(p, j) \/ GiveUp(p, j) \/ Teardown(p, j),
             PRNumber(p, j.unit) # n
      PROVE  previews'[n] = previews[n] /\ reports'[n] = reports[n]
  BY <1>2 DEF Create, CreateFails, GiveUp, Teardown, Delete, Shape
<1>3. ASSUME NEW p \in Procs, NEW j \in jobs[p],
             Create(p, j) \/ CreateFails(p, j) \/ GiveUp(p, j) \/ Teardown(p, j)
      PROVE  reports' = reports
  BY <1>3 DEF Create, CreateFails, GiveUp, Teardown, Delete
<1>4. ASSUME NEW m \in Names, OperatorCaptures(m) \/ PreviewGone(m) \/ TtlExpires(m), m # n
      PROVE  previews'[n] = previews[n] /\ reports'[n] = reports[n]
  BY <1>4 DEF OperatorCaptures, PreviewGone, TtlExpires, Shape
<1>5. CASE UNCHANGED vars
  BY <1>5 DEF vars
<1> QED
  BY <1>1, <1>2, <1>3, <1>4, <1>5 DEF Next, Work, TakeUnit, JobStep, Cluster

-----------------------------------------------------------------------------
(* A unit that has a row is done with: no Preview is left behind *)

Closed ==
  \A p \in up : \A u \in UnitsOf(p) :
    rows[p][u] # "none" => u \notin todo[p] /\ \A j \in jobs[p] : j.unit # u

LEMMA StepClosed == Shape /\ Alone /\ Closed /\ [Next]_vars => Closed'
<1> SUFFICES ASSUME Shape, Alone, Closed, [Next]_vars,
                    NEW p \in up', NEW u \in UnitsOf(p), rows'[p][u] # "none"
             PROVE  u \notin todo'[p] /\ \A j \in jobs'[p] : j.unit # u
  BY DEF Closed
<1>0. p \in Procs /\ u \in Units
  BY StepShape, UnitType DEF Shape
<1>1. ASSUME p \in up, rows'[p][u] = rows[p][u], todo'[p] \subseteq todo[p], jobs'[p] \subseteq jobs[p]
      PROVE  u \notin todo'[p] /\ \A j \in jobs'[p] : j.unit # u
  BY <1>1 DEF Closed
<1>2. ASSUME NEW q \in Procs, Start(q) \/ Crash(q) \/ Finish(q)
      PROVE  u \notin todo'[p] /\ \A j \in jobs'[p] : j.unit # u
  <2>1. CASE Start(q)
    <3>1. q # p
      BY <1>0, <2>1 DEF Start, NoRows, Shape
    <3> QED
      BY <1>0, <1>1, <2>1, <3>1 DEF Start, Shape
  <2>2. CASE Crash(q)
    BY <1>0, <1>1, <2>2 DEF Crash, Shape
  <2>3. CASE Finish(q)
    BY <1>0, <1>1, <2>3 DEF Finish, Shape
  <2> QED
    BY <1>2, <2>1, <2>2, <2>3
<1>3. ASSUME NEW q \in Procs, NEW v \in todo[q], SkipExisting(q, v) \/ CannotPrepare(q, v)
      PROVE  u \notin todo'[p] /\ \A j \in jobs'[p] : j.unit # u
  <2>1. up' = up /\ jobs' = jobs /\ todo' = [todo EXCEPT ![q] = @ \ {v}]
    BY <1>3 DEF SkipExisting, CannotPrepare, Take
  <2>2. PICK status : rows' = [rows EXCEPT ![q][v] = status]
    BY <1>3 DEF SkipExisting, CannotPrepare, Row
  <2>3. CASE q = p /\ v = u
    <3>1. u \notin todo'[p]
      BY <1>0, <2>1, <2>3 DEF Shape
    <3>2. \A j \in jobs[p] : j.unit # u
      BY <1>0, <2>3 DEF Alone
    <3> QED
      BY <2>1, <3>1, <3>2
  <2>4. CASE ~(q = p /\ v = u)
    <3>1. rows'[p][u] = rows[p][u]
      BY <1>0, <2>2, <2>4 DEF Shape
    <3>2. todo'[p] \subseteq todo[p]
      BY <1>0, <2>1 DEF Shape
    <3> QED
      BY <1>1, <2>1, <3>1, <3>2
  <2> QED
    BY <2>3, <2>4
<1>4. ASSUME NEW q \in Procs, NEW v \in todo[q], InjectFault(q, v)
      PROVE  u \notin todo'[p] /\ \A j \in jobs'[p] : j.unit # u
  <2>1. up' = up /\ rows' = rows /\ todo' = [todo EXCEPT ![q] = @ \ {v}]
    BY <1>4 DEF InjectFault, Take
  <2>2. PICK made : made.unit = v /\ jobs' = [jobs EXCEPT ![q] = @ \union {made}]
    BY <1>4 DEF InjectFault
  <2>3. u \notin todo[p] /\ \A j \in jobs[p] : j.unit # u
    BY <2>1 DEF Closed
  <2>4. q = p => v # u
    BY <2>3
  <2> QED
    BY <1>0, <2>1, <2>2, <2>3, <2>4 DEF Shape
<1>5. ASSUME NEW q \in Procs, NEW j \in jobs[q], JobStep(q, j)
      PROVE  u \notin todo'[p] /\ \A k \in jobs'[p] : k.unit # u
  <2>1. up' = up /\ todo' = todo
    BY <1>5 DEF JobStep, Create, CreateFails, SeeReport, GiveUp, WriteReport, CollectArtifacts,
                Teardown, Delete
  <2>2. \/ rows' = rows /\ \E step : GoOn(q, j, step)
        \/ \E status : End(q, j, status)
    BY <1>5 DEF JobStep, Create, CreateFails, SeeReport, GiveUp, WriteReport, CollectArtifacts,
                Teardown, Delete
  <2>3. CASE rows' = rows /\ \E step : GoOn(q, j, step)
    <3>1. \A k \in jobs'[p] : \E i \in jobs[p] : k.unit = i.unit
      <4>1. PICK step : GoOn(q, j, step)
        BY <2>3
      <4>2. PICK l : l = [j EXCEPT !.step = step]
        OBVIOUS
      <4>3. l.unit = j.unit
        BY <4>2, JobName DEF JobType
      <4>4. jobs' = [jobs EXCEPT ![q] = (@ \ {j}) \union {l}]
        BY <4>1, <4>2 DEF GoOn
      <4> QED
        BY <1>0, <4>3, <4>4 DEF Shape
    <3>2. u \notin todo[p] /\ \A k \in jobs[p] : k.unit # u
      BY <2>1, <2>3 DEF Closed
    <3> QED
      BY <2>1, <3>1, <3>2
  <2>4. CASE \E status : End(q, j, status)
    <3>1. PICK status : End(q, j, status)
      BY <2>4
    <3>2. jobs' = [jobs EXCEPT ![q] = @ \ {j}] /\ rows' = [rows EXCEPT ![q][j.unit] = status]
      BY <3>1 DEF End, Row
    <3>3. CASE q = p /\ j.unit = u
      <4>1. u \notin todo[p] /\ \A k \in jobs[p] \ {j} : k.unit # u
        BY <1>0, <3>3 DEF Alone
      <4>2. jobs'[p] = jobs[p] \ {j}
        BY <1>0, <3>2, <3>3 DEF Shape
      <4> QED
        BY <2>1, <4>1, <4>2
    <3>4. CASE ~(q = p /\ j.unit = u)
      <4>1. rows'[p][u] = rows[p][u]
        BY <1>0, <3>2, <3>4 DEF Shape
      <4>2. jobs'[p] \subseteq jobs[p]
        BY <1>0, <3>2 DEF Shape
      <4> QED
        BY <1>1, <2>1, <4>1, <4>2
    <3> QED
      BY <3>3, <3>4
  <2> QED
    BY <2>2, <2>3, <2>4
<1>6. ASSUME NEW n \in Names, OperatorCaptures(n) \/ PreviewGone(n) \/ TtlExpires(n)
      PROVE  u \notin todo'[p] /\ \A j \in jobs'[p] : j.unit # u
  BY <1>1, <1>6 DEF OperatorCaptures, PreviewGone, TtlExpires
<1>7. CASE UNCHANGED vars
  BY <1>1, <1>7 DEF vars
<1> QED
  BY <1>2, <1>3, <1>4, <1>5, <1>6, <1>7 DEF Next, Work, TakeUnit, Cluster

LEMMA ClosedAlways == ASSUME DisjointProcs PROVE Spec => []Closed
<1>1. Init => Closed
  BY DEF Init, Closed
<1> QED
  BY <1>1, StepClosed, ShapeAlways, AloneAlways, PTL DEF Spec

LEMMA OnlyStart == ASSUME [Next]_vars PROVE up' \subseteq up \/ \E p \in Procs : Start(p)
<1>1. ASSUME NEW p \in Procs, NEW j \in jobs[p], JobStep(p, j)
      PROVE  up' = up
  BY <1>1 DEF JobStep, Create, CreateFails, SeeReport, GiveUp, WriteReport, CollectArtifacts,
              Teardown, Delete
<1>2. ASSUME NEW p \in Procs, Crash(p) \/ Finish(p) \/ TakeUnit(p)
      PROVE  up' \subseteq up
  BY <1>2 DEF Crash, Finish, TakeUnit, SkipExisting, CannotPrepare, InjectFault, Take
<1>3. ASSUME NEW n \in Names, OperatorCaptures(n) \/ PreviewGone(n) \/ TtlExpires(n)
      PROVE  up' = up
  BY <1>3 DEF OperatorCaptures, PreviewGone, TtlExpires
<1>4. CASE UNCHANGED vars
  BY <1>4 DEF vars
<1> QED
  BY <1>1, <1>2, <1>3, <1>4 DEF Next, Work, Cluster

LEMMA StepTornDown ==
  DisjointProcs /\ PRNumbersDiffer /\ Shape /\ Alone /\ Closed /\ TornDown /\ [Next]_vars
    => TornDown'
<1> SUFFICES ASSUME DisjointProcs, PRNumbersDiffer, Shape, Alone, Closed, TornDown, [Next]_vars,
                    NEW p \in up', NEW u \in UnitsOf(p),
                    rows'[p][u] \in {"captured", "no-report"},
                    NEW c \in previews'[PRNumber(p, u)]
             PROVE  c.deleting
  BY DEF TornDown
<1> DEFINE n == PRNumber(p, u)
<1>0. p \in Procs /\ u \in Units /\ n \in Names
  BY StepShape, UnitType DEF Shape
<1>1. CASE p \in up /\ rows'[p][u] = rows[p][u]
  <2>1. u \notin todo[p] /\ \A j \in jobs[p] : j.unit # u
    BY <1>1 DEF Closed
  <2>2. \A d \in previews[n] : d.deleting
    BY <1>1 DEF TornDown
  <2>3. ~\E q \in Procs : \E j \in jobs[q] : PRNumber(q, j.unit) = n
    BY <1>0, <2>1, SameThread
  <2>4. CASE previews'[n] = previews[n]
    BY <2>2, <2>4
  <2>5. CASE OperatorCaptures(n)
    BY <2>2, <2>5 DEF OperatorCaptures
  <2>6. CASE PreviewGone(n)
    BY <1>0, <2>6 DEF PreviewGone, Shape
  <2>7. CASE TtlExpires(n)
    BY <2>2, <2>7 DEF TtlExpires
  <2> QED
    BY <1>0, <2>3, <2>4, <2>5, <2>6, <2>7, NameStep
<1>2. CASE p \notin up
  <2>1. PICK q \in Procs : Start(q)
    BY <1>2, OnlyStart
  <2>2. p = q
    BY <1>2, <2>1 DEF Start
  <2>3. rows'[p][u] = "none"
    BY <1>0, <2>1, <2>2 DEF Start, NoRows, Shape
  <2> QED
    BY <2>3
<1>3. CASE p \in up /\ rows'[p][u] # rows[p][u]
  <2>1. rows' # rows
    BY <1>3
  <2>2. PICK q \in Procs : Start(q) \/ Work(q)
    BY <2>1 DEF Next, Cluster, OperatorCaptures, PreviewGone, TtlExpires, Crash, vars
  <2>3. ~Start(q)
    <3>1. SUFFICES ASSUME Start(q) PROVE FALSE
      OBVIOUS
    <3>2. rows'[p][u] \in {"none", rows[p][u]}
      BY <1>0, <3>1 DEF Start, NoRows, Shape
    <3> QED
      BY <1>3, <3>2
  <2>4. \A v \in todo[q] : ~SkipExisting(q, v) /\ ~CannotPrepare(q, v)
    <3> SUFFICES ASSUME NEW v \in todo[q], SkipExisting(q, v) \/ CannotPrepare(q, v)
                 PROVE  FALSE
      OBVIOUS
    <3>1. PICK status \in {"skip-existing", "error"} : rows' = [rows EXCEPT ![q][v] = status]
      BY DEF SkipExisting, CannotPrepare, Row
    <3>2. rows'[p][u] \in {rows[p][u], status}
      BY <1>0, <3>1 DEF Shape
    <3> QED
      BY <1>3, <3>2
  <2>5. PICK j \in jobs[q] : JobStep(q, j)
    BY <2>1, <2>2, <2>3, <2>4 DEF Work, TakeUnit, Finish, InjectFault
  <2>6. \A status : End(q, j, status) => q = p /\ j.unit = u /\ status \in {"captured", "no-report"}
    BY <1>0, <1>3 DEF End, Row, Shape
  <2>7. GiveUp(q, j) \/ Teardown(q, j)
    BY <2>1, <2>5, <2>6 DEF JobStep, Create, CreateFails, SeeReport, WriteReport, CollectArtifacts
  <2>8. q = p /\ j.unit = u /\ previews' = [previews EXCEPT ![n] = Deleted(@)]
    BY <2>6, <2>7 DEF GiveUp, Teardown, Delete
  <2>9. c \in Deleted(previews[n])
    BY <1>0, <2>8 DEF Shape
  <2> QED
    BY <1>0, <2>9 DEF Deleted, Shape, PreviewType
<1> QED
  BY <1>1, <1>2, <1>3

\* A unit whose row says captured or no-report has no Preview left that is not going, in any
\* interleaving of threads, processes and kubectl failures, when no unit is given to two
\* processes and numbers differ (run_unit, step 5 and the early return without a report).
THEOREM TornDownAlways == ASSUME DisjointProcs, PRNumbersDiffer PROVE Spec => []TornDown
<1>1. Init => TornDown
  BY DEF Init, TornDown
<1> QED
  BY <1>1, StepTornDown, ShapeAlways, AloneAlways, ClosedAlways, PTL DEF Spec

-----------------------------------------------------------------------------
(* In its first start a process finds nothing of its units in the cluster, and *)
(* the Preview a thread works on is the one it has created.                    *)

Untouched(p, u) == previews[PRNumber(p, u)] = {} /\ reports[PRNumber(p, u)] = {}

\* The Preview a thread has created is there until the thread deletes it, and has failed
\* once its report is there.
Attended(p, j) ==
  LET n == PRNumber(p, j.unit)
  IN  /\ previews[n] # {} /\ \A c \in previews[n] : ~c.deleting
      /\ reports[n] # {} \/ j.step # "await" => \A c \in previews[n] : c.failed

FirstStart ==
  /\ \A p \in up : starts[p] >= 1
  /\ \A p \in Procs : starts[p] <= 1 =>
       /\ \A u \in UnitsOf(p) : starts[p] = 0 \/ u \in todo[p] => Untouched(p, u)
       /\ \A j \in jobs[p] : /\ j.step = "create" => Untouched(p, j.unit)
                             /\ j.step \in {"await", "write", "collect"} => Attended(p, j)

LEMMA StartsGrow ==
  ASSUME Counters, [Next]_vars, NEW p \in Procs
  PROVE  /\ starts[p] <= starts'[p]
         /\ starts'[p] \in Nat
         /\ starts'[p] # starts[p] => Start(p) /\ starts'[p] = starts[p] + 1
<1>1. ASSUME NEW q \in Procs, Start(q)
      PROVE  starts' = [starts EXCEPT ![q] = @ + 1]
  BY <1>1 DEF Start
<1>2. ASSUME NEW q \in Procs, Crash(q) \/ Work(q)
      PROVE  starts' = starts
  BY <1>2 DEF Work, TakeUnit, JobStep, Crash, Finish, SkipExisting, CannotPrepare, InjectFault,
              Take, Create, CreateFails, SeeReport, GiveUp, WriteReport, CollectArtifacts,
              Teardown, Delete
<1>3. ASSUME NEW n \in Names, OperatorCaptures(n) \/ PreviewGone(n) \/ TtlExpires(n)
      PROVE  starts' = starts
  BY <1>3 DEF OperatorCaptures, PreviewGone, TtlExpires
<1>4. CASE UNCHANGED vars
  BY <1>4 DEF vars, Counters
<1> QED
  BY <1>1, <1>2, <1>3, <1>4 DEF Next, Cluster, Counters

LEMMA TodoStep ==
  ASSUME Shape, [Next]_vars, NEW p \in Procs
  PROVE  todo'[p] \subseteq todo[p] \/ Start(p)
<1>1. ASSUME NEW q \in Procs, Start(q)
      PROVE  q = p \/ todo'[p] = todo[p]
  BY <1>1 DEF Start, Shape
<1>2. ASSUME NEW q \in Procs, NEW j \in jobs[q], JobStep(q, j)
      PROVE  todo' = todo
  BY <1>2 DEF JobStep, Create, CreateFails, SeeReport, GiveUp, WriteReport, CollectArtifacts,
              Teardown, Delete
<1>3. ASSUME NEW q \in Procs, Crash(q) \/ Finish(q) \/ TakeUnit(q)
      PROVE  todo'[p] \subseteq todo[p]
  BY <1>3 DEF Crash, Finish, TakeUnit, SkipExisting, CannotPrepare, InjectFault, Take, Shape
<1>4. ASSUME NEW n \in Names, OperatorCaptures(n) \/ PreviewGone(n) \/ TtlExpires(n)
      PROVE  todo' = todo
  BY <1>4 DEF OperatorCaptures, PreviewGone, TtlExpires
<1>5. CASE UNCHANGED vars
  BY <1>5 DEF vars
<1> QED
  BY <1>1, <1>2, <1>3, <1>4, <1>5 DEF Next, Work, Cluster

\* Where a thread's state comes from: a unit just taken, or the step before.
LEMMA NewJob ==
  ASSUME Shape, [Next]_vars, NEW p \in Procs, NEW k \in jobs'[p], k \notin jobs[p]
  PROVE  \/ \E u \in todo[p] : InjectFault(p, u) /\ k.unit = u /\ k.step = "create"
         \/ \E j \in jobs[p] :
              /\ k.unit = j.unit
              /\ \/ Create(p, j) /\ k.step = "await"
                 \/ SeeReport(p, j) /\ k.step = "write"
                 \/ WriteReport(p, j) /\ k.step = "collect"
                 \/ CollectArtifacts(p, j) /\ k.step = "teardown"
<1>1. ASSUME NEW q \in Procs,
             \/ Start(q) \/ Crash(q) \/ Finish(q)
             \/ \E u \in todo[q] : SkipExisting(q, u) \/ CannotPrepare(q, u)
      PROVE  FALSE
  BY <1>1 DEF Start, Crash, Finish, SkipExisting, CannotPrepare, Take, Shape
<1>2. ASSUME NEW q \in Procs, NEW u \in todo[q], InjectFault(q, u)
      PROVE  q = p /\ k.unit = u /\ k.step = "create"
  <2>1. PICK made : /\ made.unit = u /\ made.step = "create"
                   /\ jobs' = [jobs EXCEPT ![q] = @ \union {made}]
    BY <1>2 DEF InjectFault
  <2> QED
    BY <2>1 DEF Shape
<1>3. ASSUME NEW q \in Procs, NEW j \in jobs[q], NEW step \in Steps, GoOn(q, j, step)
      PROVE  q = p /\ k.unit = j.unit /\ k.step = step
  <2>1. PICK l : l = [j EXCEPT !.step = step]
    OBVIOUS
  <2>2. l.unit = j.unit /\ l.step = step
    BY <2>1, JobName DEF JobType
  <2>3. jobs' = [jobs EXCEPT ![q] = (@ \ {j}) \union {l}]
    BY <1>3, <2>1 DEF GoOn
  <2> QED
    BY <2>2, <2>3 DEF Shape
<1>4. ASSUME NEW q \in Procs, NEW j \in jobs[q], NEW status, End(q, j, status)
      PROVE  FALSE
  BY <1>4 DEF End, Shape
<1>5. ASSUME NEW q \in Procs, NEW j \in jobs[q], CreateFails(q, j) \/ GiveUp(q, j) \/ Teardown(q, j)
      PROVE  FALSE
  BY <1>4, <1>5 DEF CreateFails, GiveUp, Teardown, Delete
<1>6. ASSUME NEW q \in Procs, NEW j \in jobs[q],
             Create(q, j) \/ SeeReport(q, j) \/ WriteReport(q, j) \/ CollectArtifacts(q, j)
      PROVE  /\ q = p /\ k.unit = j.unit
             /\ \/ Create(p, j) /\ k.step = "await"
                \/ SeeReport(p, j) /\ k.step = "write"
                \/ WriteReport(p, j) /\ k.step = "collect"
                \/ CollectArtifacts(p, j) /\ k.step = "teardown"
  <2>1. CASE Create(q, j)
    BY <1>3, <2>1 DEF Create, Steps
  <2>2. CASE SeeReport(q, j)
    BY <1>3, <2>2 DEF SeeReport, Steps
  <2>3. CASE WriteReport(q, j)
    BY <1>3, <2>3 DEF WriteReport, NextStep, Steps
  <2>4. CASE CollectArtifacts(q, j)
    BY <1>3, <2>4 DEF CollectArtifacts, NextStep, Steps
  <2> QED
    BY <1>6, <2>1, <2>2, <2>3, <2>4
<1>7. ASSUME NEW n \in Names, OperatorCaptures(n) \/ PreviewGone(n) \/ TtlExpires(n)
      PROVE  FALSE
  BY <1>7 DEF OperatorCaptures, PreviewGone, TtlExpires
<1>8. CASE UNCHANGED vars
  BY <1>8 DEF vars
<1> QED
  BY <1>1, <1>2, <1>5, <1>6, <1>7, <1>8 DEF Next, Work, TakeUnit, JobStep, Cluster

LEMMA UntouchedKept ==
  ASSUME DisjointProcs, PRNumbersDiffer, Shape, Alone, [Next]_vars,
         NEW p \in Procs, NEW u \in UnitsOf(p), Untouched(p, u), \A j \in jobs[p] : j.unit # u
  PROVE  Untouched(p, u)'
<1> DEFINE n == PRNumber(p, u)
<1>1. n \in Names
  BY UnitType
<1>2. ~(OperatorCaptures(n) \/ PreviewGone(n) \/ TtlExpires(n))
  BY DEF Untouched, OperatorCaptures, PreviewGone, TtlExpires
<1>3. ~\E q \in Procs : \E j \in jobs[q] : PRNumber(q, j.unit) = n
  BY SameThread
<1> QED
  BY <1>1, <1>2, <1>3, NameStep DEF Untouched

\* While a thread stays where it is, only the cluster touches its Preview.
LEMMA ThreadWaits ==
  ASSUME DisjointProcs, PRNumbersDiffer, Shape, Alone, [Next]_vars,
         NEW p \in Procs, NEW k \in jobs[p], k \in jobs'[p]
  PROVE  LET n == PRNumber(p, k.unit)
         IN  \/ previews'[n] = previews[n] /\ reports'[n] = reports[n]
             \/ OperatorCaptures(n) \/ PreviewGone(n)
<1> DEFINE n == PRNumber(p, k.unit)
<1>1. n \in Names /\ k.unit \in UnitsOf(p)
  BY JobName
<1>2. ~TtlExpires(n)
  BY DEF TtlExpires, Busy
<1>3. ASSUME NEW q \in Procs, NEW j \in jobs[q], PRNumber(q, j.unit) = n,
             Create(q, j) \/ CreateFails(q, j) \/ GiveUp(q, j) \/ Teardown(q, j)
      PROVE  FALSE
  <2>1. q = p /\ j = k
    <3>1. q = p /\ j.unit = k.unit
      BY <1>1, <1>3, SameThread
    <3> QED
      BY <3>1 DEF Alone
  <2>2. CASE \E status : End(p, k, status)
    BY <2>2 DEF End, Shape
  <2>3. CASE k.step = "create" /\ GoOn(p, k, "await")
    <3>1. PICK l : l = [k EXCEPT !.step = "await"]
      OBVIOUS
    <3>2. l.step = "await"
      BY <3>1, JobName DEF JobType
    <3>3. jobs' = [jobs EXCEPT ![p] = (@ \ {k}) \union {l}]
      BY <2>3, <3>1 DEF GoOn
    <3> QED
      BY <2>3, <3>2, <3>3 DEF Shape
  <2> QED
    BY <1>3, <2>1, <2>2, <2>3 DEF Create, CreateFails, GiveUp, Teardown, Delete
<1> QED
  BY <1>1, <1>2, <1>3, NameStep

LEMMA AttendedKept ==
  ASSUME DisjointProcs, PRNumbersDiffer, Shape, Alone, [Next]_vars,
         NEW p \in Procs, NEW k \in jobs[p], k \in jobs'[p], Attended(p, k)
  PROVE  Attended(p, k)'
<1> DEFINE n == PRNumber(p, k.unit)
<1>1. n \in Names
  BY JobName
<1>2. ~PreviewGone(n)
  BY DEF PreviewGone, Attended
<1>3. CASE previews'[n] = previews[n] /\ reports'[n] = reports[n]
  BY <1>3 DEF Attended
<1>4. CASE OperatorCaptures(n)
  <2>1. PICK c \in previews[n] :
          /\ ~c.deleting
          /\ reports' = [reports EXCEPT ![n] = {[unit |-> c.unit, symptom |-> c.shows]}]
          /\ previews' = [previews EXCEPT ![n] = {[c EXCEPT !.failed = TRUE]}]
    BY <1>4 DEF OperatorCaptures
  <2>2. PICK d : d = [c EXCEPT !.failed = TRUE]
    OBVIOUS
  <2>3. ~d.deleting /\ d.failed
    BY <1>1, <2>1, <2>2 DEF Shape, PreviewType
  <2>4. previews'[n] = {d}
    BY <1>1, <2>1, <2>2 DEF Shape
  <2> QED
    BY <2>3, <2>4 DEF Attended
<1> QED
  BY <1>2, <1>3, <1>4, ThreadWaits

LEMMA StepFirstStart ==
  DisjointProcs /\ PRNumbersDiffer /\ Shape /\ Alone /\ Counters /\ FirstStart /\ [Next]_vars
    => FirstStart'
<1> SUFFICES ASSUME DisjointProcs, PRNumbersDiffer, Shape, Alone, Counters, FirstStart, [Next]_vars
             PROVE  FirstStart'
  OBVIOUS
<1>1. ASSUME NEW p \in up'
      PROVE  starts'[p] >= 1
  <2>1. p \in Procs
    BY StepShape DEF Shape
  <2>2. CASE p \in up
    BY <2>1, <2>2, StartsGrow DEF FirstStart, Counters
  <2>3. CASE p \notin up
    <3>1. PICK q \in Procs : Start(q)
      BY <2>3, OnlyStart
    <3>2. q = p
      BY <2>3, <3>1 DEF Start
    <3> QED
      BY <2>1, <3>1, <3>2 DEF Start, Counters
  <2> QED
    BY <2>2, <2>3
<1>2. ASSUME NEW p \in Procs, starts'[p] <= 1
      PROVE  starts[p] <= 1 /\ starts[p] \in Nat
  BY <1>2, StartsGrow DEF Counters
<1>3. ASSUME NEW p \in Procs, starts'[p] <= 1, NEW u \in UnitsOf(p), starts'[p] = 0 \/ u \in todo'[p]
      PROVE  Untouched(p, u)'
  <2>1. CASE starts[p] = 0
    <3>1. Untouched(p, u)
      BY <2>1 DEF FirstStart
    <3>2. p \notin up
      BY <2>1 DEF FirstStart
    <3>3. jobs[p] = {}
      BY <3>2 DEF Alone
    <3> QED
      BY <3>1, <3>3, UntouchedKept
  <2>2. CASE starts[p] # 0
    <3>1. starts[p] = 1 /\ ~Start(p) /\ starts'[p] # 0
      BY <1>2, <1>3, <2>2, StartsGrow DEF Start, Counters
    <3>2. u \in todo[p]
      BY <1>3, <3>1, TodoStep
    <3>3. Untouched(p, u)
      BY <3>1, <3>2 DEF FirstStart
    <3>4. \A j \in jobs[p] : j.unit # u
      BY <3>2 DEF Alone
    <3> QED
      BY <3>3, <3>4, UntouchedKept
  <2> QED
    BY <2>1, <2>2
<1>4. ASSUME NEW p \in Procs, starts'[p] <= 1, NEW k \in jobs'[p]
      PROVE  /\ k.step = "create" => Untouched(p, k.unit)'
             /\ k.step \in {"await", "write", "collect"} => Attended(p, k)'
  <2>1. starts[p] <= 1
    BY <1>2, <1>4
  <2>2. CASE k \in jobs[p]
    <3>1. ASSUME k.step = "create" PROVE Untouched(p, k.unit)'
      <4> DEFINE n == PRNumber(p, k.unit)
      <4>1. Untouched(p, k.unit) /\ n \in Names
        BY <2>1, <2>2, <3>1, JobName DEF FirstStart
      <4>2. ~OperatorCaptures(n) /\ ~PreviewGone(n)
        BY <4>1 DEF Untouched, OperatorCaptures, PreviewGone
      <4> QED
        BY <2>2, <4>1, <4>2, ThreadWaits DEF Untouched
    <3>2. ASSUME k.step \in {"await", "write", "collect"} PROVE Attended(p, k)'
      <4>1. Attended(p, k)
        BY <2>1, <2>2, <3>2 DEF FirstStart
      <4> QED
        BY <2>2, <4>1, AttendedKept
    <3> QED
      BY <3>1, <3>2
  <2>3. ASSUME NEW u \in todo[p], InjectFault(p, u), k.unit = u
        PROVE  Untouched(p, k.unit)'
    <3>1. Untouched(p, u) /\ UNCHANGED <<previews, reports>>
      BY <2>1, <2>3 DEF FirstStart, InjectFault, Take, Shape
    <3> QED
      BY <2>3, <3>1 DEF Untouched
  <2>4. ASSUME NEW j \in jobs[p], k.unit = j.unit, Create(p, j), k.step = "await"
        PROVE  Attended(p, k)'
    <3> DEFINE n == PRNumber(p, j.unit)
    <3>1. n \in Names /\ previews[n] = {} /\ reports[n] = {}
      BY <2>1, <2>4, JobName DEF FirstStart, Create, Untouched
    <3>2. previews'[n] = Applied(j, {}) /\ reports'[n] = {}
      BY <2>4, <3>1 DEF Create, Shape
    <3>3. Applied(j, {}) # {} /\ \A c \in Applied(j, {}) : ~c.deleting
      BY DEF Applied
    <3> QED
      BY <2>4, <3>2, <3>3 DEF Attended
  <2>5. ASSUME NEW j \in jobs[p], k.unit = j.unit,
               \/ SeeReport(p, j) /\ k.step = "write"
               \/ WriteReport(p, j) /\ k.step = "collect"
        PROVE  Attended(p, k)'
    <3>1. Attended(p, j) /\ UNCHANGED <<previews, reports>>
      BY <2>1, <2>5 DEF FirstStart, SeeReport, WriteReport
    <3>2. reports[PRNumber(p, j.unit)] # {} \/ j.step # "await"
      BY <2>5 DEF SeeReport, WriteReport
    <3> QED
      BY <2>5, <3>1, <3>2 DEF Attended
  <2> QED
    BY <2>2, <2>3, <2>4, <2>5, NewJob
<1> QED
  BY <1>1, <1>2, <1>3, <1>4 DEF FirstStart

LEMMA FirstStartAlways ==
  ASSUME DisjointProcs, PRNumbersDiffer PROVE Spec => []FirstStart
<1>1. Init => FirstStart
  BY DEF Init, FirstStart, Untouched, Names
<1>2. TypeInv => Counters
  BY DEF TypeInv
<1> QED
  BY <1>1, <1>2, StepFirstStart, ShapeAlways, AloneAlways, TypeInvAlways, PTL DEF Spec

\* In the first start of a process the artifacts of a unit are collected from a Preview that
\* has failed and is not going, whatever the other threads, processes, the operator and the
\* ttl do in between ("collect raw kubectl artefacts BEFORE teardown").  The condition on
\* starts is needed: after a restart a thread may find the Preview of the start before.
THEOREM ArtifactsShowFailureAlways ==
  ASSUME DisjointProcs, PRNumbersDiffer PROVE Spec => []ArtifactsShowFailure
<1>1. Init => ArtifactsShowFailure
  BY UnitType DEF Init, ArtifactsShowFailure
<1>2. DisjointProcs /\ Shape /\ Counters /\ FirstStart /\ ArtifactsShowFailure /\ [Next]_vars
        => ArtifactsShowFailure'
  <2> SUFFICES ASSUME DisjointProcs, Shape, Counters, FirstStart, ArtifactsShowFailure, [Next]_vars,
                      NEW p \in Procs, starts'[p] <= 1, NEW u \in UnitsOf(p)
               PROVE  artifacts'[u] # "other"
    BY DEF ArtifactsShowFailure
  <2>1. starts[p] <= 1
    BY StartsGrow DEF Counters
  <2>2. u \in Units /\ artifacts[u] # "other"
    BY <2>1, UnitType DEF ArtifactsShowFailure
  <2>3. ASSUME NEW q \in Procs, NEW j \in jobs[q], CollectArtifacts(q, j)
        PROVE  artifacts'[u] # "other"
    <3>1. CASE j.unit # u
      BY <2>2, <2>3, <3>1 DEF CollectArtifacts, Counters
    <3>2. CASE j.unit = u
      <4>1. q = p
        BY <3>2, JobName DEF DisjointProcs
      <4>2. Attended(q, j) /\ j.step = "collect"
        BY <2>1, <2>3, <4>1 DEF CollectArtifacts, FirstStart
      <4>3. \E c \in previews[PRNumber(q, j.unit)] : c.failed /\ ~c.deleting
        BY <4>2 DEF Attended
      <4> QED
        BY <2>2, <2>3, <3>2, <4>3 DEF CollectArtifacts, Counters
    <3> QED
      BY <3>1, <3>2
  <2>4. CASE artifacts' = artifacts
    BY <2>2, <2>4
  <2>5. artifacts' = artifacts \/ \E q \in Procs : \E j \in jobs[q] : CollectArtifacts(q, j)
    <3>1. ASSUME NEW q \in Procs,
                 \/ Start(q) \/ Crash(q) \/ Finish(q)
                 \/ \E v \in todo[q] : \/ SkipExisting(q, v) \/ CannotPrepare(q, v)
                                      \/ InjectFault(q, v)
          PROVE  artifacts' = artifacts
      BY <3>1 DEF Start, Crash, Finish, SkipExisting, CannotPrepare, InjectFault, Take
    <3>2. ASSUME NEW q \in Procs, NEW j \in jobs[q], JobStep(q, j), ~CollectArtifacts(q, j)
          PROVE  artifacts' = artifacts
      BY <3>2 DEF JobStep, Create, CreateFails, SeeReport, GiveUp, WriteReport, Teardown, Delete
    <3>3. ASSUME NEW n \in Names, OperatorCaptures(n) \/ PreviewGone(n) \/ TtlExpires(n)
          PROVE  artifacts' = artifacts
      BY <3>3 DEF OperatorCaptures, PreviewGone, TtlExpires
    <3>4. CASE UNCHANGED vars
      BY <3>4 DEF vars
    <3> QED
      BY <3>1, <3>2, <3>3, <3>4 DEF Next, Work, TakeUnit, Cluster
  <2> QED
    BY <2>3, <2>4, <2>5
<1>3. TypeInv => Counters
  BY DEF TypeInv
<1> QED
  BY <1>1, <1>2, <1>3, ShapeAlways, TypeInvAlways, FirstStartAlways, PTL DEF Spec
===============================================================================
