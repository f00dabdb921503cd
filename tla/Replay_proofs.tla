---------------------------- MODULE Replay_proofs ----------------------------
(***************************************************************************)
(* Theorems about Replay, for every number of cells, of threads, of kills  *)
(* and of failures, and every choice among the scripts.                    *)
(***************************************************************************)
EXTENDS Replay, FiniteSetTheorems, TLAPS

JobType == [cell : Cells, step : Steps, holds : Contents \union {"abort"}]

\* A step that writes has something to write.
Writable(j) == j.step # "clean" => j.holds \in Contents

\* The cells being worked on when the loop comes to n next, by w threads: one
\* job each.
Fine(J, n, w) ==
  /\ J \subseteq JobType /\ IsFiniteSet(J) /\ Cardinality(J) <= w
  /\ \A j \in J : j.cell < n /\ Writable(j)
  /\ \A j, k \in J : j.cell = k.cell => j = k

LEMMA FineGoOn ==
  ASSUME NEW J, NEW n, NEW w \in Nat, Fine(J, n, w),
         NEW j \in J, NEW k \in JobType, k.cell = j.cell, Writable(k)
  PROVE  Fine((J \ {j}) \union {k}, n, w)
<1> DEFINE R == J \ {j}
<1>1. IsFiniteSet(R) /\ Cardinality(R) = Cardinality(J) - 1
  BY FS_RemoveElement DEF Fine
<1>2. k \notin R
  BY DEF Fine
<1>3. IsFiniteSet(R \union {k}) /\ Cardinality(R \union {k}) = Cardinality(R) + 1
  BY <1>1, <1>2, FS_AddElement
<1>4. Cardinality(J) \in Nat
  BY FS_CardinalityType DEF Fine
<1>5. Cardinality(R \union {k}) <= w
  BY <1>1, <1>3, <1>4 DEF Fine
<1>6. R \union {k} \subseteq JobType
  BY DEF Fine
<1>7. \A i \in R \union {k} : i.cell < n /\ Writable(i)
  BY DEF Fine
<1>8. \A i, l \in R \union {k} : i.cell = l.cell => i = l
  BY DEF Fine
<1> QED
  BY <1>3, <1>5, <1>6, <1>7, <1>8 DEF Fine

LEMMA FineDrop ==
  ASSUME NEW J, NEW n, NEW w \in Nat, Fine(J, n, w), NEW j \in J
  PROVE  Fine(J \ {j}, n, w)
<1>1. IsFiniteSet(J \ {j}) /\ Cardinality(J \ {j}) = Cardinality(J) - 1
  BY FS_RemoveElement DEF Fine
<1>2. Cardinality(J) \in Nat
  BY FS_CardinalityType DEF Fine
<1> QED
  BY <1>1, <1>2 DEF Fine

LEMMA FineTake ==
  ASSUME NEW J, NEW n \in Cells, NEW w \in Nat, Fine(J, n, w), Cardinality(J) < w,
         NEW k \in JobType, k.cell = n, Writable(k)
  PROVE  Fine(J \union {k}, n + 1, w)
<1> DEFINE R == J \union {k}
<1>1. n \in Nat /\ \A j \in JobType : j.cell \in Nat
  BY ReplayAssumption DEF Cells, JobType
<1>2. k \notin J
  BY <1>1 DEF Fine
<1>3. IsFiniteSet(R) /\ Cardinality(R) = Cardinality(J) + 1
  BY <1>2, FS_AddElement DEF Fine
<1>4. Cardinality(J) \in Nat
  BY FS_CardinalityType DEF Fine
<1>5. Cardinality(R) <= w
  BY <1>3, <1>4
<1>6. \A j \in R : j \in JobType /\ j.cell < n + 1 /\ Writable(j)
  BY <1>1 DEF Fine
<1>7. \A j, l \in R : j.cell = l.cell => j = l
  BY <1>1 DEF Fine
<1> QED
  BY <1>3, <1>5, <1>6, <1>7 DEF Fine

LEMMA FineLater ==
  ASSUME NEW J, NEW n \in Cells, NEW w, Fine(J, n, w)
  PROVE  Fine(J, n + 1, w)
<1>1. n \in Nat /\ \A j \in JobType : j.cell \in Nat
  BY ReplayAssumption DEF Cells, JobType
<1> QED
  BY <1>1 DEF Fine

LEMMA FineNone ==
  ASSUME NEW n, NEW w \in Nat
  PROVE  Fine({}, n, w)
  BY FS_EmptySet DEF Fine

\* With one thread there is one job.
LEMMA OneJob ==
  ASSUME NEW J, NEW n, Fine(J, n, 1), NEW j \in J, NEW k \in J
  PROVE  j = k
<1>1. IsFiniteSet(J \ {j}) /\ Cardinality(J \ {j}) = Cardinality(J) - 1
  BY FS_RemoveElement DEF Fine
<1>2. Cardinality(J) \in Nat /\ Cardinality(J \ {j}) \in Nat
  BY <1>1, FS_CardinalityType DEF Fine
<1>3. Cardinality(J \ {j}) = 0
  BY <1>1, <1>2 DEF Fine
<1> QED
  BY <1>1, <1>3, FS_EmptySet

LEMMA NoJob ==
  ASSUME NEW J, NEW n, Fine(J, n, 1), Cardinality(J) < 1
  PROVE  J = {}
<1>1. Cardinality(J) \in Nat
  BY FS_CardinalityType DEF Fine
<1>2. Cardinality(J) = 0
  BY <1>1
<1> QED
  BY <1>2, FS_EmptySet DEF Fine

LEMMA WorkersType == Workers \in Nat /\ (script # "diag" => Workers = 1)
  BY ReplayAssumption DEF Workers

-----------------------------------------------------------------------------
(* The shape of the state *)

Shape ==
  /\ script \in Chosen /\ script \in Scripts
  /\ up \in BOOLEAN
  /\ next \in 1..(NCells + 1)
  /\ Fine(jobs, next, Workers)
  /\ ~up \/ table = "open" => jobs = {}
  /\ table \in {"no", "open"}
  /\ table = "open" => Of(script).table
  /\ rows \in [Cells -> Contents]
  /\ file \in [Cells -> Contents]
  /\ csv \in [Cells -> Contents]
  /\ env \in [Cells -> Namespaces]
  /\ faults \in 0..MaxFaults

LEMMA ProseType == \A s \in Scripts : Of(s).prose \subseteq Contents
  BY DEF Of, Scripts, Contents, B0, B0Prose, B0M, B0MProse, LLMB, LLMBProse, Judge, JudgeProse,
         Proxy, ProxyProse, Diag, K8sgpt, K8sgptProse, Kagent, KagentProse, PT, Fair, B2a,
         B2aProse, B2b, B2ma, B2maProse, B2mb

LEMMA NoneType == None \in [Cells -> Contents]
  BY DEF None, Contents

LEMMA JobFacts ==
  ASSUME Shape, NEW j \in jobs
  PROVE  /\ j \in JobType /\ j.cell \in Cells /\ j.holds \in Contents \union {"abort"}
         /\ j.step \in Steps /\ Writable(j) /\ up /\ table = "no"
  BY DEF Shape, Fine, JobType

LEMMA GoOnShape ==
  ASSUME Shape, NEW j \in jobs, NEW step \in Steps, NEW content \in Contents \union {"abort"},
         step # "clean" => content \in Contents, GoOn(j, step, content), UNCHANGED <<next, script>>
  PROVE  Fine(jobs', next', Workers')
<1> DEFINE k == [j EXCEPT !.step = step, !.holds = content]
<1>1. k \in JobType /\ k.cell = j.cell /\ k.step = step /\ k.holds = content
  BY JobFacts DEF JobType
<1>2. jobs' = (jobs \ {j}) \union {k} /\ Workers' = Workers
  BY DEF GoOn, Workers
<1> HIDE DEF k
<1> QED
  BY <1>1, <1>2, FineGoOn, WorkersType DEF Shape, Writable

LEMMA DropShape ==
  ASSUME Shape, NEW j \in jobs, jobs' = jobs \ {j}, UNCHANGED <<next, script>>
  PROVE  Fine(jobs', next', Workers')
  BY FineDrop, WorkersType DEF Shape, Workers

LEMMA ExitShape ==
  ASSUME Shape, Exit, UNCHANGED <<next, script>>
  PROVE  Fine(jobs', next', Workers')
  BY FineNone, WorkersType DEF Shape, Exit, Workers

LEMMA InitShape == Init => Shape
<1> SUFFICES ASSUME Init PROVE Shape
  OBVIOUS
<1>1. Fine(jobs, next, Workers)
  BY FineNone, WorkersType DEF Init
<1>2. 1 \in 1..(NCells + 1) /\ 0 \in 0..MaxFaults /\ script \in Scripts
  BY ReplayAssumption DEF Init
<1> QED
  BY <1>1, <1>2, NoneType DEF Init, Shape, Namespaces

LEMMA FaultType ==
  ASSUME Shape, Fault \/ UNCHANGED faults
  PROVE  faults' \in 0..MaxFaults
  BY ReplayAssumption DEF Shape, Fault

LEMMA LoopShape ==
  ASSUME Shape, NEW c \in Cells, Reuse(c) \/ Drop(c) \/ Trip(c) \/ Take(c)
  PROVE  Shape'
<1>1. up /\ table = "no" /\ c = next /\ Cardinality(jobs) < Workers
  BY DEF Reuse, Drop, Trip, Take, Comes
<1>2. next + 1 \in 1..(NCells + 1)
  BY <1>1, ReplayAssumption DEF Cells
<1>3. CASE Reuse(c)
  <2>1. Fine(jobs', next', Workers')
    BY <1>1, <1>3, FineLater DEF Shape, Reuse, Workers
  <2>2. RowOf(Stored(c)) \in Contents
    BY DEF Shape, RowOf, Stored, Contents
  <2>3. rows' \in [Cells -> Contents]
    BY <1>3, <2>2 DEF Reuse, Shape
  <2> QED
    BY <1>1, <1>2, <1>3, <2>1, <2>3 DEF Reuse, Shape
<1>4. CASE Drop(c)
  <2>1. Fine(jobs', next', Workers')
    BY <1>1, <1>4, FineLater DEF Shape, Drop, Workers
  <2> QED
    BY <1>1, <1>2, <1>4, <2>1 DEF Drop, Shape, Contents
<1>5. CASE Trip(c)
  <2>1. Fine(jobs', next', Workers')
    BY <1>5, ExitShape DEF Trip
  <2> QED
    BY <1>5, <2>1 DEF Trip, Exit, Shape
<1>6. CASE Take(c)
  <2> DEFINE k == [cell |-> c, step |-> IF OwnsNamespaces THEN "prepare" ELSE "ask",
                   holds |-> "absent"]
  <2>1. k \in JobType /\ k.cell = next /\ Writable(k)
    BY <1>1 DEF JobType, Steps, Contents, Writable
  <2>2. jobs' = jobs \union {k} /\ next' = next + 1 /\ Workers' = Workers
    BY <1>6 DEF Take, Workers
  <2> HIDE DEF k
  <2>3. Fine(jobs', next', Workers')
    BY <1>1, <2>1, <2>2, FineTake, WorkersType DEF Shape
  <2> QED
    BY <1>1, <1>2, <1>6, <2>3 DEF Take, Shape
<1> QED
  BY <1>3, <1>4, <1>5, <1>6

LEMMA CellShape ==
  ASSUME Shape, NEW j \in jobs, CellStep(j)
  PROVE  Shape'
<1>1. /\ j \in JobType /\ j.cell \in Cells /\ j.step \in Steps /\ Writable(j)
      /\ j.holds \in Contents \union {"abort"} /\ up /\ table = "no"
  BY JobFacts
<1>2. /\ {"ask", "truncate", "fill", "clean"} \subseteq Steps
      /\ {"absent", "answer", "failed"} \subseteq Contents
  BY DEF Steps, Contents
<1>3. UNCHANGED <<script, next, table, csv>>
  BY DEF CellStep, DeleteOld, CreateNamespace, CreateFails, Deploy, Answered, Prose, Outage,
         Truncate, Fill, Clean
<1>4. faults' \in 0..MaxFaults
  <2>1. Fault \/ UNCHANGED faults
    BY DEF CellStep, DeleteOld, CreateNamespace, CreateFails, Deploy, Answered, Prose,
           Outage, Truncate, Fill, Clean
  <2> QED
    BY <2>1, FaultType
<1>5. env' \in [Cells -> Namespaces]
  <2>1. env' = env \/ \E n \in Namespaces : Namespace(j.cell, n)
    <3>1. env[j.cell] \in Namespaces /\ {"none", "loaded", "left", "going"} \subseteq Namespaces
      BY <1>1 DEF Shape, Namespaces
    <3>2. CASE Clean(j)
      BY <3>1, <3>2 DEF Clean
    <3>3. CASE Deploy(j)
      BY <3>1, <3>3 DEF Deploy
    <3>4. CASE DeleteOld(j) \/ CreateNamespace(j)
      BY <3>1, <3>4 DEF DeleteOld, CreateNamespace
    <3>5. CASE CreateFails(j) \/ Answered(j) \/ Prose(j) \/ Outage(j) \/ Truncate(j) \/ Fill(j)
      BY <3>5 DEF CreateFails, Answered, Prose, Outage, Truncate, Fill
    <3> QED
      BY <3>2, <3>3, <3>4, <3>5 DEF CellStep
  <2> QED
    BY <1>1, <2>1 DEF Namespace, Shape
<1>6. file' \in [Cells -> Contents]
  <2>1. CASE Truncate(j)
    BY <1>1, <2>1 DEF Truncate, Shape, Contents
  <2>2. CASE Fill(j)
    <3>1. j.holds \in Contents
      BY <1>1, <2>2 DEF Fill, Writable
    <3> QED
      BY <1>1, <2>2, <3>1 DEF Fill, Shape
  <2>3. CASE ~Truncate(j) /\ ~Fill(j)
    BY <2>3 DEF CellStep, DeleteOld, CreateNamespace, CreateFails, Deploy, Answered, Prose, Outage,
                Clean, Shape
  <2> QED
    BY <2>1, <2>2, <2>3
<1>7. ASSUME NEW content \in Contents, Got(j, content)
      PROVE  Fine(jobs', next', Workers') /\ rows' \in [Cells -> Contents]
  <2>1. CASE script = "proxy"
    BY <1>1, <1>3, <1>7, <2>1, DropShape DEF Got, Shape
  <2>2. CASE script # "proxy"
    BY <1>2, <1>3, <1>7, <2>2, GoOnShape DEF Got, Shape
  <2> QED
    BY <2>1, <2>2
<1>8. ASSUME GiveUp(j)
      PROVE  Fine(jobs', next', Workers') /\ rows' \in [Cells -> Contents]
  BY <1>1, <1>2, <1>3, <1>8, DropShape DEF GiveUp, Shape
<1>9. ASSUME Raise(j)
      PROVE  /\ Fine(jobs', next', Workers') /\ rows' \in [Cells -> Contents]
             /\ up' \in BOOLEAN /\ (~up' => jobs' = {})
  <2>1. CASE script \in Replayers
    BY <1>1, <1>2, <1>3, <1>9, <2>1, GoOnShape DEF Raise, Shape
  <2>2. CASE script \notin Replayers
    BY <1>3, <1>9, <2>2, ExitShape DEF Raise, Shape, Exit
  <2> QED
    BY <2>1, <2>2
<1>10. /\ Fine(jobs', next', Workers') /\ rows' \in [Cells -> Contents]
       /\ up' \in BOOLEAN /\ (~up' => jobs' = {})
  <2>1. CASE DeleteOld(j)
    BY <1>1, <2>1 DEF DeleteOld, Shape, Workers
  <2>2. CASE CreateNamespace(j)
    BY <1>1, <1>2, <2>2, GoOnShape DEF CreateNamespace, Shape
  <2>3. CASE CreateFails(j)
    BY <1>1, <2>3, DropShape DEF CreateFails, Shape
  <2>4. CASE Deploy(j)
    BY <1>1, <1>2, <2>4, DropShape, GoOnShape DEF Deploy, Shape
  <2>5. CASE Answered(j)
    BY <1>1, <1>2, <1>7, <2>5 DEF Answered
  <2>6. CASE Prose(j)
    <3>1. PICK content \in Of(script).prose :
            IF content = "absent" THEN GiveUp(j) ELSE Got(j, content)
      BY <2>6 DEF Prose
    <3>2. content \in Contents
      BY <3>1, ProseType DEF Shape
    <3> QED
      BY <1>1, <1>7, <1>8, <2>6, <3>1, <3>2 DEF Prose
  <2>7. CASE Outage(j)
    <3>1. PICK reply \in BadReplies, n \in 1..MaxOutage :
            IF Survives(script, reply, n) THEN Got(j, "answer") /\ UNCHANGED up
            ELSE Fails(j, reply)
      BY <2>7 DEF Outage
    <3>2. \/ (Got(j, "answer") \/ Got(j, "failed") \/ GiveUp(j)) /\ UNCHANGED up
          \/ Raise(j)
      BY <3>1 DEF Fails
    <3> QED
      BY <1>1, <1>2, <1>7, <1>8, <1>9, <3>2
  <2>8. CASE Truncate(j)
    <3>1. j.holds \in Contents
      BY <1>1, <2>8 DEF Truncate, Writable
    <3> QED
      BY <1>1, <1>2, <2>8, <3>1, GoOnShape DEF Truncate, Shape
  <2>9. CASE Fill(j)
    <3>1. j.holds \in Contents
      BY <1>1, <2>9 DEF Fill, Writable
    <3>2. rows' \in [Cells -> Contents]
      BY <1>1, <2>9, <3>1 DEF Fill, Shape
    <3>3. Fine(jobs', next', Workers')
      BY <1>2, <1>3, <2>9, <3>1, GoOnShape, DropShape DEF Fill
    <3> QED
      BY <1>1, <2>9, <3>2, <3>3 DEF Fill
  <2>10. CASE Clean(j)
    <3>1. Fine(jobs', next', Workers')
      BY <1>3, <2>10, ExitShape, DropShape DEF Clean
    <3> QED
      BY <1>1, <2>10, <3>1 DEF Clean, Exit, Shape
  <2> QED
    BY <2>1, <2>2, <2>3, <2>4, <2>5, <2>6, <2>7, <2>8, <2>9, <2>10 DEF CellStep
<1> QED
  BY <1>1, <1>3, <1>4, <1>5, <1>6, <1>10 DEF Shape

LEMMA StepShape == Shape /\ [Next]_vars => Shape'
<1> SUFFICES ASSUME Shape, [Next]_vars PROVE Shape'
  OBVIOUS
<1>1. CASE UNCHANGED vars
  BY <1>1 DEF vars, Shape, Workers
<1>2. CASE Start
  <2>1. jobs = {} /\ 1 \in 1..(NCells + 1)
    BY <1>2, ReplayAssumption DEF Start, Shape
  <2>2. Fine(jobs', next', Workers')
    BY <1>2, <2>1, FineNone, WorkersType DEF Start, Workers
  <2> QED
    BY <1>2, <2>1, <2>2, NoneType DEF Start, Shape
<1>3. CASE Kill
  <2>1. Fine(jobs', next', Workers')
    BY <1>3, ExitShape DEF Kill
  <2>2. file' \in [Cells -> Contents]
    BY <1>3 DEF Kill, Shape, Contents
  <2>3. csv' \in [Cells -> Contents]
    BY <1>3 DEF Kill, Shape, Contents
  <2>4. env' \in [Cells -> Namespaces]
    BY <1>3 DEF Kill, Shape, Namespaces
  <2> QED
    BY <1>3, <2>1, <2>2, <2>3, <2>4, FaultType DEF Kill, Exit, Shape
<1>4. ASSUME NEW c \in Cells, Reuse(c) \/ Drop(c) \/ Trip(c) \/ Take(c) PROVE Shape'
  BY <1>4, LoopShape
<1>5. ASSUME NEW j \in jobs, CellStep(j) PROVE Shape'
  BY <1>5, CellShape
<1>6. CASE Finish
  <2>1. Fine(jobs', next', Workers')
    BY <1>6, ExitShape DEF Finish
  <2> QED
    BY <1>6, <2>1 DEF Finish, Exit, Shape
<1>7. CASE OpenTable
  <2>1. jobs = {} /\ Fine(jobs', next', Workers')
    BY <1>7 DEF OpenTable, AtEnd, OverBudget, Shape, Workers
  <2>2. faults' \in 0..MaxFaults
    BY <1>7, FaultType DEF OpenTable
  <2>3. csv' \in [Cells -> Contents]
    BY <1>7, NoneType DEF OpenTable, Shape
  <2> QED
    BY <1>7, <2>1, <2>2, <2>3 DEF OpenTable, Shape
<1>8. CASE WriteTable
  <2>1. Fine(jobs', next', Workers')
    BY <1>8, ExitShape DEF WriteTable
  <2> QED
    BY <1>8, <2>1 DEF WriteTable, Exit, Shape
<1>9. ASSUME NEW c \in Cells, Gone(c) PROVE Shape'
  BY <1>9 DEF Gone, Namespace, Namespaces, Shape, Workers
<1> QED
  BY <1>1, <1>2, <1>3, <1>4, <1>5, <1>6, <1>7, <1>8, <1>9 DEF Next, Loop

THEOREM ShapeAlways == Spec => []Shape
<1>1. Init => Shape
  BY InitShape
<1>2. Shape /\ [Next]_vars => Shape'
  BY StepShape
<1> QED
  BY <1>1, <1>2, PTL DEF Spec

\* Every variable keeps its type: no script but the orchestrator works on two cells at
\* once, and what is written to a file or a row is always one of the known contents.
THEOREM TypeCorrect == Spec => []TypeOK
<1>1. Shape => TypeOK
  BY DEF Shape, Fine, TypeOK, JobType, Workers
<1> QED
  BY <1>1, ShapeAlways, PTL

-----------------------------------------------------------------------------
(* A capture is replayed in a namespace of its own.                         *)

Own ==
  script \in Replayers =>
    /\ \A j \in jobs : (env[j.cell] = "loaded") = (j.step # "prepare")
    /\ \A c \in Cells : env[c] = "loaded" => \E j \in jobs : j.cell = c

LEMMA ReplayerFacts ==
  ASSUME script \in Replayers
  PROVE  /\ Workers = 1 /\ OwnsNamespaces /\ script \notin Deployers /\ script # "proxy"
         /\ "absent" \notin Of(script).prose
         /\ \A reply \in BadReplies : Of(script).fails[reply] # "leave"
<1>1. Workers = 1 /\ OwnsNamespaces /\ script \notin Deployers /\ script # "proxy"
  BY DEF Replayers, Deployers, Workers, OwnsNamespaces
<1>2. "absent" \notin Of(script).prose
  BY DEF Replayers, Of, K8sgpt, K8sgptProse, Kagent, KagentProse
<1>3. \A reply \in BadReplies : Of(script).fails[reply] # "leave"
  BY DEF Replayers, Of, K8sgpt, Kagent, AbortOn, Always
<1> QED
  BY <1>1, <1>2, <1>3

LEMMA CellOwn ==
  ASSUME Shape, Own, script \in Replayers, NEW j \in jobs, CellStep(j)
  PROVE  Own'
<1>1. jobs = {j}
  <2>1. Fine(jobs, next, 1)
    BY ReplayerFacts DEF Shape
  <2> QED
    BY <2>1, OneJob
<1>2. /\ j \in JobType /\ j.cell \in Cells
      /\ \A c \in Cells : env[c] = "loaded" => c = j.cell
      /\ (env[j.cell] = "loaded") = (j.step # "prepare")
      /\ env \in [Cells -> Namespaces]
  BY <1>1, JobFacts DEF Own, Shape
<1>3. ASSUME NEW step, NEW content, GoOn(j, step, content), step # "prepare",
             env'[j.cell] = "loaded",
             \A c \in Cells : c # j.cell => env'[c] = env[c]
      PROVE  Own'
  <2> DEFINE k == [j EXCEPT !.step = step, !.holds = content]
  <2>1. jobs' = {k} /\ k.cell = j.cell /\ k.step = step
    BY <1>1, <1>2, <1>3 DEF GoOn, JobType
  <2> HIDE DEF k
  <2> QED
    BY <1>2, <1>3, <2>1 DEF Own
<1>4. ASSUME jobs' = {}, \A c \in Cells : env'[c] # "loaded"
      PROVE  Own'
  BY <1>4 DEF Own
<1>5. CASE DeleteOld(j)
  BY <1>1, <1>2, <1>5 DEF DeleteOld, Namespace, Own
<1>6. CASE CreateNamespace(j)
  <2>1. /\ env'[j.cell] = "loaded" /\ \A c \in Cells : c # j.cell => env'[c] = env[c]
    BY <1>2, <1>6 DEF CreateNamespace, Namespace
  <2> QED
    BY <1>3, <1>6, <2>1 DEF CreateNamespace
<1>7. CASE CreateFails(j)
  BY <1>1, <1>2, <1>4, <1>7 DEF CreateFails
<1>8. CASE Deploy(j)
  BY <1>8, ReplayerFacts DEF Deploy
<1>9. CASE Answered(j) \/ Prose(j) \/ Outage(j)
  <2>1. j.step = "ask" /\ env' = env
    BY <1>9 DEF Answered, Prose, Outage
  <2>2. \/ \E content : GoOn(j, "truncate", content)
        \/ GoOn(j, "clean", "abort")
    <3>1. CASE Answered(j)
      BY <3>1, ReplayerFacts DEF Answered, Got
    <3>2. CASE Prose(j)
      BY <3>2, ReplayerFacts DEF Prose, Got
    <3>3. CASE Outage(j)
      BY <3>3, ReplayerFacts DEF Outage, Got, Fails, Raise
    <3> QED
      BY <1>9, <3>1, <3>2, <3>3
  <2> QED
    BY <1>2, <1>3, <2>1, <2>2
<1>10. CASE Truncate(j)
  BY <1>2, <1>3, <1>10 DEF Truncate
<1>11. CASE Fill(j)
  BY <1>2, <1>3, <1>11, ReplayerFacts DEF Fill
<1>12. CASE Clean(j)
  <2>1. jobs' = {}
    BY <1>1, <1>12 DEF Clean, Exit
  <2>2. \A c \in Cells : env'[c] # "loaded"
    BY <1>2, <1>12 DEF Clean, Namespace
  <2> QED
    BY <1>4, <2>1, <2>2
<1> QED
  BY <1>5, <1>6, <1>7, <1>8, <1>9, <1>10, <1>11, <1>12 DEF CellStep

LEMMA StepOwn == Shape /\ Own /\ [Next]_vars => Own'
<1> SUFFICES ASSUME Shape, Own, [Next]_vars, script' \in Replayers PROVE Own'
  BY DEF Own
<1>1. script \in Replayers
  BY DEF Next, Loop, vars, Start, Kill, Reuse, Drop, Trip, Take, CellStep, DeleteOld,
         CreateNamespace, CreateFails, Deploy, Answered, Prose, Outage, Truncate, Fill, Clean,
         Finish, OpenTable, WriteTable, Gone
<1>2. CASE UNCHANGED vars \/ Start \/ OpenTable
  BY <1>1, <1>2 DEF vars, Start, OpenTable, Own
<1>3. CASE Finish \/ WriteTable
  <2>1. jobs = {} /\ jobs' = {} /\ env' = env
    BY <1>3 DEF Finish, AtEnd, WriteTable, Exit, Shape
  <2> QED
    BY <1>1, <2>1 DEF Own
<1>4. CASE Kill
  BY <1>4 DEF Kill, Exit, Own, Shape
<1>5. ASSUME NEW c \in Cells, Reuse(c) \/ Drop(c) \/ Trip(c) \/ Take(c) PROVE Own'
  <2>1. jobs = {} /\ env' = env
    <3>1. Fine(jobs, next, 1) /\ Cardinality(jobs) < 1
      BY <1>1, <1>5, ReplayerFacts DEF Shape, Reuse, Drop, Trip, Take, Comes
    <3> QED
      BY <1>5, <3>1, NoJob DEF Reuse, Drop, Trip, Take
  <2>2. \A d \in Cells : env'[d] # "loaded"
    BY <1>1, <2>1 DEF Own
  <2>3. \A j \in jobs' : j.cell = c /\ j.step = "prepare"
    BY <1>1, <1>5, <2>1, ReplayerFacts DEF Reuse, Drop, Trip, Exit, Take
  <2> QED
    BY <1>5, <2>2, <2>3 DEF Own
<1>6. ASSUME NEW j \in jobs, CellStep(j) PROVE Own'
  BY <1>1, <1>6, CellOwn
<1>7. ASSUME NEW c \in Cells, Gone(c) PROVE Own'
  <2>1. \A d \in Cells : (env'[d] = "loaded") = (env[d] = "loaded")
    BY <1>7 DEF Gone, Namespace, Shape
  <2>2. jobs' = jobs /\ \A j \in jobs : j.cell \in Cells
    BY <1>7, JobFacts DEF Gone
  <2> QED
    BY <1>1, <2>1, <2>2 DEF Own
<1> QED
  BY <1>2, <1>3, <1>4, <1>5, <1>6, <1>7 DEF Next, Loop

\* k8sgpt-replay.py and kagent-replay.py look at a capture in a namespace that this run
\* made for it, and hold it no longer than they work on it (process_one(), finally).
THEOREM OwnNamespaceAlways == Spec => []OwnNamespace
<1>1. Init => Own
  BY DEF Init, Own
<1>2. Shape /\ Own /\ [Next]_vars => Own'
  BY StepOwn
<1>3. Own => OwnNamespace
  BY DEF Own, OwnNamespace
<1> QED
  BY <1>1, <1>2, <1>3, ShapeAlways, PTL DEF Spec

-----------------------------------------------------------------------------
(* A diagnosis on the disk is not asked for again, so it is never overwritten. *)

Unasked ==
  script \in Resuming => \A j \in jobs : j.step # "clean" => file[j.cell] # "answer"

LEMMA ResumingFacts ==
  ASSUME script \in Resuming
  PROVE  /\ Of(script).opens["answer"] \in {"row", "skip"} /\ script # "proxy"
         /\ Of(script).table => Of(script).opens["answer"] = "row"
         /\ Of(script).table => ~OwnsNamespaces
<1>1. Of(script).opens["answer"] \in {"row", "skip"} /\ script # "proxy"
  BY DEF Resuming, Of, Contents, Afresh, Kept, B0, B0Opens, B0M, B0MOpens, LLMB, LLMBOpens, Judge,
         Diag, DiagOpens, K8sgpt, K8sgptOpens, Kagent, KagentOpens
<1>2. Of(script).table => Of(script).opens["answer"] = "row"
  BY DEF Resuming, Of, Contents, Afresh, Kept, B0, B0Opens, B0M, B0MOpens, LLMB, LLMBOpens, Judge,
         Diag, K8sgpt, Kagent
<1>3. Of(script).table => ~OwnsNamespaces
  BY DEF Resuming, Of, Diag, K8sgpt, Kagent, OwnsNamespaces, Replayers, Deployers
<1> QED
  BY <1>1, <1>2, <1>3

\* What a step makes of the job it is about.
LEMMA CellJobs ==
  ASSUME Shape, script \in Resuming, NEW j \in jobs, CellStep(j), NEW k \in jobs'
  PROVE  \/ k \in jobs /\ k # j
         \/ k.cell = j.cell /\ k.step = "clean"
         \/ k.cell = j.cell /\ file'[j.cell] = "empty"
         \/ k.cell = j.cell /\ file' = file /\ j.step # "clean"
<1>1. j \in JobType /\ j.cell \in Cells
  BY JobFacts
<1>2. ASSUME NEW step, NEW content, GoOn(j, step, content)
      PROVE  \/ k \in jobs /\ k # j
             \/ k.cell = j.cell /\ k.step = step
  <2> DEFINE i == [j EXCEPT !.step = step, !.holds = content]
  <2>1. i.cell = j.cell /\ i.step = step
    BY <1>1 DEF JobType
  <2>2. k \in (jobs \ {j}) \union {i}
    BY <1>2 DEF GoOn
  <2> HIDE DEF i
  <2> QED
    BY <2>1, <2>2
<1>3. CASE DeleteOld(j) \/ CreateNamespace(j) \/ CreateFails(j) \/ Deploy(j)
  <2>1. file' = file /\ j.step # "clean"
    BY <1>3 DEF DeleteOld, CreateNamespace, CreateFails, Deploy
  <2>2. jobs' = jobs \/ jobs' = jobs \ {j} \/ \E step, content : GoOn(j, step, content)
    BY <1>3 DEF DeleteOld, CreateNamespace, CreateFails, Deploy
  <2> QED
    BY <1>2, <2>1, <2>2
<1>4. CASE Answered(j) \/ Prose(j) \/ Outage(j)
  <2>1. file' = file /\ j.step # "clean"
    BY <1>4 DEF Answered, Prose, Outage
  <2>2. jobs' = {} \/ jobs' = jobs \ {j} \/ \E step, content : GoOn(j, step, content)
    BY <1>4 DEF Answered, Prose, Outage, Got, GiveUp, Fails, Raise, Exit
  <2> QED
    BY <1>2, <2>1, <2>2
<1>5. CASE Truncate(j)
  <2>1. file'[j.cell] = "empty"
    BY <1>1, <1>5 DEF Truncate, Shape
  <2> QED
    BY <1>2, <1>5, <2>1 DEF Truncate
<1>6. CASE Fill(j)
  BY <1>2, <1>6 DEF Fill
<1>7. CASE Clean(j)
  BY <1>7 DEF Clean, Exit
<1> QED
  BY <1>3, <1>4, <1>5, <1>6, <1>7 DEF CellStep

LEMMA CellFile ==
  ASSUME Shape, NEW j \in jobs, CellStep(j), NEW c \in Cells, c # j.cell \/ j.step = "clean"
  PROVE  file'[c] = file[c]
<1>1. j.cell \in Cells
  BY JobFacts
<1> QED
  BY <1>1 DEF Shape, CellStep, DeleteOld, CreateNamespace, CreateFails, Deploy, Answered, Prose,
              Outage, Truncate, Fill, Clean

LEMMA StepFile ==
  ASSUME Shape, Unasked, [Next]_vars, script \in Resuming, NEW c \in Cells, file[c] = "answer"
  PROVE  file'[c] = "answer"
<1>1. CASE UNCHANGED vars \/ Start \/ Finish \/ OpenTable \/ WriteTable
  BY <1>1 DEF vars, Start, Finish, OpenTable, WriteTable
<1>2. CASE Kill
  <2>1. ~\E j \in jobs : j.cell = c /\ j.step = "fill"
    BY DEF Unasked
  <2> QED
    BY <1>2, <2>1 DEF Kill
<1>3. ASSUME NEW d \in Cells, Reuse(d) \/ Drop(d) \/ Trip(d) \/ Take(d)
      PROVE  file'[c] = "answer"
  <2>1. CASE Drop(d)
    <3>1. d # c
      BY <2>1, ResumingFacts DEF Drop, Opens, Stored
    <3> QED
      BY <2>1, <3>1 DEF Drop, Shape
  <2> QED
    BY <1>3, <2>1 DEF Reuse, Trip, Take
<1>4. ASSUME NEW j \in jobs, CellStep(j)
      PROVE  file'[c] = "answer"
  <2>1. c # j.cell \/ j.step = "clean"
    BY DEF Unasked
  <2> QED
    BY <1>4, <2>1, CellFile
<1>5. ASSUME NEW d \in Cells, Gone(d)
      PROVE  file'[c] = "answer"
  BY <1>5 DEF Gone
<1> QED
  BY <1>1, <1>2, <1>3, <1>4, <1>5 DEF Next, Loop

LEMMA SameScript == [Next]_vars => script' = script
  BY DEF Next, Loop, vars, Start, Kill, Reuse, Drop, Trip, Take, CellStep, DeleteOld,
         CreateNamespace, CreateFails, Deploy, Answered, Prose, Outage, Truncate, Fill, Clean,
         Finish, OpenTable, WriteTable, Gone

LEMMA StepUnasked == Shape /\ Unasked /\ [Next]_vars => Unasked'
<1> SUFFICES ASSUME Shape, Unasked, [Next]_vars, script' \in Resuming,
                    NEW k \in jobs', k.step # "clean"
             PROVE  file'[k.cell] # "answer"
  BY DEF Unasked
<1>1. script \in Resuming
  BY SameScript
<1>2. CASE UNCHANGED vars \/ Start \/ OpenTable \/ \E d \in Cells : Reuse(d) \/ Gone(d)
  <2>1. jobs' = jobs /\ file' = file
    BY <1>2 DEF vars, Start, OpenTable, Reuse, Gone
  <2> QED
    BY <1>1, <2>1 DEF Unasked
<1>3. CASE Finish \/ WriteTable \/ Kill \/ \E d \in Cells : Trip(d)
  BY <1>3 DEF Finish, WriteTable, Kill, Trip, Exit
<1>4. ASSUME NEW d \in Cells, Drop(d)
      PROVE  file'[k.cell] # "answer"
  <2>1. k \in jobs /\ k.cell \in Cells
    BY <1>4, JobFacts DEF Drop
  <2> QED
    BY <1>1, <1>4, <2>1 DEF Drop, Unasked, Shape
<1>5. ASSUME NEW d \in Cells, Take(d)
      PROVE  file'[k.cell] # "answer"
  <2>1. file[d] # "answer"
    BY <1>1, <1>5, ResumingFacts DEF Take, Opens, Stored
  <2>2. k \in jobs \/ k.cell = d
    BY <1>5 DEF Take
  <2> QED
    BY <1>1, <1>5, <2>1, <2>2 DEF Take, Unasked
<1>6. ASSUME NEW j \in jobs, CellStep(j)
      PROVE  file'[k.cell] # "answer"
  <2>1. CASE k \in jobs /\ k # j
    <3>1. k.cell # j.cell /\ k.cell \in Cells
      BY <2>1, JobFacts DEF Shape, Fine
    <3>2. file'[k.cell] = file[k.cell]
      BY <1>6, <3>1, CellFile
    <3> QED
      BY <1>1, <2>1, <3>2 DEF Unasked
  <2>2. CASE k.cell = j.cell /\ file' = file /\ j.step # "clean"
    BY <1>1, <2>2 DEF Unasked
  <2> QED
    BY <1>1, <1>6, <2>1, <2>2, CellJobs
<1> QED
  BY <1>2, <1>3, <1>4, <1>5, <1>6 DEF Next, Loop

LEMMA UnaskedAlways == Spec => []Unasked
<1>1. Init => Unasked
  BY DEF Init, Unasked
<1>2. Shape /\ Unasked /\ [Next]_vars => Unasked'
  BY StepUnasked
<1> QED
  BY <1>1, <1>2, ShapeAlways, PTL DEF Spec

\* Whatever is killed, fails and is started anew, none of the scripts that resume loses a
\* diagnosis that is on the disk ("existing valid outputs are skipped").
THEOREM AnswerKeptAlways == Spec => AnswerKept
<1>1. Shape /\ Unasked /\ [Next]_vars =>
        [\A c \in Cells : (script \in Resuming /\ file[c] = "answer") => file'[c] = "answer"]_vars
  BY StepFile
<1> QED
  BY <1>1, ShapeAlways, UnaskedAlways, PTL DEF Spec, AnswerKept

-----------------------------------------------------------------------------
(* The rows a process holds miss no diagnosis of the cells it has passed.    *)

Listed ==
  (script \in Resuming /\ Of(script).table) =>
    /\ \A j \in jobs : j.step # "clean"
    /\ up => \A c \in Cells :
               (c < next /\ file[c] = "answer" /\ \A j \in jobs : j.cell # c) => rows[c] = "answer"

LEMMA CellListed ==
  ASSUME Shape, Unasked, Listed, script \in Resuming, Of(script).table,
         NEW j \in jobs, CellStep(j), script' = script
  PROVE  Listed'
<1>1. j.cell \in Cells /\ j.step # "clean" /\ file[j.cell] # "answer"
  BY JobFacts DEF Listed, Unasked
<1>2. /\ next' = next /\ ~Clean(j)
      /\ ~OwnsNamespaces /\ script \notin Replayers /\ script \notin Deployers
  <2>1. ~OwnsNamespaces /\ ~Clean(j)
    BY <1>1, ResumingFacts DEF Clean
  <2> QED
    BY <2>1 DEF OwnsNamespaces, CellStep, DeleteOld, CreateNamespace, CreateFails, Deploy, Answered,
                Prose, Outage, Truncate, Fill
<1>3. \A k \in jobs' : k.step # "clean"
  <2>1. ASSUME NEW step, NEW content, GoOn(j, step, content), step # "clean"
        PROVE  \A k \in jobs' : k.step # "clean"
    <3> DEFINE i == [j EXCEPT !.step = step, !.holds = content]
    <3>1. i.step = step
      BY JobFacts DEF JobType
    <3>2. jobs' = (jobs \ {j}) \union {i}
      BY <2>1 DEF GoOn
    <3> HIDE DEF i
    <3> QED
      BY <2>1, <3>1, <3>2 DEF Listed
  <2>2. \/ jobs' \subseteq jobs
        \/ \E step, content : GoOn(j, step, content) /\ step # "clean"
    BY <1>2 DEF CellStep, DeleteOld, CreateNamespace, CreateFails, Deploy, Answered, Prose, Outage,
                Truncate, Fill, Got, GiveUp, Fails, Raise, Exit
  <2> QED
    BY <2>1, <2>2 DEF Listed
<1>4. ASSUME up', NEW c \in Cells, c < next, file'[c] = "answer", \A k \in jobs' : k.cell # c
      PROVE  rows'[c] = "answer"
  <2>1. CASE c # j.cell
    <3>1. file[c] = "answer"
      BY <1>4, <2>1, CellFile
    <3>2. \A i \in jobs : i # j => i \in jobs'
      BY <1>2, <1>4 DEF CellStep, DeleteOld, CreateNamespace, CreateFails, Deploy, Answered, Prose,
                        Outage, Truncate, Fill, Got, GoOn, GiveUp, Fails, Raise, Exit
    <3>3. \A i \in jobs : i.cell # c
      BY <1>4, <2>1, <3>2
    <3>4. up
      BY JobFacts
    <3>5. rows[c] = "answer"
      BY <1>4, <3>1, <3>3, <3>4 DEF Listed
    <3>6. rows'[c] = rows[c]
      BY <1>1, <1>2, <2>1 DEF Shape, CellStep, DeleteOld, CreateNamespace, CreateFails, Deploy,
           Answered, Prose, Outage, Truncate, Fill, Got, GiveUp, Fails, Raise
    <3> QED
      BY <3>5, <3>6
  <2>2. CASE c = j.cell
    <3>1. CASE Fill(j)
      BY <1>1, <1>4, <2>2, <3>1 DEF Fill, Shape
    <3>2. CASE Truncate(j)
      BY <1>1, <1>4, <2>2, <3>2 DEF Truncate, Shape
    <3>3. CASE ~Fill(j) /\ ~Truncate(j)
      <4>1. file' = file
        BY <1>2, <3>3 DEF CellStep, DeleteOld, CreateNamespace, CreateFails, Deploy, Answered,
                          Prose, Outage
      <4> QED
        BY <1>1, <1>4, <2>2, <4>1
    <3> QED
      BY <3>1, <3>2, <3>3
  <2> QED
    BY <2>1, <2>2
<1> QED
  BY <1>2, <1>3, <1>4 DEF Listed

LEMMA StepListed == Shape /\ Unasked /\ Listed /\ [Next]_vars => Listed'
<1> SUFFICES ASSUME Shape, Unasked, Listed, [Next]_vars, script' \in Resuming, Of(script)'.table
             PROVE  Listed'
  BY DEF Listed
<1>1. script' = script /\ script \in Resuming /\ Of(script).table
  BY SameScript DEF Of
<1>2. CASE UNCHANGED vars
  BY <1>1, <1>2 DEF vars, Listed
<1>3. CASE Start
  <2>1. \A c \in Cells : ~(c < 1)
    BY ReplayAssumption DEF Cells
  <2> QED
    BY <1>1, <1>3, <2>1 DEF Start, Listed, Shape
<1>4. CASE Finish \/ WriteTable \/ Kill \/ \E d \in Cells : Trip(d)
  <2>1. ~up' /\ jobs' = {}
    BY <1>4 DEF Finish, WriteTable, Kill, Trip, Exit
  <2> QED
    BY <2>1 DEF Listed
<1>5. CASE OpenTable
  BY <1>1, <1>5 DEF OpenTable, Listed
<1>6. ASSUME NEW d \in Cells, Gone(d) PROVE Listed'
  BY <1>1, <1>6 DEF Gone, Listed
<1>7. ASSUME NEW d \in Cells, Reuse(d) \/ Drop(d) \/ Take(d) PROVE Listed'
  <2>1. up /\ d = next /\ next' = next + 1
    BY <1>7 DEF Reuse, Drop, Take, Comes
  <2>2. \A c \in Cells : c < next' => c < next \/ c = d
    BY <2>1, ReplayAssumption DEF Cells, Shape
  <2>3. CASE Reuse(d)
    <3>1. file[d] = "answer" => rows'[d] = "answer"
      BY <1>1, <2>3, ResumingFacts DEF Reuse, Opens, Stored, RowOf, Shape
    <3>2. \A c \in Cells : c # d => rows'[c] = rows[c]
      BY <2>3 DEF Reuse, Shape
    <3> QED
      BY <1>1, <2>1, <2>2, <2>3, <3>1, <3>2 DEF Reuse, Listed
  <2>4. CASE Drop(d)
    <3>1. file'[d] # "answer" /\ \A c \in Cells : c # d => file'[c] = file[c]
      BY <2>4 DEF Drop, Shape
    <3> QED
      BY <1>1, <2>1, <2>2, <2>4, <3>1 DEF Drop, Listed
  <2>5. CASE Take(d)
    <3> DEFINE i == [cell |-> d, step |-> IF OwnsNamespaces THEN "prepare" ELSE "ask",
                     holds |-> "absent"]
    <3>1. i.cell = d /\ i.step # "clean" /\ jobs' = jobs \union {i}
      BY <2>5 DEF Take
    <3> HIDE DEF i
    <3> QED
      BY <1>1, <2>1, <2>2, <2>5, <3>1 DEF Take, Listed
  <2> QED
    BY <1>7, <2>3, <2>4, <2>5
<1>8. ASSUME NEW j \in jobs, CellStep(j) PROVE Listed'
  BY <1>1, <1>8, CellListed
<1> QED
  BY <1>2, <1>3, <1>4, <1>5, <1>6, <1>7, <1>8 DEF Next, Loop

\* A table that a script writes in full has a row for every diagnosis on the disk, those of
\* earlier and of killed runs included.
THEOREM TableCompleteAlways == Spec => TableComplete
<1>1. Init => Listed
  BY DEF Init, Listed
<1>2. Shape /\ Unasked /\ Listed /\ [Next]_vars => Listed'
  BY StepListed
<1>3. Shape /\ Listed /\ [Next]_vars =>
        [\A c \in Cells :
           (WriteTable /\ script \in Resuming /\ next > NCells /\ file[c] = "answer")
             => csv'[c] = "answer"]_vars
  <2> SUFFICES ASSUME Shape, Listed, NEW c \in Cells,
                      WriteTable, script \in Resuming, next > NCells, file[c] = "answer"
               PROVE  csv'[c] = "answer"
    OBVIOUS
  <2>1. up /\ jobs = {} /\ Of(script).table
    BY DEF WriteTable, Shape
  <2>2. c < next
    BY ReplayAssumption DEF Cells, Shape
  <2>3. rows[c] = "answer"
    BY <2>1, <2>2 DEF Listed
  <2>4. rows # None
    BY <2>3 DEF None
  <2> QED
    BY <2>3, <2>4 DEF WriteTable
<1> QED
  BY <1>1, <1>2, <1>3, ShapeAlways, UnaskedAlways, PTL DEF Spec, TableComplete

=============================================================================
