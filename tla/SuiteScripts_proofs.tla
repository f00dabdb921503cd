------------------------- MODULE SuiteScripts_proofs -------------------------
(***************************************************************************)
(* Theorems about SuiteScripts.tla, for every set of subjects, injected    *)
(* faults and isolations, and for every value of the bounds.               *)
(*                                                                         *)
(* The scripts are literal sequences, so the proofs begin with what each   *)
(* of them asks and where (Good); after that only those facts are used.    *)
(***************************************************************************)
EXTENDS SuiteScripts, TLAPS

(***************************************************************************)
(* The scripts.                                                            *)
(***************************************************************************)
Checks == {"status", "json", "clean", "any", "count", "created", "results"}
Ops == {"health", "read", "html", "log", "mark", "count", "create", "add", "get", "ping",
        "update", "delete"}
Requests == [op : Ops, route : Routes, check : Checks, safe : BOOLEAN]
Sids == {"s2", "s3", "s5"}

\* What a single request of a suite of a subject may be.
Asks(su, sj, c) ==
  /\ c \in Requests
  /\ c.route = "probe" <=> c.op \in {"log", "mark"}
  /\ c.check = "clean" <=> c.op = "log"
  /\ c.check = "count" <=> c.op = "count"
  /\ c.op = "count" => c.route = "api"
  /\ c.op = "create" => c.check = "created" /\ c.route = "api" /\ sj # "s5"
  /\ c.op = "delete" => c.check = "status" /\ c.route = "api"
  /\ c.op = "mark" => c.check = "any"
  /\ c.route = "api" /\ sj # "s5" => c.check \in {"status", "created", "count", "results"}
  /\ c.route = "html" => c.check = "status"
  /\ su = "smoke" => c.safe /\ c.check \in {"status", "json", "any"} /\ c.op \notin NeedId

\* The requests before position i leave an entity of the script behind ...
Holds(q, i) == \E j \in 1..(i - 1) : /\ q[j].op = "create"
                                     /\ \A k \in (j + 1)..(i - 1) : q[k].op # "delete"
\* ... and give it the id of an entity it created.
Made(q, i) == \E j \in 1..(i - 1) : q[j].check = "created"

\* Where in a script its requests stand.
Places(su, q) ==
  /\ \E i \in 1..Len(q) : q[i].op = "mark"
  /\ \A i \in 1..Len(q) :
       /\ su = "e2e" /\ q[i].op = "create" => i > 3
       /\ su = "e2e" /\ q[i].op = "count" => i <= 3
       /\ q[i].check = "count" => ~Holds(q, i)
       /\ q[i].op \in NeedId => Made(q, i)

Good(su, sj, q) ==
  /\ Len(q) \in Nat \ {0}
  /\ \A i \in 1..Len(q) : Asks(su, sj, q[i])
  /\ Places(su, q)

\* The two requests the scripts write in place.
Results == Req("read", "api", "results", FALSE)
AddAny == [Add EXCEPT !.check = "status"]

LEMMA RequestFacts ==
  ASSUME NEW su \in {"regression", "e2e"}, NEW sj \in Sids
  PROVE  /\ Asks(su, sj, Health) /\ Asks(su, sj, Read) /\ Asks(su, sj, Log)
         /\ Asks(su, sj, Mark) /\ Asks(su, sj, Count) /\ Asks(su, sj, Get)
         /\ Asks(su, sj, Ping) /\ Asks(su, sj, Update) /\ Asks(su, sj, Delete)
         /\ Asks(su, sj, Add) /\ Asks(su, sj, AddAny) /\ Asks(su, sj, Results)
         /\ Asks(su, sj, Unsafe(Get))
         /\ sj # "s5" => Asks(su, sj, Create)
         /\ sj = "s5" => Asks(su, sj, Shape) /\ Asks(su, sj, Unsafe(Shape))
BY DEF Asks, Requests, Ops, Checks, Routes, NeedId, Sids, Req, Health, Read, Log, Mark, Count,
       Create, Get, Ping, Update, Delete, Add, AddAny, Results, Unsafe, Shape

LEMMA SmokeFacts ==
  ASSUME NEW sj \in Sids
  PROVE  /\ Asks("smoke", sj, Health) /\ Asks("smoke", sj, SafeMark)
         /\ Asks("smoke", sj, Html) /\ Asks("smoke", sj, Read)
         /\ sj = "s5" => Asks("smoke", sj, Shape)
BY DEF Asks, Requests, Ops, Checks, Routes, NeedId, Sids, Req, Health, Read, Mark, SafeMark,
       Html, Shape

LEMMA SmokeS2Script ==
  ASSUME NEW q, q = Smoke["s2"]
  PROVE  Good("smoke", "s2", q)
<1>1. /\ Len(q) = 4
      /\ q[1] = Health /\ q[2] = Read /\ q[3] = SafeMark /\ q[4] = Html
  BY DEF Smoke
<1>2. \A i \in 1..4 : i \in {1, 2, 3, 4}
  OBVIOUS
<1>3. \A i \in 1..4 : Asks("smoke", "s2", q[i])
  BY <1>1, <1>2, SmokeFacts DEF Sids
<1>4. /\ q[1].op = "health" /\ q[2].op = "read" /\ q[3].op = "mark" /\ q[4].op = "html"
      /\ \A i \in 1..4 : q[i].check = "count" => FALSE
  BY <1>1, <1>2
  DEF Health, Html, Mark, Read, Req, SafeMark
<1>5. Places("smoke", q)
  BY <1>1, <1>2, <1>4 DEF Places, Holds, Made, NeedId
<1> QED BY <1>1, <1>3, <1>5 DEF Good

LEMMA SmokeS3Script ==
  ASSUME NEW q, q = Smoke["s3"]
  PROVE  Good("smoke", "s3", q)
<1>1. /\ Len(q) = 4
      /\ q[1] = Health /\ q[2] = Read /\ q[3] = SafeMark /\ q[4] = Html
  BY DEF Smoke
<1>2. \A i \in 1..4 : i \in {1, 2, 3, 4}
  OBVIOUS
<1>3. \A i \in 1..4 : Asks("smoke", "s3", q[i])
  BY <1>1, <1>2, SmokeFacts DEF Sids
<1>4. /\ q[1].op = "health" /\ q[2].op = "read" /\ q[3].op = "mark" /\ q[4].op = "html"
      /\ \A i \in 1..4 : q[i].check = "count" => FALSE
  BY <1>1, <1>2
  DEF Health, Html, Mark, Read, Req, SafeMark
<1>5. Places("smoke", q)
  BY <1>1, <1>2, <1>4 DEF Places, Holds, Made, NeedId
<1> QED BY <1>1, <1>3, <1>5 DEF Good

LEMMA SmokeS5Script ==
  ASSUME NEW q, q = Smoke["s5"]
  PROVE  Good("smoke", "s5", q)
<1>1. /\ Len(q) = 4
      /\ q[1] = Health /\ q[2] = Shape /\ q[3] = SafeMark /\ q[4] = Html
  BY DEF Smoke
<1>2. \A i \in 1..4 : i \in {1, 2, 3, 4}
  OBVIOUS
<1>3. \A i \in 1..4 : Asks("smoke", "s5", q[i])
  BY <1>1, <1>2, SmokeFacts DEF Sids
<1>4. /\ q[1].op = "health" /\ q[2].op = "read" /\ q[3].op = "mark" /\ q[4].op = "html"
      /\ \A i \in 1..4 : q[i].check = "count" => FALSE
  BY <1>1, <1>2
  DEF Health, Html, Mark, Req, SafeMark, Shape
<1>5. Places("smoke", q)
  BY <1>1, <1>2, <1>4 DEF Places, Holds, Made, NeedId
<1> QED BY <1>1, <1>3, <1>5 DEF Good

LEMMA RegressionS2Script ==
  ASSUME NEW q, q = RegressionS2
  PROVE  Good("regression", "s2", q)
<1>1. /\ Len(q) = 10
      /\ q[1] = Log /\ q[2] = Health /\ q[3] = Results /\ q[4] = Create /\ q[5] = Get
      /\ q[6] = Delete /\ q[7] = AddAny /\ q[8] = Count /\ q[9] = Read /\ q[10] = Mark
  BY DEF RegressionS2, Results, AddAny
<1>2. \A i \in 1..10 : i \in {1, 2, 3, 4, 5, 6, 7, 8, 9, 10}
  OBVIOUS
<1>3. \A i \in 1..10 : Asks("regression", "s2", q[i])
  BY <1>1, <1>2, RequestFacts DEF Sids
<1>4. /\ q[1].op = "log" /\ q[2].op = "health" /\ q[3].op = "read" /\ q[4].op = "create"
      /\ q[5].op = "get" /\ q[6].op = "delete" /\ q[7].op = "add" /\ q[8].op = "count"
      /\ q[9].op = "read" /\ q[10].op = "mark" /\ q[4].check = "created"
      /\ \A i \in 1..10 : q[i].check = "count" => i = 8
  BY <1>1, <1>2
  DEF Add, AddAny, Count, Create, Delete, Get, Health, Log, Mark, Read, Req, Results
<1>5. Places("regression", q)
  BY <1>1, <1>2, <1>4 DEF Places, Holds, Made, NeedId
<1> QED BY <1>1, <1>3, <1>5 DEF Good

LEMMA RegressionS3Script ==
  ASSUME NEW q, q = RegressionS3
  PROVE  Good("regression", "s3", q)
<1>1. /\ Len(q) = 9
      /\ q[1] = Log /\ q[2] = Health /\ q[3] = Read /\ q[4] = Create /\ q[5] = Get
      /\ q[6] = Ping /\ q[7] = Delete /\ q[8] = Count /\ q[9] = Mark
  BY DEF RegressionS3
<1>2. \A i \in 1..9 : i \in {1, 2, 3, 4, 5, 6, 7, 8, 9}
  OBVIOUS
<1>3. \A i \in 1..9 : Asks("regression", "s3", q[i])
  BY <1>1, <1>2, RequestFacts DEF Sids
<1>4. /\ q[1].op = "log" /\ q[2].op = "health" /\ q[3].op = "read" /\ q[4].op = "create"
      /\ q[5].op = "get" /\ q[6].op = "ping" /\ q[7].op = "delete" /\ q[8].op = "count"
      /\ q[9].op = "mark" /\ q[4].check = "created"
      /\ \A i \in 1..9 : q[i].check = "count" => i = 8
  BY <1>1, <1>2
  DEF Count, Create, Delete, Get, Health, Log, Mark, Ping, Read, Req
<1>5. Places("regression", q)
  BY <1>1, <1>2, <1>4 DEF Places, Holds, Made, NeedId
<1> QED BY <1>1, <1>3, <1>5 DEF Good

LEMMA RegressionS5Script ==
  ASSUME NEW q, q = RegressionS5
  PROVE  Good("regression", "s5", q)
<1>1. /\ Len(q) = 10
      /\ q[1] = Log /\ q[2] = Health /\ q[3] = Shape /\ q[4] = Add /\ q[5] = Get
      /\ q[6] = Update /\ q[7] = Delete /\ q[8] = Count /\ q[9] = Shape /\ q[10] = Mark
  BY DEF RegressionS5
<1>2. \A i \in 1..10 : i \in {1, 2, 3, 4, 5, 6, 7, 8, 9, 10}
  OBVIOUS
<1>3. \A i \in 1..10 : Asks("regression", "s5", q[i])
  BY <1>1, <1>2, RequestFacts DEF Sids
<1>4. /\ q[1].op = "log" /\ q[2].op = "health" /\ q[3].op = "read" /\ q[4].op = "add"
      /\ q[5].op = "get" /\ q[6].op = "update" /\ q[7].op = "delete" /\ q[8].op = "count"
      /\ q[9].op = "read" /\ q[10].op = "mark" /\ q[4].check = "created"
      /\ \A i \in 1..10 : q[i].check = "count" => i = 8
  BY <1>1, <1>2
  DEF Add, Count, Delete, Get, Health, Log, Mark, Req, Shape, Update
<1>5. Places("regression", q)
  BY <1>1, <1>2, <1>4 DEF Places, Holds, Made, NeedId
<1> QED BY <1>1, <1>3, <1>5 DEF Good

LEMMA E2ES2Script ==
  ASSUME NEW q, q = E2ES2
  PROVE  Good("e2e", "s2", q)
<1>1. /\ Len(q) = 8
      /\ q[1] = Log /\ q[2] = Count /\ q[3] = Health /\ q[4] = Create /\ q[5] = Add
      /\ q[6] = Get /\ q[7] = Read /\ q[8] = Mark
  BY DEF E2ES2
<1>2. \A i \in 1..8 : i \in {1, 2, 3, 4, 5, 6, 7, 8}
  OBVIOUS
<1>3. \A i \in 1..8 : Asks("e2e", "s2", q[i])
  BY <1>1, <1>2, RequestFacts DEF Sids
<1>4. /\ q[1].op = "log" /\ q[2].op = "count" /\ q[3].op = "health" /\ q[4].op = "create"
      /\ q[5].op = "add" /\ q[6].op = "get" /\ q[7].op = "read" /\ q[8].op = "mark"
      /\ q[4].check = "created" /\ \A i \in 1..8 : q[i].check = "count" => i = 2
  BY <1>1, <1>2
  DEF Add, Count, Create, Get, Health, Log, Mark, Read, Req
<1>5. Places("e2e", q)
  BY <1>1, <1>2, <1>4 DEF Places, Holds, Made, NeedId
<1> QED BY <1>1, <1>3, <1>5 DEF Good

LEMMA E2ES3Script ==
  ASSUME NEW q, q = E2ES3
  PROVE  Good("e2e", "s3", q)
<1>1. /\ Len(q) = 8
      /\ q[1] = Log /\ q[2] = Count /\ q[3] = Health /\ q[4] = Create /\ q[5] = Ping
      /\ q[6] = Unsafe(Get) /\ q[7] = Delete /\ q[8] = Mark
  BY DEF E2ES3
<1>2. \A i \in 1..8 : i \in {1, 2, 3, 4, 5, 6, 7, 8}
  OBVIOUS
<1>3. \A i \in 1..8 : Asks("e2e", "s3", q[i])
  BY <1>1, <1>2, RequestFacts DEF Sids
<1>4. /\ q[1].op = "log" /\ q[2].op = "count" /\ q[3].op = "health" /\ q[4].op = "create"
      /\ q[5].op = "ping" /\ q[6].op = "get" /\ q[7].op = "delete" /\ q[8].op = "mark"
      /\ q[4].check = "created" /\ \A i \in 1..8 : q[i].check = "count" => i = 2
  BY <1>1, <1>2
  DEF Count, Create, Delete, Get, Health, Log, Mark, Ping, Req, Unsafe
<1>5. Places("e2e", q)
  BY <1>1, <1>2, <1>4 DEF Places, Holds, Made, NeedId
<1> QED BY <1>1, <1>3, <1>5 DEF Good

LEMMA E2ES5Script ==
  ASSUME NEW q, q = E2ES5
  PROVE  Good("e2e", "s5", q)
<1>1. /\ Len(q) = 7
      /\ q[1] = Log /\ q[2] = Count /\ q[3] = Health /\ q[4] = Shape /\ q[5] = Add
      /\ q[6] = Unsafe(Shape) /\ q[7] = Mark
  BY DEF E2ES5
<1>2. \A i \in 1..7 : i \in {1, 2, 3, 4, 5, 6, 7}
  OBVIOUS
<1>3. \A i \in 1..7 : Asks("e2e", "s5", q[i])
  BY <1>1, <1>2, RequestFacts DEF Sids
<1>4. /\ q[1].op = "log" /\ q[2].op = "count" /\ q[3].op = "health" /\ q[4].op = "read"
      /\ q[5].op = "add" /\ q[6].op = "read" /\ q[7].op = "mark" /\ q[5].check = "created"
      /\ \A i \in 1..7 : q[i].check = "count" => i = 2
  BY <1>1, <1>2
  DEF Add, Count, Health, Log, Mark, Req, Shape, Unsafe
<1>5. Places("e2e", q)
  BY <1>1, <1>2, <1>4 DEF Places, Holds, Made, NeedId
<1> QED BY <1>1, <1>3, <1>5 DEF Good

\* One more request.
LEMMA HoldsStep ==
  ASSUME NEW q, NEW i \in Nat \ {0}
  PROVE  /\ ~Holds(q, 1) /\ ~Made(q, 1)
         /\ Holds(q, i + 1) <=> \/ q[i].op = "create"
                                \/ q[i].op # "delete" /\ Holds(q, i)
         /\ Made(q, i + 1) <=> Made(q, i) \/ q[i].check = "created"
<1>1. ~Holds(q, 1) /\ ~Made(q, 1)
  BY DEF Holds, Made
<1>2. ASSUME Holds(q, i + 1) PROVE q[i].op = "create" \/ (q[i].op # "delete" /\ Holds(q, i))
  <2>1. PICK j \in 1..i : /\ q[j].op = "create"
                          /\ \A k \in (j + 1)..i : q[k].op # "delete"
    BY <1>2 DEF Holds
  <2>2. CASE j = i
    BY <2>1, <2>2
  <2>3. CASE j < i
    BY <2>1, <2>3 DEF Holds
  <2> QED BY <2>2, <2>3
<1>3. ASSUME q[i].op = "create" PROVE Holds(q, i + 1)
  BY <1>3 DEF Holds
<1>4. ASSUME q[i].op # "delete", Holds(q, i) PROVE Holds(q, i + 1)
  <2>1. PICK j \in 1..(i - 1) : /\ q[j].op = "create"
                                /\ \A k \in (j + 1)..(i - 1) : q[k].op # "delete"
    BY <1>4 DEF Holds
  <2>2. j \in 1..i /\ \A k \in (j + 1)..i : q[k].op # "delete"
    BY <1>4, <2>1
  <2> QED BY <2>1, <2>2 DEF Holds
<1>5. Made(q, i + 1) <=> Made(q, i) \/ q[i].check = "created"
  BY DEF Made
<1> QED BY <1>1, <1>2, <1>3, <1>4, <1>5

\* The stages, and the script of the stage that runs.
StageOf == [smoke |-> 2, regression |-> 4, e2e |-> 6]

LEMMA StageFacts ==
  ASSUME NEW n \in 1..7
  PROVE  /\ Stages[n] \in Suites <=> n \in {2, 4, 6}
         /\ \A s \in Suites : StageOf[s] \in 1..7 /\ (Stages[n] = s <=> n = StageOf[s])
         /\ n = 1 <=> Stages[n] = "deploy"
         /\ n \in {3, 5} <=> Stages[n] = "reset"
         /\ n = 7 <=> Stages[n] = "done"
<1>1. /\ Stages[1] = "deploy" /\ Stages[2] = "smoke" /\ Stages[3] = "reset"
      /\ Stages[4] = "regression" /\ Stages[5] = "reset" /\ Stages[6] = "e2e"
      /\ Stages[7] = "done"
  BY DEF Stages
<1>2. StageOf["smoke"] = 2 /\ StageOf["regression"] = 4 /\ StageOf["e2e"] = 6
  BY DEF StageOf
<1>3. n \in {1, 2, 3, 4, 5, 6, 7}
  OBVIOUS
<1> QED BY <1>1, <1>2, <1>3 DEF Suites

ScriptOf(su, sj) == CASE su = "smoke" -> Smoke[sj]
                      [] su = "regression" -> Regression[sj]
                      [] su = "e2e" -> E2E[sj]

LEMMA ScriptOfIsGood ==
  ASSUME NEW su \in Suites, NEW sj \in Subjects
  PROVE  Good(su, sj, ScriptOf(su, sj))
<1>1. sj \in {"s2", "s3", "s5"}
  BY ScriptsAssumption
<1>2. CASE su = "smoke"
  <2>1. ScriptOf(su, sj) = Smoke[sj]
    BY <1>2 DEF ScriptOf
  <2> QED BY <1>1, <1>2, <2>1, SmokeS2Script, SmokeS3Script, SmokeS5Script
<1>3. CASE su = "regression"
  <2>1. ScriptOf(su, sj) = Regression[sj]
    BY <1>3 DEF ScriptOf
  <2>2. /\ Regression["s2"] = RegressionS2 /\ Regression["s3"] = RegressionS3
        /\ Regression["s5"] = RegressionS5
    BY DEF Regression
  <2> QED BY <1>1, <1>3, <2>1, <2>2, RegressionS2Script, RegressionS3Script, RegressionS5Script
<1>4. CASE su = "e2e"
  <2>1. ScriptOf(su, sj) = E2E[sj]
    BY <1>4 DEF ScriptOf
  <2>2. E2E["s2"] = E2ES2 /\ E2E["s3"] = E2ES3 /\ E2E["s5"] = E2ES5
    BY DEF E2E
  <2> QED BY <1>1, <1>4, <2>1, <2>2, E2ES2Script, E2ES3Script, E2ES5Script
<1> QED BY <1>2, <1>3, <1>4 DEF Suites

\* The same for the running script, before and after a step.
LEMMA ScriptIsGood ==
  /\ Running /\ sid \in Subjects => Good(Suite, sid, Script)
  /\ Running' /\ sid' \in Subjects => Good(Suite', sid', Script')
<1>1. Running => Script = ScriptOf(Suite, sid)
  BY DEF Running, Suites, Script, ScriptOf
<1>2. Running' => Script' = ScriptOf(Suite', sid')
  BY DEF Running, Suites, Script, ScriptOf
<1> QED BY <1>1, <1>2, ScriptOfIsGood DEF Running

LEMMA SameScript ==
  ASSUME UNCHANGED <<stage, sid>>
  PROVE  Suite' = Suite /\ Script' = Script /\ Running' = Running
BY DEF Suite, Script, Running

(***************************************************************************)
(* What the variables range over, and that a request in flight is the one  *)
(* the script stands at.                                                   *)
(***************************************************************************)
Verdicts == {"none", "pass", "fail"}
Pending == {"sent", "forwarded"}
CallsOf(c) == [op : {c.op}, route : {c.route}, st : Pending \cup {"answered"}, kind : Kinds,
               fits : BOOLEAN]

Scalars ==
  /\ sid \in Subjects /\ env \in Envs /\ isolation \in Isolations
  /\ phase \in {"starting", "serving", "down"} /\ app \in {"booting", "up", "hung", "dead"}
  /\ early \in BOOLEAN /\ failed \in BOOLEAN /\ created \in BOOLEAN /\ table \in BOOLEAN
  /\ crashes \in Nat /\ slow \in Nat /\ dberrors \in Nat
  /\ stage \in 1..7 /\ pc \in Nat \ {0}
Outcomes ==
  /\ verdict \in [Suites -> Verdicts] /\ clean \in [Suites -> Verdicts]
  /\ counted \in [Suites -> Verdicts]
Contents ==
  /\ flaked \subseteq Suites /\ log \subseteq Suites /\ entities \subseteq Suites
  /\ known \subseteq Suites /\ late \subseteq Writes \X Suites
CallOK ==
  \/ call = NoCall
  \/ /\ Running /\ pc <= Len(Script)
     /\ call \in CallsOf(Script[pc])
     /\ call.route = "probe" => call.st # "forwarded"
Flow == (Running => pc <= Len(Script) + 1) /\ CallOK

Typed == Scalars /\ Outcomes /\ Contents /\ Flow

LEMMA ForwardedFields ==
  ASSUME NEW c, NEW a \in CallsOf(c), NEW b, b = [a EXCEPT !.st = "forwarded"]
  PROVE  /\ b \in CallsOf(c) /\ b.op = a.op /\ b.route = a.route
         /\ b.st = "forwarded" /\ b.fits = a.fits
BY DEF CallsOf, Pending

\* A request in flight: whose it is, and what kinds of request there are.
LEMMA InFlight ==
  ASSUME Scalars, Flow, call.st # "idle"
  PROVE  /\ Running /\ pc \in 1..Len(Script) /\ call \in CallsOf(Script[pc])
         /\ call.op = Script[pc].op /\ call.route = Script[pc].route
         /\ call.st \in Pending \cup {"answered"} /\ call.kind \in Kinds
         /\ call.fits \in BOOLEAN
         /\ Asks(Suite, sid, Script[pc])
         /\ Suite \in Suites /\ stage = StageOf[Suite]
<1>1. /\ Running /\ pc <= Len(Script) /\ call \in CallsOf(Script[pc])
  BY DEF Flow, CallOK, NoCall
<1>2. pc \in 1..Len(Script) /\ Asks(Suite, sid, Script[pc])
  BY <1>1, ScriptIsGood DEF Scalars, Good
<1>3. /\ call.op = Script[pc].op /\ call.route = Script[pc].route
      /\ call.st \in Pending \cup {"answered"} /\ call.kind \in Kinds
      /\ call.fits \in BOOLEAN
  BY <1>1 DEF CallsOf
<1>4. Suite \in Suites /\ stage = StageOf[Suite]
  BY <1>1, StageFacts DEF Running, Suite, Scalars
<1> QED BY <1>1, <1>2, <1>3, <1>4

\* What the container and the handler do to the request of a script: nothing, or they pass
\* it on, or they answer it themselves.  The probe service is another container.
Answerable == call.st \in Pending /\ call.route # "probe"
Carries ==
  /\ UNCHANGED <<sid, env, scriptVars>>
  /\ crashes' \in Nat /\ crashes <= crashes'
  /\ early' \in BOOLEAN /\ (early => early')
  /\ \/ call' = call
     \/ Answerable /\ call' = [call EXCEPT !.st = "forwarded"]
     \/ /\ Answerable
        /\ \E k \in {"none", "ok", "broken", "proxyError"} :
             call' = Answer(k) /\ (k = "ok" => call.route = "healthz")

LEMMA LifecycleCarries ==
  ASSUME Scalars, Lifecycle, UNCHANGED scriptVars
  PROVE  Carries
<1>1. CASE Boot \/ Crash \/ Hang \/ Restart \/ Open
  BY <1>1 DEF Carries, Scalars, Boot, Crash, Hang, Restart, Open
<1>2. CASE PollSeesExit \/ PollGivesUp \/ ExitWithApp
  <2>1. Exited /\ crashes' \in Nat /\ crashes <= crashes'
    BY <1>2 DEF PollSeesExit, PollGivesUp, ExitWithApp, Scalars
  <2>2. UNCHANGED <<sid, env, early>> /\ early \in BOOLEAN
    BY <2>1 DEF Exited, Scalars
  <2>3. call' = call \/ (Answerable /\ call' = Answer("none"))
    BY <2>1 DEF Exited, Answerable, Pending
  <2> QED BY <2>1, <2>2, <2>3 DEF Carries
<1> QED BY <1>1, <1>2 DEF Lifecycle

LEMMA HandlerCarries ==
  ASSUME Scalars, Refuse \/ Healthz \/ BrokenFrontend \/ Forward \/ ProxyError,
         UNCHANGED scriptVars
  PROVE  Carries
<1>1. Answerable
  BY DEF Refuse, Healthz, BrokenFrontend, Forward, ProxyError, Arrived, Upstream, Answerable,
         Pending
<1>2. UNCHANGED <<sid, env, crashes>> /\ crashes \in Nat
  BY DEF Scalars, Refuse, Healthz, BrokenFrontend, Forward, ProxyError, Answered
<1>3. early' = early \/ early' = (early \/ app = "booting")
  BY DEF Refuse, Healthz, BrokenFrontend, Forward, ProxyError, Answered
<1>4. early' \in BOOLEAN /\ (early => early')
  BY <1>3 DEF Scalars
<1>5. \/ call' = [call EXCEPT !.st = "forwarded"]
      \/ \E k \in {"none", "ok", "broken", "proxyError"} :
           call' = Answer(k) /\ (k = "ok" => call.route = "healthz")
  BY DEF Refuse, Healthz, BrokenFrontend, Forward, ProxyError, Answered
<1> QED BY <1>1, <1>2, <1>4, <1>5 DEF Carries

\* What an answer passes, check by check.
LEMMA PassesFacts ==
  ASSUME NEW c, c.check \in Checks, NEW kind, NEW fits \in BOOLEAN
  PROVE  LET p == Passes(c, [kind |-> kind, fits |-> fits])
         IN  /\ c.check = "status" => p = (kind \in {"ok", "torn"})
             /\ c.check \in {"created", "results"} => p = (kind = "ok")
             /\ c.check = "count" => p = (kind = "ok" /\ fits)
             /\ c.check = "clean" => p = fits
             /\ c.check \in {"json", "any"} => p = TRUE
             /\ p \in BOOLEAN
<1>1. CASE c.check = "status"
  BY <1>1 DEF Passes
<1>2. CASE c.check \in {"created", "results"}
  BY <1>2 DEF Passes
<1>3. CASE c.check = "count"
  BY <1>3 DEF Passes
<1>4. CASE c.check = "clean"
  BY <1>4 DEF Passes
<1>5. CASE c.check \in {"json", "any"}
  BY <1>5 DEF Passes
<1> QED BY <1>1, <1>2, <1>3, <1>4, <1>5 DEF Checks

\* Flow at the beginning of a stage, and after a step that only answers or passes on.
LEMMA FreshFlow ==
  ASSUME sid' \in Subjects, call' = NoCall, pc' = 1
  PROVE  Flow'
BY ScriptIsGood DEF Flow, CallOK, Good

LEMMA SameFlow ==
  ASSUME Scalars, Flow, UNCHANGED <<stage, pc, sid>>,
         \/ call' = call
         \/ /\ call.st # "idle" /\ call' \in CallsOf(Script[pc])
            /\ call.route = "probe" => call'.st # "forwarded"
  PROVE  Flow'
<1>1. Suite' = Suite /\ Script' = Script /\ Running' = Running
  BY SameScript
<1>2. CASE call' = call
  BY <1>1, <1>2 DEF Flow, CallOK
<1>3. CASE /\ call.st # "idle" /\ call' \in CallsOf(Script[pc])
           /\ call.route = "probe" => call'.st # "forwarded"
  <2>1. call'.route = call.route
    BY <1>3, InFlight DEF CallsOf
  <2> QED BY <1>1, <1>3, <2>1, InFlight DEF Flow, CallOK
<1> QED BY <1>2, <1>3

\* An answer keeps the request.
LEMMA AnsweredFlow ==
  ASSUME Scalars, Flow, UNCHANGED <<stage, pc, sid>>, call.st # "idle",
         NEW k \in Kinds, NEW f \in BOOLEAN,
         \/ call' = Answer(k)
         \/ call' = [call EXCEPT !.st = "answered", !.kind = k, !.fits = f]
  PROVE  /\ Flow' /\ call'.st = "answered" /\ call'.kind = k
         /\ call'.op = call.op /\ call'.route = call.route
         /\ call'.fits = call.fits \/ call'.fits = f
<1>1. call \in CallsOf(Script[pc])
  BY InFlight
<1>2. /\ call' \in CallsOf(Script[pc]) /\ call'.st = "answered" /\ call'.kind = k
      /\ call'.op = call.op /\ call'.route = call.route
      /\ call'.fits = call.fits \/ call'.fits = f
  BY <1>1 DEF Answer, CallsOf
<1> QED BY <1>2, SameFlow

LEMMA CarriedFlow ==
  ASSUME Scalars, Flow, Carries
  PROVE  /\ Flow'
         /\ \/ call' = call
            \/ /\ Answerable /\ call'.op = call.op /\ call'.route = call.route
               /\ call'.fits = call.fits
               /\ \/ call'.st = "forwarded"
                  \/ /\ call'.st = "answered"
                     /\ call'.kind \in {"none", "ok", "broken", "proxyError"}
                     /\ call'.kind = "ok" => call.route = "healthz"
<1>1. UNCHANGED <<stage, pc, sid>>
  BY DEF Carries, scriptVars
<1>2. CASE call' = call
  BY <1>1, <1>2, SameFlow
<1>3. CASE Answerable /\ call' = [call EXCEPT !.st = "forwarded"]
  <2>1. call.st # "idle" /\ call.route # "probe" /\ call \in CallsOf(Script[pc])
    BY <1>3, InFlight DEF Answerable, Pending
  <2>2. /\ call' \in CallsOf(Script[pc]) /\ call'.st = "forwarded" /\ call'.op = call.op
        /\ call'.route = call.route /\ call'.fits = call.fits
    BY <1>3, <2>1, ForwardedFields
  <2> QED BY <1>1, <1>3, <2>1, <2>2, SameFlow
<1>4. ASSUME NEW k \in {"none", "ok", "broken", "proxyError"}, Answerable,
             call' = Answer(k), k = "ok" => call.route = "healthz"
      PROVE  /\ Flow' /\ call'.op = call.op /\ call'.route = call.route
             /\ call'.fits = call.fits /\ call'.st = "answered" /\ call'.kind = k
  <2>1. call.st # "idle" /\ call \in CallsOf(Script[pc]) /\ k \in Kinds
    BY <1>4, InFlight DEF Answerable, Pending, Kinds
  <2>2. /\ call' \in CallsOf(Script[pc]) /\ call'.st = "answered" /\ call'.op = call.op
        /\ call'.route = call.route /\ call'.fits = call.fits /\ call'.kind = k
    BY <1>4, <2>1 DEF Answer, CallsOf
  <2> QED BY <1>1, <2>1, <2>2, SameFlow
<1> QED BY <1>2, <1>3, <1>4 DEF Carries

\* After an answer the script goes on, or it ends with an exception nobody catches.
LEMMA Consumed ==
  ASSUME Typed, call.st # "idle", NEW kind \in Kinds, NEW fits \in BOOLEAN,
         Consume(kind, fits), UNCHANGED sid
  PROVE  /\ call' = NoCall /\ Outcomes' /\ Flow' /\ stage' \in 1..7 /\ pc' \in Nat \ {0}
         /\ failed' \in BOOLEAN /\ created' \in BOOLEAN /\ known' \subseteq Suites
         /\ \/ /\ Raises(Script[pc], kind) /\ ~Script[pc].safe
               /\ stage' = stage + 1 /\ pc' = 1 /\ failed' = FALSE /\ created' = FALSE
               /\ verdict' = [verdict EXCEPT ![Suite] = "fail"]
            \/ /\ UNCHANGED <<stage, verdict>> /\ pc' = pc + 1
               /\ failed' = (failed \/ Raises(Script[pc], kind)
                               \/ ~Passes(Script[pc], [kind |-> kind, fits |-> fits]))
<1> DEFINE c == Script[pc]
           passed == Passes(c, [kind |-> kind, fits |-> fits])
           raised == Raises(c, kind)
<1>1. /\ Running /\ pc \in 1..Len(Script) /\ Asks(Suite, sid, c) /\ Suite \in Suites
      /\ stage = StageOf[Suite] /\ Len(Script) \in Nat
  BY InFlight, ScriptIsGood DEF Typed, Scalars, Good
<1>2. passed \in BOOLEAN /\ raised \in BOOLEAN
  <2>1. raised \in BOOLEAN
    BY DEF Raises, NeedsJson
  <2>2. passed \in BOOLEAN
    BY <1>1, PassesFacts DEF Asks, Requests
  <2> QED BY <2>1, <2>2
<1>3. /\ call' = NoCall
      /\ clean' = clean \/ clean' = [clean EXCEPT ![Suite] = Result(passed)]
      /\ counted' = counted \/ counted' = [counted EXCEPT ![Suite] = Result(passed)]
      /\ known' = known \/ known' = known \cup {Suite} \/ known' = known \ {Suite}
      /\ \/ raised /\ ~c.safe /\ Exits("fail")
         \/ /\ ~raised \/ c.safe
            /\ pc' = pc + 1
            /\ failed' = (failed \/ raised \/ ~passed)
            /\ created' = IF c.check = "created" THEN passed ELSE created
            /\ UNCHANGED <<stage, verdict>>
  BY Zenon DEF Consume
<1>4. stage \in {2, 4, 6} /\ stage + 1 \in 1..7
  BY <1>1 DEF StageOf, Suites
<1> HIDE DEF c, passed, raised
<1>5. Result(passed) \in Verdicts
  BY <1>2 DEF Result, Verdicts
<1>6. clean' \in [Suites -> Verdicts] /\ counted' \in [Suites -> Verdicts]
  BY <1>1, <1>3, <1>5 DEF Typed, Outcomes
<1>7. known' \subseteq Suites
  BY <1>1, <1>3 DEF Typed, Contents
<1>8. CASE raised /\ ~c.safe /\ Exits("fail")
  <2>1. /\ stage' = stage + 1 /\ pc' = 1 /\ failed' = FALSE /\ created' = FALSE
        /\ verdict' = [verdict EXCEPT ![Suite] = "fail"]
    BY <1>8 DEF Exits, NextStage
  <2>2. verdict' \in [Suites -> Verdicts]
    BY <1>1, <2>1 DEF Typed, Outcomes, Verdicts
  <2>3. Flow'
    BY <1>3, <2>1, FreshFlow DEF Typed, Scalars
  <2>4. Outcomes'
    BY <1>6, <2>2 DEF Outcomes
  <2>5. stage' \in 1..7 /\ pc' \in Nat \ {0}
    BY <1>4, <2>1
  <2>6. failed' \in BOOLEAN /\ created' \in BOOLEAN
    BY <2>1
  <2>7. Raises(Script[pc], kind) /\ ~Script[pc].safe
    BY <1>8 DEF c, raised
  <2> QED BY <1>3, <1>7, <2>1, <2>3, <2>4, <2>5, <2>6, <2>7
<1>9. CASE /\ ~raised \/ c.safe
           /\ pc' = pc + 1
           /\ failed' = (failed \/ raised \/ ~passed)
           /\ created' = IF c.check = "created" THEN passed ELSE created
           /\ UNCHANGED <<stage, verdict>>
  <2>1. failed' \in BOOLEAN /\ created' \in BOOLEAN
    BY <1>2, <1>9 DEF Typed, Scalars
  <2>2. pc' <= Len(Script') + 1 /\ pc' \in Nat \ {0}
    BY <1>1, <1>9, SameScript DEF Typed, Scalars
  <2>3. Flow'
    BY <1>3, <2>2 DEF Flow, CallOK
  <2>4. Outcomes' /\ stage' \in 1..7
    BY <1>6, <1>9 DEF Typed, Outcomes, Scalars
  <2> QED BY <1>3, <1>7, <1>9, <2>1, <2>2, <2>3, <2>4 DEF c, raised, passed
<1> QED BY <1>3, <1>8, <1>9

\* The injected error answers a request of the suite that runs.
FlakeStep ==
  /\ Flake
  /\ flaked' = flaked \cup {Suite}
  /\ UNCHANGED <<isolation, stage, pc, failed, created, verdict, clean, counted, Database,
                 known, late, slow, dberrors>>

\* The steps, for the invariants that need nothing of the container's own state.
LEMMA NextCases ==
  ASSUME Scalars, [Next]_vars
  PROVE  \/ Carries \/ FlakeStep \/ Served \/ Torn \/ AppFails
         \/ PostRunLog \/ GetRunLog \/ ProbeFails \/ LateLands
         \/ Ready \/ Reset \/ Send \/ SkipWithoutId \/ Ends \/ Return \/ TimeOut
<1>1. CASE UNCHANGED vars
  BY <1>1 DEF Carries, vars, wrapperVars, Scalars
<1>2. CASE HandleRequest
  BY <1>2, HandlerCarries DEF HandleRequest, FlakeStep
<1>3. CASE Finished
  BY <1>3 DEF Finished, Carries, vars, wrapperVars, Scalars
<1> QED BY <1>1, <1>2, <1>3, LifecycleCarries DEF Next, ScriptStep, ServiceStep

LEMMA TypedInit == Init => Typed
<1> SUFFICES ASSUME Init PROVE Typed
  OBVIOUS
<1>1. Scalars
  <2>1. sid \in Subjects /\ env \in Envs /\ isolation \in Isolations /\ table \in BOOLEAN
    BY ScriptsAssumption DEF Init, WrapperInit
  <2>2. early \in BOOLEAN /\ failed \in BOOLEAN /\ created \in BOOLEAN
    BY DEF Init, WrapperInit
  <2>3. /\ phase \in {"starting", "serving", "down"} /\ app \in {"booting", "up", "hung", "dead"}
        /\ crashes \in Nat /\ slow \in Nat /\ dberrors \in Nat
        /\ stage \in 1..7 /\ pc \in Nat \ {0}
    BY DEF Init, WrapperInit
  <2> QED BY <2>1, <2>2, <2>3 DEF Scalars
<1>2. Outcomes /\ Contents
  BY DEF Init, Outcomes, Contents, Verdicts
<1>3. ~Running
  BY StageFacts DEF Init, Running, Suite
<1> QED BY <1>1, <1>2, <1>3 DEF Typed, Flow, CallOK, Init, WrapperInit

\* The phase of the wrapper and the state of the application.
LEMMA ContainerTyped ==
  ASSUME Scalars, [Next]_vars
  PROVE  /\ phase' \in {"starting", "serving", "down"}
         /\ app' \in {"booting", "up", "hung", "dead"}
<1>1. CASE Lifecycle
  BY <1>1 DEF Lifecycle, Boot, Crash, Hang, Restart, Open, PollSeesExit, PollGivesUp,
              ExitWithApp, Exited, Scalars
<1>2. CASE Torn
  BY <1>2 DEF Torn, AppDiesAnswering, Scalars
<1>3. CASE HandleRequest \/ Served \/ AppFails
  BY <1>3 DEF HandleRequest, Refuse, Healthz, BrokenFrontend, Forward, ProxyError, Flake,
              Answered, Served, AppFails, AppAnswers, Scalars
<1>4. CASE PostRunLog \/ GetRunLog \/ ProbeFails
  BY <1>4 DEF PostRunLog, GetRunLog, ProbeFails, ProbeAnswers, Scalars
<1>5. CASE ScriptStep \/ TimeOut
  BY <1>5 DEF ScriptStep, Ready, Reset, Send, SkipWithoutId, Ends, Return, TimeOut,
              wrapperVars, Scalars
<1>6. CASE LateLands \/ Finished \/ UNCHANGED vars
  BY <1>6 DEF LateLands, Finished, vars, wrapperVars, Scalars
<1> QED BY <1>1, <1>2, <1>3, <1>4, <1>5, <1>6 DEF Next, ServiceStep

\* A script that stops waiting has no answer, and the request may live on.
LEMMA TimedOut ==
  ASSUME Typed, TimeOut
  PROVE  /\ UNCHANGED <<sid, env, phase, app, early, crashes, flaked, Database, isolation,
                        dberrors, clean, counted, known>>
         /\ Consume("none", TRUE) /\ "none" \in Kinds /\ Raises(Script[pc], "none")
         /\ call.st \in Pending /\ slow' \in Nat
         /\ \/ late' = late
            \/ late' = late \cup {<<call.op, Suite>>} /\ call.op \in Writes
         /\ \/ slow' = slow + 1
            \/ slow' = slow /\ app = "hung" /\ call.route # "probe"
<1>1. /\ call.st \in Pending /\ Consume("none", TRUE) /\ "none" \in Kinds
      /\ Raises(Script[pc], "none")
  BY DEF TimeOut, Pending, Kinds, Raises
<1>2. clean' = clean /\ counted' = counted
  BY <1>1, Zenon DEF Consume
<1>3. known' = known
  BY <1>1, Zenon DEF Consume
<1>4. \/ slow' = slow + 1
      \/ slow' = slow /\ app = "hung" /\ call.route # "probe"
  BY DEF TimeOut, Upstream
<1>5. slow' \in Nat
  BY <1>4 DEF Typed, Scalars
<1>6. \/ late' = late
      \/ late' = late \cup {<<call.op, Suite>>} /\ call.op \in Writes
  BY DEF TimeOut
<1>7. UNCHANGED <<sid, env, phase, app, early, crashes, flaked, Database, isolation, dberrors>>
  BY DEF TimeOut
<1> QED BY <1>1, <1>2, <1>3, <1>4, <1>5, <1>6, <1>7

\* What every answer of the application and of the probe service leaves alone.
Unanswering == <<sid, env, early, isolation, stage, pc, failed, created, verdict, clean,
                 counted, known, late, slow, table>>
Inserts(op, s) ==
  IF Counts /\ op = "create" THEN entities \cup {s}
  ELSE IF Counts /\ op = "delete" THEN entities \ {s} ELSE entities

\* The four answers of the application behind the wrapper, or in its place.
LEMMA AppAnswered ==
  ASSUME Scalars, Flow, FlakeStep \/ Served \/ Torn \/ AppFails
  PROVE  /\ UNCHANGED Unanswering /\ UNCHANGED log
         /\ Answerable /\ Flow' /\ call'.op = call.op /\ call'.route = call.route
         /\ call'.st = "answered"
         /\ FlakeStep => /\ UNCHANGED <<crashes, dberrors, entities>>
                         /\ flaked' = flaked \cup {Suite} /\ call.route = "api"
                         /\ call'.kind = "flake" /\ call'.fits = call.fits
         /\ Served => /\ UNCHANGED <<crashes, dberrors, flaked>>
                      /\ entities' = Inserts(call.op, Suite)
                      /\ call'.kind = "ok" /\ call'.fits = (entities = {})
         /\ Torn => /\ UNCHANGED <<dberrors, flaked>> /\ crashes' = crashes + 1
                    /\ entities' = Inserts(call.op, Suite)
                    /\ call'.kind = "torn" /\ call'.fits = call.fits
         /\ AppFails => /\ UNCHANGED <<crashes, flaked, entities>>
                        /\ dberrors' = dberrors + 1
                        /\ call'.kind = "error" /\ call'.fits = call.fits
<1> DEFINE Common == /\ UNCHANGED Unanswering /\ UNCHANGED log
                     /\ Answerable /\ Flow' /\ call'.op = call.op
                     /\ call'.route = call.route /\ call'.st = "answered"
<1>1. {"flake", "torn", "error", "ok"} \subseteq Kinds
  BY DEF Kinds
<1>2. ASSUME FlakeStep
      PROVE  /\ Common
             /\ UNCHANGED <<crashes, dberrors, entities>>
             /\ flaked' = flaked \cup {Suite} /\ call.route = "api"
             /\ call'.kind = "flake" /\ call'.fits = call.fits
  <2>1. Answerable /\ call.route = "api" /\ call' = Answer("flake")
    BY <1>2 DEF FlakeStep, Flake, Arrived, Answered, Answerable, Pending
  <2>2. call.st # "idle" /\ call.fits \in BOOLEAN
    BY <2>1, InFlight DEF Answerable, Pending
  <2>3. UNCHANGED Unanswering /\ UNCHANGED <<log, crashes, dberrors, entities>>
    BY <1>2 DEF FlakeStep, Flake, Answered, Database, Unanswering
  <2>4. /\ Flow' /\ call'.st = "answered" /\ call'.kind = "flake"
        /\ call'.op = call.op /\ call'.route = call.route /\ call'.fits = call.fits
    BY <1>1, <2>1, <2>2, <2>3, AnsweredFlow DEF Unanswering
  <2> QED BY <1>2, <2>1, <2>3, <2>4 DEF FlakeStep
<1>3. ASSUME Served
      PROVE  /\ Common
             /\ UNCHANGED <<crashes, dberrors, flaked>>
             /\ entities' = Inserts(call.op, Suite)
             /\ call'.kind = "ok" /\ call'.fits = (entities = {})
  <2>1. Answerable /\ call.st # "idle"
    BY <1>3 DEF Served, Upstream, Answerable, Pending
  <2>2. UNCHANGED Unanswering /\ UNCHANGED <<log, crashes, dberrors, flaked>>
    BY <1>3 DEF Served, Unscripted, Measures, Unanswering
  <2>3. call' = [call EXCEPT !.st = "answered", !.kind = "ok", !.fits = (entities = {})]
    BY <1>3 DEF Served
  <2>4. call \in CallsOf(Script[pc])
    BY <2>1, InFlight
  <2>5. /\ call' \in CallsOf(Script[pc]) /\ call'.st = "answered" /\ call'.kind = "ok"
        /\ call'.op = call.op /\ call'.route = call.route /\ call'.fits = (entities = {})
    BY <1>1, <2>3, <2>4 DEF CallsOf
  <2>6. Flow'
    BY <2>1, <2>2, <2>5, SameFlow DEF Unanswering, Answerable
  <2>7. entities' = Inserts(call.op, Suite)
    BY <1>3 DEF Served, Effect, Inserts
  <2> QED BY <1>3, <2>1, <2>2, <2>5, <2>6, <2>7
<1>4. ASSUME Torn
      PROVE  /\ Common
             /\ UNCHANGED <<dberrors, flaked>> /\ crashes' = crashes + 1
             /\ entities' = Inserts(call.op, Suite)
             /\ call'.kind = "torn" /\ call'.fits = call.fits
  <2>1. Answerable /\ call.st # "idle" /\ call' = Answer("torn")
    BY <1>4 DEF Torn, AppDiesAnswering, Upstream, Answerable, Pending
  <2>2. UNCHANGED Unanswering /\ UNCHANGED <<log, dberrors, flaked>> /\ crashes' = crashes + 1
    BY <1>4 DEF Torn, AppDiesAnswering, Unscripted, Measures, Unanswering
  <2>3. call.fits \in BOOLEAN
    BY <2>1, InFlight
  <2>4. /\ Flow' /\ call'.st = "answered" /\ call'.kind = "torn"
        /\ call'.op = call.op /\ call'.route = call.route /\ call'.fits = call.fits
    BY <1>1, <2>1, <2>2, <2>3, AnsweredFlow DEF Unanswering
  <2>5. entities' = Inserts(call.op, Suite)
    BY <1>4 DEF Torn, Effect, Inserts
  <2> QED BY <1>4, <2>1, <2>2, <2>4, <2>5
<1>5. ASSUME AppFails
      PROVE  /\ Common
             /\ UNCHANGED <<crashes, flaked, entities>>
             /\ dberrors' = dberrors + 1
             /\ call'.kind = "error" /\ call'.fits = call.fits
  <2>1. Answerable /\ call.st # "idle" /\ call' = Answer("error")
    BY <1>5 DEF AppFails, AppAnswers, Answered, Upstream, Answerable, Pending
  <2>2. /\ UNCHANGED Unanswering /\ UNCHANGED <<log, crashes, flaked, entities>>
        /\ dberrors' = dberrors + 1
    BY <1>5 DEF AppFails, AppAnswers, Answered, Unscripted, Measures, Database, Unanswering
  <2>3. call.fits \in BOOLEAN
    BY <2>1, InFlight
  <2>4. /\ Flow' /\ call'.st = "answered" /\ call'.kind = "error"
        /\ call'.op = call.op /\ call'.route = call.route /\ call'.fits = call.fits
    BY <1>1, <2>1, <2>2, <2>3, AnsweredFlow DEF Unanswering
  <2> QED BY <1>5, <2>1, <2>2, <2>4
<1> QED BY <1>2, <1>3, <1>4, <1>5

\* The three answers of the probe service.
LEMMA ProbeAnswered ==
  ASSUME Scalars, Flow, PostRunLog \/ GetRunLog \/ ProbeFails
  PROVE  /\ UNCHANGED Unanswering /\ UNCHANGED <<crashes, flaked, entities>>
         /\ call.st = "sent" /\ call.route = "probe" /\ Flow'
         /\ call'.op = call.op /\ call'.route = call.route /\ call'.st = "answered"
         /\ PostRunLog => /\ call.op = "mark" /\ UNCHANGED dberrors
                          /\ log' = log \cup {Suite}
                          /\ call'.kind = "ok" /\ call'.fits = TRUE
         /\ GetRunLog => /\ call.op = "log" /\ UNCHANGED <<dberrors, log>>
                         /\ call'.kind = "ok" /\ call'.fits = (Previous \notin log)
         /\ ProbeFails => /\ UNCHANGED log /\ (table => dberrors' = dberrors + 1)
                          /\ dberrors' \in {dberrors, dberrors + 1}
                          /\ call'.kind = "error" /\ call'.fits = TRUE
<1> DEFINE Common == /\ UNCHANGED Unanswering /\ UNCHANGED <<crashes, flaked, entities>>
                     /\ call.st = "sent" /\ call.route = "probe" /\ Flow'
                     /\ call'.op = call.op /\ call'.route = call.route
                     /\ call'.st = "answered"
           Sets(k, f) == call' = [call EXCEPT !.st = "answered", !.kind = k, !.fits = f]
<1>1. call.st = "sent" /\ call.route = "probe"
  BY DEF PostRunLog, GetRunLog, ProbeFails, ToProbe
<1>2. call \in CallsOf(Script[pc])
  BY <1>1, InFlight
<1>3. ASSUME NEW k \in {"ok", "error"}, NEW f \in BOOLEAN, Sets(k, f)
      PROVE  /\ call' \in CallsOf(Script[pc]) /\ call'.st = "answered" /\ call'.kind = k
             /\ call'.op = call.op /\ call'.route = call.route /\ call'.fits = f
  BY <1>2, <1>3 DEF CallsOf, Kinds
<1>4. UNCHANGED Unanswering /\ UNCHANGED <<crashes, flaked, entities>>
  BY DEF PostRunLog, GetRunLog, ProbeFails, ProbeAnswers, Unscripted, Measures, Database,
         scriptVars, Unanswering
<1>5. ASSUME PostRunLog
      PROVE  /\ Common
             /\ call.op = "mark" /\ UNCHANGED dberrors
             /\ log' = log \cup {Suite}
             /\ call'.kind = "ok" /\ call'.fits = TRUE
  <2>1. Sets("ok", TRUE) /\ log' = log \cup {Suite} /\ UNCHANGED dberrors /\ call.op = "mark"
    BY <1>5 DEF PostRunLog, ProbeAnswers, ToProbe
  <2>2. /\ call' \in CallsOf(Script[pc]) /\ call'.st = "answered" /\ call'.kind = "ok"
        /\ call'.op = call.op /\ call'.route = call.route /\ call'.fits = TRUE
    BY <1>3, <2>1
  <2>3. Flow'
    BY <1>1, <1>4, <2>2, SameFlow DEF Unanswering
  <2> QED BY <1>1, <1>4, <1>5, <2>1, <2>2, <2>3
<1>6. ASSUME GetRunLog
      PROVE  /\ Common
             /\ call.op = "log" /\ UNCHANGED <<dberrors, log>>
             /\ call'.kind = "ok" /\ call'.fits = (Previous \notin log)
  <2>1. /\ Sets("ok", Previous \notin log) /\ UNCHANGED <<dberrors, log>> /\ call.op = "log"
    BY <1>6 DEF GetRunLog, ProbeAnswers, ToProbe, scriptVars
  <2>2. /\ call' \in CallsOf(Script[pc]) /\ call'.st = "answered" /\ call'.kind = "ok"
        /\ call'.op = call.op /\ call'.route = call.route
        /\ call'.fits = (Previous \notin log)
    BY <1>3, <2>1
  <2>3. Flow'
    BY <1>1, <1>4, <2>2, SameFlow DEF Unanswering
  <2> QED BY <1>1, <1>4, <1>6, <2>1, <2>2, <2>3
<1>7. ASSUME ProbeFails
      PROVE  /\ Common
             /\ UNCHANGED log /\ (table => dberrors' = dberrors + 1)
             /\ dberrors' \in {dberrors, dberrors + 1}
             /\ call'.kind = "error" /\ call'.fits = TRUE
  <2>1. /\ Sets("error", TRUE) /\ UNCHANGED log /\ (table => dberrors' = dberrors + 1)
        /\ dberrors' \in {dberrors, dberrors + 1}
    BY <1>7 DEF ProbeFails, ProbeAnswers, Database
  <2>2. /\ call' \in CallsOf(Script[pc]) /\ call'.st = "answered" /\ call'.kind = "error"
        /\ call'.op = call.op /\ call'.route = call.route /\ call'.fits = TRUE
    BY <1>3, <2>1
  <2>3. Flow'
    BY <1>1, <1>4, <2>2, SameFlow DEF Unanswering
  <2> QED BY <1>1, <1>4, <1>7, <2>1, <2>2, <2>3
<1> QED BY <1>5, <1>6, <1>7

\* Outside a suite no request is in flight.
LEMMA NotRunning ==
  ASSUME Scalars, Flow, Suite \notin Suites
  PROVE  call = NoCall
BY DEF Flow, CallOK, Running

\* The four steps by which a stage begins or ends, and the three a script takes on its own.
LEMMA ReadyMoves ==
  ASSUME Scalars, Flow, Ready
  PROVE  /\ stage = 1 /\ stage' = 2 /\ pc' = 1 /\ failed' = FALSE /\ created' = FALSE
         /\ call = NoCall /\ call' = NoCall /\ phase = "serving"
         /\ UNCHANGED <<wrapperVars, verdict, Measures, Database, known, late, Told>>
<1>1. Suite = "deploy" /\ Suite \notin Suites
  BY DEF Ready, Suites
<1>2. stage = 1
  BY <1>1, StageFacts DEF Suite, Scalars
<1> QED BY <1>1, <1>2, NotRunning DEF Ready, NextStage, wrapperVars

LEMMA ResetMoves ==
  ASSUME Scalars, Flow, Reset
  PROVE  /\ stage \in {3, 5} /\ stage' = stage + 1 /\ pc' = 1 /\ failed' = FALSE
         /\ created' = FALSE /\ call = NoCall /\ call' = NoCall
         /\ UNCHANGED <<wrapperVars, verdict, Measures, late, Told>>
         /\ \/ isolation = "off" /\ UNCHANGED <<Database, known>>
            \/ /\ isolation # "off" /\ log' = {} /\ entities' = {} /\ known' = {}
               /\ table' = (table /\ ~DropsSchema)
<1>1. Suite = "reset" /\ Suite \notin Suites
  BY DEF Reset, Suites
<1>2. stage \in {3, 5}
  BY <1>1, StageFacts DEF Suite, Scalars
<1> QED BY <1>1, <1>2, NotRunning DEF Reset, NextStage, wrapperVars

LEMMA EndsMoves ==
  ASSUME Scalars, Flow, Ends
  PROVE  /\ Running /\ Suite \in Suites /\ stage = StageOf[Suite] /\ stage \in {2, 4, 6}
         /\ stage' = stage + 1 /\ pc' = 1
         /\ failed' = FALSE /\ created' = FALSE /\ call = NoCall /\ call' = NoCall
         /\ pc = Len(Script) + 1
         /\ verdict' = [verdict EXCEPT ![Suite] = IF failed THEN "fail" ELSE "pass"]
         /\ UNCHANGED <<wrapperVars, Measures, Database, known, late, Told>>
<1>1. Running /\ call.st = "idle" /\ pc > Len(Script)
  BY DEF Ends
<1>2. Suite \in Suites /\ stage = StageOf[Suite] /\ stage \in {2, 4, 6}
  BY <1>1, StageFacts DEF Running, Suite, Scalars
<1>3. call = NoCall
  BY <1>1 DEF Flow, CallOK, CallsOf, Pending
<1>4. pc = Len(Script) + 1
  BY <1>1, ScriptIsGood DEF Flow, Scalars, Good
<1> QED BY <1>1, <1>2, <1>3, <1>4 DEF Ends, Exits, NextStage, wrapperVars

LEMMA Asked ==
  ASSUME Scalars, Flow, Unasked
  PROVE  /\ Running /\ Suite \in Suites /\ stage = StageOf[Suite] /\ call = NoCall
         /\ pc \in 1..Len(Script) /\ Len(Script) \in Nat /\ Asks(Suite, sid, Script[pc])
<1>1. Running /\ pc <= Len(Script) /\ call.st = "idle"
  BY DEF Unasked
<1>2. call = NoCall
  BY <1>1 DEF Flow, CallOK, CallsOf, Pending
<1>3. Suite \in Suites /\ stage = StageOf[Suite]
  BY <1>1, StageFacts DEF Running, Suite, Scalars
<1>4. Good(Suite, sid, Script) /\ pc \in Nat \ {0}
  BY <1>1, ScriptIsGood DEF Scalars
<1> QED BY <1>1, <1>2, <1>3, <1>4 DEF Good

LEMMA SendMoves ==
  ASSUME Scalars, Flow, Send
  PROVE  /\ UNCHANGED <<sid, env, phase, app, early, crashes, scriptVars>>
         /\ call = NoCall /\ Running /\ Flow' /\ HasId
         /\ call'.st = "sent" /\ call'.op = Script[pc].op /\ call'.route = Script[pc].route
<1>1. UNCHANGED <<sid, env, phase, app, early, crashes, scriptVars>> /\ HasId
  BY DEF Send
<1>2. /\ call' = [op |-> Script[pc].op, route |-> Script[pc].route, st |-> "sent",
                  kind |-> "none", fits |-> TRUE]
      /\ Unasked
  BY DEF Send
<1>3. Running /\ call = NoCall /\ pc \in 1..Len(Script) /\ Len(Script) \in Nat
  BY <1>2, Asked
<1>4. /\ call' \in CallsOf(Script[pc])
      /\ call'.st = "sent" /\ call'.op = Script[pc].op /\ call'.route = Script[pc].route
  BY <1>2 DEF CallsOf, Pending, Kinds
<1>5. Suite' = Suite /\ Script' = Script /\ Running' = Running /\ pc' = pc
  BY <1>1, SameScript DEF scriptVars
<1>6. Flow'
  BY <1>3, <1>4, <1>5 DEF Flow, CallOK
<1> QED BY <1>1, <1>3, <1>4, <1>6

LEMMA SkipMoves ==
  ASSUME Scalars, Flow, SkipWithoutId
  PROVE  /\ UNCHANGED <<wrapperVars, isolation, stage, created, verdict, Measures, Database,
                        known, late, slow, dberrors>>
         /\ pc' = pc + 1 /\ failed' = TRUE /\ Running /\ Flow' /\ call = NoCall
         /\ call' = NoCall
         /\ Script[pc].op \in NeedId /\ ~created
<1>1. /\ UNCHANGED <<wrapperVars, isolation, stage, created, verdict, Measures, Database,
                     known, late, slow, dberrors>>
      /\ pc' = pc + 1 /\ failed' = TRUE /\ Unasked /\ ~HasId
  BY DEF SkipWithoutId
<1>2. /\ Running /\ call = NoCall /\ pc \in 1..Len(Script) /\ Len(Script) \in Nat
  BY <1>1, Asked
<1>3. Script' = Script /\ Running' = Running /\ call' = NoCall
  BY <1>1, <1>2, SameScript DEF wrapperVars
<1>4. Flow'
  BY <1>1, <1>2, <1>3 DEF Flow, CallOK
<1> QED BY <1>1, <1>2, <1>3, <1>4 DEF HasId

\* The answer, or the exception, reaches the script.
LEMMA ReturnMoves ==
  ASSUME Scalars, Flow, Return
  PROVE  /\ UNCHANGED <<sid, env, phase, app, early, crashes, flaked, Database, late, Told>>
         /\ call.st = "answered" /\ call.kind \in Kinds /\ call.fits \in BOOLEAN
         /\ Consume(call.kind, call.fits)
BY InFlight DEF Return

\* A request nobody waits for lands, or is lost.
LEMMA LateMoves ==
  ASSUME Typed, LateLands
  PROVE  /\ UNCHANGED <<wrapperVars, isolation, stage, pc, failed, created, verdict, Measures,
                        table, known, slow, dberrors>>
         /\ late # {} /\ late' \subseteq late
         /\ log \subseteq log' /\ log' \subseteq Suites /\ entities' \subseteq Suites
<1>1. PICK w \in late :
        /\ late' = late \ {w}
        /\ \/ w[1] = "mark" /\ table /\ log' = log \cup {w[2]} /\ UNCHANGED entities
           \/ w[1] # "mark" /\ app = "up" /\ Effect(w[1], w[2]) /\ UNCHANGED log
           \/ UNCHANGED <<log, entities>>
        /\ UNCHANGED <<wrapperVars, isolation, stage, pc, failed, created, verdict, Measures,
                       table, known, slow, dberrors>>
  BY DEF LateLands
<1>2. w[2] \in Suites /\ log \subseteq Suites /\ entities \subseteq Suites
  BY DEF Typed, Contents
<1>3. CASE w[1] = "mark" /\ table /\ log' = log \cup {w[2]} /\ UNCHANGED entities
  BY <1>1, <1>2, <1>3
<1>4. CASE w[1] # "mark" /\ app = "up" /\ Effect(w[1], w[2]) /\ UNCHANGED log
  <2>1. entities' = Inserts(w[1], w[2])
    BY <1>4 DEF Effect, Inserts
  <2>2. entities' \subseteq Suites
    BY <1>2, <2>1 DEF Inserts
  <2> QED BY <1>1, <1>2, <1>4, <2>2
<1>5. CASE UNCHANGED <<log, entities>>
  BY <1>1, <1>2, <1>5
<1> QED BY <1>1, <1>3, <1>4, <1>5

LEMMA TypedStep ==
  ASSUME Typed, [Next]_vars
  PROVE  Typed'
<1> USE DEF Typed
<1>1. /\ phase' \in {"starting", "serving", "down"}
      /\ app' \in {"booting", "up", "hung", "dead"}
  BY ContainerTyped
<1> DEFINE Rest == /\ sid' \in Subjects /\ env' \in Envs /\ isolation' \in Isolations
                   /\ crashes' \in Nat /\ slow' \in Nat /\ dberrors' \in Nat
                   /\ stage' \in 1..7 /\ pc' \in Nat \ {0}
           Flags == /\ early' \in BOOLEAN /\ failed' \in BOOLEAN /\ created' \in BOOLEAN
                    /\ table' \in BOOLEAN
<1>2. ASSUME Rest, Flags PROVE Scalars'
  BY <1>1, <1>2 DEF Scalars
<1>3. CASE Carries
  <2>1. Rest
    BY <1>3 DEF Carries, scriptVars, Scalars
  <2>2. Flags
    BY <1>3 DEF Carries, scriptVars, Scalars
  <2>3. Outcomes' /\ Contents'
    BY <1>3 DEF Carries, scriptVars, Outcomes, Contents
  <2> QED BY <1>2, <1>3, <2>1, <2>2, <2>3, CarriedFlow
<1>4. CASE FlakeStep \/ Served \/ Torn \/ AppFails
  <2>1. Suite \in Suites /\ Flow'
    BY <1>4, AppAnswered, InFlight DEF Answerable, Pending
  <2>2. Rest
    BY <1>4, AppAnswered DEF Unanswering, Scalars
  <2>3. Flags
    BY <1>4, AppAnswered DEF Unanswering, Scalars
  <2>4. Outcomes'
    BY <1>4, AppAnswered DEF Unanswering, Outcomes
  <2>5. Inserts(call.op, Suite) \subseteq Suites
    BY <2>1 DEF Inserts, Contents
  <2>6. Contents'
    BY <1>4, AppAnswered, <2>1, <2>5 DEF Unanswering, Contents
  <2> QED BY <1>2, <2>1, <2>2, <2>3, <2>4, <2>6
<1>5. CASE PostRunLog \/ GetRunLog \/ ProbeFails
  <2>1. Suite \in Suites /\ Flow'
    BY <1>5, ProbeAnswered, InFlight
  <2>2. Rest
    <3>1. dberrors' \in {dberrors, dberrors + 1}
      BY <1>5, ProbeAnswered
    <3>2. UNCHANGED <<sid, env, isolation, crashes, slow, stage, pc>>
      BY <1>5, ProbeAnswered DEF Unanswering
    <3> QED BY <3>1, <3>2 DEF Scalars
  <2>3. Flags
    BY <1>5, ProbeAnswered DEF Unanswering, Scalars
  <2>4. Outcomes' /\ Contents'
    BY <1>5, ProbeAnswered, <2>1 DEF Unanswering, Outcomes, Contents
  <2> QED BY <1>2, <2>1, <2>2, <2>3, <2>4
<1>6. CASE Ready
  <2>1. Flow'
    BY <1>6, ReadyMoves, FreshFlow DEF wrapperVars, Scalars
  <2>2. Rest
    <3>1. stage' = 2 /\ pc' = 1
      BY <1>6, ReadyMoves
    <3>2. UNCHANGED <<sid, env, isolation, crashes, slow, dberrors>>
      BY <1>6, ReadyMoves DEF wrapperVars, Told
    <3> QED BY <3>1, <3>2 DEF Scalars
  <2>3. Flags
    BY <1>6, ReadyMoves DEF wrapperVars, Told, Database, Scalars
  <2>4. Outcomes' /\ Contents'
    BY <1>6, ReadyMoves DEF Measures, Database, Outcomes, Contents
  <2> QED BY <1>2, <2>1, <2>2, <2>3, <2>4
<1>7. CASE Reset
  <2>1. Flow'
    BY <1>7, ResetMoves, FreshFlow DEF wrapperVars, Scalars
  <2>2. table' \in BOOLEAN
    BY <1>7, ResetMoves DEF Database, Scalars, DropsSchema
  <2>3. Rest
    <3>1. stage \in {3, 5} /\ stage' = stage + 1 /\ pc' = 1
      BY <1>7, ResetMoves
    <3>2. UNCHANGED <<sid, env, isolation, crashes, slow, dberrors>>
      BY <1>7, ResetMoves DEF wrapperVars, Told
    <3> QED BY <3>1, <3>2 DEF Scalars
  <2>4. Flags
    BY <1>7, <2>2, ResetMoves DEF wrapperVars, Told, Scalars
  <2>5. Outcomes' /\ Contents'
    BY <1>7, ResetMoves DEF Measures, Database, Outcomes, Contents
  <2> QED BY <1>2, <2>1, <2>3, <2>4, <2>5
<1>8. CASE Send
  <2>1. Rest
    BY <1>8, SendMoves DEF scriptVars, Scalars
  <2>2. Flags
    BY <1>8, SendMoves DEF scriptVars, Scalars
  <2>3. Outcomes' /\ Contents'
    BY <1>8, SendMoves DEF scriptVars, Outcomes, Contents
  <2> QED BY <1>2, <1>8, <2>1, <2>2, <2>3, SendMoves
<1>9. CASE SkipWithoutId
  <2>1. Rest
    <3>1. stage' = stage /\ pc' = pc + 1
      BY <1>9, SkipMoves
    <3>2. UNCHANGED <<sid, env, isolation, crashes, slow, dberrors>>
      BY <1>9, SkipMoves DEF wrapperVars
    <3> QED BY <3>1, <3>2 DEF Scalars
  <2>2. Flags
    BY <1>9, SkipMoves DEF wrapperVars, Database, Scalars
  <2>3. Outcomes' /\ Contents'
    BY <1>9, SkipMoves DEF Measures, Database, Outcomes, Contents
  <2> QED BY <1>2, <1>9, <2>1, <2>2, <2>3, SkipMoves
<1>10. CASE Ends
  <2>1. Flow'
    BY <1>10, EndsMoves, FreshFlow DEF wrapperVars, Scalars
  <2>2. Rest
    <3>1. stage \in {2, 4, 6} /\ stage' = stage + 1 /\ pc' = 1
      BY <1>10, EndsMoves
    <3>2. UNCHANGED <<sid, env, isolation, crashes, slow, dberrors>>
      BY <1>10, EndsMoves DEF wrapperVars, Told
    <3> QED BY <3>1, <3>2 DEF Scalars
  <2>3. Flags
    BY <1>10, EndsMoves DEF wrapperVars, Told, Database, Scalars
  <2>4. verdict' \in [Suites -> Verdicts]
    BY <1>10, EndsMoves DEF Outcomes, Verdicts
  <2>5. Outcomes' /\ Contents'
    BY <1>10, <2>4, EndsMoves DEF Measures, Database, Outcomes, Contents
  <2> QED BY <1>2, <2>1, <2>2, <2>3, <2>5
<1>11. CASE Return
  <2>1. /\ Outcomes' /\ Flow' /\ stage' \in 1..7 /\ pc' \in Nat \ {0}
        /\ failed' \in BOOLEAN /\ created' \in BOOLEAN /\ known' \subseteq Suites
    BY <1>11, ReturnMoves, Consumed
  <2>2. Rest
    BY <1>11, <2>1, ReturnMoves DEF Told, Database, Scalars
  <2>3. Flags
    BY <1>11, <2>1, ReturnMoves DEF Told, Database, Scalars
  <2>4. Contents'
    BY <1>11, <2>1, ReturnMoves DEF Database, Contents
  <2> QED BY <1>2, <2>1, <2>2, <2>3, <2>4
<1>12. CASE TimeOut
  <2>1. /\ Outcomes' /\ Flow' /\ stage' \in 1..7 /\ pc' \in Nat \ {0}
        /\ failed' \in BOOLEAN /\ created' \in BOOLEAN /\ known' \subseteq Suites
    BY <1>12, TimedOut, Consumed DEF Pending
  <2>2. Rest
    BY <1>12, <2>1, TimedOut DEF Database, Scalars
  <2>3. Flags
    BY <1>12, <2>1, TimedOut DEF Database, Scalars
  <2>4. Suite \in Suites
    BY <1>12, TimedOut, InFlight DEF Pending
  <2>5. late' \subseteq Writes \X Suites
    <3>1. <<call.op, Suite>> \in Writes \X Suites \/ call.op \notin Writes
      BY <2>4
    <3> QED BY <1>12, <3>1, TimedOut DEF Contents
  <2>6. Contents'
    BY <1>12, <2>1, <2>5, TimedOut DEF Database, Contents
  <2> QED BY <1>2, <2>1, <2>2, <2>3, <2>6
<1>13. CASE LateLands
  <2>1. Rest
    BY <1>13, LateMoves DEF wrapperVars, Scalars
  <2>2. Flags
    BY <1>13, LateMoves DEF wrapperVars, Scalars
  <2>3. UNCHANGED <<stage, pc, sid, call>>
    BY <1>13, LateMoves DEF wrapperVars
  <2>4. Flow'
    BY <2>3, SameFlow
  <2>5. Outcomes' /\ Contents'
    BY <1>13, LateMoves DEF Measures, Outcomes, Contents
  <2> QED BY <1>2, <2>1, <2>2, <2>4, <2>5
<1> QED BY <1>3, <1>4, <1>5, <1>6, <1>7, <1>8, <1>9, <1>10, <1>11, <1>12, <1>13, NextCases

(***************************************************************************)
(* The container: why a request meets no application, and what it is       *)
(* answered while nothing went wrong.                                      *)
(***************************************************************************)
Calm == crashes = 0 /\ slow = 0 /\ dberrors = 0 /\ ~early

Contained ==
  /\ app \in {"hung", "dead"} => crashes > 0
  /\ phase = "down" => crashes > 0
  /\ stage > 1 /\ crashes = 0 => phase = "serving"
  /\ call.st = "forwarded" => phase = "serving"
  /\ sid = "s5" => ~early /\ (phase = "serving" => app # "booting")
  /\ late # {} => slow > 0 \/ crashes > 0

Answers ==
  Calm /\ call.st = "answered" =>
    \/ call.kind = "ok"
    \/ call.kind = "error" /\ call.route = "probe"
    \/ call.kind = "flake" /\ env = "F10" /\ call.route = "api"
    \/ call.kind = "broken" /\ env = "F5" /\ call.route = "html"

\* Accidents are not undone.
LEMMA CalmBefore ==
  ASSUME Typed, [Next]_vars
  PROVE  /\ crashes <= crashes' /\ slow <= slow' /\ dberrors <= dberrors'
         /\ early => early'
         /\ Calm' => Calm
<1>1. crashes \in Nat /\ slow \in Nat /\ dberrors \in Nat
  BY DEF Typed, Scalars
<1>2. /\ crashes <= crashes' /\ slow <= slow' /\ dberrors <= dberrors'
      /\ early => early'
  <2>1. CASE Carries
    BY <1>1, <2>1 DEF Carries, scriptVars
  <2>2. CASE FlakeStep \/ Served \/ Torn \/ AppFails
    BY <1>1, <2>2, AppAnswered DEF Typed, Unanswering
  <2>3. CASE PostRunLog \/ GetRunLog \/ ProbeFails
    <3>1. dberrors' \in {dberrors, dberrors + 1} /\ UNCHANGED <<crashes, slow, early>>
      BY <2>3, ProbeAnswered DEF Typed, Unanswering
    <3> QED BY <1>1, <3>1
  <2>4. CASE Ready \/ Reset \/ Send \/ SkipWithoutId \/ Ends \/ Return
    <3>1. UNCHANGED <<crashes, slow, dberrors, early>>
      BY <2>4 DEF Ready, Reset, Send, SkipWithoutId, Ends, Return, wrapperVars, scriptVars, Told
    <3> QED BY <1>1, <3>1
  <2>5. CASE TimeOut
    BY <1>1, <2>5, TimedOut
  <2>6. CASE LateLands
    BY <1>1, <2>6, LateMoves DEF wrapperVars
  <2> QED BY <2>1, <2>2, <2>3, <2>4, <2>5, <2>6, NextCases DEF Typed
<1>3. crashes' \in Nat /\ slow' \in Nat /\ dberrors' \in Nat
  BY TypedStep DEF Typed, Scalars
<1> QED BY <1>1, <1>2, <1>3 DEF Calm

\* A suite runs only behind an open port, as long as nothing crashed.
LEMMA CalmServes ==
  ASSUME Typed, Contained, crashes = 0, stage > 1
  PROVE  phase = "serving" /\ app \in {"booting", "up"}
BY DEF Typed, Scalars, Contained

LEMMA StartFacts ==
  ASSUME Scalars
  PROVE  sid = "s5" => Start[sid].polls
BY DEF Start, StartS5

LEMMA ContainedStep ==
  ASSUME Typed, Contained, [Next]_vars
  PROVE  Contained'
<1>1. /\ crashes \in Nat /\ slow \in Nat /\ stage \in 1..7 /\ Scalars /\ Flow /\ Typed'
      /\ phase \in {"starting", "serving", "down"} /\ app \in {"booting", "up", "hung", "dead"}
  BY TypedStep DEF Typed, Scalars
<1>2. CASE Lifecycle /\ UNCHANGED scriptVars
  <2>1. UNCHANGED <<stage, late, slow>>
    BY <1>2 DEF scriptVars
  <2>2. CASE Boot \/ Crash \/ Hang
    BY <1>1, <2>1, <2>2 DEF Boot, Crash, Hang, Contained
  <2>3. CASE Open
    BY <1>1, <2>1, <2>3, StartFacts DEF Open, Contained
  <2>4. CASE Restart
    BY <1>1, <2>1, <2>4 DEF Restart, Contained
  <2>5. CASE PollSeesExit \/ PollGivesUp \/ ExitWithApp
    <3>1. Exited /\ crashes' \in Nat /\ crashes' > 0
      BY <1>1, <2>5 DEF PollSeesExit, PollGivesUp, ExitWithApp, Contained
    <3>2. call'.st # "forwarded"
      <4>1. CASE call.st \in {"sent", "forwarded"} /\ call.route # "probe"
        <5>1. call' = Answer("none") /\ call.st # "idle" /\ call.fits \in BOOLEAN
          BY <1>1, <3>1, <4>1, InFlight DEF Exited
        <5>2. "none" \in Kinds /\ UNCHANGED <<stage, pc, sid>>
          BY <1>2, <3>1 DEF Kinds, scriptVars, Exited
        <5> QED BY <1>1, <5>1, <5>2, AnsweredFlow
      <4>2. CASE ~(call.st \in {"sent", "forwarded"} /\ call.route # "probe")
        BY <3>1, <4>2 DEF Exited, Typed, Flow, CallOK, NoCall
      <4> QED BY <4>1, <4>2
    <3>3. phase' = "down" /\ app' = "dead" /\ UNCHANGED <<sid, early>>
      BY <3>1 DEF Exited
    <3> QED BY <1>1, <2>1, <3>1, <3>2, <3>3 DEF Contained
  <2> QED BY <1>2, <2>2, <2>3, <2>4, <2>5 DEF Lifecycle
<1>3. CASE HandleRequest
  <2>1. UNCHANGED <<sid, phase, app, crashes, stage, late, slow>>
    BY <1>3 DEF HandleRequest, Refuse, Healthz, BrokenFrontend, Forward, ProxyError, Flake,
                Answered, scriptVars
  <2>2. CASE Forward
    BY <1>1, <2>1, <2>2 DEF Forward, Contained
  <2>3. CASE Refuse \/ Healthz \/ BrokenFrontend \/ Flake
    <3>1. /\ UNCHANGED early /\ call.st # "idle"
          /\ \E k \in Kinds : call' = Answer(k)
      BY <2>3 DEF Refuse, Healthz, BrokenFrontend, Flake, Answered, Arrived, Kinds
    <3>2. call'.st = "answered"
      BY <1>1, <2>1, <3>1, InFlight DEF Answer, CallsOf
    <3> QED BY <1>1, <2>1, <3>1, <3>2 DEF Contained
  <2>4. CASE ProxyError
    <3>1. call.st = "forwarded" /\ call' = Answer("proxyError")
      BY <2>4 DEF ProxyError, Upstream
    <3>2. call'.st = "answered"
      BY <1>1, <3>1, InFlight DEF Answer, CallsOf
    <3>3. sid = "s5" => ~early'
      BY <2>4, <3>1 DEF ProxyError, Contained
    <3> QED BY <1>1, <2>1, <3>2, <3>3 DEF Contained
  <2> QED BY <1>3, <2>2, <2>3, <2>4 DEF HandleRequest
<1>4. CASE Torn
  <2>1. /\ call'.st = "answered" /\ crashes' = crashes + 1
        /\ UNCHANGED <<sid, early, stage, late, slow>>
    BY <1>1, <1>4, AppAnswered DEF Unanswering
  <2>2. app' = "dead"
    BY <1>4 DEF Torn, AppDiesAnswering
  <2> QED BY <1>1, <2>1, <2>2 DEF Contained
<1>5. CASE Served \/ AppFails
  <2>1. call'.st = "answered" /\ UNCHANGED <<sid, early, crashes, stage, late, slow>>
    BY <1>1, <1>5, AppAnswered DEF Unanswering, Served, AppFails, AppAnswers, Answered
  <2>2. UNCHANGED <<phase, app>>
    BY <1>5 DEF Served, AppFails, AppAnswers, Answered
  <2> QED BY <1>1, <2>1, <2>2 DEF Contained
<1>6. CASE PostRunLog \/ GetRunLog \/ ProbeFails
  <2>1. call'.st = "answered" /\ UNCHANGED <<sid, early, crashes, stage, late, slow>>
    BY <1>1, <1>6, ProbeAnswered DEF Unanswering
  <2>2. UNCHANGED <<phase, app>>
    BY <1>6 DEF PostRunLog, GetRunLog, ProbeFails, ProbeAnswers
  <2> QED BY <1>1, <2>1, <2>2 DEF Contained
<1>7. CASE Ready
  BY <1>1, <1>7, ReadyMoves DEF Contained, wrapperVars, Told, NoCall
<1>8. CASE Reset
  <2>1. /\ stage \in {3, 5} /\ stage' = stage + 1 /\ call' = NoCall
        /\ UNCHANGED <<sid, phase, app, early, crashes, late, slow>>
    BY <1>1, <1>8, ResetMoves DEF wrapperVars, Told
  <2> QED BY <1>1, <2>1 DEF Contained, NoCall
<1>9. CASE Send \/ SkipWithoutId
  <2>1. /\ call'.st # "forwarded"
        /\ UNCHANGED <<sid, phase, app, early, crashes, stage, late, slow>>
    <3>1. CASE Send
      BY <1>1, <1>9, <3>1, SendMoves DEF scriptVars
    <3>2. CASE SkipWithoutId
      BY <1>1, <1>9, <3>2, SkipMoves DEF wrapperVars, NoCall
    <3> QED BY <1>9, <3>1, <3>2
  <2> QED BY <1>1, <2>1 DEF Contained
<1>10. CASE Ends
  <2>1. /\ stage \in {2, 4, 6} /\ stage' = stage + 1 /\ call' = NoCall
        /\ UNCHANGED <<sid, phase, app, early, crashes, late, slow>>
    BY <1>1, <1>10, EndsMoves DEF wrapperVars, Told
  <2> QED BY <1>1, <2>1 DEF Contained, NoCall
<1>11. CASE Return
  <2>1. /\ call' = NoCall /\ stage' \in {stage, stage + 1}
        /\ UNCHANGED <<sid, phase, app, early, crashes, late, slow>>
    BY <1>1, <1>11, ReturnMoves, Consumed DEF Told
  <2>2. stage > 1
    BY <1>1, <1>11, ReturnMoves, InFlight DEF StageOf, Suites
  <2> QED BY <1>1, <2>1, <2>2 DEF Contained, NoCall
<1>12. CASE TimeOut
  <2>1. /\ call' = NoCall /\ stage' \in {stage, stage + 1}
        /\ UNCHANGED <<sid, phase, app, early, crashes>>
        /\ slow' = slow + 1 \/ app = "hung"
    BY <1>1, <1>12, TimedOut, Consumed DEF Pending
  <2>2. stage > 1
    BY <1>1, <1>12, TimedOut, InFlight DEF StageOf, Suites, Pending
  <2> QED BY <1>1, <2>1, <2>2 DEF Contained, NoCall
<1>13. CASE LateLands
  <2>1. /\ late # {} /\ UNCHANGED <<sid, phase, app, early, crashes, stage, slow, call>>
    BY <1>13, LateMoves DEF wrapperVars
  <2> QED BY <1>1, <2>1 DEF Contained
<1>14. CASE Finished \/ UNCHANGED vars
  BY <1>14 DEF Finished, vars, wrapperVars, scriptVars, Contained
<1> QED BY <1>2, <1>3, <1>4, <1>5, <1>6, <1>7, <1>8, <1>9, <1>10, <1>11, <1>12, <1>13, <1>14
        DEF Next, ScriptStep, ServiceStep

LEMMA AnswersStep ==
  ASSUME Typed, Contained, Answers, [Next]_vars
  PROVE  Answers'
<1>1. Typed' /\ Contained' /\ (Calm' => Calm) /\ Scalars /\ Flow
  BY TypedStep, ContainedStep, CalmBefore DEF Typed
<1> SUFFICES ASSUME Calm', call'.st = "answered"
             PROVE  \/ call'.kind = "ok"
                    \/ call'.kind = "error" /\ call'.route = "probe"
                    \/ call'.kind = "flake" /\ env' = "F10" /\ call'.route = "api"
                    \/ call'.kind = "broken" /\ env' = "F5" /\ call'.route = "html"
  BY DEF Answers
<1>2. CASE UNCHANGED <<call, env>>
  BY <1>1, <1>2 DEF Answers
<1>3. crashes = 0 /\ crashes' = 0 /\ ~early' /\ slow' = 0 /\ dberrors' = 0 /\ dberrors = 0
  BY <1>1 DEF Calm
<1>4. CASE Lifecycle /\ UNCHANGED scriptVars
  <2>1. CASE PollSeesExit \/ PollGivesUp \/ ExitWithApp
    <3>1. app' = "dead" /\ crashes' = 0
      BY <1>3, <2>1 DEF PollSeesExit, PollGivesUp, ExitWithApp, Exited
    <3> QED BY <1>1, <3>1 DEF Contained
  <2>2. CASE Boot \/ Crash \/ Hang \/ Restart \/ Open
    BY <1>2, <2>2 DEF Boot, Crash, Hang, Restart, Open
  <2> QED BY <1>4, <2>1, <2>2 DEF Lifecycle
<1>5. CASE HandleRequest
  <2>1. call.st # "idle"
    BY <1>5 DEF HandleRequest, Refuse, Healthz, BrokenFrontend, Forward, ProxyError, Flake,
                Arrived, Upstream
  <2>2. stage > 1 /\ call \in CallsOf(Script[pc])
    BY <1>1, <2>1, InFlight DEF StageOf, Suites
  <2>3. phase = "serving" /\ app \in {"booting", "up"}
    BY <1>3, <2>2, CalmServes
  <2>4. CASE Healthz
    BY <2>2, <2>4 DEF Healthz, Answered, Answer, CallsOf
  <2>5. CASE BrokenFrontend
    BY <2>2, <2>5 DEF BrokenFrontend, BreaksFrontend, Answered, Answer, CallsOf
  <2>6. CASE Flake
    BY <2>2, <2>6 DEF Flake, Answered, Answer, CallsOf
  <2>7. CASE Forward
    BY <2>2, <2>7 DEF Forward, CallsOf
  <2>8. CASE Refuse
    BY <2>3, <2>8 DEF Refuse
  <2>9. CASE ProxyError
    BY <1>3, <2>3, <2>9 DEF ProxyError
  <2> QED BY <1>5, <2>4, <2>5, <2>6, <2>7, <2>8, <2>9 DEF HandleRequest
<1>6. CASE Served
  BY <1>1, <1>6, AppAnswered
<1>7. CASE Torn
  BY <1>1, <1>3, <1>7, AppAnswered
<1>8. CASE AppFails
  BY <1>1, <1>3, <1>8, AppAnswered
<1>9. CASE PostRunLog \/ GetRunLog \/ ProbeFails
  BY <1>1, <1>9, ProbeAnswered
<1>10. CASE Ready \/ Reset \/ SkipWithoutId \/ Ends
  <2>1. UNCHANGED <<call, env>>
    BY <1>10 DEF Ready, Reset, SkipWithoutId, Ends, wrapperVars
  <2> QED BY <1>2, <2>1
<1>11. CASE Send
  <2>1. call'.st = "sent"
    BY <1>1, <1>11, SendMoves
  <2> QED BY <2>1
<1>12. CASE Return
  <2>1. call' = NoCall
    BY <1>12 DEF Return, Consume
  <2> QED BY <2>1 DEF NoCall
<1>13. CASE TimeOut
  <2>1. call' = NoCall
    BY <1>13 DEF TimeOut, Consume
  <2> QED BY <2>1 DEF NoCall
<1>14. CASE LateLands
  BY <1>2, <1>14, LateMoves DEF wrapperVars
<1>15. CASE Finished \/ UNCHANGED vars
  BY <1>2, <1>15 DEF Finished, vars, wrapperVars
<1> QED BY <1>4, <1>5, <1>6, <1>7, <1>8, <1>9, <1>10, <1>11, <1>12, <1>13, <1>14, <1>15
        DEF Next, ScriptStep, ServiceStep

\* The two invariants hold together with Typed in every state.
Sound == Typed /\ Contained /\ Answers

LEMMA SoundInit == Init => Sound
BY TypedInit DEF Init, WrapperInit, Sound, Contained, Answers, NoCall

LEMMA SoundStep ==
  ASSUME Sound, [Next]_vars
  PROVE  Sound'
BY TypedStep, ContainedStep, AnswersStep DEF Sound

(***************************************************************************)
(* Flakes: a suite that was answered with a flake is failing already, or   *)
(* it is about to read that answer, or it has failed.                      *)
(***************************************************************************)
FlakeInCall == call.st = "answered" /\ call.kind = "flake" /\ call.route = "api"
Flakes ==
  \A s \in Suites :
    /\ stage <= StageOf[s] => verdict[s] = "none"
    /\ sid # "s5" /\ s \in flaked =>
         \/ stage > StageOf[s] /\ verdict[s] = "fail"
         \/ stage = StageOf[s] /\ (failed \/ FlakeInCall)

\* No script of s2 or s3 takes a flake for an answer.
LEMMA FlakeFails ==
  ASSUME Typed, FlakeInCall, sid # "s5", NEW fits \in BOOLEAN
  PROVE  ~Passes(Script[pc], [kind |-> call.kind, fits |-> fits])
<1>1. Script[pc].route = "api" /\ call.kind = "flake" /\ Asks(Suite, sid, Script[pc])
  BY InFlight DEF Typed, FlakeInCall
<1>2. Script[pc].check \in {"status", "created", "count", "results"}
  BY <1>1 DEF Asks
<1>3. CASE Script[pc].check = "status"
  BY <1>1, <1>3 DEF Passes
<1>4. CASE Script[pc].check \in {"created", "results"}
  BY <1>1, <1>4 DEF Passes
<1>5. CASE Script[pc].check = "count"
  BY <1>1, <1>5 DEF Passes
<1> QED BY <1>2, <1>3, <1>4, <1>5

LEMMA FlakesInit == Init => Flakes
<1> SUFFICES ASSUME Init PROVE Flakes
  OBVIOUS
<1>1. stage = 1 /\ flaked = {} /\ \A s \in Suites : verdict[s] = "none"
  BY DEF Init
<1> QED BY <1>1 DEF Flakes

LEMMA FlakesStep ==
  ASSUME Typed, Flakes, [Next]_vars
  PROVE  Flakes'
<1>0. /\ Scalars /\ Flow /\ stage \in 1..7 /\ flaked \subseteq Suites
      /\ verdict \in [Suites -> Verdicts]
      /\ \A s \in Suites : StageOf[s] \in {2, 4, 6}
  BY DEF Typed, Scalars, Contents, Outcomes, StageOf, Suites
\* Steps within a stage that keep the answer, if there is one, or fail.
<1>1. ASSUME UNCHANGED <<stage, verdict, sid>>, flaked' \subseteq flaked,
             (failed => failed'), FlakeInCall => failed' \/ FlakeInCall'
      PROVE  Flakes'
  BY <1>1 DEF Flakes
\* Steps that end a stage.
<1>2. ASSUME stage' = stage + 1, UNCHANGED <<sid, flaked>>,
             \/ ~Running /\ UNCHANGED verdict
             \/ /\ Running
                /\ \E v \in Verdicts : /\ verdict' = [verdict EXCEPT ![Suite] = v]
                                       /\ v = "fail" \/ (~failed /\ call = NoCall)
      PROVE  Flakes'
  <2> SUFFICES ASSUME NEW s \in Suites
               PROVE  /\ stage' <= StageOf[s] => verdict'[s] = "none"
                      /\ sid' # "s5" /\ s \in flaked' =>
                           stage' > StageOf[s] /\ verdict'[s] = "fail"
    BY DEF Flakes
  <2>1. /\ stage <= StageOf[s] => verdict[s] = "none"
        /\ sid # "s5" /\ s \in flaked =>
             \/ stage > StageOf[s] /\ verdict[s] = "fail"
             \/ stage = StageOf[s] /\ (failed \/ FlakeInCall)
    BY DEF Flakes
  <2>2. Suite = s <=> stage = StageOf[s]
    BY <1>0, StageFacts DEF Suite
  <2>3. CASE Suite = s
    <3>1. Running
      BY <2>3 DEF Running
    <3>2. PICK v \in Verdicts : /\ verdict' = [verdict EXCEPT ![Suite] = v]
                                /\ v = "fail" \/ (~failed /\ call = NoCall)
      BY <1>2, <3>1
    <3>3. verdict'[s] = v
      BY <1>0, <2>3, <3>2
    <3>4. stage' > StageOf[s]
      BY <1>0, <1>2, <2>2, <2>3
    <3> QED BY <1>0, <1>2, <2>1, <2>2, <2>3, <3>2, <3>3, <3>4 DEF FlakeInCall, NoCall
  <2>4. CASE Suite # s
    <3>1. verdict'[s] = verdict[s]
      BY <1>0, <1>2, <2>4
    <3> QED BY <1>0, <1>2, <2>1, <2>2, <2>4, <3>1
  <2> QED BY <2>3, <2>4
<1>3. CASE Carries
  <2>1. FlakeInCall => FlakeInCall'
    BY <1>0, <1>3, CarriedFlow DEF FlakeInCall, Answerable, Pending
  <2> QED BY <1>1, <1>3, <2>1 DEF Carries, scriptVars
<1>4. CASE FlakeStep
  <2>1. /\ FlakeInCall' /\ flaked' = flaked \cup {Suite} /\ UNCHANGED <<stage, verdict, sid>>
        /\ UNCHANGED failed
    BY <1>0, <1>4, AppAnswered DEF FlakeInCall, Unanswering
  <2>2. Suite \in Suites /\ stage = StageOf[Suite]
    BY <1>0, <1>4, AppAnswered, InFlight DEF Answerable, Pending
  <2> QED BY <1>0, <2>1, <2>2 DEF Flakes
<1>5. CASE Served \/ Torn \/ AppFails
  <2>1. ~FlakeInCall /\ UNCHANGED <<stage, verdict, sid, failed, flaked>>
    BY <1>0, <1>5, AppAnswered DEF FlakeInCall, Unanswering, Answerable, Pending
  <2> QED BY <1>1, <2>1
<1>6. CASE PostRunLog \/ GetRunLog \/ ProbeFails
  <2>1. ~FlakeInCall /\ UNCHANGED <<stage, verdict, sid, failed, flaked>>
    BY <1>0, <1>6, ProbeAnswered DEF FlakeInCall, Unanswering
  <2> QED BY <1>1, <2>1
<1>7. CASE LateLands
  BY <1>1, <1>7, LateMoves DEF wrapperVars, Measures, FlakeInCall
<1>8. CASE Ready
  <2>1. /\ stage' = stage + 1 /\ UNCHANGED <<sid, flaked, verdict>> /\ ~Running
    BY <1>0, <1>8, ReadyMoves, StageFacts DEF wrapperVars, Measures, Running, Suite
  <2> QED BY <1>2, <2>1
<1>9. CASE Reset
  <2>1. stage' = stage + 1 /\ stage \in {3, 5} /\ UNCHANGED <<sid, flaked, verdict>>
    BY <1>0, <1>9, ResetMoves DEF wrapperVars, Measures
  <2>2. ~Running
    BY <1>0, <2>1, StageFacts DEF Running, Suite
  <2> QED BY <1>2, <2>1, <2>2
<1>10. CASE Send
  BY <1>0, <1>1, <1>10, SendMoves DEF scriptVars, FlakeInCall, NoCall
<1>11. CASE SkipWithoutId
  BY <1>0, <1>1, <1>11, SkipMoves DEF wrapperVars, Measures, FlakeInCall, NoCall
<1>12. CASE Ends
  <2>1. /\ Running /\ stage' = stage + 1 /\ UNCHANGED <<sid, flaked>> /\ call = NoCall
        /\ verdict' = [verdict EXCEPT ![Suite] = IF failed THEN "fail" ELSE "pass"]
    BY <1>0, <1>12, EndsMoves DEF wrapperVars, Measures
  <2>2. {"fail", "pass"} \subseteq Verdicts
    BY DEF Verdicts
  <2>3. CASE failed
    BY <1>2, <2>1, <2>2, <2>3
  <2>4. CASE ~failed
    BY <1>2, <2>1, <2>2, <2>4
  <2> QED BY <2>3, <2>4
<1>13. CASE Return
  <2>1. /\ UNCHANGED <<sid, flaked>> /\ call.st = "answered" /\ call.kind \in Kinds
        /\ call.fits \in BOOLEAN /\ Consume(call.kind, call.fits)
    BY <1>0, <1>13, ReturnMoves
  <2>2. CASE /\ stage' = stage + 1
             /\ verdict' = [verdict EXCEPT ![Suite] = "fail"]
    <3>1. Running /\ "fail" \in Verdicts
      BY <1>0, <2>1, InFlight DEF Verdicts
    <3> QED BY <1>2, <2>1, <2>2, <3>1
  <2>3. CASE /\ UNCHANGED <<stage, verdict>>
             /\ failed' = (failed \/ Raises(Script[pc], call.kind)
                             \/ ~Passes(Script[pc], [kind |-> call.kind, fits |-> call.fits]))
    <3>1. CASE sid = "s5"
      BY <1>0, <2>1, <2>3, <3>1 DEF Flakes
    <3>2. CASE sid # "s5"
      <4>1. FlakeInCall => ~Passes(Script[pc], [kind |-> call.kind, fits |-> call.fits])
        BY <2>1, <3>2, FlakeFails
      <4> QED BY <1>1, <2>1, <2>3, <4>1
    <3> QED BY <3>1, <3>2
  <2> QED BY <2>1, <2>2, <2>3, Consumed
<1>14. CASE TimeOut
  <2>1. /\ UNCHANGED <<sid, flaked>> /\ call.st \in Pending /\ Consume("none", TRUE)
        /\ "none" \in Kinds /\ ~FlakeInCall
    BY <1>14, TimedOut DEF FlakeInCall, Pending
  <2>2. CASE /\ stage' = stage + 1
             /\ verdict' = [verdict EXCEPT ![Suite] = "fail"]
    <3>1. Running /\ "fail" \in Verdicts
      BY <1>0, <2>1, InFlight DEF Verdicts, Pending
    <3> QED BY <1>2, <2>1, <2>2, <3>1
  <2>3. CASE /\ UNCHANGED <<stage, verdict>>
             /\ failed' = (failed \/ Raises(Script[pc], "none")
                             \/ ~Passes(Script[pc], [kind |-> "none", fits |-> TRUE]))
    BY <1>1, <2>1, <2>3
  <2> QED BY <2>1, <2>2, <2>3, Consumed DEF Pending
<1> QED BY <1>0, <1>3, <1>4, <1>5, <1>6, <1>7, <1>8, <1>9, <1>10, <1>11, <1>12, <1>13, <1>14,
           NextCases

\* A suite of s2 or s3 that met one flake fails (wrapper.py: the handler under F10; the
\* checks of smoke.py, regression.py and e2e.py): no script of theirs has a request to the
\* application whose check a flake passes, and a failure is never taken back.
THEOREM FlakeSeenAlways == Spec => []FlakeSeen
<1>1. Init => Typed /\ Flakes
  BY TypedInit, FlakesInit
<1>2. Typed /\ Flakes /\ [Next]_vars => (Typed /\ Flakes)'
  BY TypedStep, FlakesStep
<1>3. Typed /\ Flakes => FlakeSeen
  <2> SUFFICES ASSUME Typed, Flakes, NEW s \in flaked, sid # "s5"
               PROVE  verdict[s] # "pass"
    BY DEF FlakeSeen
  <2>1. s \in Suites
    BY DEF Typed, Contents
  <2>2. StageOf[s] \in Nat
    BY <2>1 DEF StageOf, Suites
  <2> QED BY <2>1, <2>2 DEF Flakes, Typed, Scalars
<1> QED BY <1>1, <1>2, <1>3, PTL DEF Spec

(***************************************************************************)
(* What the scripts were told, and what the database holds: the answer on  *)
(* its way to the script is the only difference.                           *)
(***************************************************************************)
Applied ==
  IF call.st = "answered" /\ call.kind = "ok" /\ call.op = "create" THEN known \cup {Suite}
  ELSE IF call.st = "answered" /\ call.kind = "ok" /\ call.op = "delete" THEN known \ {Suite}
  ELSE known

Agreed ==
  Counts /\ Undisturbed =>
    /\ call.st = "answered" => call.kind # "torn"
    /\ entities = Applied

\* A script believes an undisturbed answer exactly when the write was made.
LEMMA BelievesRightly ==
  ASSUME Typed, call.st = "answered", call.kind # "torn", Consume(call.kind, call.fits)
  PROVE  known' = Applied
<1> DEFINE c == Script[pc]
           passed == Passes(c, [kind |-> call.kind, fits |-> call.fits])
           raised == Raises(c, call.kind)
<1>1. /\ Asks(Suite, sid, c) /\ call.op = c.op /\ call.fits \in BOOLEAN
  BY InFlight DEF Typed
<1>2. known' = IF raised \/ ~passed THEN known
               ELSE CASE c.op = "create" -> known \cup {Suite}
                      [] c.op = "delete" -> known \ {Suite}
                      [] OTHER -> known
  BY DEF Consume
<1> HIDE DEF c, passed, raised
<1>3. CASE c.op = "create"
  <2>1. c.check = "created"
    BY <1>1, <1>3 DEF Asks
  <2>2. /\ passed <=> call.kind = "ok"
        /\ raised => call.kind # "ok"
    BY <2>1 DEF passed, raised, Passes, Raises, NeedsJson
  <2> QED BY <1>1, <1>2, <1>3, <2>2 DEF Applied
<1>4. CASE c.op = "delete"
  <2>1. c.check = "status"
    BY <1>1, <1>4 DEF Asks
  <2>2. /\ passed <=> call.kind = "ok"
        /\ raised => call.kind # "ok"
    BY <2>1 DEF passed, raised, Passes, Raises, NeedsJson
  <2> QED BY <1>1, <1>2, <1>4, <2>2 DEF Applied
<1>5. CASE c.op \notin {"create", "delete"}
  BY <1>1, <1>2, <1>5 DEF Applied
<1> QED BY <1>3, <1>4, <1>5

LEMMA AgreedInit == Init => Agreed
<1> SUFFICES ASSUME Init PROVE Agreed
  OBVIOUS
<1>1. call.st = "idle" /\ entities = {} /\ known = {}
  BY DEF Init, WrapperInit, NoCall
<1> QED BY <1>1 DEF Agreed, Applied

LEMMA AgreedStep ==
  ASSUME Sound, Agreed, [Next]_vars
  PROVE  Agreed'
<1>1. /\ Typed /\ Scalars /\ Flow /\ Contained /\ crashes \in Nat /\ slow \in Nat
      /\ dberrors \in Nat
  BY DEF Sound, Typed, Scalars
<1>2. crashes' \in Nat /\ slow' \in Nat /\ dberrors' \in Nat /\ Typed'
  BY <1>1, TypedStep DEF Typed, Scalars
<1> SUFFICES ASSUME Counts', Undisturbed'
             PROVE  /\ call'.st = "answered" => call'.kind # "torn"
                    /\ entities' = Applied'
  BY DEF Agreed
<1>3. /\ crashes = 0 /\ slow = 0 /\ dberrors = 0
      /\ crashes' = 0 /\ slow' = 0 /\ dberrors' = 0
  BY <1>1, <1>2, CalmBefore DEF Undisturbed
<1>4. sid' = sid /\ app # "hung" /\ late = {}
  <2>1. sid' = sid
    BY <1>1, NextCases, AppAnswered, ProbeAnswered
    DEF Carries, Unanswering, LateLands, Ready, Reset, Send, SkipWithoutId, Ends, Return, TimeOut,
        wrapperVars
  <2> QED BY <1>3, <2>1 DEF Sound, Contained
<1>5. Counts /\ entities = Applied /\ (call.st = "answered" => call.kind # "torn")
  BY <1>3, <1>4 DEF Agreed, Counts, Undisturbed
<1>6. Counts => sid # "s5"
  BY DEF Counts
\* A step that changes neither side.
<1>7. ASSUME UNCHANGED <<stage, known, entities>>,
             \/ call' = call
             \/ call.st # "answered" /\ call'.st # "answered"
             \/ /\ call.st # "answered" /\ call'.kind # "torn"
                /\ call'.kind # "ok" \/ call'.op \notin {"create", "delete"}
      PROVE  /\ call'.st = "answered" => call'.kind # "torn"
             /\ entities' = Applied'
  <2>1. Suite' = Suite
    BY <1>7 DEF Suite
  <2> QED BY <1>5, <1>7, <2>1 DEF Applied
<1>8. CASE Carries
  <2>1. UNCHANGED <<stage, known, entities>>
    BY <1>8 DEF Carries, scriptVars
  <2>2. \/ call' = call
        \/ call.st # "answered" /\ call'.st # "answered"
        \/ /\ call.st # "answered" /\ call'.kind # "torn"
           /\ call'.kind # "ok" \/ call'.op \notin {"create", "delete"}
    <3>1. CASE Answerable
      <4>1. /\ Asks(Suite, sid, Script[pc]) /\ call.op = Script[pc].op
            /\ call.route = Script[pc].route /\ call.st # "answered"
        BY <1>1, <3>1, InFlight DEF Answerable, Pending
      <4>2. call.route = "healthz" => call.op \notin {"create", "delete"}
        BY <4>1 DEF Asks
      <4> QED BY <1>1, <1>8, <4>1, <4>2, CarriedFlow
    <3>2. CASE ~Answerable
      BY <1>1, <1>8, <3>2, CarriedFlow
    <3> QED BY <3>1, <3>2
  <2> QED BY <1>7, <2>1, <2>2
<1>9. CASE FlakeStep
  BY <1>1, <1>7, <1>9, AppAnswered DEF Unanswering, Answerable, Pending
<1>10. CASE Served
  <2>1. /\ UNCHANGED <<stage, known>> /\ entities' = Inserts(call.op, Suite)
        /\ call'.st = "answered" /\ call'.kind = "ok" /\ call'.op = call.op
        /\ call.st # "answered"
    BY <1>1, <1>10, AppAnswered DEF Unanswering, Answerable, Pending
  <2>2. Suite' = Suite /\ entities = known
    BY <1>5, <2>1 DEF Suite, Applied
  <2> QED BY <1>5, <2>1, <2>2 DEF Applied, Inserts
<1>11. CASE Torn \/ AppFails
  BY <1>1, <1>3, <1>11, AppAnswered
<1>12. CASE PostRunLog \/ GetRunLog \/ ProbeFails
  <2>1. /\ UNCHANGED <<stage, known, entities>> /\ call.st = "sent" /\ call.route = "probe"
        /\ call'.op = call.op /\ call'.kind \in {"ok", "error"}
    BY <1>1, <1>12, ProbeAnswered DEF Unanswering
  <2>2. call.op \notin {"create", "delete"}
    BY <1>1, <2>1, InFlight DEF Asks
  <2> QED BY <1>7, <2>1, <2>2
<1>13. CASE Ready \/ Ends
  <2>1. call.st = "idle" /\ call'.st = "idle" /\ UNCHANGED <<known, entities>>
    <3>1. CASE Ready
      BY <1>1, <3>1, ReadyMoves DEF NoCall, Database
    <3>2. CASE Ends
      BY <1>1, <3>2, EndsMoves DEF NoCall, Database
    <3> QED BY <1>13, <3>1, <3>2
  <2> QED BY <1>5, <2>1 DEF Applied
<1>14. CASE Reset
  <2>1. /\ call.st = "idle" /\ call'.st = "idle"
        /\ UNCHANGED <<known, entities>> \/ (known' = {} /\ entities' = {})
    BY <1>1, <1>14, ResetMoves DEF NoCall, Database
  <2> QED BY <1>5, <2>1 DEF Applied
<1>15. CASE Send
  BY <1>1, <1>7, <1>15, SendMoves DEF NoCall, scriptVars
<1>16. CASE SkipWithoutId
  BY <1>1, <1>7, <1>16, SkipMoves DEF NoCall, Database
<1>17. CASE Return
  <2>1. /\ UNCHANGED entities /\ call.st = "answered" /\ Consume(call.kind, call.fits)
    BY <1>1, <1>17, ReturnMoves DEF Database
  <2>2. known' = Applied /\ call'.st = "idle"
    BY <1>1, <1>5, <2>1, BelievesRightly DEF Consume, NoCall
  <2> QED BY <1>5, <2>1, <2>2 DEF Applied
<1>18. CASE TimeOut
  BY <1>1, <1>3, <1>4, <1>18, TimedOut
<1>19. CASE LateLands
  BY <1>1, <1>4, <1>19, LateMoves
<1> QED BY <1>1, <1>8, <1>9, <1>10, <1>11, <1>12, <1>13, <1>14, <1>15, <1>16, <1>17, <1>18,
           <1>19, NextCases

\* What the scripts were told of their creates and deletes is what the database of s2 and s3
\* holds (wrapper.py forwards or answers, never both), as long as nothing crashed, was given
\* up or failed: the answer on its way is the only difference, and a script believes it
\* exactly when the write was made.
THEOREM ToldIsTrueAlways == Spec => []ToldIsTrue
<1>1. Init => Sound /\ Agreed
  BY SoundInit, AgreedInit
<1>2. Sound /\ Agreed /\ [Next]_vars => (Sound /\ Agreed)'
  BY SoundStep, AgreedStep
<1>3. Sound /\ Agreed => ToldIsTrue
  BY DEF Agreed, Applied, ToldIsTrue
<1> QED BY <1>1, <1>2, <1>3, PTL DEF Spec

(***************************************************************************)
(* With isolation and nobody given up, a suite finds only what it wrote.   *)
(***************************************************************************)
Isolated == isolation # "off" /\ slow = 0 /\ crashes = 0

Fresh ==
  Isolated =>
    /\ stage = 1 => log = {}
    /\ Running => log \subseteq {Suite}
    /\ stage = 6 /\ pc <= 3 => entities = {}
    /\ call.st = "answered" =>
         /\ call.op = "log" => call.fits
         /\ stage = 6 /\ call.op = "count" /\ call.kind = "ok" => call.fits
    /\ \A s \in Suites : clean[s] # "fail"
    /\ counted["e2e"] # "fail"

\* The measurements a script takes from an answer.
LEMMA Measured ==
  ASSUME Typed, call.st = "answered", Consume(call.kind, call.fits)
  PROVE  /\ \/ clean' = clean
            \/ /\ call.op = "log"
               /\ clean' = [clean EXCEPT ![Suite] = Result(call.fits)]
         /\ \/ counted' = counted
            \/ /\ call.op = "count" /\ call.kind = "ok"
               /\ counted' = [counted EXCEPT ![Suite] = Result(call.fits)]
<1> DEFINE c == Script[pc]
           passed == Passes(c, [kind |-> call.kind, fits |-> call.fits])
<1>1. /\ Asks(Suite, sid, c) /\ call.op = c.op /\ call.fits \in BOOLEAN
  BY InFlight DEF Typed
<1>2. /\ clean' = IF c.check = "clean" /\ ~Raises(c, call.kind)
                  THEN [clean EXCEPT ![Suite] = Result(passed)] ELSE clean
      /\ counted' = IF c.check = "count" /\ ~Raises(c, call.kind) /\ call.kind = "ok"
                    THEN [counted EXCEPT ![Suite] = Result(passed)] ELSE counted
  BY DEF Consume
<1>3. c.check = "clean" => c.op = "log" /\ passed = call.fits
  BY <1>1 DEF Asks, Passes
<1>4. c.check = "count" /\ call.kind = "ok" => c.op = "count" /\ passed = call.fits
  BY <1>1 DEF Asks, Passes
<1> HIDE DEF c, passed
<1> QED BY <1>1, <1>2, <1>3, <1>4

LEMMA FreshInit == Init => Fresh
<1> SUFFICES ASSUME Init PROVE Fresh
  OBVIOUS
<1>1. /\ call.st = "idle" /\ stage = 1 /\ ~Running /\ log = {}
      /\ \A s \in Suites : clean[s] = "none" /\ counted[s] = "none"
  BY StageFacts DEF Init, WrapperInit, NoCall, Running, Suite
<1>2. "e2e" \in Suites
  BY DEF Suites
<1> QED BY <1>1, <1>2 DEF Fresh

\* A step that leaves the measurements, the suite and the contents alone.
LEMMA FreshKept ==
  ASSUME Fresh, stage \in 1..7, Isolated, UNCHANGED <<stage, clean, counted, log, entities>>,
         pc <= pc', pc \in Nat, pc' \in Nat,
         \/ call' = call
         \/ call'.st # "answered"
         \/ /\ call'.op = "log" => call'.fits
            /\ call'.op = "count" /\ call'.kind = "ok" => call'.fits
  PROVE  Fresh'
<1>1. Suite' = Suite /\ Running' = Running
  BY DEF Suite, Running
<1> QED BY <1>1 DEF Fresh

LEMMA FreshStep ==
  ASSUME Sound, Fresh, [Next]_vars
  PROVE  Fresh'
<1>1. /\ Typed /\ Scalars /\ Flow /\ Contained /\ crashes \in Nat /\ slow \in Nat
      /\ stage \in 1..7 /\ pc \in Nat \ {0}
  BY DEF Sound, Typed, Scalars
<1>2. crashes' \in Nat /\ slow' \in Nat /\ Typed' /\ pc' \in Nat \ {0} /\ stage' \in 1..7
  BY <1>1, TypedStep DEF Typed, Scalars
<1> SUFFICES ASSUME Isolated' PROVE Fresh'
  BY DEF Fresh
<1>3. slow = 0 /\ crashes = 0 /\ slow' = 0 /\ crashes' = 0
  BY <1>1, <1>2, CalmBefore DEF Isolated
<1>4. isolation' = isolation
  BY <1>1, NextCases, AppAnswered, ProbeAnswered
  DEF Carries, scriptVars, Unanswering, LateLands, Ready, Reset, Send, SkipWithoutId, Ends,
      Return, TimeOut, Told
<1>5. Isolated /\ isolation # "off" /\ late = {} /\ app # "hung"
  BY <1>3, <1>4 DEF Isolated, Contained, Sound
<1>6. /\ stage = 1 => log = {}
      /\ Running => log \subseteq {Suite}
      /\ stage = 6 /\ pc <= 3 => entities = {}
      /\ call.st = "answered" =>
           /\ call.op = "log" => call.fits
           /\ stage = 6 /\ call.op = "count" /\ call.kind = "ok" => call.fits
      /\ \A s \in Suites : clean[s] # "fail"
      /\ counted["e2e"] # "fail"
  BY <1>5 DEF Fresh
\* A step out of a suite: the next stage is no suite.
<1>7. ASSUME Running, stage' = stage + 1, call' = NoCall,
             \A s \in Suites : clean'[s] # "fail", counted'["e2e"] # "fail"
      PROVE  Fresh'
  <2>1. stage' \in {3, 5, 7}
    BY <1>1, <1>7, StageFacts DEF Running, Suite
  <2>2. ~Running'
    BY <2>1, StageFacts DEF Running, Suite
  <2> QED BY <1>7, <2>1, <2>2 DEF Fresh, NoCall
<1>8. CASE Carries
  <2>1. UNCHANGED <<stage, pc, clean, counted, log, entities>>
    BY <1>8 DEF Carries, scriptVars
  <2>2. CASE Answerable
    <3>1. Asks(Suite, sid, Script[pc]) /\ call.op = Script[pc].op /\ call.route = Script[pc].route
      BY <1>1, <2>2, InFlight DEF Answerable, Pending
    <3>2. call.op # "log" /\ (call.op = "count" => call.route = "api")
      BY <2>2, <3>1 DEF Asks, Answerable
    <3>3. \/ call' = call
          \/ call'.st = "forwarded"
          \/ /\ call'.op = "log" => call'.fits
             /\ call'.op = "count" /\ call'.kind = "ok" => call'.fits
      BY <1>1, <1>8, <3>2, CarriedFlow
    <3> QED BY <1>1, <1>5, <2>1, <3>3, FreshKept
  <2>3. CASE ~Answerable
    <3>1. call' = call
      BY <1>1, <1>8, <2>3, CarriedFlow
    <3> QED BY <1>1, <1>5, <2>1, <3>1, FreshKept
  <2> QED BY <2>2, <2>3
<1>9. CASE FlakeStep
  <2>1. /\ UNCHANGED <<stage, pc, clean, counted, log, entities>>
        /\ call'.kind = "flake" /\ call'.op = call.op /\ call.route = "api"
        /\ call.st \in Pending
    BY <1>1, <1>9, AppAnswered DEF Unanswering, Answerable
  <2>2. call.op # "log"
    BY <1>1, <2>1, InFlight DEF Asks, Pending
  <2> QED BY <1>1, <1>5, <2>1, <2>2, FreshKept
<1>10. CASE Served
  <2>1. /\ UNCHANGED <<stage, pc, clean, counted, log>> /\ call.st \in Pending
        /\ entities' = Inserts(call.op, Suite) /\ call'.op = call.op
        /\ call.route # "probe" /\ call'.fits = (entities = {})
    BY <1>1, <1>10, AppAnswered DEF Unanswering, Answerable
  <2>2. /\ Running /\ pc \in 1..Len(Script) /\ Asks(Suite, sid, Script[pc])
        /\ call.op = Script[pc].op /\ call.route = Script[pc].route /\ Suite \in Suites
        /\ stage = StageOf[Suite] /\ sid \in Subjects
    BY <1>1, <2>1, InFlight DEF Pending, Scalars
  <2>3. call.op # "log"
    BY <2>1, <2>2 DEF Asks
  <2>4. CASE stage = 6
    <3>1. Suite = "e2e"
      BY <2>2, <2>4 DEF StageOf, Suites
    <3>2. Places("e2e", Script)
      BY <2>2, <3>1, ScriptIsGood DEF Good
    <3>3. /\ call.op = "create" => pc > 3
          /\ call.op = "count" => pc <= 3
      BY <2>2, <3>2 DEF Places
    <3>4. pc <= 3 => entities = {} /\ entities' = {}
      BY <1>1, <1>6, <2>1, <2>4, <3>3 DEF Inserts
    <3>5. Suite' = Suite /\ Running' = Running
      BY <2>1 DEF Suite, Running
    <3> QED BY <1>1, <1>6, <2>1, <2>2, <2>3, <3>3, <3>4, <3>5 DEF Fresh
  <2>5. CASE stage # 6
    <3>1. Suite' = Suite /\ Running' = Running
      BY <2>1 DEF Suite, Running
    <3> QED BY <1>6, <2>1, <2>3, <2>5, <3>1 DEF Fresh
  <2> QED BY <2>4, <2>5
<1>11. CASE Torn
  BY <1>1, <1>3, <1>11, AppAnswered
<1>12. CASE AppFails
  <2>1. /\ UNCHANGED <<stage, pc, clean, counted, log, entities>>
        /\ call'.kind = "error" /\ call'.op = call.op /\ call.route # "probe"
        /\ call.st \in Pending
    BY <1>1, <1>12, AppAnswered DEF Unanswering, Answerable
  <2>2. call.op # "log"
    BY <1>1, <2>1, InFlight DEF Asks, Pending
  <2> QED BY <1>1, <1>5, <2>1, <2>2, FreshKept
<1>13. CASE PostRunLog
  <2>1. /\ UNCHANGED <<stage, pc, clean, counted, entities>> /\ log' = log \cup {Suite}
        /\ call'.fits = TRUE
    BY <1>1, <1>13, ProbeAnswered DEF Unanswering
  <2>2. Suite' = Suite /\ Running' = Running
    BY <2>1 DEF Suite, Running
  <2>3. stage # 1 /\ call'.op = "mark"
    <3>1. call.st = "sent" /\ call.op = "mark" /\ call'.op = call.op
      BY <1>1, <1>13, ProbeAnswered
    <3> QED BY <1>1, <3>1, InFlight DEF StageOf, Suites
  <2> QED BY <1>6, <2>1, <2>2, <2>3 DEF Fresh
<1>14. CASE GetRunLog
  <2>1. /\ UNCHANGED <<stage, pc, clean, counted, log, entities>>
        /\ call'.fits = (Previous \notin log) /\ call.op = "log" /\ call.st = "sent"
        /\ call'.op = "log"
    BY <1>1, <1>14, ProbeAnswered DEF Unanswering
  <2>2. Running /\ Suite \in Suites /\ Asks(Suite, sid, Script[pc]) /\ Script[pc].op = "log"
    BY <1>1, <2>1, InFlight
  <2>3. Suite # "smoke"
    BY <2>2 DEF Asks
  <2>4. Previous # Suite
    BY <2>2, <2>3 DEF Previous, Suites
  <2>5. call'.fits
    BY <1>6, <2>1, <2>2, <2>4
  <2> QED BY <1>1, <1>5, <2>1, <2>5, FreshKept
<1>15. CASE ProbeFails
  <2>1. /\ UNCHANGED <<stage, pc, clean, counted, log, entities>> /\ call'.fits = TRUE
    BY <1>1, <1>15, ProbeAnswered DEF Unanswering
  <2> QED BY <1>1, <1>5, <2>1, FreshKept
<1>16. CASE Ready
  <2>1. /\ stage = 1 /\ stage' = 2 /\ call' = NoCall /\ UNCHANGED <<clean, counted, log>>
    BY <1>1, <1>16, ReadyMoves DEF Measures, Database
  <2> QED BY <1>6, <2>1 DEF Fresh, NoCall
<1>17. CASE Reset
  <2>1. /\ stage \in {3, 5} /\ stage' = stage + 1 /\ call' = NoCall
        /\ log' = {} /\ entities' = {} /\ UNCHANGED <<clean, counted>>
    BY <1>1, <1>5, <1>17, ResetMoves DEF Measures
  <2> QED BY <1>6, <2>1 DEF Fresh, NoCall
<1>18. CASE Send
  <2>1. /\ UNCHANGED <<stage, pc, clean, counted, log, entities>> /\ call'.st = "sent"
    BY <1>1, <1>18, SendMoves DEF scriptVars
  <2> QED BY <1>1, <1>5, <2>1, FreshKept
<1>19. CASE SkipWithoutId
  <2>1. /\ UNCHANGED <<stage, clean, counted, log, entities>> /\ call'.st = "idle"
        /\ pc' = pc + 1
    BY <1>1, <1>19, SkipMoves DEF Measures, Database, NoCall
  <2> QED BY <1>1, <1>5, <2>1, FreshKept
<1>20. CASE Ends
  <2>1. /\ Running /\ stage' = stage + 1 /\ call' = NoCall /\ UNCHANGED <<clean, counted>>
    BY <1>1, <1>20, EndsMoves DEF Measures
  <2> QED BY <1>6, <1>7, <2>1
<1>21. CASE Return
  <2>1. /\ UNCHANGED <<log, entities, sid>> /\ call.st = "answered" /\ call.kind \in Kinds
        /\ call.fits \in BOOLEAN /\ Consume(call.kind, call.fits)
    BY <1>1, <1>21, ReturnMoves DEF Database
  <2>2. Running /\ Suite \in Suites /\ stage = StageOf[Suite]
    BY <1>1, <2>1, InFlight
  <2>3. /\ clean \in [Suites -> Verdicts] /\ counted \in [Suites -> Verdicts]
        /\ Result(TRUE) = "pass" /\ "e2e" \in Suites /\ StageOf["e2e"] = 6
    BY <1>1 DEF Typed, Outcomes, Result, Suites, StageOf
  <2>4. \A s \in Suites : clean'[s] # "fail"
    BY <1>1, <1>6, <2>1, <2>2, <2>3, Measured
  <2>5. counted'["e2e"] # "fail"
    BY <1>1, <1>6, <2>1, <2>2, <2>3, Measured
  <2>6. CASE stage' = stage + 1
    <3>1. call' = NoCall
      BY <2>1 DEF Consume
    <3> QED BY <1>7, <2>2, <2>4, <2>5, <2>6, <3>1
  <2>7. CASE UNCHANGED stage /\ pc' = pc + 1
    <3>1. call'.st = "idle"
      BY <2>1 DEF Consume, NoCall
    <3>2. Suite' = Suite /\ Running' = Running
      BY <2>7 DEF Suite, Running
    <3> QED BY <1>1, <1>6, <2>1, <2>4, <2>5, <2>7, <3>1, <3>2 DEF Fresh
  <2> QED BY <1>1, <2>1, <2>6, <2>7, Consumed
<1>22. CASE TimeOut
  BY <1>1, <1>3, <1>5, <1>22, TimedOut
<1>23. CASE LateLands
  BY <1>1, <1>5, <1>23, LateMoves
<1> QED BY <1>1, <1>8, <1>9, <1>10, <1>11, <1>12, <1>13, <1>14, <1>15, <1>16, <1>17, <1>18,
           <1>19, <1>20, <1>21, <1>22, <1>23, NextCases

\* With isolation, a marker or an entity too many is no accident of the scripts: the reset
\* empties run_log and the tables (checkpoint.go), each script writes after it has measured
\* (regression.py, e2e.py), so only a write that outlived its client is found by the next.
THEOREM DriftRealAlways == Spec => []DriftReal
<1>1. Init => Sound /\ Fresh
  BY SoundInit, FreshInit
<1>2. Sound /\ Fresh /\ [Next]_vars => (Sound /\ Fresh)'
  BY SoundStep, FreshStep
<1>3. Sound /\ Fresh => DriftReal
  <2> SUFFICES ASSUME Sound, Fresh, isolation = "off" => FALSE, ~(slow > 0), ~(crashes > 0)
               PROVE  /\ clean["regression"] # "fail" /\ clean["e2e"] # "fail"
                      /\ counted["e2e"] # "fail"
    BY DEF DriftReal
  <2>1. Isolated
    BY DEF Isolated, Sound, Typed, Scalars
  <2> QED BY <2>1 DEF Fresh, Suites
<1> QED BY <1>1, <1>2, <1>3, PTL DEF Spec

(***************************************************************************)
(* Without isolation, the markers of the suites before are found.          *)
(***************************************************************************)
Drifting == isolation = "off" /\ table /\ slow = 0 /\ dberrors = 0

\* The suite has been told that its marker is in run_log, or it is over.
MarkPassed == \/ \E i \in 1..(pc - 1) : Script[i].op = "mark"
              \/ call.st = "answered" /\ call.op = "mark"
Marked(su) == stage > StageOf[su] \/ (stage = StageOf[su] /\ MarkPassed)

Seen ==
  Drifting =>
    /\ Marked("smoke") => "smoke" \in log
    /\ Calm /\ Marked("regression") => "regression" \in log
    /\ call.st = "answered" /\ call.op = "log" /\ (Suite = "regression" \/ Calm) => ~call.fits
    /\ clean["regression"] # "pass"
    /\ Calm => clean["e2e"] # "pass"

\* While nothing went wrong no answer makes a script raise.
LEMMA CalmNeverRaises ==
  ASSUME Typed, Answers, Calm, call.st = "answered"
  PROVE  ~Raises(Script[pc], call.kind)
<1>1. Asks(Suite, sid, Script[pc]) /\ call.route = Script[pc].route
  BY InFlight DEF Typed
<1>2. CASE call.kind \in {"ok", "error", "flake"}
  BY <1>2 DEF Raises
<1>3. CASE call.kind = "broken" /\ call.route = "html"
  BY <1>1, <1>3 DEF Raises, NeedsJson, Asks
<1> QED BY <1>2, <1>3 DEF Answers

LEMMA SeenInit == Init => Seen
<1> SUFFICES ASSUME Init PROVE Seen
  OBVIOUS
<1>1. /\ call.st = "idle" /\ stage = 1
      /\ \A s \in Suites : clean[s] = "none"
  BY DEF Init, WrapperInit, NoCall
<1>2. ~Marked("smoke") /\ ~Marked("regression")
  BY <1>1 DEF Marked, StageOf
<1> QED BY <1>1, <1>2 DEF Seen, Suites

LEMMA SeenStep ==
  ASSUME Sound, Seen, [Next]_vars
  PROVE  Seen'
<1>1. /\ Typed /\ Scalars /\ Flow /\ Contained /\ Answers /\ crashes \in Nat /\ slow \in Nat
      /\ dberrors \in Nat /\ stage \in 1..7 /\ pc \in Nat \ {0}
  BY DEF Sound, Typed, Scalars
<1>2. /\ crashes' \in Nat /\ slow' \in Nat /\ dberrors' \in Nat /\ Typed' /\ (Calm' => Calm)
  BY <1>1, TypedStep, CalmBefore DEF Typed, Scalars
<1> SUFFICES ASSUME Drifting' PROVE Seen'
  BY DEF Seen
<1>3. slow = 0 /\ dberrors = 0 /\ slow' = 0 /\ dberrors' = 0
  BY <1>1, <1>2, CalmBefore DEF Drifting
<1>4. isolation' = isolation /\ (isolation = "off" => table' = table)
  <2>1. CASE Reset
    BY <1>1, <2>1, ResetMoves DEF Told, Database
  <2>2. CASE ~Reset
    BY <1>1, <2>2, NextCases, AppAnswered, ProbeAnswered
    DEF Carries, scriptVars, Unanswering, LateLands, Ready, Send, SkipWithoutId, Ends, Return,
        TimeOut, Told, Database
  <2> QED BY <2>1, <2>2
<1>5. Drifting /\ isolation = "off" /\ table
  BY <1>3, <1>4 DEF Drifting
<1>6. /\ Marked("smoke") => "smoke" \in log
      /\ Calm /\ Marked("regression") => "regression" \in log
      /\ call.st = "answered" /\ call.op = "log" /\ (Suite = "regression" \/ Calm) => ~call.fits
      /\ clean["regression"] # "pass"
      /\ Calm => clean["e2e"] # "pass"
  BY <1>5 DEF Seen
<1>7. StageOf["smoke"] = 2 /\ StageOf["regression"] = 4 /\ StageOf["e2e"] = 6
  BY DEF StageOf
\* A step within a stage that adds no answer of the probe service.
<1>8. ASSUME UNCHANGED <<stage, sid, clean>>, log \subseteq log',
             pc' = pc \/ (pc' = pc + 1 /\ (Script[pc].op = "mark" => MarkPassed)),
             \/ call' = call
             \/ call'.st # "answered"
             \/ call'.op \notin {"mark", "log"}
      PROVE  Seen'
  <2>1. Suite' = Suite /\ Script' = Script
    BY <1>8, SameScript
  <2>2. MarkPassed' => MarkPassed
    BY <1>1, <1>8, <2>1 DEF MarkPassed
  <2>3. (Marked("smoke"))' => Marked("smoke")
    BY <1>8, <2>2 DEF Marked
  <2>4. (Marked("regression"))' => Marked("regression")
    BY <1>8, <2>2 DEF Marked
  <2> QED BY <1>2, <1>6, <1>8, <2>1, <2>3, <2>4 DEF Seen
\* A step to the next stage.
<1>9. ASSUME stage' = stage + 1, pc' = 1, call' = NoCall, log' = log,
             stage = 2 => Marked("smoke"),
             stage = 4 /\ Calm' => Marked("regression"),
             clean'["regression"] # "pass", Calm' => clean'["e2e"] # "pass"
      PROVE  Seen'
  <2>1. ~MarkPassed'
    BY <1>9 DEF MarkPassed, NoCall
  <2>2. (Marked("smoke"))' => Marked("smoke")
    BY <1>1, <1>7, <1>9, <2>1 DEF Marked
  <2>3. (Marked("regression"))' /\ Calm' => Marked("regression")
    BY <1>1, <1>7, <1>9, <2>1 DEF Marked
  <2> QED BY <1>2, <1>6, <1>9, <2>2, <2>3 DEF Seen, NoCall
<1>10. CASE Carries
  <2>1. UNCHANGED <<stage, sid, pc, clean, log>>
    BY <1>10 DEF Carries, scriptVars
  <2>2. CASE Answerable
    <3>1. Asks(Suite, sid, Script[pc]) /\ call.op = Script[pc].op /\ call.route = Script[pc].route
      BY <1>1, <2>2, InFlight DEF Answerable, Pending
    <3>2. call.op \notin {"log", "mark"}
      BY <2>2, <3>1 DEF Asks, Answerable
    <3>3. call' = call \/ call'.op = call.op
      BY <1>1, <1>10, CarriedFlow
    <3> QED BY <1>8, <2>1, <3>2, <3>3
  <2>3. CASE ~Answerable
    <3>1. call' = call
      BY <1>1, <1>10, <2>3, CarriedFlow
    <3> QED BY <1>8, <2>1, <3>1
  <2> QED BY <2>2, <2>3
<1>11. CASE FlakeStep \/ Served \/ Torn \/ AppFails
  <2>1. /\ UNCHANGED <<stage, sid, pc, clean, log>>
        /\ call'.op = call.op /\ call.route # "probe" /\ call.st \in Pending
    BY <1>1, <1>11, AppAnswered DEF Unanswering, Answerable
  <2>2. call.op \notin {"log", "mark"}
    BY <1>1, <2>1, InFlight DEF Asks, Pending
  <2> QED BY <1>8, <2>1, <2>2
<1>12. CASE PostRunLog
  <2>1. /\ UNCHANGED <<stage, sid, pc, clean>> /\ log' = log \cup {Suite}
        /\ call'.op = "mark" /\ call.st = "sent"
    BY <1>1, <1>12, ProbeAnswered DEF Unanswering
  <2>2. Suite' = Suite /\ Script' = Script
    BY <2>1, SameScript
  <2>3. stage = StageOf[Suite] /\ Suite \in Suites
    BY <1>1, <2>1, InFlight
  <2>4. (Marked("smoke"))' => Marked("smoke") \/ Suite = "smoke"
    BY <1>7, <2>1, <2>3 DEF Marked, Suites
  <2>5. (Marked("regression"))' => Marked("regression") \/ Suite = "regression"
    BY <1>7, <2>1, <2>3 DEF Marked, Suites
  <2> QED BY <1>2, <1>6, <2>1, <2>2, <2>4, <2>5 DEF Seen
<1>13. CASE GetRunLog
  <2>1. /\ UNCHANGED <<stage, sid, pc, clean, log>> /\ call.st = "sent"
        /\ call'.op = "log" /\ call.op = "log" /\ call'.fits = (Previous \notin log)
    BY <1>1, <1>13, ProbeAnswered DEF Unanswering
  <2>2. Suite' = Suite /\ Script' = Script
    BY <2>1, SameScript
  <2>3. stage = StageOf[Suite] /\ Suite \in Suites
    BY <1>1, <2>1, InFlight
  <2>4. MarkPassed' => MarkPassed
    BY <2>1, <2>2 DEF MarkPassed
  <2>5. (Marked("smoke"))' => Marked("smoke")
    BY <2>1, <2>4 DEF Marked
  <2>6. (Marked("regression"))' => Marked("regression")
    BY <2>1, <2>4 DEF Marked
  <2>7. Suite = "regression" => Previous \in log
    BY <1>6, <1>7, <2>3 DEF Previous, Marked
  <2>8. Suite = "e2e" /\ Calm => Previous \in log
    BY <1>6, <1>7, <2>3 DEF Previous, Marked
  <2>9. Suite # "smoke"
    BY <1>1, <2>1, InFlight DEF Asks
  <2> QED BY <1>2, <1>6, <2>1, <2>2, <2>3, <2>5, <2>6, <2>7, <2>8, <2>9 DEF Seen, Suites
<1>14. CASE ProbeFails
  BY <1>1, <1>3, <1>5, <1>14, ProbeAnswered
<1>15. CASE Ready
  <2>1. /\ stage = 1 /\ stage' = 2 /\ pc' = 1 /\ call' = NoCall
        /\ UNCHANGED <<clean, log>>
    BY <1>1, <1>15, ReadyMoves DEF Measures, Database
  <2> QED BY <1>2, <1>6, <1>9, <2>1
<1>16. CASE Reset
  <2>1. /\ stage \in {3, 5} /\ stage' = stage + 1 /\ pc' = 1 /\ call' = NoCall
        /\ UNCHANGED <<clean, log>>
    BY <1>1, <1>5, <1>16, ResetMoves DEF Measures, Database
  <2> QED BY <1>2, <1>6, <1>9, <2>1
<1>17. CASE Send
  <2>1. UNCHANGED <<stage, sid, pc, clean, log>> /\ call'.st = "sent"
    BY <1>1, <1>17, SendMoves DEF scriptVars
  <2> QED BY <1>8, <2>1
<1>18. CASE SkipWithoutId
  <2>1. /\ UNCHANGED <<stage, sid, clean, log>> /\ call'.st = "idle" /\ pc' = pc + 1
        /\ Script[pc].op # "mark"
    BY <1>1, <1>18, SkipMoves DEF wrapperVars, Measures, Database, NoCall, NeedId
  <2> QED BY <1>8, <2>1
<1>19. CASE Ends
  <2>1. /\ Running /\ Suite \in Suites /\ stage = StageOf[Suite] /\ stage' = stage + 1
        /\ pc' = 1 /\ call' = NoCall /\ UNCHANGED <<clean, log>> /\ pc = Len(Script) + 1
    BY <1>1, <1>19, EndsMoves DEF Measures, Database
  <2>2. Places(Suite, Script) /\ Len(Script) \in Nat
    BY <1>1, <2>1, ScriptIsGood DEF Good, Scalars
  <2>3. MarkPassed
    BY <2>1, <2>2 DEF Places, MarkPassed
  <2> QED BY <1>2, <1>6, <1>7, <1>9, <2>1, <2>3 DEF Marked
<1>20. CASE Return
  <2>1. /\ UNCHANGED <<log, sid>> /\ call.st = "answered" /\ call.kind \in Kinds
        /\ call.fits \in BOOLEAN /\ Consume(call.kind, call.fits)
    BY <1>1, <1>20, ReturnMoves DEF Database
  <2>2. /\ Suite \in Suites /\ stage = StageOf[Suite] /\ call.op = Script[pc].op
        /\ Asks(Suite, sid, Script[pc])
    BY <1>1, <2>1, InFlight
  <2>3. /\ clean \in [Suites -> Verdicts] /\ Result(FALSE) = "fail"
        /\ {"regression", "e2e"} \subseteq Suites
    BY <1>1 DEF Typed, Outcomes, Result, Suites
  <2>4. clean'["regression"] # "pass"
    BY <1>1, <1>6, <2>1, <2>2, <2>3, Measured
  <2>5. Calm' => clean'["e2e"] # "pass"
    BY <1>1, <1>2, <1>6, <2>1, <2>2, <2>3, Measured
  <2>6. call'.st = "idle" /\ call' = NoCall
    BY <2>1 DEF Consume, NoCall
  <2>7. CASE /\ Raises(Script[pc], call.kind) /\ ~Script[pc].safe
             /\ stage' = stage + 1 /\ pc' = 1
    <3>1. Suite # "smoke"
      BY <2>2, <2>7 DEF Asks
    <3>2. ~Calm
      BY <1>1, <2>1, <2>7, CalmNeverRaises
    <3> QED BY <1>2, <1>7, <1>9, <2>1, <2>2, <2>4, <2>5, <2>6, <2>7, <3>1, <3>2 DEF Suites
  <2>8. CASE UNCHANGED stage /\ pc' = pc + 1
    <3>1. Suite' = Suite /\ Script' = Script
      BY <2>1, <2>8, SameScript
    <3>2. MarkPassed' => MarkPassed
      BY <1>1, <2>1, <2>2, <2>6, <2>8, <3>1 DEF MarkPassed
    <3>3. (Marked("smoke"))' => Marked("smoke")
      BY <2>8, <3>2 DEF Marked
    <3>4. (Marked("regression"))' => Marked("regression")
      BY <2>8, <3>2 DEF Marked
    <3> QED BY <1>2, <1>6, <2>1, <2>4, <2>5, <2>6, <3>3, <3>4 DEF Seen
  <2> QED BY <1>1, <2>1, <2>7, <2>8, Consumed
<1>21. CASE TimeOut
  <2>1. /\ UNCHANGED <<log, sid, clean>> /\ Consume("none", TRUE) /\ call.st \in Pending
        /\ "none" \in Kinds /\ app = "hung" /\ call.route # "probe"
    <3>1. slow' = slow + 1 \/ (app = "hung" /\ call.route # "probe")
      BY <1>1, <1>21, TimedOut
    <3>2. app = "hung" /\ call.route # "probe"
      BY <1>3, <3>1
    <3> QED BY <1>1, <1>21, <3>2, TimedOut DEF Database
  <2>2. /\ Suite \in Suites /\ stage = StageOf[Suite] /\ Asks(Suite, sid, Script[pc])
        /\ call.route = Script[pc].route
    BY <1>1, <2>1, InFlight DEF Pending
  <2>3. Script[pc].op # "mark" /\ ~Calm
    BY <1>1, <2>1, <2>2 DEF Asks, Contained, Calm
  <2>4. call'.st = "idle" /\ call' = NoCall
    BY <2>1 DEF Consume, NoCall
  <2>5. CASE /\ ~Script[pc].safe /\ stage' = stage + 1 /\ pc' = 1
    <3>1. Suite # "smoke"
      BY <2>2, <2>5 DEF Asks
    <3> QED BY <1>2, <1>6, <1>7, <1>9, <2>1, <2>2, <2>3, <2>4, <2>5, <3>1 DEF Suites
  <2>6. CASE UNCHANGED stage /\ pc' = pc + 1
    BY <1>8, <2>1, <2>3, <2>4, <2>6
  <2> QED BY <1>1, <2>1, <2>5, <2>6, Consumed DEF Pending
<1>22. CASE LateLands
  <2>1. UNCHANGED <<stage, sid, pc, clean, call>> /\ log \subseteq log'
    BY <1>1, <1>22, LateMoves DEF wrapperVars, Measures
  <2> QED BY <1>8, <2>1
<1> QED BY <1>1, <1>10, <1>11, <1>12, <1>13, <1>14, <1>15, <1>16, <1>17, <1>18, <1>19, <1>20,
           <1>21, <1>22, NextCases

\* regression.py:36-39: without isolation the marker of the suite before is found.  Every
\* request of smoke.py is made inside t(), so smoke reaches its marker whatever it is
\* answered; the unsafe requests of regression.py raise only on an answer that a crash or a
\* request before the application was up can give.
THEOREM DriftSeenAlways == Spec => []DriftSeen
<1>1. Init => Sound /\ Seen
  BY SoundInit, SeenInit
<1>2. Sound /\ Seen /\ [Next]_vars => (Sound /\ Seen)'
  BY SoundStep, SeenStep
<1>3. Sound /\ Seen => DriftSeen
  <2> SUFFICES ASSUME Sound, Seen, Drifting
               PROVE  /\ clean["regression"] # "pass"
                      /\ clean["e2e"] = "pass" => crashes > 0 \/ early
    BY DEF DriftSeen, Drifting
  <2>1. Calm => clean["e2e"] # "pass"
    BY DEF Seen
  <2>2. crashes \in Nat /\ early \in BOOLEAN
    BY DEF Sound, Typed, Scalars
  <2>3. clean["e2e"] = "pass" => crashes > 0 \/ early
    BY <2>1, <2>2 DEF Calm, Drifting
  <2> QED BY <2>3 DEF Seen
<1> QED BY <1>1, <1>2, <1>3, PTL DEF Spec

(***************************************************************************)
(* A healthy subject: nothing fails but for missing isolation.             *)
(***************************************************************************)
\* The entity the requests so far have left behind.
Kept == IF Counts /\ Holds(Script, pc) THEN {Suite} ELSE {}

Healthy ==
  Calm /\ env = "none" =>
    /\ \A s \in Suites : verdict[s] = "fail" => isolation = "off" /\ s # "smoke"
    /\ Suite = "smoke" => ~failed
    /\ ~Counts => entities = {}
    /\ stage = 1 => known = {}
    /\ isolation # "off" =>
         /\ ~failed
         /\ Running => /\ created = Made(Script, pc)
                       /\ known = Kept
                       /\ call.st = "answered" /\ call.op = "count" => call.fits

\* Without an injected fault every request is answered as the script expects, but for the
\* two that measure the isolation.
LEMMA HealthyAnswer ==
  ASSUME Typed, Answers, Calm, env = "none", call.st = "answered"
  PROVE  /\ ~Raises(Script[pc], call.kind)
         /\ call.op \notin {"log", "count"} \/ call.fits =>
              Passes(Script[pc], [kind |-> call.kind, fits |-> call.fits])
<1> DEFINE c == Script[pc]
<1>1. /\ Asks(Suite, sid, c) /\ call.route = c.route /\ call.op = c.op /\ call.fits \in BOOLEAN
      /\ c.check \in Checks
  BY InFlight DEF Typed, Asks, Requests
<1>2. call.kind = "ok" \/ (call.kind = "error" /\ c.op \in {"log", "mark"})
  BY <1>1 DEF Answers, Asks
<1> HIDE DEF c
<1>3. ~Raises(c, call.kind)
  BY <1>2 DEF Raises
<1> DEFINE p == Passes(c, [kind |-> call.kind, fits |-> call.fits])
<1>4. /\ c.check = "status" => p = (call.kind \in {"ok", "torn"})
      /\ c.check \in {"created", "results"} => p = (call.kind = "ok")
      /\ c.check = "count" => p = (call.kind = "ok" /\ call.fits)
      /\ c.check = "clean" => p = call.fits
      /\ c.check \in {"json", "any"} => p = TRUE
  <2>1. CASE c.check \in {"status", "created", "results"}
    BY <2>1 DEF Passes
  <2>2. CASE c.check = "count"
    BY <2>2 DEF Passes
  <2>3. CASE c.check = "clean"
    BY <2>3 DEF Passes
  <2>4. CASE c.check \in {"json", "any"}
    BY <2>4 DEF Passes
  <2> QED BY <1>1, <2>1, <2>2, <2>3, <2>4 DEF Checks
<1> HIDE DEF p
<1>5. call.kind = "error" => c.check \in {"clean", "any"}
  BY <1>1, <1>2 DEF Asks
<1>6. c.check = "clean" => call.op = "log"
  BY <1>1 DEF Asks
<1>7. c.check = "count" => call.op = "count"
  BY <1>1 DEF Asks
<1>8. ASSUME call.op \notin {"log", "count"} \/ call.fits PROVE p
  <2>1. CASE c.check \in {"clean", "any"}
    BY <1>4, <1>6, <1>8, <2>1
  <2>2. CASE c.check \notin {"clean", "any"}
    <3>1. call.kind = "ok"
      BY <1>2, <1>5, <2>2
    <3> QED BY <1>1, <1>4, <1>7, <1>8, <2>2, <3>1 DEF Checks
  <2> QED BY <2>1, <2>2
<1> QED BY <1>3, <1>8 DEF c, p

LEMMA HealthyInit == Init => Healthy
<1> SUFFICES ASSUME Init PROVE Healthy
  OBVIOUS
<1>1. /\ stage = 1 /\ failed = FALSE /\ entities = {} /\ known = {}
      /\ \A s \in Suites : verdict[s] = "none"
  BY DEF Init
<1>2. ~Running /\ Suite # "smoke"
  BY <1>1, StageFacts DEF Running, Suite, StageOf, Suites
<1> QED BY <1>1, <1>2 DEF Healthy

\* A step that leaves the script where it is.
LEMMA HealthyKept ==
  ASSUME Healthy, (Calm' => Calm),
         UNCHANGED <<stage, pc, sid, env, isolation, verdict, failed, created, known>>,
         ~Counts => entities' = entities,
         \/ call' = call
         \/ call'.st # "answered"
         \/ Calm' /\ env = "none" /\ isolation # "off" =>
              (call'.op = "count" => call'.fits)
  PROVE  Healthy'
<1>1. Suite' = Suite /\ Script' = Script /\ Running' = Running
  BY SameScript
<1>2. Kept' = Kept /\ Counts' = Counts
  BY <1>1 DEF Kept, Counts
<1> QED BY <1>1, <1>2 DEF Healthy

\* A script that begins has left nothing behind.
LEMMA Begins ==
  ASSUME pc' = 1
  PROVE  ~Made(Script', pc') /\ Kept' = {}
BY HoldsStep DEF Kept

LEMMA HealthyStep ==
  ASSUME Sound, Agreed, Fresh, Healthy, [Next]_vars
  PROVE  Healthy'
<1>1. /\ Typed /\ Scalars /\ Flow /\ Contained /\ Answers /\ crashes \in Nat /\ slow \in Nat
      /\ dberrors \in Nat /\ stage \in 1..7 /\ pc \in Nat \ {0}
      /\ failed \in BOOLEAN /\ created \in BOOLEAN
      /\ verdict \in [Suites -> Verdicts]
  BY DEF Sound, Typed, Scalars, Outcomes
<1>2. /\ crashes' \in Nat /\ slow' \in Nat /\ dberrors' \in Nat /\ Typed' /\ (Calm' => Calm)
      /\ stage' \in 1..7
  BY <1>1, TypedStep, CalmBefore DEF Typed, Scalars
<1> SUFFICES ASSUME Calm', env' = "none" PROVE Healthy'
  BY DEF Healthy
<1>3. /\ slow = 0 /\ dberrors = 0 /\ crashes = 0 /\ slow' = 0 /\ dberrors' = 0 /\ crashes' = 0
      /\ Calm
  BY <1>2 DEF Calm
<1>4. isolation' = isolation /\ env' = env /\ sid' = sid
  <2>1. isolation' = isolation
    BY <1>1, NextCases, AppAnswered, ProbeAnswered
    DEF Carries, scriptVars, Unanswering, LateLands, Ready, Reset, Send, SkipWithoutId, Ends,
        Return, TimeOut, Told
  <2>2. sid' = sid
    BY <1>1, NextCases, AppAnswered, ProbeAnswered
    DEF Carries, Unanswering, LateLands, Ready, Reset, Send, SkipWithoutId, Ends, Return, TimeOut,
        wrapperVars
  <2>3. env' = env
    BY <1>1, NextCases, AppAnswered, ProbeAnswered
    DEF Carries, Unanswering, LateLands, Ready, Reset, Send, SkipWithoutId, Ends, Return, TimeOut,
        wrapperVars
  <2> QED BY <2>1, <2>2, <2>3
<1>5. env = "none" /\ late = {} /\ app # "hung"
  BY <1>1, <1>3, <1>4 DEF Contained
<1>6. /\ \A s \in Suites : verdict[s] = "fail" => isolation = "off" /\ s # "smoke"
      /\ Suite = "smoke" => ~failed
      /\ ~Counts => entities = {}
      /\ stage = 1 => known = {}
      /\ isolation # "off" =>
           /\ ~failed
           /\ Running => /\ created = Made(Script, pc)
                         /\ known = Kept
                         /\ call.st = "answered" /\ call.op = "count" => call.fits
  BY <1>3, <1>5 DEF Healthy
\* A step that begins a stage.
<1>7. ASSUME pc' = 1, failed' = FALSE, created' = FALSE, call' = NoCall,
             \A s \in Suites : verdict'[s] = "fail" => isolation = "off" /\ s # "smoke",
             Running' => isolation = "off" \/ known' = {},
             stage' # 1, ~Counts => entities' \subseteq entities
      PROVE  Healthy'
  <2>1. ~Made(Script', pc') /\ Kept' = {}
    BY <1>7, Begins
  <2>2. call'.st = "idle"
    BY <1>7 DEF NoCall
  <2>3. Counts' = Counts
    BY <1>4 DEF Counts
  <2>4. \A s \in Suites : verdict'[s] = "fail" => isolation' = "off" /\ s # "smoke"
    BY <1>4, <1>7
  <2>5. ~failed' /\ ~created' /\ stage' # 1
    BY <1>7
  <2>6. ~Counts' => entities' = {}
    BY <1>6, <1>7, <2>3
  <2>7. Running' /\ isolation' # "off" => known' = {}
    BY <1>4, <1>7
  <2>8. isolation' # "off" /\ Running' => /\ created' = Made(Script', pc')
                                         /\ known' = Kept'
                                         /\ call'.st # "answered"
    <3>1. Made(Script', pc') \in BOOLEAN
      BY DEF Made
    <3>2. created' = FALSE /\ Made(Script', pc') = FALSE
      BY <1>7, <2>1, <3>1
    <3> QED BY <2>1, <2>2, <2>7, <3>2
  <2> QED BY <2>4, <2>5, <2>6, <2>8 DEF Healthy
<1>8. Answers'
  BY <1>1, AnswersStep
<1>9. CASE Carries
  <2>1. UNCHANGED <<stage, pc, sid, env, isolation, verdict, failed, created, known, entities>>
    BY <1>9 DEF Carries, scriptVars
  <2>2. CASE Answerable
    <3>1. Asks(Suite, sid, Script[pc]) /\ call.op = Script[pc].op /\ call.route = Script[pc].route
      BY <1>1, <2>2, InFlight DEF Answerable, Pending
    <3>2. call.route = "healthz" => call.op # "count"
      BY <3>1 DEF Asks
    <3>3. call'.st = "answered" /\ call' # call => call'.op # "count"
      <4>1. ASSUME call'.st = "answered", call' # call
            PROVE  call'.kind \in {"none", "ok", "broken", "proxyError"} /\ call'.op = call.op
                   /\ (call'.kind = "ok" => call.route = "healthz")
        BY <1>1, <1>9, <4>1, CarriedFlow
      <4>2. ASSUME call'.st = "answered", call' # call PROVE call'.kind = "ok"
        BY <1>4, <1>5, <1>8, <4>1, <4>2 DEF Answers
      <4> QED BY <3>2, <4>1, <4>2
    <3> QED BY <1>2, <2>1, <3>3, HealthyKept
  <2>3. CASE ~Answerable
    <3>1. call' = call
      BY <1>1, <1>9, <2>3, CarriedFlow
    <3> QED BY <1>2, <2>1, <3>1, HealthyKept
  <2> QED BY <2>2, <2>3
<1>10. CASE FlakeStep
  <2>1. call'.st = "answered" /\ call'.kind = "flake"
    BY <1>1, <1>10, AppAnswered
  <2> QED BY <1>4, <1>5, <1>8, <2>1 DEF Answers
<1>11. CASE Served
  <2>1. /\ UNCHANGED Unanswering /\ entities' = Inserts(call.op, Suite)
        /\ call'.op = call.op /\ call'.fits = (entities = {}) /\ call.st \in Pending
    BY <1>1, <1>11, AppAnswered DEF Answerable
  <2>2. ~Counts => entities' = entities
    BY <2>1 DEF Inserts
  <2>3. isolation # "off" /\ call.op = "count" => entities = {}
    <3> SUFFICES ASSUME isolation # "off", call.op = "count", Counts
                 PROVE  entities = {}
      BY <1>6
    <3>1. /\ Running /\ pc \in 1..Len(Script) /\ Asks(Suite, sid, Script[pc])
          /\ call.op = Script[pc].op
      BY <1>1, <2>1, InFlight DEF Pending
    <3>2. Places(Suite, Script)
      BY <1>1, <3>1, ScriptIsGood DEF Good, Scalars
    <3>3. ~Holds(Script, pc)
      BY <3>1, <3>2 DEF Places, Asks
    <3>4. known = {}
      BY <1>6, <3>1, <3>3 DEF Kept
    <3>5. entities = Applied
      BY <1>3 DEF Agreed, Undisturbed
    <3> QED BY <2>1, <3>4, <3>5 DEF Applied, Pending
  <2> QED BY <1>2, <1>4, <2>1, <2>2, <2>3, HealthyKept DEF Unanswering
<1>12. CASE Torn \/ AppFails
  BY <1>1, <1>3, <1>12, AppAnswered
<1>13. CASE PostRunLog \/ GetRunLog \/ ProbeFails
  <2>1. /\ UNCHANGED Unanswering /\ UNCHANGED entities /\ call.st = "sent"
        /\ call.route = "probe" /\ call'.op = call.op
    BY <1>1, <1>13, ProbeAnswered
  <2>2. call.op # "count"
    BY <1>1, <2>1, InFlight DEF Asks
  <2> QED BY <1>2, <1>4, <2>1, <2>2, HealthyKept DEF Unanswering
<1>14. CASE Ready
  <2>1. /\ stage = 1 /\ stage' = 2 /\ pc' = 1 /\ failed' = FALSE /\ created' = FALSE
        /\ call' = NoCall /\ UNCHANGED <<verdict, known, entities>>
    BY <1>1, <1>14, ReadyMoves DEF Database
  <2>2. known' = {} /\ stage' # 1 /\ entities' = entities
    BY <1>6, <2>1
  <2>3. \A s \in Suites : verdict'[s] = "fail" => isolation = "off" /\ s # "smoke"
    BY <1>6, <2>1
  <2> QED BY <1>7, <2>1, <2>2, <2>3
<1>15. CASE Reset
  <2>1. /\ stage \in {3, 5} /\ stage' = stage + 1 /\ pc' = 1 /\ failed' = FALSE
        /\ created' = FALSE /\ call' = NoCall /\ UNCHANGED verdict
    BY <1>1, <1>15, ResetMoves
  <2>2. /\ isolation = "off" \/ known' = {}
        /\ entities' \subseteq entities
    BY <1>1, <1>15, ResetMoves DEF Database
  <2>3. stage' # 1
    BY <1>1, <2>1
  <2> QED BY <1>6, <1>7, <2>1, <2>2, <2>3
<1>16. CASE Send
  <2>1. UNCHANGED scriptVars /\ call'.st = "sent"
    BY <1>1, <1>16, SendMoves
  <2> QED BY <1>2, <1>4, <2>1, HealthyKept DEF scriptVars
<1>17. CASE SkipWithoutId
  <2>1. /\ UNCHANGED <<sid, isolation, stage, verdict, known, entities>> /\ call' = NoCall
        /\ failed' = TRUE /\ Running /\ Script[pc].op \in NeedId /\ ~created
    BY <1>1, <1>17, SkipMoves DEF wrapperVars, Database
  <2>2. /\ pc \in 1..Len(Script) /\ Asks(Suite, sid, Script[pc])
    BY <1>1, <1>17, Asked DEF SkipWithoutId
  <2>3. Places(Suite, Script)
    BY <1>1, <2>1, ScriptIsGood DEF Good, Scalars
  <2>4. Made(Script, pc)
    BY <2>1, <2>2, <2>3 DEF Places
  <2>5. isolation = "off"
    BY <1>6, <2>1, <2>4
  <2>6. Suite # "smoke"
    BY <2>1, <2>2 DEF Asks
  <2>7. Suite' = Suite /\ Counts' = Counts
    BY <2>1 DEF Suite, Counts
  <2> QED BY <1>6, <2>1, <2>5, <2>6, <2>7 DEF Healthy
<1>18. CASE Ends
  <2>1. /\ Suite \in Suites /\ stage \in {2, 4, 6} /\ stage' = stage + 1 /\ pc' = 1
        /\ failed' = FALSE /\ created' = FALSE /\ call' = NoCall /\ UNCHANGED entities
        /\ verdict' = [verdict EXCEPT ![Suite] = IF failed THEN "fail" ELSE "pass"]
    BY <1>1, <1>18, EndsMoves DEF Database
  <2>2. stage' \in {3, 5, 7} /\ stage' # 1
    BY <2>1
  <2>3. ~Running'
    BY <2>2, StageFacts DEF Running, Suite
  <2>4. failed => isolation = "off" /\ Suite # "smoke"
    BY <1>6
  <2>5. ASSUME NEW s \in Suites, verdict'[s] = "fail" PROVE isolation = "off" /\ s # "smoke"
    <3>1. CASE s = Suite
      BY <1>1, <2>1, <2>4, <2>5, <3>1
    <3>2. CASE s # Suite
      BY <1>1, <1>6, <2>1, <2>5, <3>2
    <3> QED BY <3>1, <3>2
  <2> QED BY <1>7, <2>1, <2>2, <2>3, <2>5
<1>19. CASE Return
  <2>1. /\ UNCHANGED <<sid, entities>> /\ call.st = "answered" /\ call.kind \in Kinds
        /\ call.fits \in BOOLEAN /\ Consume(call.kind, call.fits)
    BY <1>1, <1>19, ReturnMoves DEF Database
  <2>2. /\ Suite \in Suites /\ stage = StageOf[Suite] /\ call.op = Script[pc].op /\ Running
        /\ Asks(Suite, sid, Script[pc])
    BY <1>1, <2>1, InFlight
  <2> DEFINE passed == Passes(Script[pc], [kind |-> call.kind, fits |-> call.fits])
  <2>3. /\ ~Raises(Script[pc], call.kind)
        /\ call.op \notin {"log", "count"} \/ call.fits => passed
    BY <1>1, <1>3, <1>5, <2>1, HealthyAnswer
  <2>4. Suite = "smoke" => passed
    BY <2>2, <2>3 DEF Asks
  <2>5. isolation # "off" => passed
    <3>1. isolation # "off" /\ call.op = "log" => call.fits
      BY <1>3, <2>1 DEF Fresh, Isolated
    <3>2. isolation # "off" /\ call.op = "count" => call.fits
      BY <1>6, <2>1, <2>2
    <3> QED BY <2>3, <3>1, <3>2
  <2>6. /\ UNCHANGED <<stage, verdict>> /\ pc' = pc + 1 /\ call' = NoCall
        /\ failed' = (failed \/ Raises(Script[pc], call.kind) \/ ~passed)
    BY <1>1, <2>1, <2>3, Consumed
  <2>7. /\ isolation # "off" => created' = (created \/ Script[pc].check = "created")
        /\ isolation # "off" => known' = IF Script[pc].op = "create" THEN known \cup {Suite}
                                         ELSE IF Script[pc].op = "delete" THEN known \ {Suite}
                                         ELSE known
    <3>1. /\ created' = IF Script[pc].check = "created" THEN passed ELSE created
          /\ known' = IF Raises(Script[pc], call.kind) \/ ~passed THEN known
                      ELSE CASE Script[pc].op = "create" -> known \cup {Suite}
                             [] Script[pc].op = "delete" -> known \ {Suite}
                             [] OTHER -> known
      BY <2>1, <2>3 DEF Consume
    <3> HIDE DEF passed
    <3>2. passed \in BOOLEAN
      BY <2>1, <2>2, PassesFacts DEF passed, Asks, Requests
    <3>3. ASSUME isolation # "off"
          PROVE  created' = (created \/ Script[pc].check = "created")
      BY <1>1, <2>5, <3>1, <3>2, <3>3
    <3>4. ASSUME isolation # "off"
          PROVE  known' = IF Script[pc].op = "create" THEN known \cup {Suite}
                          ELSE IF Script[pc].op = "delete" THEN known \ {Suite}
                          ELSE known
      BY <2>3, <2>5, <3>1, <3>4
    <3> QED BY <3>3, <3>4
  <2>8. Suite' = Suite /\ Script' = Script /\ Running' = Running /\ Counts' = Counts
    BY <2>1, <2>6, SameScript DEF Counts
  <2> HIDE DEF passed
  <2>9. Suite = "smoke" => ~failed'
    BY <1>6, <2>3, <2>4, <2>6
  <2>10. isolation # "off" => ~failed'
    BY <1>6, <2>3, <2>5, <2>6
  <2>12. ASSUME isolation # "off" PROVE created' = Made(Script', pc')
    <3>1. created = Made(Script, pc)
      BY <1>6, <2>2, <2>12
    <3>2. created' <=> (created \/ Script[pc].check = "created")
      BY <2>7, <2>12
    <3>3. Made(Script', pc') <=> Made(Script, pc) \/ Script[pc].check = "created"
      BY <1>1, <2>6, <2>8, HoldsStep
    <3>4. created' \in BOOLEAN
      BY <1>2 DEF Typed, Scalars, Outcomes
    <3>5. Made(Script', pc') \in BOOLEAN
      BY DEF Made
    <3>6. created' <=> Made(Script', pc')
      BY <3>1, <3>2, <3>3
    <3> QED BY <3>4, <3>5, <3>6
  <2>13. ASSUME isolation # "off" PROVE known' = Kept'
    <3>1. known = Kept
      BY <1>6, <2>2, <2>13
    <3>2. Holds(Script', pc') <=> \/ Script[pc].op = "create"
                                  \/ Script[pc].op # "delete" /\ Holds(Script, pc)
      BY <1>1, <2>6, <2>8, HoldsStep
    <3>3. Script[pc].op = "create" => Counts
      BY <2>2 DEF Asks, Counts
    <3> QED BY <2>7, <2>8, <2>13, <3>1, <3>2, <3>3 DEF Kept
  <2>14. stage' # 1
    BY <2>2, <2>6 DEF StageOf, Suites
  <2>15. call'.st = "idle"
    BY <2>6 DEF NoCall
  <2> QED BY <1>4, <1>6, <2>1, <2>6, <2>8, <2>9, <2>10, <2>12, <2>13, <2>14, <2>15 DEF Healthy
<1>20. CASE TimeOut
  <2>1. slow' = slow + 1 \/ app = "hung"
    BY <1>1, <1>20, TimedOut
  <2> QED BY <1>3, <1>5, <2>1
<1>21. CASE LateLands
  BY <1>1, <1>5, <1>21, LateMoves
<1> QED BY <1>1, <1>9, <1>10, <1>11, <1>12, <1>13, <1>14, <1>15, <1>16, <1>17, <1>18, <1>19,
           <1>20, <1>21, NextCases

\* A suite of a healthy subject fails for no other reason than missing isolation: the scripts
\* clean up after themselves before they count (regression.py, e2e.py), an id they need has
\* been given to them, and the polling of s5 (wrapper.py:117-122) lets no request meet an
\* application that is still booting.
THEOREM NoFalseAlarmAlways == Spec => []NoFalseAlarm
<1> DEFINE Inv == Sound /\ Agreed /\ Fresh /\ Healthy
<1>1. Init => Inv
  BY SoundInit, AgreedInit, FreshInit, HealthyInit
<1>2. Inv /\ [Next]_vars => Inv'
  BY SoundStep, AgreedStep, FreshStep, HealthyStep
<1>3. Inv => NoFalseAlarm
  <2> SUFFICES ASSUME Inv, env = "none", Undisturbed, early => sid = "s5",
                      NEW s \in Suites, verdict[s] = "fail"
               PROVE  isolation = "off" /\ s # "smoke"
    BY DEF NoFalseAlarm
  <2>1. ~early
    BY DEF Sound, Contained
  <2>2. Calm
    BY <2>1 DEF Calm, Undisturbed
  <2> QED BY <2>2 DEF Healthy
<1> QED BY <1>1, <1>2, <1>3, PTL DEF Spec
==============================================================================
