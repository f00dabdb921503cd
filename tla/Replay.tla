-------------------------------- MODULE Replay --------------------------------
(***************************************************************************)
(* A batch of one of the scripts of BatchScripts: it is started again and  *)
(* again over the same cells, asks a service about each, stores what comes *)
(* back in a file of its own and ends by writing a table.  It may be       *)
(* killed between any two steps, the service may fail, and a namespace     *)
(* that is deleted takes its time.  Only the orchestrator works on several *)
(* cells at once.                                                          *)
(***************************************************************************)
EXTENDS BatchScripts, FiniteSets

CONSTANTS Chosen,      \* the scripts a behaviour may be about
          NCells,      \* cells of the batch
          NWorkers,    \* threads of the orchestrator
          ShortLimit,  \* 429s in a row that any call may meet
          MaxOutage,   \* bound: bad replies in a row
          MaxFaults    \* bound: outages, kills, failing commands

ASSUME ReplayAssumption ==
  /\ Chosen \subseteq Scripts
  /\ NCells \in Nat /\ NWorkers \in Nat \ {0}
  /\ ShortLimit \in Nat /\ MaxOutage \in Nat /\ MaxFaults \in Nat

VARIABLES script,
          up,     \* a process runs
          next,   \* the cell its loop comes to next
          jobs,   \* cells being worked on
          rows,   \* the rows it holds
          table,  \* "no", or "open" while the table is written
          file,   \* the output file of each cell
          csv,    \* the rows of the table on the disk
          env,    \* the namespace of each cell
          faults

vars == <<script, up, next, jobs, rows, table, file, csv, env, faults>>

\* The captures there are; one without its input is passed over by every script.
Cells == 1..NCells

\* "loaded" by the running process; "left" by one that was killed or whose
\* deletion failed; "going": deleted and not gone yet.
Namespaces == {"none", "loaded", "left", "going"}

Steps == {"prepare", "ask", "truncate", "fill", "clean"}

TypeOK ==
  /\ script \in Chosen
  /\ up \in BOOLEAN
  /\ next \in 1..(NCells + 1)
  /\ jobs \subseteq [cell : Cells, step : Steps, holds : Contents \union {"abort"}]
  /\ Cardinality(jobs) <= IF script = "diag" THEN NWorkers ELSE 1
  /\ \A j \in jobs : j.cell < next
  /\ rows \in [Cells -> Contents]
  /\ table \in {"no", "open"}
  /\ file \in [Cells -> Contents]
  /\ csv \in [Cells -> Contents]
  /\ env \in [Cells -> Namespaces]
  /\ faults \in 0..MaxFaults

None == [c \in Cells |-> "absent"]

Init ==
  /\ script \in Chosen
  /\ up = FALSE
  /\ next = 1
  /\ jobs = {}
  /\ rows = None
  /\ table = "no"
  /\ file = None
  /\ csv = None
  /\ env = [c \in Cells |-> "none"]
  /\ faults = 0

Fault == faults < MaxFaults /\ faults' = faults + 1

-----------------------------------------------------------------------------
(* The process *)

Start ==
  /\ ~up
  /\ up' = TRUE
  /\ next' = 1
  /\ rows' = None
  /\ table' = "no"
  /\ UNCHANGED <<script, jobs, file, csv, env, faults>>

Exit == up' = FALSE /\ jobs' = {}

\* A file that is being written is left empty or in part, a table as far as it
\* was written.
Kill ==
  /\ up
  /\ Fault
  /\ Exit
  /\ \E part \in {"empty", "torn"} :
       file' = [c \in Cells |->
                 IF \E j \in jobs : j.cell = c /\ j.step = "fill" THEN part ELSE file[c]]
  /\ IF table = "no" THEN UNCHANGED csv
     ELSE \E last \in 0..NCells :
            csv' = [c \in Cells |-> IF c < last THEN rows[c]
                                    ELSE IF c = last /\ rows[c] # "absent" THEN "torn"
                                    ELSE "absent"]
  /\ env' = [c \in Cells |-> IF env[c] = "loaded" THEN "left" ELSE env[c]]
  /\ UNCHANGED <<script, next, rows, table>>

-----------------------------------------------------------------------------
(* The loop *)

\* Mutant: every script is given the thread pool.
Pooled == NWorkers
Workers == IF script = "diag" THEN NWorkers ELSE 1
OwnsNamespaces == script \in Replayers \union Deployers

Stored(c) == IF script = "proxy" THEN csv[c] ELSE file[c]
RowOf(content) == IF content = "torn" THEN "failed" ELSE content

Comes(c) == up /\ table = "no" /\ c = next /\ Cardinality(jobs) < Workers
Opens(c) == Of(script).opens[Stored(c)]

Reuse(c) ==
  /\ Comes(c)
  /\ Opens(c) \in {"row", "skip"}
  /\ rows' = IF Opens(c) = "row" THEN [rows EXCEPT ![c] = RowOf(Stored(c))] ELSE rows
  /\ next' = next + 1
  /\ UNCHANGED <<script, up, jobs, table, file, csv, env, faults>>

Drop(c) ==
  /\ Comes(c)
  /\ Opens(c) = "drop"
  /\ file' = [file EXCEPT ![c] = "absent"]
  /\ next' = next + 1
  /\ UNCHANGED <<script, up, jobs, rows, table, csv, env, faults>>

Trip(c) ==
  /\ Comes(c)
  /\ Opens(c) = "abort"
  /\ Exit
  /\ UNCHANGED <<script, next, rows, table, file, csv, env, faults>>

Take(c) ==
  /\ Comes(c)
  /\ Opens(c) = "ask"
  /\ jobs' = jobs \union
       {[cell |-> c, step |-> IF OwnsNamespaces THEN "prepare" ELSE "ask", holds |-> "absent"]}
  /\ next' = next + 1
  /\ UNCHANGED <<script, up, rows, table, file, csv, env, faults>>

-----------------------------------------------------------------------------
(* One cell *)

GoOn(j, step, content) ==
  jobs' = (jobs \ {j}) \union {[j EXCEPT !.step = step, !.holds = content]}

Namespace(c, state) == env' = [env EXCEPT ![c] = state]

\* kubectl delete namespace, --wait=true --timeout=60s
DeleteOld(j) ==
  /\ script \in Replayers /\ j.step = "prepare"
  /\ env[j.cell] \in {"loaded", "left"}
  /\ Namespace(j.cell, "going")
  /\ UNCHANGED <<script, up, next, jobs, rows, table, file, csv, faults>>

CreateNamespace(j) ==
  /\ script \in Replayers /\ j.step = "prepare"
  /\ env[j.cell] = "none"
  /\ Namespace(j.cell, "loaded")
  /\ \/ GoOn(j, "ask", "absent") /\ UNCHANGED faults
     \/ GoOn(j, "truncate", "failed") /\ Fault    \* apply failed
  /\ UNCHANGED <<script, up, next, rows, table, file, csv>>

\* Mutant: the return code of kubectl create is not looked at.
CreateIgnored(j) ==
  /\ script \in Replayers /\ j.step = "prepare"
  /\ env[j.cell] \in {"left", "going"}
  /\ GoOn(j, "ask", "absent")
  /\ UNCHANGED <<script, up, next, rows, table, file, csv, env, faults>>

\* The old one is still there after the minute, or kubectl create fails.
CreateFails(j) ==
  /\ script \in Replayers /\ j.step = "prepare"
  /\ \/ env[j.cell] = "going" /\ UNCHANGED faults
     \/ Fault
  /\ jobs' = jobs \ {j}
  /\ UNCHANGED <<script, up, next, rows, table, file, csv, env>>

\* deploy_preview() applies the Preview, over one that is there; when it raises
\* the row tells the error and nothing is torn down.
Deploy(j) ==
  /\ script \in Deployers /\ j.step = "prepare"
  /\ \/ /\ GoOn(j, "ask", "absent")
        /\ Namespace(j.cell, IF env[j.cell] = "going" THEN "going" ELSE "loaded")
        /\ UNCHANGED <<rows, faults>>
     \/ /\ Fault
        /\ jobs' = jobs \ {j}
        /\ rows' = [rows EXCEPT ![j.cell] = "failed"]
        /\ UNCHANGED env
  /\ UNCHANGED <<script, up, next, table, file, csv>>

\* The answer of the proxy annotator goes to its row, nothing is written yet.
Got(j, content) ==
  IF script = "proxy" THEN /\ jobs' = jobs \ {j}
                           /\ rows' = [rows EXCEPT ![j.cell] = content]
  ELSE GoOn(j, "truncate", content) /\ UNCHANGED rows

\* A deployer's row tells of the error, its Preview is left.
GiveUp(j) ==
  /\ jobs' = jobs \ {j}
  /\ rows' = IF script \in Deployers THEN [rows EXCEPT ![j.cell] = "failed"] ELSE rows

Answered(j) ==
  /\ j.step = "ask"
  /\ Got(j, "answer")
  /\ UNCHANGED <<script, up, next, table, file, csv, env, faults>>

Prose(j) ==
  /\ j.step = "ask"
  /\ Fault
  /\ \E content \in Of(script).prose : IF content = "absent" THEN GiveUp(j) ELSE Got(j, content)
  /\ UNCHANGED <<script, up, next, table, file, csv, env>>

\* An exception inside the try of a replayer runs its finally first.
Raise(j) ==
  IF script \in Replayers THEN GoOn(j, "clean", "abort") /\ UNCHANGED <<up, rows>>
  ELSE Exit /\ UNCHANGED rows

Fails(j, reply) ==
  LET what == Of(script).fails[reply]
  IN  \/ what = "leave" /\ GiveUp(j) /\ UNCHANGED up
      \/ what = "record" /\ Got(j, "failed") /\ UNCHANGED up
      \/ what = "abort" /\ Raise(j)

\* The service answers a call only after n bad replies; a short rate limit may
\* happen to any call.
Outage(j) ==
  /\ j.step = "ask"
  /\ \E reply \in BadReplies, n \in 1..MaxOutage :
       /\ IF reply = "throttled" /\ n <= ShortLimit THEN UNCHANGED faults ELSE Fault
       /\ IF Survives(script, reply, n) THEN Got(j, "answer") /\ UNCHANGED up
          ELSE Fails(j, reply)
  /\ UNCHANGED <<script, next, table, file, csv, env>>

\* write_text(): open truncates, then the text is written.
Truncate(j) ==
  /\ j.step = "truncate"
  /\ file' = [file EXCEPT ![j.cell] = "empty"]
  /\ GoOn(j, "fill", j.holds)
  /\ UNCHANGED <<script, up, next, rows, table, csv, env, faults>>

Fill(j) ==
  /\ j.step = "fill"
  /\ file' = [file EXCEPT ![j.cell] = j.holds]
  /\ rows' = IF Of(script).table THEN [rows EXCEPT ![j.cell] = j.holds] ELSE rows
  /\ IF OwnsNamespaces THEN GoOn(j, "clean", j.holds) ELSE jobs' = jobs \ {j}
  /\ UNCHANGED <<script, up, next, table, csv, env, faults>>

\* kubectl delete --wait=false; its return code is not looked at.
Clean(j) ==
  /\ j.step = "clean"
  /\ \/ Namespace(j.cell, IF env[j.cell] = "none" THEN "none" ELSE "going") /\ UNCHANGED faults
     \/ Fault /\ Namespace(j.cell, IF env[j.cell] = "loaded" THEN "left" ELSE env[j.cell])
  /\ IF j.holds = "abort" THEN Exit ELSE jobs' = jobs \ {j} /\ UNCHANGED up
  /\ UNCHANGED <<script, next, rows, table, file, csv>>

-----------------------------------------------------------------------------
(* The end of the batch *)

AtEnd == up /\ jobs = {} /\ next > NCells

Finish ==
  /\ AtEnd
  /\ ~Of(script).table
  /\ Exit
  /\ UNCHANGED <<script, next, rows, table, file, csv, env, faults>>

\* LLM-B stops early when its answers, the stored ones included, cost more than
\* --budget.
OverBudget ==
  script = "llmb" /\ up /\ jobs = {} /\ next \in 2..NCells /\ rows[next - 1] # "absent"

OpenTable ==
  /\ Of(script).table
  /\ table = "no"
  /\ \/ AtEnd /\ UNCHANGED faults
     \/ OverBudget /\ Fault
  /\ table' = "open"
  /\ csv' = IF rows = None /\ script \in {"llmb", "judge", "b2a", "b2b"} THEN csv ELSE None
  /\ UNCHANGED <<script, up, next, jobs, rows, file, env>>

WriteTable ==
  /\ up
  /\ table = "open"
  /\ csv' = IF rows = None THEN csv ELSE rows
  /\ table' = "no"
  /\ Exit
  /\ UNCHANGED <<script, next, rows, file, env, faults>>

-----------------------------------------------------------------------------

CellStep(j) ==
  \/ DeleteOld(j) \/ CreateNamespace(j) \/ CreateFails(j) \/ Deploy(j)
  \/ Answered(j) \/ Prose(j) \/ Outage(j)
  \/ Truncate(j) \/ Fill(j) \/ Clean(j)

Loop ==
  \/ \E c \in Cells : Reuse(c) \/ Drop(c) \/ Trip(c) \/ Take(c)
  \/ \E j \in jobs : CellStep(j)
  \/ Finish \/ OpenTable \/ WriteTable

\* The namespace controller.
Gone(c) ==
  /\ env[c] = "going"
  /\ Namespace(c, "none")
  /\ UNCHANGED <<script, up, next, jobs, rows, table, file, csv, faults>>

Next == Start \/ Loop \/ Kill \/ \E c \in Cells : Gone(c)

\* The batch is started until it has everything, and namespaces go in the end.
Fairness == WF_vars(Start) /\ WF_vars(Loop) /\ \A c \in Cells : WF_vars(Gone(c))

Spec == Init /\ [][Next]_vars
FairSpec == Spec /\ Fairness

-----------------------------------------------------------------------------

\* The scripts that look for the output of an earlier run.
Resuming == {"b0", "b0m", "llmb", "judge", "diag", "k8sgpt", "kagent"}

\* A diagnosis that is on the disk is never lost nor asked for again, whatever
\* is killed and started anew ("existing valid outputs are skipped").
AnswerKept ==
  [][\A c \in Cells :
       (script \in Resuming /\ file[c] = "answer") => file'[c] = "answer"]_vars

\* A table that is written in full has a row for every diagnosis on the disk,
\* also those of earlier runs.
TableComplete ==
  [][\A c \in Cells :
       (WriteTable /\ script \in Resuming /\ next > NCells /\ file[c] = "answer")
         => csv'[c] = "answer"]_vars

\* A replayed capture is looked at in a namespace made for it in this run, not
\* in what an earlier run left behind or in one that is being deleted; and that
\* namespace is there no longer than the capture is worked on: only a kill or
\* a failing kubectl leaves one behind (process_one(), finally).
OwnNamespace ==
  script \in Replayers =>
    /\ \A j \in jobs : j.step = "ask" => env[j.cell] = "loaded"
    /\ \A c \in Cells : env[c] = "loaded" => \E j \in jobs : j.cell = c

\* These are done in the end, although any call may be rate limited for a
\* while and a run may be killed with a file half written: started again, they
\* get past it ("Failed/missing files are retried").
Patient == {"b0", "diag", "kagent"}
BatchDone == <>[](script \in Patient => \A c \in Cells : file[c] \in {"answer", "garbled"})
=============================================================================
