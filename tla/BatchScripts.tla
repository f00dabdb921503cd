---------------------------- MODULE BatchScripts ----------------------------
(***************************************************************************)
(* The scripts that put every captured failure to a diagnoser: what each   *)
(* does with what it finds on the disk, with what it is answered and with  *)
(* a call that fails.  A script is a record of                             *)
(*   opens   what its loop does with a cell whose stored output is ...     *)
(*   call    how often it asks, and after which bad replies it asks again  *)
(*   prose   what it makes of an answer that holds no JSON                 *)
(*   fails   what a call that fails does, by the last reply                *)
(*   table   whether it ends by writing a table of its rows                *)
(* --force is left out: with it every cell is opened as if absent.         *)
(***************************************************************************)
EXTENDS Naturals

\* What an output file holds: nothing yet, no byte, a part of the JSON, a
\* diagnosis, a record of an answer that was no JSON, a record of an error.
Contents == {"absent", "empty", "torn", "answer", "garbled", "failed"}

\* HTTP 429; 5xx; no connection; a connection lost while the answer is read;
\* any other status, or a command that fails; no answer within the time limit.
BadReplies == {"throttled", "unavailable", "unreachable", "reset", "refused", "hung"}

\* "row" takes what is stored, "skip" does so and writes no row, "drop" removes
\* the file and goes on, "ask" asks, "abort" is an exception nobody catches.
Opening == {"row", "skip", "drop", "ask", "abort"}

\* "leave" writes nothing, "record" stores the error, "abort" as above.
Failing == {"leave", "record", "abort"}

Afresh == [c \in Contents |-> "ask"]
Kept == [c \in Contents |-> "row"]
Always(what) == [r \in BadReplies |-> what]
AbortOn(replies, otherwise) ==
  [r \in BadReplies |-> IF r \in replies THEN "abort" ELSE otherwise]

Once == [tries |-> 1, again |-> {}]

-----------------------------------------------------------------------------
(* 09-baseline-b0.py *)

B0Call == [tries |-> 8, again |-> {"throttled", "unavailable", "unreachable", "hung"}]
B0Prose == {"garbled"}
\* Mutants: a cached cell gets no row; a torn file is not removed.
B0Forgets == [Afresh EXCEPT !.empty = "drop", !.torn = "drop", !.answer = "skip"]
B0Trusts == [Kept EXCEPT !.absent = "ask", !.empty = "abort", !.torn = "abort"]
B0Opens == [Kept EXCEPT !.absent = "ask", !.empty = "drop", !.torn = "drop"]
B0 == [opens |-> B0Opens, call |-> B0Call, prose |-> B0Prose,
       fails |-> Always("leave"), table |-> TRUE]

(* 09b-baseline-b0-multiapp.py: a failure is written like an answer. *)

B0MCall == [tries |-> 5, again |-> BadReplies \ {"unavailable", "refused"}]
B0MProse == {"failed"}
B0MOpens == [Afresh EXCEPT !.torn = "row", !.answer = "row", !.garbled = "row", !.failed = "row"]
B0M == [opens |-> B0MOpens, call |-> B0MCall, prose |-> B0MProse,
        fails |-> Always("record"), table |-> TRUE]

(* 12-llmb-replay.py: fp-diagnose is run once and ends with an error itself *)
(* when the answer is no JSON; a stored file is trusted to parse.           *)

LLMBCall == Once
LLMBProse == {"absent"}
LLMBOpens == [Kept EXCEPT !.absent = "ask", !.empty = "abort", !.torn = "abort"]
LLMB == [opens |-> LLMBOpens, call |-> LLMBCall, prose |-> LLMBProse,
         fails |-> Always("leave"), table |-> TRUE]

(* 15-f10-hallucination-judge.py *)

JudgeCall == [tries |-> 6, again |-> {"throttled", "unavailable", "unreachable", "hung"}]
JudgeProse == {"garbled"}
Judge == [opens |-> LLMBOpens, call |-> JudgeCall, prose |-> JudgeProse,
          fails |-> Always("leave"), table |-> TRUE]

(* 16-cohen-kappa.py --proxy: the table is what is kept between two runs. *)

ProxyCall == JudgeCall
ProxyProse == {"garbled"}
ProxyOpens == [Kept EXCEPT !.absent = "ask", !.empty = "ask"]
Proxy == [opens |-> ProxyOpens, call |-> ProxyCall, prose |-> ProxyProse,
          fails |-> Always("leave"), table |-> TRUE]

(* multiapp/orchestrator.py: any output that parses is taken.  A reply that *)
(* is neither a rate limit nor a timeout is asked once more.                *)

DiagTries(reply) == IF reply \in {"throttled", "hung"} THEN 6 ELSE 2
DiagOpens == [Afresh EXCEPT !.answer = "skip", !.garbled = "skip", !.failed = "skip"]
Diag == [opens |-> DiagOpens, call |-> [tries |-> 6, again |-> BadReplies],
         prose |-> {"absent"}, fails |-> Always("leave"), table |-> FALSE]

(* k8sgpt-replay.py: an output with an _error is asked again. *)

K8sgptProse == {"failed"}
\* Mutant: --force is the default.
K8sgptForces == Afresh
K8sgptOpens == [Afresh EXCEPT !.answer = "skip"]
K8sgpt == [opens |-> K8sgptOpens, call |-> Once, prose |-> K8sgptProse,
           fails |-> AbortOn({"hung"}, "record"), table |-> FALSE]

(* kagent-replay.py: without braces the reply has no diagnosis and is asked *)
(* again, with broken JSON in them it is kept.                              *)

KagentCall == [tries |-> 4, again |-> BadReplies]
KagentProse == {"garbled", "failed"}
KagentOpens == [Afresh EXCEPT !.answer = "skip", !.garbled = "skip"]
Kagent == [opens |-> KagentOpens, call |-> KagentCall, prose |-> KagentProse,
           fails |-> Always("record"), table |-> FALSE]

(* 28-k8sgpt-post-teardown.py, 29-b0-multiapp-fair.py: nothing is reused. *)
(* The openai client of the second asks up to three times by itself.       *)

PT == [opens |-> Afresh, call |-> Once, prose |-> {"failed"},
       fails |-> AbortOn({"hung"}, "record"), table |-> TRUE]
FairCall == [tries |-> 3, again |-> BadReplies \ {"reset", "refused"}]
Fair == [opens |-> Afresh, call |-> FairCall, prose |-> {"failed"},
         fails |-> Always("abort"), table |-> TRUE]

(* 14-cluster-baselines.py with --skip-kagent and with --skip-k8sgpt: both *)
(* probe a live Preview that somebody else deployed.                       *)

B2aProse == {"failed"}
B2a == [opens |-> Afresh, call |-> Once, prose |-> B2aProse,
        fails |-> AbortOn({"hung"}, "record"), table |-> TRUE]
B2bCall == Once
B2b == [opens |-> Afresh, call |-> B2bCall, prose |-> {"garbled", "failed"},
        fails |-> AbortOn({"reset"}, "record"), table |-> TRUE]

(* 14b-cluster-baselines-multiapp.py, likewise, on a Preview of its own. *)

B2maProse == {"failed"}
\* A K8sGPT that hangs raises: the row tells, no file does.
B2maFails == [r \in BadReplies |-> IF r = "hung" THEN "leave" ELSE "record"]
B2ma == [opens |-> Afresh, call |-> Once, prose |-> B2maProse,
         fails |-> B2maFails, table |-> TRUE]
B2mbCall == Once
B2mb == [opens |-> Afresh, call |-> B2mbCall, prose |-> {"garbled"},
         fails |-> Always("record"), table |-> TRUE]

-----------------------------------------------------------------------------

Scripts == {"b0", "b0m", "llmb", "judge", "proxy", "diag", "k8sgpt", "kagent", "pt", "fair",
            "b2a", "b2b", "b2ma", "b2mb"}

Of(s) ==
  CASE s = "b0" -> B0 [] s = "b0m" -> B0M [] s = "llmb" -> LLMB [] s = "judge" -> Judge
    [] s = "proxy" -> Proxy [] s = "diag" -> Diag [] s = "k8sgpt" -> K8sgpt
    [] s = "kagent" -> Kagent [] s = "pt" -> PT [] s = "fair" -> Fair [] s = "b2a" -> B2a
    [] s = "b2b" -> B2b [] s = "b2ma" -> B2ma [] s = "b2mb" -> B2mb

\* Scripts that make a namespace (or a Preview) of their own for each cell.
Replayers == {"k8sgpt", "kagent"}
Deployers == {"b2ma", "b2mb"}

Tries(s, reply) ==
  IF s = "diag" THEN DiagTries(reply)
  ELSE IF reply \in Of(s).call.again THEN Of(s).call.tries ELSE 1

\* A call that meets n bad replies of one kind before the service answers.
Survives(s, reply, n) == n < Tries(s, reply)
=============================================================================
