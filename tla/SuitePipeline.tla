---------------------------- MODULE SuitePipeline ----------------------------
(***************************************************************************)
(* What a preview's status.tests promises its readers (the pull-request    *)
(* comment, kagent, the FailureReport), with no Jobs, no database and no   *)
(* faults: the suites are settled one after another in a fixed order, the  *)
(* three standard suites are never jumped over, a settled result is not    *)
(* touched again, and the verdict agrees with the results it summarises.   *)
(* Module TestSuite implements this specification.                         *)
(***************************************************************************)
EXTENDS Naturals

VARIABLES
  phase,   \* status.tests.phase: the verdict
  step,    \* status.tests.step: the stage being run
  res      \* status.tests.<suite>.phase, one per suite

vars == <<phase, step, res>>

Suites    == {"smoke", "migration", "contract", "regression", "e2e"}
Standard  == {"smoke", "regression", "e2e"}
Settled   == {"Succeeded", "Failed", "Skipped"}
Stages    == Suites \cup {"saving", "import-spec", "restore-regression", "restore-e2e"}

\* The place of every stage in the pipeline.
Place == [s \in Stages |->
            CASE s = "saving"             -> 1
              [] s = "smoke"              -> 2
              [] s = "migration"          -> 3
              [] s = "import-spec"        -> 4
              [] s = "contract"           -> 5
              [] s = "restore-regression" -> 6
              [] s = "regression"         -> 7
              [] s = "restore-e2e"        -> 8
              [] OTHER                    -> 9]

\* Nothing recorded yet: the empty string of the status fields.
Unset == [s \in Suites |-> "unset"]

Init == phase = "unset" /\ step = "unset" /\ res = Unset

\* The suite starts at one of the two possible first stages.
Start ==
  /\ step = "unset"
  /\ phase' = "Running"
  /\ step' \in {"saving", "smoke"}
  /\ UNCHANGED res

\* The suite of the current stage is reported as running.
Report ==
  /\ phase = "Running"
  /\ step \in Suites
  /\ res' = [res EXCEPT ![step] = "Running"]
  /\ UNCHANGED <<phase, step>>

\* The current stage is over: its suite, if it has one, is settled, and the
\* pipeline moves to a later stage without jumping over a standard suite.
Advance ==
  /\ phase = "Running"
  /\ step \in Stages
  /\ step' \in Stages
  /\ Place[step] < Place[step']
  /\ \A s \in Standard : ~(Place[step] < Place[s] /\ Place[s] < Place[step'])
  /\ IF step \in Suites
     THEN \E r \in Settled : res' = [res EXCEPT ![step] = r]
     ELSE UNCHANGED res
  /\ UNCHANGED phase

\* The last suite is settled and the verdict is drawn from the five results.
Conclude ==
  /\ phase = "Running"
  /\ step = "e2e"
  /\ \E r \in Settled : res' = [res EXCEPT !["e2e"] = r]
  /\ phase' = IF \E s \in Suites : res'[s] = "Failed" THEN "Failed" ELSE "Succeeded"
  /\ UNCHANGED step

\* A new generation of the Preview forgets everything.
Restart == phase' = "unset" /\ step' = "unset" /\ res' = Unset

Next == Start \/ Report \/ Advance \/ Conclude \/ Restart

Spec == Init /\ [][Next]_vars
=============================================================================
