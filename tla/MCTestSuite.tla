----------------------------- MODULE MCTestSuite -----------------------------
(***************************************************************************)
(* Values for the constants of TestSuite.  Each run of the README takes    *)
(* the specs that can show what it asks for: the number of reachable       *)
(* states is about proportional to the number of specs and plans.          *)
(***************************************************************************)
EXTENDS TestSuite

Config(suites, withDB, mode, specURL) ==
  [enabled |-> suites, db |-> withDB, isolation |-> withDB, mode |-> mode, specURL |-> specURL]

\* An edit switches between a suite with a database to isolate and one without.
MCConfigsPipeline ==
  { Config({"migration", "regression"}, TRUE, "restore", FALSE),
    Config({"contract"}, FALSE, "restore", FALSE) }
MCConfigsIsolated  == { Config({"contract", "regression", "e2e"}, TRUE, "restore", TRUE) }
MCConfigsDeadlined ==
  { Config({"smoke"}, FALSE, "restore", FALSE),
    [Config({"regression"}, TRUE, "restore", FALSE) EXCEPT !.isolation = FALSE] }
MCConfigsRestore   == { Config({"smoke", "regression"}, TRUE, "restore", FALSE) }
MCConfigsEdited    ==
  { Config({"smoke"}, TRUE, "restore", FALSE), Config({"smoke", "regression"}, TRUE, "restore", FALSE) }

MCPlansAll   == { Suites }
MCPlansTwo   == { Suites, {"smoke", "contract", "e2e"} }
=============================================================================
