------------------------------ MODULE Rescoring ------------------------------
(***************************************************************************)
(* One cell of the experiment on its way through the scripts that score    *)
(* it.  A cell of the rule engine has a FailureReport, which the operator's *)
(* diagnoser is run on level by level and which 11-rule-rescore.py         *)
(* diagnoses again.  A cell of a language model has the name of a          *)
(* component, one of K8sGPT a list of problems: each script that is about  *)
(* the cell gives it a row by its own table.                               *)
(***************************************************************************)
EXTENDS RuleDiagnoser, RuleRescore, Matchers

CONSTANTS Reports,   \* FailureReports: sets of evidence items
          Names,     \* components a model may name
          Findings,  \* lists of problems of K8sGPT
          Noise      \* a problem that says nothing of the fault

\* The type of an item is one of the enumeration of the CRD.
ASSUME ReportsAssumption == \A r \in Reports : \A it \in r : it.type \in EvidenceTypes

ASSUME FindingsAssumption == \A f \in Findings : f \in Seq({f[i] : i \in DOMAIN f})

\* No hint of 14 in what is structured of it, and no keyword of 34.
ASSUME NoiseAssumption ==
  /\ \A i \in DOMAIN HINTS_14 : HINTS_14[i][1] \intersect Noise.structured = {}
  /\ \A i \in DOMAIN KEYWORD_ROLES_34 : KEYWORD_ROLES_34[i][1] \intersect Text(Noise) = {}

VARIABLES cell,   \* whose answer it is, the subject, the fault, the state of its file
          answer, \* what it says: a report, a name or a list of problems
          live,   \* per level, what the operator recorded; "" is no file
          port,   \* per level, the row of rule-v2-results.csv
          rows    \* per script, the row of its table

vars == <<cell, answer, live, port, rows>>

\* In the order of their numbers.  35 scores by the table of 17.
Scripts == <<"08", "09", "09b", "11", "12", "14", "14b", "14c", "15a", "17", "23", "29", "34", "35">>
Index(s) == CHOOSE i \in DOMAIN Scripts : Scripts[i] = s

RuleComponents == {GROUND_TRUTH[f] : f \in Faults} \union {"unknown"}

\* The scripts that read what another program wrote to a file.
ReadsFiles == {"08", "11", "14c", "17", "23", "34", "35"}

\* Which cells a script goes through: S1 has the tree results-matrix/, the
\* others results-multiapp/; 11 reads the rule engine's files alone.
InScope(s) ==
  /\ cell.file = "whole" \/ s \in ReadsFiles
  /\ CASE cell.from = "k8sgpt" -> s \in (IF cell.subject = "s1" THEN {"14", "34"}
                                                              ELSE {"14b", "14c", "34"})
       [] cell.from = "model" /\ cell.subject = "s1" ->
            \/ s \in {"08", "09", "12", "14", "15a", "23", "34", "35"}
            \/ s = "11" /\ answer \in RuleComponents
       [] cell.from = "model" /\ cell.subject # "s1" ->
            \/ s \in {"14b", "14c", "17", "23", "29", "34", "35"}
            \/ s = "09b" /\ cell.fault \in SCENARIOS_09b
       [] OTHER -> FALSE

\* What a script's matcher says of a name.
Credited(s, name) ==
  CASE s = "09"  -> Credits(ALIASES_09, cell.fault, name)
    [] s = "09b" -> aligned_match_09b(cell.subject, cell.fault, name)
    [] s = "12"  -> Credits(ALIASES_12, cell.fault, name)
    [] s = "14"  -> Credits(ALIASES_14, cell.fault, name)
    [] s = "14b" -> aligned_match_14b(cell.fault, name)
    [] s = "15a" -> decide(cell.fault, name)
    [] s = "29"  -> aligned_match_29(cell.subject, cell.fault, name)

Mark(credited) == IF credited THEN "1" ELSE "0"

\* One operator per script that reads the answer from a file, which may be
\* missing or cut off.  08: both are an answer that names nothing.
Row08(name) == Mark(Credits(ALIASES_08, cell.fault, name))

\* 11 ends with the exception of the parser.
Row11(name) == IF cell.file = "torn" THEN "abort" ELSE Mark(Credits(ALIASES_11, cell.fault, name))

\* 17 and 35 go from file to file and skip what is no JSON.
Row17(name) ==
  IF cell.file = "whole" THEN Mark(aligned_match_17(cell.subject, cell.fault, name)) ELSE "none"
Row35(name) ==
  IF cell.file = "whole" THEN Mark(aligned_match_17(cell.subject, cell.fault, name)) ELSE "none"

\* 23 too, but it counts what is no JSON as an answer that names nothing.
Row23(name) ==
  IF cell.file = "absent" THEN "none" ELSE Mark(Credits(ALIASES_23, cell.fault, name))

\* 14c and 34 have a row for both tools; it starts as "0" and keeps that for a
\* file that is missing or leads to a parse error.
Row14c(name) ==
  Mark(cell.file = "whole" /\ aligned_for_14c(cell.fault, KagentRole(KEYWORD_ROLES_14c, name)))
Row34(name) ==
  Mark(cell.file = "whole" /\ aligned_for_34(cell.fault, KagentRole(KEYWORD_ROLES_34, name)))

RowOfName(s, name) ==
  CASE s = "08"  -> Row08(name)
    [] s = "11"  -> Row11(name)
    [] s = "14c" -> Row14c(name)
    [] s = "17"  -> Row17(name)
    [] s = "23"  -> Row23(name)
    [] s = "34"  -> Row34(name)
    [] s = "35"  -> Row35(name)
    [] OTHER     -> Mark(Credited(s, name))

RowOfProblems(s, problems) ==
  CASE s = "14"  -> Mark(Credits(ALIASES_14, cell.fault, k8sgpt_to_component_14(problems)))
    [] s = "14b" -> Mark(aligned_match_14b(cell.fault, k8sgpt_to_component_14b(problems)))
    [] s = "14c" -> Mark(aligned_for_14c(cell.fault, k8sgpt_extract_14c(problems)))
    [] s = "34"  -> Mark(aligned_for_34(cell.fault, k8sgpt_extract_34(problems)))

Row(s, a) == IF cell.from = "k8sgpt" THEN RowOfProblems(s, a) ELSE RowOfName(s, a)

-----------------------------------------------------------------------------

Unscored == [s \in {Scripts[i] : i \in DOMAIN Scripts} |-> "unscored"]

\* The empty name is that of an answer that names nothing.
Init ==
  /\ \/ /\ cell = [from |-> "rule", subject |-> "s1", fault |-> 1, file |-> "whole"]
        /\ answer \in Reports
     \/ /\ cell \in [from : {"model"}, subject : Subjects, fault : Faults,
                     file : {"whole", "torn", "absent"}]
        /\ answer \in IF cell.file = "whole" THEN Names \union {""} ELSE {""}
     \/ /\ cell \in [from : {"k8sgpt"}, subject : Subjects, fault : Faults, file : {"whole"}]
        /\ answer \in Findings
  /\ live = <<>>
  /\ port = <<>>
  /\ rows = Unscored

\* The harness diagnoses the report at one level after the other; it may be
\* stopped after any of them.
DiagnoseLevels(n) ==
  /\ cell.from = "rule" /\ live = <<>>
  /\ live' = [i \in DOMAIN Levels |->
                IF i <= n THEN Diagnose(BundleFromReportAtLevel(answer, Levels[i])) ELSE ""]
  /\ UNCHANGED <<cell, answer, port, rows>>

\* 11-rule-rescore.py goes through the reports that have an item.
RescoreRules ==
  /\ cell.from = "rule" /\ live # <<>> /\ port = <<>> /\ answer # {}
  /\ port' = [i \in DOMAIN Levels |->
                LET items == filter_to_level(answer, Levels[i])
                IN  [live |-> live[i], v1 |-> diagnose(items, FALSE), v2 |-> diagnose(items, TRUE)]]
  /\ UNCHANGED <<cell, answer, live, rows>>

Scored(s) == ~InScope(s) \/ rows[s] # "unscored"

Score(s) ==
  /\ cell.from # "rule" /\ InScope(s) /\ rows[s] = "unscored"
  /\ \A i \in 1..(Index(s) - 1) : Scored(Scripts[i])
  /\ rows' = [rows EXCEPT ![s] = Row(s, answer)]
  /\ UNCHANGED <<cell, answer, live, port>>

\* K8sGPT is run again and finds one problem more, before the others.
AnalyseAgain ==
  /\ cell.from = "k8sgpt" /\ answer \in Findings
  /\ \A i \in DOMAIN Scripts : Scored(Scripts[i])
  /\ answer' = <<Noise>> \o answer
  /\ rows' = [s \in DOMAIN rows |-> IF InScope(s) THEN Row(s, answer') ELSE rows[s]]
  /\ UNCHANGED <<cell, live, port>>

Next ==
  \/ \E n \in 0..Len(Levels) : DiagnoseLevels(n)
  \/ RescoreRules
  \/ \E i \in DOMAIN Scripts : Score(Scripts[i])
  \/ AnalyseAgain

Spec == Init /\ [][Next]_vars

-----------------------------------------------------------------------------

\* The port of the rules says what the operator said, wherever the operator
\* said something ("reproduces the Go output on the un-fixed rules (must be
\* 100 %)", 11-rule-rescore.py): same rules, same order, same evidence levels.
PortAgrees ==
  \A i \in DOMAIN port : port[i].live # "" => port[i].v1 = port[i].live

\* The fixes change the diagnoses they are meant for and no other: where the
\* frozen rules said migration-job, or where a changed file that is not the
\* backend's points elsewhere.
FixesOnlyWhereMeant ==
  \A i \in DOMAIN port :
    port[i].v1 # port[i].v2 =>
      \/ port[i].v1 = "migration-job"
      \/ LET files == {it \in filter_to_level(answer, Levels[i]) : it.type = "ChangedFile"}
         IN  /\ \E it \in files : it.resource # {}
             /\ \A it \in files : it.resource \intersect BACKEND_FILES = {}

\* The copies of the table of 08 credit the same names ("keep both in sync",
\* 09-baseline-b0.py): the engines are scored alike on S1.
MirrorsAgree ==
  cell.from = "model" =>
    \A s, t \in {"08", "09", "11", "12", "14"} :
      (rows[s] \in {"0", "1"} /\ rows[t] \in {"0", "1"}) => rows[s] = rows[t]

\* What the scripts call a test suite, or the flaky test in it.
SuiteNames ==
  SYMPTOM_COMPONENTS \union ALIASES_08[10] \union ALIASES_23[10] \union TESTS_17
    \union COMMON_ALIAS("test-suite") \union KEYWORD_ROLES_34[3][1]

\* Where a failure shows is not where it comes from (SYMPTOM_COMPONENTS, 15a):
\* naming a test suite is credited for the flaky test alone, by every script on
\* every subject, but for one name.  The table of 08 and its four copies take
\* "regression" for the seed job of F9; no other table does.
SymptomNotCredited ==
  (cell.from = "model" /\ cell.fault # 10 /\ answer \in SuiteNames) =>
    \A s \in DOMAIN rows :
      rows[s] = "1" =>
        s \in {"08", "09", "11", "12", "14"} /\ cell.fault = 9 /\ answer = "regression"

\* One problem more that says nothing of the fault changes neither score that
\* looks beyond the first problem: 14 by what is structured, 34 by the keywords.
NoiseIgnored ==
  [][cell.from = "k8sgpt" /\ answer' # answer =>
       rows'["14"] = rows["14"] /\ rows'["34"] = rows["34"]]_vars
=============================================================================
