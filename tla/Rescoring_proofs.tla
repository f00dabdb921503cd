--------------------------- MODULE Rescoring_proofs ---------------------------
(***************************************************************************)
(* What the scorers promise, for every report, name and list of problems.  *)
(***************************************************************************)
EXTENDS Rescoring, TLAPS, FiniteSetTheorems

-----------------------------------------------------------------------------
(* The first of some positions.                                            *)

\* In a set without a least element the numbers of elements below x, for each x up to some n,
\* differ and are not 0: there are fewer such numbers than elements up to n.
LEMMA HasLeast ==
  ASSUME NEW S \in SUBSET Nat, S # {}
  PROVE  \E m \in S : \A k \in S : m <= k
<1> PICK n \in S : TRUE
  OBVIOUS
<1> DEFINE T == {k \in S : k <= n}
           Below(x) == {k \in T : k < x}
           rank == [x \in T |-> Cardinality(Below(x))]
           size == Cardinality(T)
<1> SUFFICES ASSUME \A m \in S : \E k \in S : k < m PROVE FALSE
  OBVIOUS
<1>0. T \subseteq Nat /\ n \in Nat /\ n \in T /\ \A x \in T : \E k \in T : k < x
  <2>1. n \in Nat
    OBVIOUS
  <2>2. ASSUME NEW x \in T PROVE \E k \in T : k < x
    <3>1. PICK k \in S : k < x
      OBVIOUS
    <3>2. k \in Nat /\ x \in Nat /\ x <= n
      OBVIOUS
    <3> QED
      BY <2>1, <3>1, <3>2
  <2>3. n \in T
    BY <2>1
  <2>4. T \subseteq Nat
    OBVIOUS
  <2> HIDE DEF T
  <2> QED
    BY <2>1, <2>2, <2>3, <2>4
<1>1. IsFiniteSet(T)
  <2>1. IsFiniteSet(0..n)
    BY <1>0, FS_Interval
  <2>2. ASSUME NEW x \in T PROVE x \in 0..n
    <3>1. x \in Nat /\ x <= n
      BY <1>0
    <3> HIDE DEF T
    <3> QED
      BY <1>0, <3>1
  <2>3. T \in SUBSET (0..n)
    BY <2>2
  <2> HIDE DEF T
  <2> QED
    BY <2>1, <2>3, FS_Subset
<1> HIDE DEF T
<1>5. size \in Nat /\ size # 0
  BY <1>0, <1>1, FS_CardinalityType, FS_EmptySet
<1>2. ASSUME NEW x \in T
      PROVE  IsFiniteSet(Below(x)) /\ rank[x] \in 1..(size - 1)
  <2>0. Below(x) \in SUBSET T /\ x \notin Below(x) /\ Below(x) # {}
    BY <1>0
  <2> DEFINE B == Below(x)
  <2>r. rank[x] = Cardinality(B)
    OBVIOUS
  <2> HIDE DEF B, Below, rank
  <2>1. IsFiniteSet(B) /\ Cardinality(B) <= size /\ (size = Cardinality(B) => T = B)
    BY <1>1, <2>0, FS_Subset DEF B
  <2>2. Cardinality(B) \in Nat /\ Cardinality(B) # 0
    BY <2>1, <2>0, FS_EmptySet, FS_CardinalityType DEF B
  <2>3. size # Cardinality(B)
    BY <2>0, <2>1 DEF B
  <2>4. IsFiniteSet(Below(x))
    BY <2>1 DEF B
  <2> HIDE DEF size
  <2> QED
    BY <1>5, <2>1, <2>2, <2>3, <2>4, <2>r
<1>3. ASSUME NEW x \in T, NEW y \in T, x < y PROVE rank[x] # rank[y]
  <2>1. Below(x) \in SUBSET Below(y) /\ x \in Below(y) /\ x \notin Below(x)
    <3>1. x \in Nat /\ y \in Nat
      BY <1>0
    <3>2. ASSUME NEW k \in Below(x) PROVE k \in Below(y)
      <4>1. k \in T /\ k \in Nat /\ k < x
        BY <1>0
      <4> QED
        BY <1>3, <3>1, <4>1
    <3>3. x \in Below(y) /\ x \notin Below(x)
      BY <1>3, <3>1
    <3> HIDE DEF Below
    <3> QED
      BY <3>2, <3>3
  <2>2. IsFiniteSet(Below(y))
    BY <1>2
  <2>3. rank[x] = Cardinality(Below(x)) /\ rank[y] = Cardinality(Below(y))
    OBVIOUS
  <2> HIDE DEF Below, rank
  <2> QED
    BY <2>1, <2>2, <2>3, FS_Subset
<1>4. rank \in [T -> 1..(size - 1)]
  <2> HIDE DEF size
  <2> QED
    BY <1>2
<1>6. IsFiniteSet(1..(size - 1)) /\ Cardinality(1..(size - 1)) = size - 1
  <2> HIDE DEF size
  <2>1. 1 \in Int /\ size - 1 \in Int /\ size - 1 >= 0
    BY <1>5
  <2> DEFINE last == size - 1
  <2>2. last \in Int /\ last >= 0
    BY <2>1
  <2> HIDE DEF last
  <2>3. IsFiniteSet(1..last) /\ Cardinality(1..last) = last
    BY <2>2, FS_Interval, 1 \in Int, IF 1 > last THEN 0 = last ELSE last - 1 + 1 = last
  <2> QED
    BY <2>3 DEF last
<1>7. \E x, y \in T : x # y /\ rank[x] = rank[y]
  <2> HIDE DEF rank
  <2>1. Cardinality(1..(size - 1)) < Cardinality(T)
    BY <1>5, <1>6
  <2> HIDE DEF size
  <2> QED
    BY <1>1, <1>4, <1>6, <2>1, FS_PigeonHole
<1> HIDE DEF rank, Below
<1> QED
  BY <1>0, <1>3, <1>7

LEMMA First ==
  ASSUME NEW S \in SUBSET Nat, S # {}
  PROVE  Min(S) \in S /\ \A k \in S : Min(S) <= k
<1>1. \E m \in S : \A k \in S : m <= k
  BY HasLeast
<1> QED
  BY <1>1 DEF Min

-----------------------------------------------------------------------------
(* The rules of the operator and their port agree one by one.              *)

LEMMA SameBundle ==
  ASSUME NEW report, NEW level, \A it \in report : it.type \in EvidenceTypes
  PROVE  BundleFromReportAtLevel(report, level) = filter_to_level(report, level)
<1> DEFINE all == {i.type : i \in report}
<1>1. ASSUME NEW it \in report
      PROVE  it.type \in EvidenceTypesForLevel(level) <=> it.type \in LEVEL_TYPES(level, all)
  <2>1. it.type \in all /\ it.type \in EvidenceTypes
    OBVIOUS
  <2> HIDE DEF all
  <2> QED
    BY <2>1 DEF EvidenceTypesForLevel, LEVEL_TYPES, T_LOGS
<1> QED
  BY <1>1 DEF BundleFromReportAtLevel, filter_to_level

\* Rule i of the operator and rule i of the port.
LEMMA SameRules ==
  ASSUME NEW b, \A it \in b : it.type \in EvidenceTypes
  PROVE  /\ RuleInvalidMigration(b) <=> rule_invalid_migration(b, FALSE)
         /\ RuleImagePull(b) <=> rule_image_pull(b)
         /\ RuleMissingConfig(b) <=> rule_missing_config(b)
         /\ RuleDBReadiness(b) <=> rule_db_readiness(b)
         /\ RuleServiceSelector(b) <=> rule_service_selector(b)
         /\ RuleContractBreak(b) <=> rule_contract_break(b, FALSE)
         /\ RuleLatencyTimeout(b) <=> rule_latency_timeout(b)
         /\ RuleFrontendBreak(b) <=> rule_frontend_break(b)
         /\ RuleSeedData(b) <=> rule_seed_data(b)
         /\ RuleFlakyTest(b) <=> rule_flaky_test(b)
<1>1. \A t, s : ContainsAny(t, s) <=> contains_any(t, s)
  BY DEF ContainsAny, contains_any
<1>2. \A types, s : Says(b, types, s) <=> first_item(b, types, s)
  BY <1>1 DEF Says, first_item
<1>3. \A it : IsFailureItem(it) <=> is_failure_item(it)
  BY <1>1 DEF IsFailureItem, is_failure_item
<1>4. \A suite : FailedSuite(b, suite) <=> failed_suite(b, suite)
  BY <1>3 DEF FailedSuite, failed_suite
<1>5. HasInfraSymptom(b) <=> has_infra_symptom(b)
  BY <1>1 DEF HasInfraSymptom, has_infra_symptom, Says
<1>6. HasErrorLog(b) <=> has_error_log(b)
  BY <1>2 DEF HasErrorLog, has_error_log, T_LOGS
<1>11. RuleInvalidMigration(b) <=> rule_invalid_migration(b, FALSE)
  BY <1>1 DEF RuleInvalidMigration, rule_invalid_migration, Says, T_LOGS, SQL_ERROR_KEYWORDS,
              SQL_ERROR_KEYWORDS_V2
<1>12. RuleImagePull(b) <=> rule_image_pull(b)
  BY <1>2 DEF RuleImagePull, rule_image_pull
<1>13. RuleMissingConfig(b) <=> rule_missing_config(b)
  BY <1>2 DEF RuleMissingConfig, rule_missing_config, T_LOGS
<1>14. RuleDBReadiness(b) <=> rule_db_readiness(b)
  BY <1>2 DEF RuleDBReadiness, rule_db_readiness, T_LOGS
<1>15. RuleServiceSelector(b) <=> rule_service_selector(b)
  BY <1>1 DEF RuleServiceSelector, rule_service_selector, Says
<1>16. RuleContractBreak(b) <=> rule_contract_break(b, FALSE)
  BY <1>4 DEF RuleContractBreak, rule_contract_break
<1>17. RuleLatencyTimeout(b) <=> rule_latency_timeout(b)
  BY <1>2, <1>5 DEF RuleLatencyTimeout, rule_latency_timeout
<1>18. RuleFrontendBreak(b) <=> rule_frontend_break(b)
  <2> DEFINE hints == {"frontend", "ui", ".js", ".ts", ".jsx", ".tsx", ".html", ".css"}
  <2>1. FRONTEND_FILES \ {"frontend.py"} = hints
    BY DEF FRONTEND_FILES
  <2>2. ChangedFileRefs(b, hints) # {} <=> changed_file_refs(b, hints)
    BY <1>1 DEF ChangedFileRefs, changed_file_refs, contains_any
  <2> QED
    BY <1>4, <2>1, <2>2 DEF RuleFrontendBreak, rule_frontend_break
<1>19. RuleSeedData(b) <=> rule_seed_data(b)
  BY <1>1, <1>4 DEF RuleSeedData, rule_seed_data, T_LOGS
<1>20. RuleFlakyTest(b) <=> rule_flaky_test(b)
  BY <1>3, <1>5, <1>6 DEF RuleFlakyTest, rule_flaky_test
<1> QED
  BY <1>11, <1>12, <1>13, <1>14, <1>15, <1>16, <1>17, <1>18, <1>19, <1>20

\* The port's table of rules, by name.
LEMMA RuleNames ==
  ASSUME NEW b, NEW v2
  PROVE  /\ (hit("invalid-migration", b, v2) <=> rule_invalid_migration(b, v2))
         /\ component("invalid-migration") = "migration-job"
         /\ (hit("image-pull", b, v2) <=> rule_image_pull(b))
         /\ component("image-pull") = "app-deployment"
         /\ (hit("missing-config", b, v2) <=> rule_missing_config(b))
         /\ component("missing-config") = "app-deployment"
         /\ (hit("db-readiness", b, v2) <=> rule_db_readiness(b))
         /\ component("db-readiness") = "app-deployment"
         /\ (hit("service-selector", b, v2) <=> rule_service_selector(b))
         /\ component("service-selector") = "service"
         /\ (hit("contract-break", b, v2) <=> rule_contract_break(b, v2))
         /\ component("contract-break") = "backend"
         /\ (hit("latency-timeout", b, v2) <=> rule_latency_timeout(b))
         /\ component("latency-timeout") = "backend"
         /\ (hit("frontend-break", b, v2) <=> rule_frontend_break(b))
         /\ component("frontend-break") = "frontend"
         /\ (hit("seed-data", b, v2) <=> rule_seed_data(b)) /\ component("seed-data") = "seed-job"
         /\ (hit("flaky-test", b, v2) <=> rule_flaky_test(b))
         /\ component("flaky-test") = "test-suite"
  BY DEF hit, component

LEMMA PortTable ==
  ASSUME NEW b, NEW v2
  PROVE  /\ (hit(RULES_V1[1], b, v2) <=> rule_invalid_migration(b, v2))
         /\ component(RULES_V1[1]) = "migration-job"
         /\ (hit(RULES_V1[2], b, v2) <=> rule_image_pull(b))
         /\ component(RULES_V1[2]) = "app-deployment"
         /\ (hit(RULES_V1[3], b, v2) <=> rule_missing_config(b))
         /\ component(RULES_V1[3]) = "app-deployment"
         /\ (hit(RULES_V1[4], b, v2) <=> rule_db_readiness(b))
         /\ component(RULES_V1[4]) = "app-deployment"
         /\ (hit(RULES_V1[5], b, v2) <=> rule_service_selector(b))
         /\ component(RULES_V1[5]) = "service"
         /\ (hit(RULES_V1[6], b, v2) <=> rule_contract_break(b, v2))
         /\ component(RULES_V1[6]) = "backend"
         /\ (hit(RULES_V1[7], b, v2) <=> rule_latency_timeout(b))
         /\ component(RULES_V1[7]) = "backend"
         /\ (hit(RULES_V1[8], b, v2) <=> rule_frontend_break(b))
         /\ component(RULES_V1[8]) = "frontend"
         /\ (hit(RULES_V1[9], b, v2) <=> rule_seed_data(b)) /\ component(RULES_V1[9]) = "seed-job"
         /\ (hit(RULES_V1[10], b, v2) <=> rule_flaky_test(b))
         /\ component(RULES_V1[10]) = "test-suite"
<1>1. /\ RULES_V1[1] = "invalid-migration"
      /\ RULES_V1[2] = "image-pull"
      /\ RULES_V1[3] = "missing-config"
      /\ RULES_V1[4] = "db-readiness"
      /\ RULES_V1[5] = "service-selector"
      /\ RULES_V1[6] = "contract-break"
      /\ RULES_V1[7] = "latency-timeout"
      /\ RULES_V1[8] = "frontend-break"
      /\ RULES_V1[9] = "seed-data"
      /\ RULES_V1[10] = "flaky-test"
  BY DEF RULES_V1
<1> QED
  BY <1>1, RuleNames

LEMMA OperatorTable ==
  ASSUME NEW b
  PROVE  /\ (OrderedRules(b)[1].match <=> RuleInvalidMigration(b))
         /\ OrderedRules(b)[1].component = "migration-job"
         /\ (OrderedRules(b)[2].match <=> RuleImagePull(b))
         /\ OrderedRules(b)[2].component = "app-deployment"
         /\ (OrderedRules(b)[3].match <=> RuleMissingConfig(b))
         /\ OrderedRules(b)[3].component = "app-deployment"
         /\ (OrderedRules(b)[4].match <=> RuleDBReadiness(b))
         /\ OrderedRules(b)[4].component = "app-deployment"
         /\ (OrderedRules(b)[5].match <=> RuleServiceSelector(b))
         /\ OrderedRules(b)[5].component = "service"
         /\ (OrderedRules(b)[6].match <=> RuleContractBreak(b))
         /\ OrderedRules(b)[6].component = "backend"
         /\ (OrderedRules(b)[7].match <=> RuleLatencyTimeout(b))
         /\ OrderedRules(b)[7].component = "backend"
         /\ (OrderedRules(b)[8].match <=> RuleFrontendBreak(b))
         /\ OrderedRules(b)[8].component = "frontend"
         /\ (OrderedRules(b)[9].match <=> RuleSeedData(b))
         /\ OrderedRules(b)[9].component = "seed-job"
         /\ (OrderedRules(b)[10].match <=> RuleFlakyTest(b))
         /\ OrderedRules(b)[10].component = "test-suite"
  BY DEF OrderedRules

LEMMA SameDiagnosis ==
  ASSUME NEW b, \A it \in b : it.type \in EvidenceTypes
  PROVE  Diagnose(b) = diagnose(b, FALSE)
<1> DEFINE rules == OrderedRules(b)
           ours == {i \in DOMAIN rules : rules[i].match}
           theirs == {i \in DOMAIN RULES_V1 : hit(RULES_V1[i], b, FALSE)}
<1>1. DOMAIN rules = 1..10 /\ DOMAIN RULES_V1 = 1..10
  BY DEF OrderedRules, RULES_V1
<1>2. ASSUME NEW i \in 1..10
      PROVE  /\ rules[i].match <=> hit(RULES_V1[i], b, FALSE)
             /\ rules[i].component = component(RULES_V1[i])
  <2>1. i \in {1, 2, 3, 4, 5, 6, 7, 8, 9, 10}
    OBVIOUS
  <2>2. component(RULES_V1[i]) = rules[i].component
    BY <2>1, PortTable, OperatorTable
  <2>3. rules[i].match <=> hit(RULES_V1[i], b, FALSE)
    BY <2>1, SameRules, PortTable, OperatorTable, ZenonT(60)
  <2> QED
    BY <2>2, <2>3
<1>3. ours = theirs
  BY <1>1, <1>2
<1>4. ours \subseteq 1..10
  BY <1>1
<1> HIDE DEF rules
<1>5. CASE ours = {}
  BY <1>3, <1>5 DEF Diagnose, diagnose, rules
<1>6. CASE ours # {}
  <2>1. Min(ours) \in 1..10
    BY <1>4, <1>6, First
  <2>2. rules[Min(ours)].component = component(RULES_V1[Min(ours)])
    BY <1>2, <2>1
  <2>3. Diagnose(b) = rules[Min(ours)].component
    BY <1>6 DEF Diagnose, rules
  <2>4. diagnose(b, FALSE) = component(RULES_V1[Min(theirs)])
    BY <1>3, <1>6 DEF diagnose
  <2> QED
    BY <1>3, <2>2, <2>3, <2>4
<1> QED
  BY <1>5, <1>6

-----------------------------------------------------------------------------
(* What is recorded was computed from the answer.                          *)

PortRow(i) ==
  LET items == filter_to_level(answer, Levels[i])
  IN  [live |-> live[i], v1 |-> diagnose(items, FALSE), v2 |-> diagnose(items, TRUE)]

Diagnosed ==
  /\ cell.from = "rule" => answer \in Reports
  /\ live # <<>> => /\ cell.from = "rule"
                    /\ \A i \in DOMAIN Levels :
                         live[i] \in {"", Diagnose(BundleFromReportAtLevel(answer, Levels[i]))}
  /\ port # <<>> => live # <<>> /\ port = [i \in DOMAIN Levels |-> PortRow(i)]

LEMMA DiagnosedAlways == Spec => []Diagnosed
<1>1. Init => Diagnosed
  BY DEF Init, Diagnosed
<1>2. Diagnosed /\ [Next]_vars => Diagnosed'
  <2> SUFFICES ASSUME Diagnosed, [Next]_vars PROVE Diagnosed'
    OBVIOUS
  <2>1. ASSUME NEW n \in 0..Len(Levels), DiagnoseLevels(n) PROVE Diagnosed'
    BY <2>1 DEF DiagnoseLevels, Diagnosed
  <2>2. CASE RescoreRules
    BY <2>2 DEF RescoreRules, Diagnosed, PortRow
  <2>3. ASSUME NEW i \in DOMAIN Scripts, Score(Scripts[i]) PROVE Diagnosed'
    BY <2>3 DEF Score, Diagnosed, PortRow
  <2>4. CASE AnalyseAgain
    BY <2>4 DEF AnalyseAgain, Diagnosed, PortRow
  <2>5. CASE UNCHANGED vars
    BY <2>5 DEF vars, Diagnosed, PortRow
  <2> QED
    BY <2>1, <2>2, <2>3, <2>4, <2>5 DEF Next
<1> QED
  BY <1>1, <1>2, PTL DEF Spec

LEMMA PortRows ==
  ASSUME Diagnosed, NEW i \in DOMAIN port
  PROVE  /\ i \in DOMAIN Levels /\ live # <<>> /\ answer \in Reports
         /\ port[i].live = live[i]
         /\ port[i].v1 = diagnose(filter_to_level(answer, Levels[i]), FALSE)
         /\ port[i].v2 = diagnose(filter_to_level(answer, Levels[i]), TRUE)
<1>1. port # <<>>
  <2>1. DOMAIN <<>> = {}
    OBVIOUS
  <2> QED
    BY <2>1, Zenon
<1>2. /\ live # <<>> /\ answer \in Reports
      /\ port = [k \in DOMAIN Levels |-> PortRow(k)]
  BY <1>1 DEF Diagnosed
<1>3. i \in DOMAIN Levels /\ port[i] = PortRow(i)
  BY <1>2, Zenon
<1> QED
  BY <1>2, <1>3 DEF PortRow

\* For every report the CRD admits, at every evidence level: the un-fixed rules of
\* 11-rule-rescore.py name the component that the operator named.
THEOREM PortAgreesAlways == Spec => []PortAgrees
<1>1. Diagnosed => PortAgrees
  <2> SUFFICES ASSUME Diagnosed, NEW i \in DOMAIN port, port[i].live # ""
               PROVE  port[i].v1 = port[i].live
    BY DEF PortAgrees
  <2>3. i \in DOMAIN Levels /\ live # <<>> /\ answer \in Reports
    BY PortRows
  <2> DEFINE bundle == BundleFromReportAtLevel(answer, Levels[i])
  <2>4. bundle = filter_to_level(answer, Levels[i])
    BY <2>3, ReportsAssumption, SameBundle
  <2>5. Diagnose(bundle) = diagnose(bundle, FALSE)
    <3>1. \A it \in bundle : it.type \in EvidenceTypes
      BY <2>3, ReportsAssumption DEF BundleFromReportAtLevel
    <3> QED
      BY <3>1, SameDiagnosis
  <2>6. live[i] \in {"", Diagnose(bundle)}
    BY <2>3 DEF Diagnosed
  <2>7. port[i].live = live[i] /\ port[i].v1 = diagnose(filter_to_level(answer, Levels[i]), FALSE)
    BY PortRows
  <2> HIDE DEF bundle
  <2>8. port[i].v1 = diagnose(bundle, FALSE)
    BY <2>4, <2>7
  <2> QED
    BY <2>5, <2>6, <2>7, <2>8
<1> QED
  BY <1>1, DiagnosedAlways, PTL

-----------------------------------------------------------------------------
(* The fixes                                                               *)

\* An invalid migration is the first rule.
LEMMA MigrationFirst ==
  ASSUME NEW b, rule_invalid_migration(b, FALSE)
  PROVE  diagnose(b, FALSE) = "migration-job"
<1> DEFINE hits == {i \in DOMAIN RULES_V1 : hit(RULES_V1[i], b, FALSE)}
<1>1. 1 \in hits
  <2>1. 1 \in DOMAIN RULES_V1
    BY DEF RULES_V1
  <2>2. hit(RULES_V1[1], b, FALSE)
    BY PortTable
  <2> QED
    BY <2>1, <2>2
<1>2. hits \in SUBSET Nat
  <2>1. DOMAIN RULES_V1 = 1..10
    BY DEF RULES_V1
  <2>2. ASSUME NEW i \in 1..10 PROVE i \in Nat
    OBVIOUS
  <2>3. \A i \in hits : i \in 1..10
    BY <2>1, Zenon
  <2> HIDE DEF hits
  <2> QED
    BY <2>2, <2>3, Zenon
<1>3. diagnose(b, FALSE) = component(RULES_V1[Min(hits)])
  BY <1>1 DEF diagnose
<1>4. 0 \notin hits
  <2>1. 0 \notin DOMAIN RULES_V1
    BY DEF RULES_V1
  <2> QED
    BY <2>1
<1> HIDE DEF hits
<1>5. Min(hits) \in hits /\ Min(hits) <= 1
  BY <1>1, <1>2, First
<1>6. Min(hits) = 1
  <2>1. Min(hits) \in Nat /\ Min(hits) # 0
    BY <1>2, <1>4, <1>5, Zenon
  <2> QED
    BY <1>5, <2>1
<1> QED
  BY <1>3, <1>6, PortTable

\* Both versions agree where no changed file points away from the backend.
LEMMA SameVersions ==
  ASSUME NEW b, ~has_offsite_routing(b), ~rule_invalid_migration(b, FALSE),
         rule_contract_break(b, TRUE) <=> rule_contract_break(b, FALSE)
  PROVE  diagnose(b, TRUE) = diagnose(b, FALSE)
<1>1. ~rule_invalid_migration(b, TRUE)
  BY DEF rule_invalid_migration, contains_any, SQL_ERROR_KEYWORDS
<1>2. DOMAIN RULES_V1 = 1..10
  BY DEF RULES_V1
<1>3. ASSUME NEW i \in 1..10 PROVE hit(RULES_V1[i], b, TRUE) <=> hit(RULES_V1[i], b, FALSE)
  <2>1. i \in {1, 2, 3, 4, 5, 6, 7, 8, 9, 10}
    OBVIOUS
  <2> QED
    BY <1>1, <2>1, PortTable
<1>4. {i \in DOMAIN RULES_V1 : hit(RULES_V1[i], b, TRUE)} =
      {i \in DOMAIN RULES_V1 : hit(RULES_V1[i], b, FALSE)}
  BY <1>2, <1>3
<1> QED
  BY <1>4 DEF diagnose

\* The two fixes of 11-rule-rescore.py change a diagnosis only where the frozen rules said
\* migration-job or where a changed file points at something that is not the backend,
\* whatever the evidence: no other answer of the rule engine moves between the versions.
THEOREM FixesOnlyWhereMeantAlways == Spec => []FixesOnlyWhereMeant
<1>1. Diagnosed => FixesOnlyWhereMeant
  <2> SUFFICES ASSUME Diagnosed, NEW i \in DOMAIN port, port[i].v1 # port[i].v2,
                      port[i].v1 # "migration-job"
               PROVE  LET files == {it \in filter_to_level(answer, Levels[i]) :
                                      it.type = "ChangedFile"}
                      IN  /\ \E it \in files : it.resource # {}
                          /\ \A it \in files : it.resource \intersect BACKEND_FILES = {}
    BY DEF FixesOnlyWhereMeant
  <2> DEFINE items == filter_to_level(answer, Levels[i])
             offsite == \E hints : /\ changed_file_refs_resource_only(items, hints)
                                   /\ ~changed_file_refs_resource_only(items, BACKEND_FILES)
  <2>1. port[i].v1 = diagnose(items, FALSE) /\ port[i].v2 = diagnose(items, TRUE)
    BY PortRows
  <2> HIDE DEF items
  <2>2. ~rule_invalid_migration(items, FALSE)
    BY <2>1, MigrationFirst
  <2>3. \/ has_offsite_routing(items)
        \/ ~(rule_contract_break(items, TRUE) <=> rule_contract_break(items, FALSE))
    BY <2>1, <2>2, SameVersions
  <2>4. offsite
    BY <2>3 DEF has_offsite_routing, rule_contract_break
  <2> QED
    BY <2>4 DEF items, changed_file_refs_resource_only, contains_any
<1> QED
  BY <1>1, DiagnosedAlways, PTL

-----------------------------------------------------------------------------
(* A script's row is the one its operator gives for the answer.            *)

Sources == {"rule", "model", "k8sgpt"}

Marked ==
  /\ cell.from \in Sources /\ cell.subject \in Subjects /\ cell.fault \in Faults
  /\ DOMAIN rows = {Scripts[i] : i \in DOMAIN Scripts}
  /\ \A s \in DOMAIN rows : rows[s] # "unscored" => InScope(s) /\ rows[s] = Row(s, answer)

\* The rows depend on the cell and the answer alone.
LEMMA SameRow ==
  ASSUME cell' = cell, NEW s
  PROVE  Row(s, answer)' = Row(s, answer')
  BY DEF Row, RowOfName, RowOfProblems, Credited, Row08, Row11, Row14c,
         Row17, Row23, Row34, Row35

LEMMA SameScope ==
  ASSUME cell' = cell, answer' = answer \/ cell.from = "k8sgpt", NEW s
  PROVE  InScope(s)' <=> InScope(s)
  BY DEF InScope

LEMMA MarkedAlways == Spec => []Marked
<1>1. Init => Marked
  <2> SUFFICES ASSUME Init PROVE Marked
    OBVIOUS
  <2>1. cell.from \in Sources /\ cell.subject \in Subjects /\ cell.fault \in Faults
    <3>1. CASE cell = [from |-> "rule", subject |-> "s1", fault |-> 1, file |-> "whole"]
      BY <3>1 DEF Sources, Subjects, Faults
    <3>2. CASE cell \in [from : {"model"}, subject : Subjects, fault : Faults,
                         file : {"whole", "torn", "absent"}]
      BY <3>2 DEF Sources
    <3>3. CASE cell \in [from : {"k8sgpt"}, subject : Subjects, fault : Faults, file : {"whole"}]
      BY <3>3 DEF Sources
    <3> QED
      BY <3>1, <3>2, <3>3 DEF Init
  <2> QED
    BY <2>1 DEF Init, Marked, Unscored
<1>2. Marked /\ [Next]_vars => Marked'
  <2> SUFFICES ASSUME Marked, [Next]_vars PROVE Marked'
    OBVIOUS
  <2>1. ASSUME UNCHANGED <<cell, answer, rows>> PROVE Marked'
    BY <2>1, SameRow, SameScope DEF Marked
  <2>2. ASSUME NEW n \in 0..Len(Levels), DiagnoseLevels(n) PROVE Marked'
    BY <2>1, <2>2 DEF DiagnoseLevels
  <2>3. CASE RescoreRules
    BY <2>1, <2>3 DEF RescoreRules
  <2>4. ASSUME NEW i \in DOMAIN Scripts, Score(Scripts[i]) PROVE Marked'
    <3> DEFINE t == Scripts[i]
    <3>1. /\ cell' = cell /\ answer' = answer /\ t \in DOMAIN rows
          /\ InScope(t) /\ rows' = [rows EXCEPT ![t] = Row(t, answer)]
      BY <2>4 DEF Score, Marked
    <3> HIDE DEF t
    <3>2. ASSUME NEW s \in DOMAIN rows, rows'[s] # "unscored"
          PROVE  InScope(s)' /\ rows'[s] = Row(s, answer)'
      <4>1. InScope(s) /\ rows'[s] = Row(s, answer)
        BY <3>1, <3>2 DEF Marked
      <4> QED
        BY <3>1, <4>1, SameRow, SameScope
    <3>3. DOMAIN rows' = DOMAIN rows
      BY <3>1
    <3> QED
      BY <3>1, <3>2, <3>3 DEF Marked
  <2>5. CASE AnalyseAgain
    <3>1. /\ cell' = cell /\ cell.from = "k8sgpt"
          /\ rows' = [s \in DOMAIN rows |-> IF InScope(s) THEN Row(s, answer') ELSE rows[s]]
      BY <2>5 DEF AnalyseAgain
    <3>2. ASSUME NEW s \in DOMAIN rows, rows'[s] # "unscored"
          PROVE  InScope(s)' /\ rows'[s] = Row(s, answer)'
      <4>1. InScope(s) /\ rows'[s] = Row(s, answer')
        BY <3>1, <3>2 DEF Marked
      <4> QED
        BY <3>1, <4>1, SameRow, SameScope
    <3>3. DOMAIN rows' = DOMAIN rows
      BY <3>1
    <3> QED
      BY <3>1, <3>2, <3>3 DEF Marked
  <2>6. CASE UNCHANGED vars
    BY <2>1, <2>6 DEF vars
  <2> QED
    BY <2>2, <2>3, <2>4, <2>5, <2>6 DEF Next
<1> QED
  BY <1>1, <1>2, PTL DEF Spec

-----------------------------------------------------------------------------
(* The copies of the table of 08                                           *)

LEMMA SameTables ==
  ASSUME NEW f \in Faults
  PROVE  /\ ALIASES_09[f] = ALIASES_08[f] /\ ALIASES_11[f] = ALIASES_08[f]
         /\ ALIASES_12[f] = ALIASES_08[f] /\ ALIASES_14[f] = ALIASES_08[f]
<1>1. f \in {1, 2, 3, 4, 5, 6, 7, 8, 9, 10}
  BY DEF Faults
<1>2. ALIASES_09[f] = ALIASES_08[f]
  <2>1. /\ ALIASES_09[1] = ALIASES_08[1]
        /\ ALIASES_09[2] = ALIASES_08[2]
        /\ ALIASES_09[3] = ALIASES_08[3]
        /\ ALIASES_09[4] = ALIASES_08[4]
        /\ ALIASES_09[5] = ALIASES_08[5]
        /\ ALIASES_09[6] = ALIASES_08[6]
        /\ ALIASES_09[7] = ALIASES_08[7]
        /\ ALIASES_09[8] = ALIASES_08[8]
        /\ ALIASES_09[9] = ALIASES_08[9]
        /\ ALIASES_09[10] = ALIASES_08[10]
    BY DEF ALIASES_09, DEPLOYMENT_09, ALIASES_08
  <2> QED
    BY <1>1, <2>1
<1>3. ALIASES_11[f] = ALIASES_08[f]
  <2>1. /\ ALIASES_11[1] = ALIASES_08[1]
        /\ ALIASES_11[2] = ALIASES_08[2]
        /\ ALIASES_11[3] = ALIASES_08[3]
        /\ ALIASES_11[4] = ALIASES_08[4]
        /\ ALIASES_11[5] = ALIASES_08[5]
        /\ ALIASES_11[6] = ALIASES_08[6]
        /\ ALIASES_11[7] = ALIASES_08[7]
        /\ ALIASES_11[8] = ALIASES_08[8]
        /\ ALIASES_11[9] = ALIASES_08[9]
        /\ ALIASES_11[10] = ALIASES_08[10]
    BY DEF ALIASES_11, DEPLOYMENT_11, BACKEND_11, ALIASES_08
  <2> QED
    BY <1>1, <2>1
<1>4. ALIASES_12[f] = ALIASES_08[f]
  <2>1. /\ ALIASES_12[1] = ALIASES_08[1]
        /\ ALIASES_12[2] = ALIASES_08[2]
        /\ ALIASES_12[3] = ALIASES_08[3]
        /\ ALIASES_12[4] = ALIASES_08[4]
        /\ ALIASES_12[5] = ALIASES_08[5]
        /\ ALIASES_12[6] = ALIASES_08[6]
        /\ ALIASES_12[7] = ALIASES_08[7]
        /\ ALIASES_12[8] = ALIASES_08[8]
        /\ ALIASES_12[9] = ALIASES_08[9]
        /\ ALIASES_12[10] = ALIASES_08[10]
    BY DEF ALIASES_12, APP_12, ALIASES_08
  <2> QED
    BY <1>1, <2>1
<1>5. ALIASES_14[f] = ALIASES_08[f]
  <2>1. /\ ALIASES_14[1] = ALIASES_08[1]
        /\ ALIASES_14[2] = ALIASES_08[2]
        /\ ALIASES_14[3] = ALIASES_08[3]
        /\ ALIASES_14[4] = ALIASES_08[4]
        /\ ALIASES_14[5] = ALIASES_08[5]
        /\ ALIASES_14[6] = ALIASES_08[6]
        /\ ALIASES_14[7] = ALIASES_08[7]
        /\ ALIASES_14[8] = ALIASES_08[8]
        /\ ALIASES_14[9] = ALIASES_08[9]
        /\ ALIASES_14[10] = ALIASES_08[10]
    BY DEF ALIASES_14, APP_14, ALIASES_08
  <2> QED
    BY <1>1, <2>1
<1> QED
  BY <1>2, <1>3, <1>4, <1>5

\* The scripts that keep a copy of the table of 08 score alike whatever a model names for a
\* fault of S1, where each of them gives a mark ("keep both in sync", 09-baseline-b0.py).
THEOREM MirrorsAgreeAlways == Spec => []MirrorsAgree
<1>1. Marked => MirrorsAgree
  <2> DEFINE Mirrors == {"08", "09", "11", "12", "14"}
             mark == Mark(Credits(ALIASES_08, cell.fault, answer))
  <2> SUFFICES ASSUME Marked, cell.from = "model", NEW s \in Mirrors, rows[s] \in {"0", "1"}
               PROVE  rows[s] = mark
    BY DEF MirrorsAgree
  <2>1. s \in DOMAIN rows
    <3>1. /\ Scripts[1] = "08" /\ Scripts[2] = "09" /\ Scripts[4] = "11" /\ Scripts[5] = "12"
          /\ Scripts[6] = "14" /\ {1, 2, 4, 5, 6} \subseteq DOMAIN Scripts
      BY DEF Scripts
    <3> QED
      BY <3>1 DEF Marked
  <2>2. rows[s] = RowOfName(s, answer)
    BY <2>1 DEF Marked, Row
  <2>3. RowOfName(s, answer) \in {mark, "abort"}
    <3>1. cell.fault \in Faults
      BY DEF Marked
    <3>2. /\ Credits(ALIASES_09, cell.fault, answer) <=> Credits(ALIASES_08, cell.fault, answer)
          /\ Credits(ALIASES_11, cell.fault, answer) <=> Credits(ALIASES_08, cell.fault, answer)
          /\ Credits(ALIASES_12, cell.fault, answer) <=> Credits(ALIASES_08, cell.fault, answer)
          /\ Credits(ALIASES_14, cell.fault, answer) <=> Credits(ALIASES_08, cell.fault, answer)
      BY <3>1, SameTables DEF Credits
    <3> QED
      BY <3>2 DEF RowOfName, Row08, Row11, Credited, Mark
  <2> QED
    BY <2>2, <2>3
<1> QED
  BY <1>1, MarkedAlways, PTL

-----------------------------------------------------------------------------
(* Symptoms                                                                *)

LEMMA RoleTable ==
  ASSUME NEW table
  PROVE  /\ For("migration-job", table) = table[1]
         /\ For("app", table) = table[2]
         /\ For("service", table) = table[3]
         /\ For("backend", table) = table[4]
         /\ For("frontend", table) = table[5]
         /\ For("seed-job", table) = table[6]
         /\ For("test-suite", table) = table[7]
<1>1. Len(Roles) = 7
  BY DEF Roles
<1>2. /\ Roles[1] = "migration-job"
      /\ Roles[2] = "app"
      /\ Roles[3] = "service"
      /\ Roles[4] = "backend"
      /\ Roles[5] = "frontend"
      /\ Roles[6] = "seed-job"
      /\ Roles[7] = "test-suite"
  BY DEF Roles
<1>3. ASSUME NEW k \in 1..7
      PROVE  (CHOOSE i \in 1..Len(Roles) : Roles[i] = Roles[k]) = k
  <2>1. \A i \in 1..7 : Roles[i] = Roles[k] => i = k
    <3>1. \A i, j \in {1, 2, 3, 4, 5, 6, 7} : Roles[i] = Roles[j] => i = j
      BY <1>2
    <3> QED
      BY <3>1
  <2> QED
    BY <1>1, <2>1
<1>4. ASSUME NEW k \in 1..7 PROVE For(Roles[k], table) = table[k]
  BY <1>3 DEF For
<1>5. /\ For(Roles[1], table) = table[1]
      /\ For(Roles[2], table) = table[2]
      /\ For(Roles[3], table) = table[3]
      /\ For(Roles[4], table) = table[4]
      /\ For(Roles[5], table) = table[5]
      /\ For(Roles[6], table) = table[6]
      /\ For(Roles[7], table) = table[7]
  BY <1>4
<1> QED
  BY <1>2, <1>5

\* The names, written out.
Suite ==
  {"e2e-tests", "test-suite", "regression-tests", "smoke-tests", "contract-tests", "tests",
   "test suite", "test", "test-reliability", "flaky test", "flaky", "regression", "e2e",
   "playwright", "pytest"}

LEMMA SuiteNamesAre == SuiteNames = Suite
<1>1. /\ ALIASES_08[10] \subseteq Suite /\ ALIASES_23[10] \subseteq Suite
      /\ KEYWORD_ROLES_34[3][1] \subseteq Suite
      /\ {"test-reliability", "flaky test", "test suite"} \subseteq ALIASES_08[10]
      /\ "pytest" \in KEYWORD_ROLES_34[3][1]
  BY DEF Suite, ALIASES_08, ALIASES_23, KEYWORD_ROLES_34
<1>2. /\ SYMPTOM_COMPONENTS = {"e2e-tests", "test-suite", "regression-tests", "smoke-tests",
                                "contract-tests", "tests"}
      /\ TESTS_17 = {"test-suite", "test", "tests", "flaky", "e2e-tests", "smoke-tests",
                      "regression-tests"}
      /\ COMMON_ALIAS("test-suite") = {"e2e", "e2e-tests", "playwright", "regression", "test"}
  BY DEF SYMPTOM_COMPONENTS, TESTS_17, COMMON_ALIAS
<1> QED
  BY <1>1, <1>2 DEF SuiteNames, Suite

LEMMA SymptomNames ==
  ASSUME NEW name \in Suite
  PROVE  Normalise(name) = name /\ Hyphened(name) \in Suite \union {"flaky-test"}
  BY DEF Suite, Normalise, Hyphened

\* None of the tables that all subjects share.
LEMMA SymptomOfS1 ==
  ASSUME NEW name \in Suite, NEW f \in 1..9
  PROVE  /\ Credits(ALIASES_08, f, name) => f = 9 /\ name = "regression"
         /\ ~Credits(ALIASES_23, f, name) /\ ~decide(f, name)
<1>1. f \in {1, 2, 3, 4, 5, 6, 7, 8, 9}
  OBVIOUS
<1>2. name \in ALIASES_08[f] => f = 9 /\ name = "regression"
  <2>1. /\ name \notin ALIASES_08[1]
        /\ name \notin ALIASES_08[2]
        /\ name \notin ALIASES_08[3]
        /\ name \notin ALIASES_08[4]
        /\ name \notin ALIASES_08[5]
        /\ name \notin ALIASES_08[6]
        /\ name \notin ALIASES_08[7]
        /\ name \notin ALIASES_08[8]
        /\ name \in ALIASES_08[9] => name = "regression"
    BY DEF ALIASES_08, Suite
  <2> QED
    BY <1>1, <2>1
<1>3. name \notin ALIASES_23[f]
  <2>1. /\ name \notin ALIASES_23[1]
        /\ name \notin ALIASES_23[2]
        /\ name \notin ALIASES_23[3]
        /\ name \notin ALIASES_23[4]
        /\ name \notin ALIASES_23[5]
        /\ name \notin ALIASES_23[6]
        /\ name \notin ALIASES_23[7]
        /\ name \notin ALIASES_23[8]
        /\ name \notin ALIASES_23[9]
    BY DEF ALIASES_23, Suite
  <2> QED
    BY <1>1, <2>1
<1>4. Hyphened(name) \notin ALIAS_15a[f]
  <2>1. PICK h \in Suite \union {"flaky-test"} : h = Hyphened(name)
    BY SymptomNames
  <2>2. /\ h \notin ALIAS_15a[1]
        /\ h \notin ALIAS_15a[2]
        /\ h \notin ALIAS_15a[3]
        /\ h \notin ALIAS_15a[4]
        /\ h \notin ALIAS_15a[5]
        /\ h \notin ALIAS_15a[6]
        /\ h \notin ALIAS_15a[7]
        /\ h \notin ALIAS_15a[8]
        /\ h \notin ALIAS_15a[9]
    BY DEF ALIAS_15a, Suite
  <2> QED
    BY <1>1, <2>1, <2>2
<1> QED
  BY <1>2, <1>3, <1>4, SymptomNames DEF Credits, decide

LEMMA RoleOfFault ==
  ASSUME NEW f \in 1..9
  PROVE  SCENARIO_ROLE[f] \in {"migration-job", "app", "service", "backend", "frontend", "seed-job"}
<1>1. f \in {1, 2, 3, 4, 5, 6, 7, 8, 9}
  OBVIOUS
<1> QED
  BY <1>1 DEF SCENARIO_ROLE

LEMMA SymptomOf17 ==
  ASSUME NEW name \in Suite, NEW f \in 1..9, NEW sid \in Subjects
  PROVE  ~aligned_match_17(sid, f, name)
<1>1. ASSUME NEW k \in {1, 2, 3, 4, 5, 6} PROVE name \notin SUBJECT_ALIASES_17[sid][k]
  <2>1. CASE sid = "s1"
    <3>1. /\ name \notin SUBJECT_ALIASES_17["s1"][1]
          /\ name \notin SUBJECT_ALIASES_17["s1"][2]
          /\ name \notin SUBJECT_ALIASES_17["s1"][3]
          /\ name \notin SUBJECT_ALIASES_17["s1"][4]
          /\ name \notin SUBJECT_ALIASES_17["s1"][5]
          /\ name \notin SUBJECT_ALIASES_17["s1"][6]
      BY DEF SUBJECT_ALIASES_17, MIGRATION_17, APP_17, SERVICE_17, Suite
    <3> QED
      BY <1>1, <2>1, <3>1
  <2>2. CASE sid = "s2"
    <3>1. /\ name \notin SUBJECT_ALIASES_17["s2"][1]
          /\ name \notin SUBJECT_ALIASES_17["s2"][2]
          /\ name \notin SUBJECT_ALIASES_17["s2"][3]
          /\ name \notin SUBJECT_ALIASES_17["s2"][4]
          /\ name \notin SUBJECT_ALIASES_17["s2"][5]
          /\ name \notin SUBJECT_ALIASES_17["s2"][6]
      BY DEF SUBJECT_ALIASES_17, MIGRATION_17, APP_17, SERVICE_17, Suite
    <3> QED
      BY <1>1, <2>2, <3>1
  <2>3. CASE sid = "s3"
    <3>1. /\ name \notin SUBJECT_ALIASES_17["s3"][1]
          /\ name \notin SUBJECT_ALIASES_17["s3"][2]
          /\ name \notin SUBJECT_ALIASES_17["s3"][3]
          /\ name \notin SUBJECT_ALIASES_17["s3"][4]
          /\ name \notin SUBJECT_ALIASES_17["s3"][5]
          /\ name \notin SUBJECT_ALIASES_17["s3"][6]
      BY DEF SUBJECT_ALIASES_17, MIGRATION_17, APP_17, SERVICE_17, Suite
    <3> QED
      BY <1>1, <2>3, <3>1
  <2>4. CASE sid = "s4"
    <3>1. /\ name \notin SUBJECT_ALIASES_17["s4"][1]
          /\ name \notin SUBJECT_ALIASES_17["s4"][2]
          /\ name \notin SUBJECT_ALIASES_17["s4"][3]
          /\ name \notin SUBJECT_ALIASES_17["s4"][4]
          /\ name \notin SUBJECT_ALIASES_17["s4"][5]
          /\ name \notin SUBJECT_ALIASES_17["s4"][6]
      BY DEF SUBJECT_ALIASES_17, MIGRATION_17, APP_17, SERVICE_17, Suite
    <3> QED
      BY <1>1, <2>4, <3>1
  <2>5. CASE sid = "s5"
    <3>1. /\ name \notin SUBJECT_ALIASES_17["s5"][1]
          /\ name \notin SUBJECT_ALIASES_17["s5"][2]
          /\ name \notin SUBJECT_ALIASES_17["s5"][3]
          /\ name \notin SUBJECT_ALIASES_17["s5"][4]
          /\ name \notin SUBJECT_ALIASES_17["s5"][5]
          /\ name \notin SUBJECT_ALIASES_17["s5"][6]
      BY DEF SUBJECT_ALIASES_17, MIGRATION_17, APP_17, SERVICE_17, Suite
    <3> QED
      BY <1>1, <2>5, <3>1
  <2> QED
    BY <2>1, <2>2, <2>3, <2>4, <2>5 DEF Subjects
<1> DEFINE table == SUBJECT_ALIASES_17[sid]
<1> HIDE DEF table
<1>2. name \notin For(SCENARIO_ROLE[f], table)
  BY <1>1, RoleTable, RoleOfFault DEF table
<1> QED
  BY <1>2, SymptomNames DEF aligned_match_17, table

LEMMA SymptomOf09b ==
  ASSUME NEW name \in Suite, NEW f \in SCENARIOS_09b, NEW sid \in Subjects, sid # "s1"
  PROVE  ~aligned_match_09b(sid, f, name)
<1>1. ASSUME NEW k \in {1, 2, 3} PROVE name \notin SUBJECT_ALIASES_09b[sid][k]
  <2>1. CASE sid = "s2"
    <3>1. /\ name \notin SUBJECT_ALIASES_09b["s2"][1]
          /\ name \notin SUBJECT_ALIASES_09b["s2"][2]
          /\ name \notin SUBJECT_ALIASES_09b["s2"][3]
      BY DEF SUBJECT_ALIASES_09b, MIGRATION_09b, APP_09b, Suite
    <3> QED
      BY <1>1, <2>1, <3>1
  <2>2. CASE sid = "s3"
    <3>1. /\ name \notin SUBJECT_ALIASES_09b["s3"][1]
          /\ name \notin SUBJECT_ALIASES_09b["s3"][2]
          /\ name \notin SUBJECT_ALIASES_09b["s3"][3]
      BY DEF SUBJECT_ALIASES_09b, MIGRATION_09b, APP_09b, Suite
    <3> QED
      BY <1>1, <2>2, <3>1
  <2>3. CASE sid = "s4"
    <3>1. /\ name \notin SUBJECT_ALIASES_09b["s4"][1]
          /\ name \notin SUBJECT_ALIASES_09b["s4"][2]
          /\ name \notin SUBJECT_ALIASES_09b["s4"][3]
      BY DEF SUBJECT_ALIASES_09b, MIGRATION_09b, APP_09b, Suite
    <3> QED
      BY <1>1, <2>3, <3>1
  <2>4. CASE sid = "s5"
    <3>1. /\ name \notin SUBJECT_ALIASES_09b["s5"][1]
          /\ name \notin SUBJECT_ALIASES_09b["s5"][2]
          /\ name \notin SUBJECT_ALIASES_09b["s5"][3]
      BY DEF SUBJECT_ALIASES_09b, MIGRATION_09b, APP_09b, Suite
    <3> QED
      BY <1>1, <2>4, <3>1
  <2> QED
    BY <2>1, <2>2, <2>3, <2>4 DEF Subjects
<1>2. SCENARIO_ROLE[f] \in {"migration-job", "app", "service"}
  BY DEF SCENARIOS_09b, SCENARIO_ROLE
<1> DEFINE table == SUBJECT_ALIASES_09b[sid]
<1> HIDE DEF table
<1>3. name \notin For(SCENARIO_ROLE[f], table)
  BY <1>1, <1>2, RoleTable DEF table
<1> QED
  BY <1>3, SymptomNames DEF aligned_match_09b, table

LEMMA SymptomOf14b ==
  ASSUME NEW name \in Suite, NEW f \in 1..9
  PROVE  ~aligned_match_14b(f, name)
<1>1. ASSUME NEW k \in {1, 2, 3, 4, 5, 6} PROVE name \notin SUBJECT_ALIASES_14b[k]
  <2>1. /\ name \notin SUBJECT_ALIASES_14b[1]
        /\ name \notin SUBJECT_ALIASES_14b[2]
        /\ name \notin SUBJECT_ALIASES_14b[3]
        /\ name \notin SUBJECT_ALIASES_14b[4]
        /\ name \notin SUBJECT_ALIASES_14b[5]
        /\ name \notin SUBJECT_ALIASES_14b[6]
    BY DEF SUBJECT_ALIASES_14b, Suite
  <2> QED
    BY <1>1, <2>1
<1>2. name \notin For(SCENARIO_ROLE[f], SUBJECT_ALIASES_14b)
  BY <1>1, RoleTable, RoleOfFault
<1> QED
  BY <1>2, SymptomNames DEF aligned_match_14b

LEMMA SymptomOf29 ==
  ASSUME NEW name \in Suite, NEW f \in 1..9, NEW sid \in Subjects, sid # "s1"
  PROVE  ~aligned_match_29(sid, f, name)
<1> DEFINE truth == GROUND_TRUTH[f]
<1>1. truth \in {"migration-job", "app-deployment", "backend", "frontend", "service", "seed-job"}
  <2>1. f \in {1, 2, 3, 4, 5, 6, 7, 8, 9}
    OBVIOUS
  <2> QED
    BY <2>1 DEF GROUND_TRUTH
<1>2. (IF name = "Backend" THEN "backend" ELSE name) = name
  BY DEF Suite
<1>3. name # truth /\ name \notin COMMON_ALIAS(truth)
  <2> HIDE DEF truth
  <2> QED
    BY <1>1 DEF COMMON_ALIAS, Suite
<1>4. ASSUME truth \in DOMAIN ALIAS_29[sid] PROVE name \notin ALIAS_29[sid][truth]
  <2> HIDE DEF truth
  <2>1. sid \in {"s2", "s3", "s4", "s5"}
    BY DEF Subjects
  <2>2. truth \in {"backend", "frontend"}
    BY <1>4, <2>1 DEF ALIAS_29
  <2>3. ASSUME NEW t \in {"s2", "s3", "s4", "s5"}
        PROVE  name \notin ALIAS_29[t]["backend"] /\ name \notin ALIAS_29[t]["frontend"]
    <3>1. /\ name \notin ALIAS_29["s2"]["backend"] /\ name \notin ALIAS_29["s2"]["frontend"]
          /\ name \notin ALIAS_29["s3"]["backend"] /\ name \notin ALIAS_29["s3"]["frontend"]
          /\ name \notin ALIAS_29["s4"]["backend"] /\ name \notin ALIAS_29["s4"]["frontend"]
          /\ name \notin ALIAS_29["s5"]["backend"] /\ name \notin ALIAS_29["s5"]["frontend"]
      BY DEF ALIAS_29, Suite
    <3> QED
      BY <3>1
  <2> QED
    BY <2>1, <2>2, <2>3
<1> QED
  BY <1>2, <1>3, <1>4 DEF aligned_match_29

LEMMA WithinSymptom ==
  ASSUME NEW name \in Suite PROVE Within(name) \subseteq Suite
  BY DEF Suite, Within

\* Keywords: if one row alone has words of these names, it is the row they lead to.
LEMMA OneRow ==
  ASSUME NEW table, NEW words, NEW k \in DOMAIN table, DOMAIN table \subseteq Nat,
         \A i \in DOMAIN table : table[i][1] \intersect words # {} => i = k
  PROVE  FirstRole(table, words) \in {"", table[k][2]}
<1> DEFINE hits == {i \in DOMAIN table : table[i][1] \intersect words # {}}
<1>1. CASE hits = {}
  BY <1>1 DEF FirstRole
<1>2. CASE hits # {}
  <2>1. FirstRole(table, words) = table[Min(hits)][2]
    BY <1>2 DEF FirstRole
  <2>2. hits = {k}
    BY <1>2
  <2> HIDE DEF hits
  <2>3. Min(hits) = k
    <3>1. hits \in SUBSET Nat
      BY <2>2
    <3> QED
      BY <1>2, <2>2, <3>1, First
  <2> QED
    BY <2>1, <2>3
<1> QED
  BY <1>1, <1>2

LEMMA SymptomOf14c ==
  ASSUME NEW name \in Suite, NEW f \in 1..9
  PROVE  ~aligned_for_14c(f, KagentRole(KEYWORD_ROLES_14c, name))
<1>1. /\ KEYWORD_ROLES_14c[1][1] \intersect Suite = {}
      /\ KEYWORD_ROLES_14c[2][1] \intersect Suite = {}
      /\ KEYWORD_ROLES_14c[3][1] \intersect Suite = {}
      /\ KEYWORD_ROLES_14c[4][1] \intersect Suite = {}
      /\ KEYWORD_ROLES_14c[5][1] \intersect Suite = {}
      /\ KEYWORD_ROLES_14c[6][1] \intersect Suite = {}
      /\ KEYWORD_ROLES_14c[7][1] \intersect Suite = {}
      /\ KEYWORD_ROLES_14c[9][1] \intersect Suite = {}
      /\ KEYWORD_ROLES_14c[10][1] \intersect Suite = {}
      /\ KEYWORD_ROLES_14c[11][1] \intersect Suite = {}
      /\ KEYWORD_ROLES_14c[12][1] \intersect Suite = {}
  BY ZenonT(60) DEF KEYWORD_ROLES_14c, Suite
<1>2. DOMAIN KEYWORD_ROLES_14c = 1..12 /\ KEYWORD_ROLES_14c[8][2] = "test-suite"
  BY DEF KEYWORD_ROLES_14c
<1>3. \A i \in DOMAIN KEYWORD_ROLES_14c :
        KEYWORD_ROLES_14c[i][1] \intersect Within(name) # {} => i = 8
  <2>1. \A i \in {1, 2, 3, 4, 5, 6, 7, 9, 10, 11, 12} :
          KEYWORD_ROLES_14c[i][1] \intersect Suite = {}
    BY <1>1
  <2> QED
    BY <1>2, <2>1, WithinSymptom
<1>4. FirstRole(KEYWORD_ROLES_14c, Within(name)) \in {"", "test-suite"}
  <2>1. 8 \in DOMAIN KEYWORD_ROLES_14c /\ DOMAIN KEYWORD_ROLES_14c \subseteq Nat
    BY <1>2
  <2> QED
    BY <1>2, <1>3, <2>1, OneRow, Zenon
<1>5. KagentRole(KEYWORD_ROLES_14c, name) \in Suite
  BY <1>4 DEF KagentRole, Suite
<1>6. \A role \in Suite : SUBJECT_ALIASES_ROLE_14c(role) \in Suite
  BY ZenonT(60) DEF SUBJECT_ALIASES_ROLE_14c, Suite
<1>7. SCENARIO_ROLE[f] \notin Suite
  BY RoleOfFault DEF Suite
<1> QED
  BY <1>5, <1>6, <1>7 DEF aligned_for_14c

LEMMA SymptomOf34 ==
  ASSUME NEW name \in Suite, NEW f \in 1..9
  PROVE  ~aligned_for_34(f, KagentRole(KEYWORD_ROLES_34, name))
<1>1. /\ KEYWORD_ROLES_34[1][1] \intersect Suite = {}
      /\ KEYWORD_ROLES_34[2][1] \intersect Suite = {}
      /\ KEYWORD_ROLES_34[4][1] \intersect Suite = {}
      /\ KEYWORD_ROLES_34[5][1] \intersect Suite = {}
      /\ KEYWORD_ROLES_34[6][1] \intersect Suite = {}
      /\ KEYWORD_ROLES_34[7][1] \intersect Suite = {}
  BY ZenonT(60) DEF KEYWORD_ROLES_34, Suite
<1>2. KEYWORD_ROLES_34[3][2] = "test-suite" /\ DOMAIN KEYWORD_ROLES_34 = 1..7
  BY DEF KEYWORD_ROLES_34
<1>3. \A i \in DOMAIN KEYWORD_ROLES_34 :
        KEYWORD_ROLES_34[i][1] \intersect Within(name) # {} => i = 3
  <2>1. \A i \in {1, 2, 4, 5, 6, 7} : KEYWORD_ROLES_34[i][1] \intersect Suite = {}
    BY <1>1
  <2> QED
    BY <1>2, <2>1, WithinSymptom
<1>4. FirstRole(KEYWORD_ROLES_34, Within(name)) \in {"", "test-suite"}
  <2>1. 3 \in DOMAIN KEYWORD_ROLES_34 /\ DOMAIN KEYWORD_ROLES_34 \subseteq Nat
    BY <1>2
  <2> QED
    BY <1>2, <1>3, <2>1, OneRow, Zenon
<1>5. KagentRole(KEYWORD_ROLES_34, name) \in Suite
  BY <1>4 DEF KagentRole, Suite
<1>6. \A role \in Suite : SUBJECT_ALIASES_ROLE_34(role) \in Suite
  BY ZenonT(60) DEF SUBJECT_ALIASES_ROLE_34, Suite
<1>7. SCENARIO_ROLE[f] \notin Suite
  BY RoleOfFault DEF Suite
<1> QED
  BY <1>5, <1>6, <1>7 DEF aligned_for_34

\* No script credits the name of a test suite for a fault that is not the flaky test, on any
\* subject: the table of the annotator, those of S1 and of the four others, and the roles that
\* 14c and 34 find by keyword.  The exception is "regression", which the table of 08 and its
\* copies (09, 11, 12, 14) credit for F9.
THEOREM SymptomNotCreditedAlways == Spec => []SymptomNotCredited
<1>1. Marked => SymptomNotCredited
  <2> SUFFICES ASSUME Marked, cell.from = "model", cell.fault # 10, answer \in SuiteNames,
                      NEW s \in DOMAIN rows, rows[s] = "1"
               PROVE  s \in {"08", "09", "11", "12", "14"} /\ cell.fault = 9 /\ answer = "regression"
    BY DEF SymptomNotCredited
  <2> DEFINE f == cell.fault
             sid == cell.subject
             name == answer
  <2>1. f \in 1..9 /\ sid \in Subjects
    BY DEF Marked, Faults
  <2>2. InScope(s) /\ RowOfName(s, name) = "1"
    BY DEF Marked, Row
  <2> HIDE DEF f, sid, name
  <2>3. name \in Suite
    BY SuiteNamesAre DEF name
  <2>4. /\ (\/ Credits(ALIASES_08, f, name) \/ Credits(ALIASES_09, f, name)
            \/ Credits(ALIASES_11, f, name) \/ Credits(ALIASES_12, f, name)
            \/ Credits(ALIASES_14, f, name)) => f = 9 /\ name = "regression"
        /\ ~Credits(ALIASES_23, f, name) /\ ~decide(f, name)
    <3>1. f \in Faults
      BY <2>1 DEF Faults
    <3> QED
      BY <2>1, <2>3, <3>1, SymptomOfS1, SameTables DEF Credits
  <2>5. /\ ~aligned_match_17(sid, f, name) /\ ~aligned_match_14b(f, name)
        /\ ~aligned_for_14c(f, KagentRole(KEYWORD_ROLES_14c, name))
        /\ ~aligned_for_34(f, KagentRole(KEYWORD_ROLES_34, name))
    BY <2>1, <2>3, SymptomOf17, SymptomOf14b, SymptomOf14c, SymptomOf34
  <2>6. s \in {"09b", "29"} => sid # "s1"
    BY <2>2 DEF InScope, sid
  <2>7. s = "09b" => ~aligned_match_09b(sid, f, name)
    BY <2>1, <2>3, <2>6, SymptomOf09b DEF aligned_match_09b
  <2>8. s = "29" => ~aligned_match_29(sid, f, name)
    BY <2>1, <2>3, <2>6, SymptomOf29
  <2>9. s \in {"08", "09", "09b", "11", "12", "14", "14b", "14c", "15a", "17", "23", "29",
               "34", "35"}
    BY DEF Marked, Scripts
  <2>10. s \in {"08", "09", "11", "12", "14"}
    BY <2>2, <2>4, <2>5, <2>7, <2>8, <2>9 DEF RowOfName, Credited, Mark, Row14c, Row17, Row23,
       Row34, Row35, f, sid
  <2>11. f = 9 /\ name = "regression"
    BY <2>2, <2>4, <2>10 DEF RowOfName, Credited, Mark, Row08, Row11, f
  <2> QED
    BY <2>10, <2>11 DEF f, name
<1> QED
  BY <1>1, MarkedAlways, PTL

-----------------------------------------------------------------------------
(* A problem more, before the others                                       *)

LEMMA OneMore ==
  ASSUME NEW a \in Findings
  PROVE  /\ Len(a) \in Nat /\ DOMAIN a = 1..Len(a)
         /\ DOMAIN (<<Noise>> \o a) = 1..(Len(a) + 1)
         /\ (<<Noise>> \o a)[1] = Noise
         /\ \A i \in 1..Len(a) : (<<Noise>> \o a)[i + 1] = a[i]
<1> DEFINE S == {a[i] : i \in DOMAIN a} \union {Noise}
<1>1. a \in Seq({a[i] : i \in DOMAIN a})
  BY FindingsAssumption
<1>2. a \in Seq(S)
  <2>1. Len(a) \in Nat /\ DOMAIN a = 1..Len(a) /\ \A i \in 1..Len(a) : a[i] \in S
    BY <1>1
  <2> QED
    BY <1>1, <2>1
<1>3. <<Noise>> \in Seq(S)
  OBVIOUS
<1> HIDE DEF S
<1> QED
  BY <1>2, <1>3

LEMMA HintsKept ==
  ASSUME NEW a \in Findings, a # <<>>
  PROVE  k8sgpt_to_component_14(<<Noise>> \o a) = k8sgpt_to_component_14(a)
<1> DEFINE b == <<Noise>> \o a
           body(p) == UNION {p[i].structured : i \in DOMAIN p}
<1>1. body(b) = Noise.structured \union body(a)
  <2> HIDE DEF b
  <2>1. /\ Len(a) \in Nat /\ DOMAIN a = 1..Len(a) /\ DOMAIN b = 1..(Len(a) + 1)
        /\ b[1] = Noise /\ \A i \in 1..Len(a) : b[i + 1] = a[i]
    BY OneMore DEF b
  <2>2. ASSUME NEW i \in DOMAIN b, NEW x \in b[i].structured
        PROVE  x \in Noise.structured \union body(a)
    <3>1. CASE i = 1
      BY <2>1, <3>1
    <3>2. CASE i # 1
      <4>1. i - 1 \in 1..Len(a) /\ i = (i - 1) + 1
        BY <2>1, <3>2
      <4>2. PICK k \in 1..Len(a) : i = k + 1
        BY <4>1
      <4>3. b[i] = a[k] /\ k \in DOMAIN a
        BY <2>1, <4>2
      <4> QED
        BY <4>3
    <3> QED
      BY <3>1, <3>2
  <2>3. ASSUME NEW i \in DOMAIN a, NEW x \in a[i].structured PROVE x \in body(b)
    <3>1. i + 1 \in DOMAIN b /\ b[i + 1] = a[i]
      BY <2>1
    <3> QED
      BY <3>1
  <2>4. \A x \in Noise.structured : x \in body(b)
    <3>1. 1 \in DOMAIN b /\ b[1] = Noise
      BY <2>1
    <3> QED
      BY <3>1
  <2> QED
    BY <2>2, <2>3, <2>4
<1>2. FirstRole(HINTS_14, body(b)) = FirstRole(HINTS_14, body(a))
  <2> HIDE DEF body, b
  <2>1. ASSUME NEW i \in DOMAIN HINTS_14
        PROVE  HINTS_14[i][1] \intersect body(b) # {} <=> HINTS_14[i][1] \intersect body(a) # {}
    BY <1>1, NoiseAssumption
  <2>2. {i \in DOMAIN HINTS_14 : HINTS_14[i][1] \intersect body(b) # {}} =
        {i \in DOMAIN HINTS_14 : HINTS_14[i][1] \intersect body(a) # {}}
    BY <2>1
  <2> QED
    BY <2>2 DEF FirstRole
<1>3. b # <<>>
  BY OneMore
<1> QED
  BY <1>2, <1>3 DEF k8sgpt_to_component_14

LEMMA NothingNamed ==
  ASSUME NEW f \in Faults
  PROVE  /\ ~Credits(ALIASES_14, f, k8sgpt_to_component_14(<<>>))
         /\ <<>> \in Findings =>
              ~Credits(ALIASES_14, f, k8sgpt_to_component_14(<<Noise>> \o <<>>))
<1>1. ~Credits(ALIASES_08, f, "no-issue-detected") /\ ~Credits(ALIASES_08, f, "kind/name")
  <2>1. f \in {1, 2, 3, 4, 5, 6, 7, 8, 9, 10}
    BY DEF Faults
  <2>2. Normalise("no-issue-detected") = "no-issue-detected" /\ Normalise("kind/name") = "kind/name"
    BY DEF Normalise
  <2>3. /\ "no-issue-detected" \notin ALIASES_08[1] /\ "kind/name" \notin ALIASES_08[1]
        /\ "no-issue-detected" \notin ALIASES_08[2] /\ "kind/name" \notin ALIASES_08[2]
        /\ "no-issue-detected" \notin ALIASES_08[3] /\ "kind/name" \notin ALIASES_08[3]
        /\ "no-issue-detected" \notin ALIASES_08[4] /\ "kind/name" \notin ALIASES_08[4]
        /\ "no-issue-detected" \notin ALIASES_08[5] /\ "kind/name" \notin ALIASES_08[5]
        /\ "no-issue-detected" \notin ALIASES_08[6] /\ "kind/name" \notin ALIASES_08[6]
        /\ "no-issue-detected" \notin ALIASES_08[7] /\ "kind/name" \notin ALIASES_08[7]
        /\ "no-issue-detected" \notin ALIASES_08[8] /\ "kind/name" \notin ALIASES_08[8]
        /\ "no-issue-detected" \notin ALIASES_08[9] /\ "kind/name" \notin ALIASES_08[9]
        /\ "no-issue-detected" \notin ALIASES_08[10] /\ "kind/name" \notin ALIASES_08[10]
    BY DEF ALIASES_08
  <2> QED
    BY <2>1, <2>2, <2>3 DEF Credits
<1>2. k8sgpt_to_component_14(<<>>) = "no-issue-detected"
  <2> DEFINE body == UNION {<<>>[i].structured : i \in DOMAIN <<>>}
  <2>1. body = {}
    <3>1. DOMAIN <<>> = {}
      OBVIOUS
    <3> QED
      BY <3>1
  <2>2. FirstRole(HINTS_14, body) = ""
    BY <2>1 DEF FirstRole
  <2> HIDE DEF body
  <2> QED
    BY <2>2 DEF k8sgpt_to_component_14, body
<1>3. ASSUME <<>> \in Findings
      PROVE  k8sgpt_to_component_14(<<Noise>> \o <<>>) = "kind/name"
  <2> DEFINE b == <<Noise>> \o <<>>
             body == UNION {b[i].structured : i \in DOMAIN b}
  <2>1. DOMAIN b = {1} /\ b[1] = Noise /\ b # <<>>
    BY <1>3, OneMore
  <2> HIDE DEF b
  <2>2. body = Noise.structured
    BY <2>1
  <2>3. FirstRole(HINTS_14, body) = ""
    BY <2>2, NoiseAssumption DEF FirstRole
  <2> HIDE DEF body
  <2>4. k8sgpt_to_component_14(b) = "kind/name"
    BY <2>1, <2>3 DEF k8sgpt_to_component_14, body
  <2> QED
    BY <2>4 DEF b
<1> QED
  BY <1>1, <1>2, <1>3, SameTables DEF Credits

LEMMA Following == ASSUME NEW n \in Nat, NEW i \in 1..n PROVE i + 1 \in 1..(n + 1)
  OBVIOUS

LEMMA Previous ==
  ASSUME NEW n \in Nat, NEW i \in 1..(n + 1), i # 1
  PROVE  i - 1 \in 1..n /\ (i - 1) + 1 = i
  OBVIOUS

LEMMA KeywordKept ==
  ASSUME NEW a \in Findings
  PROVE  k8sgpt_extract_34(<<Noise>> \o a) = k8sgpt_extract_34(a)
<1> DEFINE b == <<Noise>> \o a
           role(p) == FirstRole(KEYWORD_ROLES_34, Text(p))
           before == {i \in DOMAIN a : role(a[i]) # ""}
           after == {i \in DOMAIN b : role(b[i]) # ""}
<1>1. /\ Len(a) \in Nat /\ DOMAIN a = 1..Len(a) /\ DOMAIN b = 1..(Len(a) + 1)
      /\ b[1] = Noise /\ \A i \in 1..Len(a) : b[i + 1] = a[i]
  BY OneMore
<1>2. role(Noise) = ""
  BY NoiseAssumption DEF FirstRole
<1>3. /\ k8sgpt_extract_34(a) = IF before = {} THEN "" ELSE role(a[Min(before)])
      /\ k8sgpt_extract_34(b) = IF after = {} THEN "" ELSE role(b[Min(after)])
  BY DEF k8sgpt_extract_34
<1> HIDE DEF b, role
<1>4. before \in SUBSET Nat /\ after \in SUBSET Nat
  <2>1. 1..Len(a) \subseteq Nat /\ 1..(Len(a) + 1) \subseteq Nat
    OBVIOUS
  <2>2. before \subseteq 1..Len(a) /\ after \subseteq 1..(Len(a) + 1)
    BY <1>1, Zenon
  <2> HIDE DEF before, after
  <2> QED
    BY <2>1, <2>2, Zenon
<1>5. ASSUME NEW i \in before PROVE i \in 1..Len(a) /\ i + 1 \in after
  <2>1. i \in 1..Len(a) /\ role(a[i]) # ""
    BY <1>1, Zenon
  <2>2. i + 1 \in 1..(Len(a) + 1)
    BY <1>1, <2>1, Following, Zenon
  <2>3. b[i + 1] = a[i]
    BY <1>1, <2>1
  <2> QED
    BY <1>1, <2>1, <2>2, <2>3, Zenon
<1>6. ASSUME NEW i \in after PROVE i - 1 \in before /\ i - 1 \in 1..Len(a) /\ (i - 1) + 1 = i
  <2>1. i \in 1..(Len(a) + 1) /\ role(b[i]) # ""
    BY <1>1, Zenon
  <2>2. i # 1
    BY <1>1, <1>2, <2>1
  <2>3. i - 1 \in 1..Len(a) /\ (i - 1) + 1 = i
    BY <1>1, <2>1, <2>2, Previous, Zenon
  <2>4. b[i] = a[i - 1]
    BY <1>1, <2>3
  <2>5. i - 1 \in before
    BY <1>1, <2>1, <2>3, <2>4, Zenon
  <2> QED
    BY <2>3, <2>5
<1> HIDE DEF before, after
<1>7. CASE before = {}
  <2>1. after = {}
    BY <1>6, <1>7
  <2> QED
    BY <1>3, <1>7, <2>1 DEF b
<1>8. CASE before # {}
  <2>1. Min(before) \in before /\ \A k \in before : Min(before) <= k
    BY <1>4, <1>8, First
  <2>2. after # {}
    BY <1>5, <2>1
  <2>3. Min(after) \in after /\ \A k \in after : Min(after) <= k
    BY <1>4, <2>2, First
  <2>4. Min(after) <= Min(before) + 1 /\ Min(before) <= Min(after) - 1
    BY <1>5, <1>6, <2>1, <2>3
  <2>5. Min(before) \in Nat /\ Min(after) \in Nat
    BY <1>4, <2>1, <2>3
  <2>6. Min(after) = Min(before) + 1
    BY <2>4, <2>5
  <2>7. b[Min(after)] = a[Min(before)]
    BY <1>1, <1>5, <2>1, <2>6
  <2> QED
    BY <1>3, <1>8, <2>2, <2>7 DEF b
<1> QED
  BY <1>7, <1>8

\* When K8sGPT reports one problem more, whose structured part has none of the hints of 14 and
\* whose text has no keyword of 34, the rows of 14 and 34 stay as they were for every list of
\* problems: neither script looks only at the first one.
THEOREM NoiseIgnoredAlways == Spec => NoiseIgnored
<1>1. ASSUME Marked, [Next]_vars, cell.from = "k8sgpt", answer' # answer
      PROVE  rows'["14"] = rows["14"] /\ rows'["34"] = rows["34"]
  <2>1. AnalyseAgain
    BY <1>1 DEF Next, DiagnoseLevels, RescoreRules, Score, vars
  <2>2. /\ answer \in Findings /\ answer' = <<Noise>> \o answer /\ cell' = cell
        /\ rows' = [s \in DOMAIN rows |-> IF InScope(s) THEN Row(s, answer') ELSE rows[s]]
        /\ \A i \in DOMAIN Scripts : Scored(Scripts[i])
    BY <2>1 DEF AnalyseAgain
  <2>3. cell.fault \in Faults
    BY <1>1 DEF Marked
  <2>4. ASSUME NEW s \in {"14", "34"}, InScope(s) => Row(s, answer') = Row(s, answer)
        PROVE  rows'[s] = rows[s]
    <3>1. PICK i \in DOMAIN Scripts : s = Scripts[i]
      <4>1. Scripts[6] = "14" /\ Scripts[13] = "34" /\ {6, 13} \subseteq DOMAIN Scripts
        BY DEF Scripts
      <4> QED
        BY <4>1
    <3>2. s \in DOMAIN rows
      BY <1>1, <3>1 DEF Marked
    <3>3. InScope(s) => rows[s] = Row(s, answer)
      BY <1>1, <2>2, <3>1, <3>2 DEF Marked, Scored
    <3> QED
      BY <2>2, <2>4, <3>2, <3>3
  <2>5. Row("14", answer') = Row("14", answer)
    <3>1. CASE answer = <<>>
      BY <1>1, <2>2, <2>3, <3>1, NothingNamed DEF Row, RowOfProblems, Mark
    <3>2. CASE answer # <<>>
      BY <1>1, <2>2, <3>2, HintsKept DEF Row, RowOfProblems
    <3> QED
      BY <3>1, <3>2
  <2>6. Row("34", answer') = Row("34", answer)
    BY <1>1, <2>2, KeywordKept DEF Row, RowOfProblems
  <2> QED
    BY <2>4, <2>5, <2>6
<1> QED
  BY <1>1, MarkedAlways, PTL DEF Spec, NoiseIgnored
===============================================================================
