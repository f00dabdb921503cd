----------------------------- MODULE MCRunMatrix -----------------------------
EXTENDS RunMatrix

\* Two processes with disjoint subjects.
MCProcs == {"p", "q"}
MCEnabled == [p |-> <<"s2", "s1">>, q |-> <<"s3">>]
MCScope == [s \in SubjectIds |-> CASE s = "s3" -> {7, 10} [] s = "s1" -> {4} [] OTHER -> {7}]
MCStarts == [p |-> 2, q |-> 1]
\* One process for F4 of one subject.
OneProc == {"p"}
OneEnabled == [p |-> <<"s2">>]
OneScope == [s \in SubjectIds |-> {4}]
OneStart == [p |-> 1]

==============================================================================
