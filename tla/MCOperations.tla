------------------------------ MODULE MCOperations ------------------------------
(* The parts on small instances: two servers and three releases, one of    *)
(* which has changed a migration; two rules, two things they may find, and *)
(* one clock that is behind the database's and one that is ahead; a script *)
(* that imports a library, which imports it and a table, another script,   *)
(* and a service that is only required; two test actors; two alerts and    *)
(* the two people on call; two issues and a pull request on pages of one;  *)
(* and the three domains whose documents are compared with another.        *)
EXTENDS Operations

CONSTANTS i1, i2, p1, s1, s2

BothServers == {s1, s2}
ThreeReleases == [old |-> <<"m1", "m2">>, new |-> <<"m1", "m2", "m3">>,
                  edited |-> <<"m1", "m2">>]
Texts == [old |-> [m1 |-> "a", m2 |-> "b"],
          new |-> [m1 |-> "a", m2 |-> "b", m3 |-> "c"],
          edited |-> [m1 |-> "a", m2 |-> "x"]]

(* The second version of the script imports the other one as well; the     *)
(* first requires a service, which requires the other one.                 *)
FiveFiles == {"script", "library", "table", "other", "service"}
TheirImports ==
    [script  |-> << <<"library">>, <<"library", "other">> >>,
     library |-> << <<"table", "script">>, <<"table">> >>,
     table   |-> << <<>>, <<>> >>,
     other   |-> << <<>>, <<"library">> >>,
     service |-> << <<>>, <<"table">> >>]
TheyRequire ==
    [f \in FiveFiles |->
        CASE f = "script"  -> <<{"service"}, {}>>
          [] f = "service" -> <<{"other"}, {}>>
          [] OTHER         -> <<{}, {}>>]
Tables == {"table"}
Scripts == [cutover |-> <<"script">>, activation |-> <<"other", "script">>]

ClocksDiffer == [s \in BothServers |-> IF s = s1 THEN -1 ELSE 1]
TwoRules == <<"overdue", "warranty">>
TwoThings == {"laptop", "phone"}

TestActors == <<"ADMIN", "USER">>

Alerts == <<"disk", "http">>
OnCall == <<"primary", "escalation">>
AnswerTimes == [m \in {"disk", "http", "primary", "escalation"} |->
                    IF m = "escalation" THEN 2 ELSE 1]
Compared == <<"backup", "restore", "maintenance">>
AllIssues == {i1, i2, p1}
PullRequests == {p1}
================================================================================
