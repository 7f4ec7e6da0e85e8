----------------------------- MODULE MCJobRecords ------------------------------
(* Small instances of JobRecords for TLC.  What a pass does and what the    *)
(* calls cost touch different fields, and no property relates them: Apart   *)
(* bounds a run to one of the two, with one job and no costs when it is the *)
(* content, without failures and up to the turn of the month when it is the *)
(* costs.  A model the table does not price belongs to the costs.           *)
EXTENDS JobRecords

Costs == \E j \in Jobs : job[j].cost > 0 \/ run[j].calls > 0 \/ job[j].kind # "table"
Content == pass.at # "idle" \/ \E f \in Files : file[f].upload # "none"
OneJob == Cardinality({j \in Jobs : job[j].status # "absent"}) <= 1
Apart == (Content => ~Costs /\ OneJob) /\ (Costs => now <= MonthStart /\ crashes = 0)
===============================================================================
