------------------------------- MODULE JobRow ---------------------------------
(***************************************************************************)
(* What a jobs row promises to whoever reads GET /jobs/{id}: the statuses  *)
(* it can show next.  JobLifecycle implements it wherever a job has one    *)
(* deliverer.                                                              *)
(***************************************************************************)
CONSTANT Jobs

VARIABLE status

Ends == {"succeeded", "escalated", "failed", "rejected", "timeout",
         "iteration_limit", "budget_exceeded", "dead_letter"}

Init == status = [j \in Jobs |-> "absent"]

Move(j, from, to) ==
  /\ status[j] \in from
  /\ \E s \in to : status' = [status EXCEPT ![j] = s]

Submit(j) == Move(j, {"absent"}, {"queued"})
(* The monthly limit refuses a job that waits; nothing else ends one. *)
Refuse(j) == Move(j, {"queued"}, {"budget_exceeded"})
Start(j) == Move(j, {"queued"}, {"running"})
End(j) == Move(j, {"running"}, Ends)
(* A worker that shuts down hands the job back. *)
HandBack(j) == Move(j, {"running"}, {"queued"})
Retry(j) == Move(j, {"failed", "timeout", "dead_letter"}, {"queued"})

Next ==
  \E j \in Jobs : Submit(j) \/ Refuse(j) \/ Start(j) \/ End(j) \/ HandBack(j) \/ Retry(j)

Spec == Init /\ [][Next]_status
===============================================================================
