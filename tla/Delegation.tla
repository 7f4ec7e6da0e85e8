------------------------------ MODULE Delegation ------------------------------
(***************************************************************************)
(* Agent-to-agent delegation (runtime/delegation.py): a job in its model   *)
(* loop calls another agent, which creates a child job and runs it inline, *)
(* inside the caller's task.  The loop may have several calls open at once *)
(* (the model's tool calls run in parallel).  What ends the caller's task  *)
(* - its timeout, a worker shutdown - cancels what runs inside it, and     *)
(* each execution meets the cancellation at its own next await             *)
(* (runner._handle_cancellation).                                          *)
(***************************************************************************)
EXTENDS Naturals, FiniteSets

CONSTANTS
  Agents,
  Jobs,       \* job ids
  Roots,      \* bound: the ids clients submit jobs under
  Scope,      \* the agents each agent may delegate to
  MaxDepth,   \* settings.max_delegation_depth
  JobMaxTries,  \* settings.job_max_tries: the starts a transient error may use
  ArqMaxTries,  \* WorkerSettings.max_tries: the starts arq allows an entry
  Faults,     \* subset of {"shutdown", "crash"}
  NoJob,
  NoAgent

ASSUME DelegationAssumption ==
  /\ MaxDepth \in Nat \ {0}
  /\ JobMaxTries \in Nat \ {0}
  /\ ArqMaxTries \in Nat \ {0}
  /\ Roots \subseteq Jobs
  /\ NoJob \notin Jobs
  /\ NoAgent \notin Agents
  /\ Scope \in [Agents -> SUBSET Agents]
  /\ Faults \subseteq {"shutdown", "crash"}

VARIABLES
  agent,      \* jobs.agent_id; NoAgent: no such row yet
  parent,     \* jobs.parent_job_id
  above,      \* the jobs a walk along parent_job_id meets (_ancestry)
  status,     \* jobs.status
  at,         \* where the execution of the job is
  by,         \* who runs it: an arq entry, or, while it does, the caller's task
  starts,     \* arq's job_try: starts of the job's entry, 0 without one
  cancelled,  \* executions whose next await raises CancelledError
  stranded    \* history: rows left live with nothing that will run them

tree == <<agent, parent, above>>
vars == <<agent, parent, above, status, at, by, starts, cancelled, stranded>>

Live == {"queued", "running"}
Ends == {"succeeded", "failed", "timeout"}
Retriable == {"failed", "timeout", "dead_letter"}

(* "start": before the first commit; "setup": until the loop; "post": from *)
(* the loop to the commit of _finalize.                                    *)
Executing == {"start", "setup", "loop", "post"}

TypeOK ==
  /\ agent \in [Jobs -> Agents \cup {NoAgent}]
  /\ parent \in [Jobs -> Jobs \cup {NoJob}]
  /\ above \in [Jobs -> SUBSET Jobs]
  /\ status \in [Jobs -> Live \cup Ends \cup {"absent", "dead_letter"}]
  /\ at \in [Jobs -> Executing \cup {"none", "queue"}]
  /\ by \in [Jobs -> {"arq", "call"}]
  /\ starts \in [Jobs -> 0..ArqMaxTries]
  /\ cancelled \subseteq Jobs
  /\ stranded \subseteq Jobs

Init ==
  /\ agent = [j \in Jobs |-> NoAgent]
  /\ parent = [j \in Jobs |-> NoJob]
  /\ above = [j \in Jobs |-> {}]
  /\ status = [j \in Jobs |-> "absent"]
  /\ at = [j \in Jobs |-> "none"]
  /\ by = [j \in Jobs |-> "arq"]
  /\ starts = [j \in Jobs |-> 0]
  /\ cancelled = {}
  /\ stranded = {}

-------------------------------------------------------------------------------
(* _ancestry: the depth of a job and the agents at and above it. *)
Depth(j) == Cardinality(above[j])
Lineage(j) == {agent[k] : k \in above[j] \cup {j}}

(* The executions inside the task that runs j: its open calls, theirs, ... *)
Inside(j) ==
  {c \in Jobs :
     /\ at[c] \in Executing /\ by[c] = "call" /\ j \in above[c]
     /\ \A k \in above[c] : j \in above[k] => at[k] \in Executing /\ by[k] = "call"}

OpenCalls(j) == {c \in Jobs : parent[c] = j /\ by[c] = "call" /\ at[c] \in Executing}

Step(j, from, to) ==
  /\ j \notin cancelled
  /\ at[j] = from
  /\ at' = [at EXCEPT ![j] = to]

-------------------------------------------------------------------------------
(* A top-level job and its arq entry. *)
Submit(j, a) ==
  /\ status[j] = "absent"
  /\ agent' = [agent EXCEPT ![j] = a]
  /\ status' = [status EXCEPT ![j] = "queued"]
  /\ at' = [at EXCEPT ![j] = "queue"]
  /\ UNCHANGED <<parent, above, by, starts, cancelled, stranded>>

(* Any failed row can be retried over the API, a child's as well.  (A      *)
(* retry beside an entry that is still queued: see JobLifecycle.)          *)
Retry(j) ==
  /\ status[j] \in Retriable
  /\ at[j] = "none"
  /\ status' = [status EXCEPT ![j] = "queued"]
  /\ at' = [at EXCEPT ![j] = "queue"]
  /\ UNCHANGED <<tree, by, starts, cancelled, stranded>>

(* arq starts an entry, the first time or again.  execute_job's guard: a   *)
(* finished row is dropped.                                                *)
Deliver(j) ==
  /\ starts[j] < ArqMaxTries
  /\ Step(j, "queue", IF status[j] \in Live THEN "start" ELSE "none")
  /\ starts' = [starts EXCEPT ![j] = IF status[j] \in Live THEN @ + 1 ELSE 0]
  /\ UNCHANGED <<tree, status, by, cancelled, stranded>>

(* arq drops an entry it has started max_tries times, run_job unheard: the *)
(* row stays as it is.                                                     *)
DropExhausted(j) ==
  /\ starts[j] = ArqMaxTries
  /\ Step(j, "queue", "none")
  /\ stranded' = IF status[j] \in Live THEN stranded \cup {j} ELSE stranded
  /\ starts' = [starts EXCEPT ![j] = 0]
  /\ UNCHANGED <<tree, status, by, cancelled>>

Begin(j) ==
  /\ Step(j, "start", "setup")
  /\ status' = [status EXCEPT ![j] = "running"]
  /\ UNCHANGED <<tree, by, starts, cancelled, stranded>>

(* A refused set-up or a screened prompt goes straight to _finalize. *)
SetUp(j) ==
  /\ Step(j, "setup", "loop") \/ Step(j, "setup", "post")
  /\ UNCHANGED <<tree, status, by, starts, cancelled, stranded>>

(* The checks of call_agent, as the transaction that creates the child     *)
(* sees them.                                                              *)
(* Mutant: the depth limit is off by one. *)
MayCallDeeper(p, a) ==
  /\ a \in Scope[agent[p]] \ {agent[p]}
  /\ Depth(p) < MaxDepth
  /\ a \notin Lineage(p)

(* Mutant: only the caller itself is looked up, not its ancestors. *)
MayCallAnyBut(p, a) ==
  /\ a \in Scope[agent[p]] \ {agent[p]}
  /\ Depth(p) + 1 < MaxDepth

MayCall(p, a) ==
  /\ a \in Scope[agent[p]] \ {agent[p]}
  /\ Depth(p) + 1 < MaxDepth
  /\ a \notin Lineage(p)

CallAgent(p, a, c) ==
  /\ at[p] = "loop"
  /\ p \notin cancelled
  /\ MayCall(p, a)
  /\ status[c] = "absent"
  /\ agent' = [agent EXCEPT ![c] = a]
  /\ parent' = [parent EXCEPT ![c] = p]
  /\ above' = [above EXCEPT ![c] = above[p] \cup {p}]
  /\ status' = [status EXCEPT ![c] = "queued"]
  /\ at' = [at EXCEPT ![c] = "start"]
  /\ by' = [by EXCEPT ![c] = "call"]
  /\ UNCHANGED <<starts, cancelled, stranded>>

(* Mutant: a call that is still open does not keep the loop waiting. *)
LoopEndsEarly(j) ==
  /\ Step(j, "loop", "post")
  /\ UNCHANGED <<tree, status, by, starts, cancelled, stranded>>

(* The loop ends, or a child met a transient error that call_agent turns   *)
(* into a failure.                                                         *)
LoopEnds(j) ==
  /\ OpenCalls(j) = {}
  /\ Step(j, "loop", "post")
  /\ UNCHANGED <<tree, status, by, starts, cancelled, stranded>>

(* A transient error of a job arq runs: backoff, or retries exhausted. *)
Transient(j) ==
  /\ by[j] = "arq"
  /\ OpenCalls(j) = {}
  /\ \/ /\ starts[j] < JobMaxTries
        /\ Step(j, "loop", "queue")
        /\ UNCHANGED <<status, starts>>
     \/ /\ starts[j] >= JobMaxTries
        /\ Step(j, "loop", "none")
        /\ status' = [status EXCEPT ![j] = "dead_letter"]
        /\ starts' = [starts EXCEPT ![j] = 0]
  /\ UNCHANGED <<tree, by, cancelled, stranded>>

(* asyncio.timeout around the loop, calls included: everything inside is   *)
(* cancelled, the job itself goes on to _finalize - without waiting, in    *)
(* this model, for the calls to have met the cancellation.                 *)
Timeout(j) ==
  /\ Step(j, "loop", "post")
  /\ cancelled' = cancelled \cup Inside(j)
  /\ UNCHANGED <<tree, status, by, starts, stranded>>

Finalize(j) ==
  /\ Step(j, "post", "none")
  /\ \E r \in Ends : status' = [status EXCEPT ![j] = r]
  /\ starts' = [starts EXCEPT ![j] = 0]
  /\ by' = [by EXCEPT ![j] = "arq"]
  /\ UNCHANGED <<tree, cancelled, stranded>>

-------------------------------------------------------------------------------
(* Mutant: an execution cut in its loop leaves its row running. *)
MeetCancelSilent(j) ==
  /\ j \in cancelled
  /\ at' = [at EXCEPT ![j] = IF by[j] = "arq" THEN "queue" ELSE "none"]
  /\ stranded' = IF by[j] = "call" /\ at[j] # "loop" THEN stranded \cup {j} ELSE stranded
  /\ by' = [by EXCEPT ![j] = "arq"]
  /\ cancelled' = cancelled \ {j}
  /\ UNCHANGED <<tree, status, starts>>

(* The cancellation arrives.  Inside the loop _handle_cancellation puts a  *)
(* top-level row back to queued and fails a child's; elsewhere the row is  *)
(* left as it is.  arq runs its own entries again.                         *)
MeetCancel(j) ==
  /\ j \in cancelled
  /\ status' = IF at[j] # "loop" THEN status
               ELSE [status EXCEPT ![j] = IF parent[j] = NoJob THEN "queued" ELSE "failed"]
  /\ at' = [at EXCEPT ![j] = IF by[j] = "arq" THEN "queue" ELSE "none"]
  /\ stranded' = IF by[j] = "call" /\ at[j] # "loop" THEN stranded \cup {j} ELSE stranded
  /\ by' = [by EXCEPT ![j] = "arq"]
  /\ cancelled' = cancelled \ {j}
  /\ UNCHANGED <<tree, starts>>

(* The worker shuts down: every task in it is cancelled. *)
Shutdown ==
  /\ "shutdown" \in Faults
  /\ cancelled' = {j \in Jobs : at[j] \in Executing}
  /\ UNCHANGED <<tree, status, at, by, starts, stranded>>

(* The worker dies: arq's entries are delivered again, calls are not. *)
Crash ==
  /\ "crash" \in Faults
  /\ at' = [j \in Jobs |-> IF at[j] \notin Executing THEN at[j]
                           ELSE IF by[j] = "arq" THEN "queue" ELSE "none"]
  /\ stranded' = stranded \cup {j \in Jobs : at[j] \in Executing /\ by[j] = "call"}
  /\ by' = [j \in Jobs |-> "arq"]
  /\ cancelled' = {}
  /\ UNCHANGED <<tree, status, starts>>

(* Nothing is queued or running. *)
Rest ==
  /\ \A j \in Jobs : at[j] = "none"
  /\ UNCHANGED vars

Next ==
  \/ \E j \in Roots, a \in Agents : Submit(j, a)
  \/ \E p, c \in Jobs, a \in Agents : CallAgent(p, a, c)
  \/ \E j \in Jobs : Retry(j) \/ Deliver(j) \/ DropExhausted(j) \/ Begin(j) \/ SetUp(j) \/ LoopEnds(j)
                     \/ Transient(j) \/ Timeout(j) \/ Finalize(j) \/ MeetCancel(j)
  \/ Shutdown
  \/ Crash
  \/ Rest

Spec == Init /\ [][Next]_vars

-------------------------------------------------------------------------------
(* However jobs call, time out, are retried and interleave, no chain of    *)
(* calls grows past the limit.                                             *)
DepthBounded == \A j \in Jobs : Depth(j) < MaxDepth

(* No agent is at work twice along one chain of calls: delegation cannot   *)
(* loop, although agents may call each other freely in other chains.       *)
NoCycle ==
  \A j \in Jobs : \A k \in above[j] :
    /\ agent[k] # agent[j]
    /\ \A l \in above[j] : agent[k] = agent[l] => k = l

(* A call runs only inside its caller's loop: whatever ends the loop has   *)
(* ended the calls first, or has cancelled them.                           *)
CallerWaits ==
  \A c \in Jobs :
    at[c] \in Executing /\ by[c] = "call" /\ c \notin cancelled =>
      at[parent[c]] = "loop" /\ parent[c] \notin cancelled

(* A row that is queued or running has an execution or an arq entry that   *)
(* will end it, unless its execution was cut where nothing looks after it, *)
(* or its entry was dropped after max_tries starts.                        *)
LiveRuns == \A j \in Jobs : status[j] \in Live => at[j] # "none" \/ j \in stranded

(* "without this clause the job would be stranded in `running` forever".   *)
NoneStranded == stranded = {}

===============================================================================
