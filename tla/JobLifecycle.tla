----------------------------- MODULE JobLifecycle -----------------------------
(***************************************************************************)
(* The life of a job: API requests that create, run or re-queue a job row  *)
(* (api/v1/jobs.py), the arq entries that deliver it to a worker           *)
(* (worker.run_job), and the run itself (runtime/runner.execute_job).      *)
(*                                                                         *)
(* A process is an API request (a client) or an arq entry.  Each await on  *)
(* the database or the queue that another process can interleave with is a *)
(* step; `pc' says which await comes next.  A database write is one step,  *)
(* and what a process read before it is in `frame'.                        *)
(***************************************************************************)
EXTENDS Naturals, FiniteSets

CONSTANTS
  Jobs,         \* job ids
  Entries,      \* arq entries that can exist at once
  Submitters,   \* API requests POST /agents/{id}/jobs
  Retriers,     \* API requests POST /jobs/{id}/retry
  Sync,         \* the submitters that say ?sync=true
  Keyed,        \* the submitters that carry one and the same idempotency key
  WithCallback, \* the jobs submitted with a callback_url
  MaxPrompt,    \* bound: versions of the (tenant, team) system prompt pair ever saved
  MaxTries,     \* settings.job_max_tries
  ArqMaxTries,  \* WorkerSettings.max_tries
  Cap,          \* tenant.settings.max_concurrent_jobs; 0: no cap
  RunOutcomes,  \* how the model loop and the post-hooks may end
  Faults,       \* the faults the environment injects, see FaultKinds
  NoJob

Clients == Submitters \cup Retriers
Procs == Clients \cup Entries

NoPrompt == 0
Prompts == 1 .. MaxPrompt

FaultKinds == {"shutdown", "crash", "error", "apiStop"}

(* JobStatus: the statuses mark_job and _finalize leave, and the two live ones. *)
LiveStatus == {"queued", "running"}
LoopStatus == {"succeeded", "escalated", "failed", "timeout",
               "iteration_limit", "budget_exceeded"}
Terminal == LoopStatus \cup {"rejected", "dead_letter"}
Statuses == LiveStatus \cup Terminal \cup {"absent"}
Retriable == {"dead_letter", "failed", "timeout"}

ASSUME SetsAssumption ==
  /\ Submitters \cap Retriers = {}
  /\ Clients \cap Entries = {}
  /\ Sync \subseteq Submitters
  /\ Keyed \subseteq Submitters
  /\ WithCallback \subseteq Jobs
  /\ NoJob \notin Jobs
  /\ RunOutcomes \subseteq LoopStatus
  /\ Faults \subseteq FaultKinds

ASSUME TriesAssumption ==
  /\ MaxTries \in Nat \ {0}
  /\ ArqMaxTries \in Nat
  /\ MaxTries <= ArqMaxTries
  /\ Cap \in Nat
  /\ MaxPrompt \in Nat \ {0}

VARIABLES
  status,    \* jobs.status; "absent": no row yet
  keyed,     \* the jobs whose row holds the idempotency key
  pin,       \* jobs.tenant_prompt_version_id and team_prompt_version_id
  live,      \* the prompt versions tenant and team point at now
  pc,        \* where each process is
  of,        \* the job each process is about
  tries,     \* arq's delivery count of an entry (job_try)
  frame,     \* locals of execute_job in each process
  used,      \* history: prompts used by the attempts since the row was last put to queued
  notified,  \* history: jobs with a deliver_callback enqueued since then
  lost       \* history: jobs whose deliverer went away while still owing them something

rows == <<status, keyed, pin, live>>
procs == <<pc, of, tries, frame>>
history == <<used, notified, lost>>
vars == <<status, keyed, pin, live, pc, of, tries, frame, used, notified, lost>>

(* Steps of execute_job; "transient" and "finalize" are its two ways out. *)
RunPC == {"load", "begin", "setup", "loop", "transient", "finalize"}
(* Where a process still owes its job a run. *)
OwingPC == {"preflight", "enqueue", "ready", "check"} \cup RunPC
ActivePC == {"check", "callback", "ack"} \cup RunPC
PCs == OwingPC \cup {"idle", "insert", "requeue", "done", "free", "callback", "ack"}

Frame0 == [status |-> "absent", prompt |-> NoPrompt, prompted |-> FALSE, result |-> "absent"]
Frames == [status : Statuses, prompt : Prompts \cup {NoPrompt},
           prompted : BOOLEAN, result : Statuses \ LiveStatus]

TypeOK ==
  /\ status \in [Jobs -> Statuses]
  /\ keyed \subseteq Jobs
  /\ pin \in [Jobs -> Prompts \cup {NoPrompt}]
  /\ live \in Prompts
  /\ pc \in [Procs -> PCs]
  /\ of \in [Procs -> Jobs \cup {NoJob}]
  /\ tries \in [Entries -> 0 .. ArqMaxTries]
  /\ frame \in [Procs -> Frames]
  /\ used \in [Jobs -> SUBSET (Prompts \cup {NoPrompt})]
  /\ notified \subseteq Jobs
  /\ lost \subseteq Jobs
  /\ \A e \in Entries : pc[e] \in {"free", "ready"} \cup ActivePC
  /\ \A p \in Procs : pc[p] \in OwingPC \cup {"requeue", "callback", "ack"} => of[p] \in Jobs

Init ==
  /\ status = [j \in Jobs |-> "absent"]
  /\ keyed = {}
  /\ pin = [j \in Jobs |-> NoPrompt]
  /\ live = 1
  /\ pc = [p \in Procs |-> IF p \in Entries THEN "free" ELSE "idle"]
  /\ of = [p \in Procs |-> NoJob]
  /\ tries = [e \in Entries |-> 0]
  /\ frame = [p \in Procs |-> Frame0]
  /\ used = [j \in Jobs |-> {}]
  /\ notified = {}
  /\ lost = {}

-------------------------------------------------------------------------------
(* Process steps. *)

Goto(p, from, to) ==
  /\ pc[p] = from
  /\ pc' = [pc EXCEPT ![p] = to]

(* The locals of execute_job go when it returns or raises. *)
Return(p) == frame' = [frame EXCEPT ![p] = Frame0]

(* A new arq entry for job j while process p moves on to `to'. *)
PutOn(p, j, to) ==
  \E e \in Entries :
    /\ pc[e] = "free"
    /\ pc' = [pc EXCEPT ![p] = to, ![e] = "ready"]
    /\ of' = [of EXCEPT ![e] = j]
    /\ tries' = [tries EXCEPT ![e] = 0]

-------------------------------------------------------------------------------
(* API: create_job, submit_job, retry_job. *)

(* The idempotency lookup.  A request that is refused before it (404, 403, *)
(* 409 archived, 422) changes nothing: it is a client that stays idle.     *)
Lookup(c) ==
  /\ c \in Submitters
  /\ IF c \in Keyed /\ keyed # {}
     THEN \E j \in keyed : Goto(c, "idle", "done") /\ of' = [of EXCEPT ![c] = j]
     ELSE Goto(c, "idle", "insert") /\ UNCHANGED of
  /\ UNCHANGED <<status, keyed, pin, live, tries, frame, history>>

(* ui_run_agent: the form carries no key and never waits. *)
RunForm(c) ==
  /\ c \in Submitters \ (Keyed \cup Sync)
  /\ Goto(c, "idle", "insert")
  /\ UNCHANGED <<rows, of, tries, frame, history>>

(* Mutant: no unique constraint on (agent_id, idempotency_key). *)
InsertNoUnique(c) ==
  /\ Goto(c, "insert", "preflight")
  /\ \E j \in Jobs :
       /\ status[j] = "absent"
       /\ status' = [status EXCEPT ![j] = "queued"]
       /\ of' = [of EXCEPT ![c] = j]
       /\ keyed' = IF c \in Keyed THEN keyed \cup {j} ELSE keyed
  /\ UNCHANGED <<pin, live, tries, frame, history>>

(* INSERT, the "submitted" event and the commit. *)
Insert(c) ==
  /\ Goto(c, "insert", "preflight")
  /\ c \in Keyed => keyed = {}
  /\ \E j \in Jobs :
       /\ status[j] = "absent"
       /\ status' = [status EXCEPT ![j] = "queued"]
       /\ of' = [of EXCEPT ![c] = j]
       /\ keyed' = IF c \in Keyed THEN keyed \cup {j} ELSE keyed
  /\ UNCHANGED <<pin, live, tries, frame, history>>

(* IntegrityError on (agent_id, idempotency_key): return the winner. *)
InsertConflict(c) ==
  /\ Goto(c, "insert", "done")
  /\ c \in Keyed
  /\ \E j \in keyed : of' = [of EXCEPT ![c] = j]
  /\ UNCHANGED <<rows, tries, frame, history>>

(* budget_exhausted says no: a sync request runs the job itself. *)
Accept(c) ==
  /\ Goto(c, "preflight", IF c \in Sync THEN "load" ELSE "enqueue")
  /\ UNCHANGED <<rows, of, tries, frame, history>>

(* budget_exhausted says yes: an auditable row, never enqueued. *)
RefuseOverBudget(c) ==
  /\ Goto(c, "preflight", "done")
  /\ status' = [status EXCEPT ![of[c]] = "budget_exceeded"]
  /\ UNCHANGED <<keyed, pin, live, of, tries, frame, history>>

(* pool.enqueue_job("run_job", job.id), after the commit. *)
Enqueue(c) ==
  /\ pc[c] = "enqueue"
  /\ PutOn(c, of[c], "done")
  /\ UNCHANGED <<rows, frame, history>>

(* Mutant: retry admits any row that exists. *)
RetryLoadAny(c) ==
  /\ c \in Retriers
  /\ Goto(c, "idle", "requeue")
  /\ \E j \in Jobs : status[j] # "absent" /\ of' = [of EXCEPT ![c] = j]
  /\ UNCHANGED <<rows, tries, frame, history>>

(* retry_job and the page's ui_retry_job load the row, check its status,   *)
(* and only later write it.                                                *)
RetryLoad(c) ==
  /\ c \in Retriers
  /\ Goto(c, "idle", "requeue")
  /\ \E j \in Jobs : status[j] \in Retriable /\ of' = [of EXCEPT ![c] = j]
  /\ UNCHANGED <<rows, tries, frame, history>>

RetryCommit(c) ==
  /\ Goto(c, "requeue", "enqueue")
  /\ status' = [status EXCEPT ![of[c]] = "queued"]
  /\ used' = [used EXCEPT ![of[c]] = {}]
  /\ notified' = notified \ {of[c]}
  /\ UNCHANGED <<keyed, pin, live, of, tries, frame, lost>>

-------------------------------------------------------------------------------
(* Worker: arq's delivery and run_job around execute_job. *)

(* WorkerSettings.max_tries. *)
MayTry(e) == tries[e] < ArqMaxTries

(* arq picks an entry up and counts the try; past max_tries it drops it. *)
Deliver(e) ==
  /\ MayTry(e)
  /\ Goto(e, "ready", "check")
  /\ tries' = [tries EXCEPT ![e] = @ + 1]
  /\ UNCHANGED <<rows, of, frame, history>>

Leave(e) ==
  /\ of' = [of EXCEPT ![e] = NoJob]
  /\ tries' = [tries EXCEPT ![e] = 0]

DropExhausted(e) ==
  /\ ~MayTry(e)
  /\ Goto(e, "ready", "free")
  /\ Leave(e)
  /\ lost' = lost \cup {of[e]}
  /\ UNCHANGED <<rows, frame, used, notified>>

AtCapacity == Cap > 0 /\ Cardinality({j \in Jobs : status[j] = "running"}) >= Cap

Admit(e) ==
  /\ ~AtCapacity
  /\ Goto(e, "check", "load")
  /\ UNCHANGED <<rows, of, tries, frame, history>>

(* Mutant: a job that meets the cap is dropped instead of deferred. *)
DeferForgets(e) ==
  /\ AtCapacity
  /\ Goto(e, "check", "ack")
  /\ UNCHANGED <<rows, of, tries, frame, history>>

(* At capacity: enqueue another run_job, deferred, and return. *)
Defer(e) ==
  /\ AtCapacity
  /\ pc[e] = "check"
  /\ PutOn(e, of[e], "ack")
  /\ UNCHANGED <<rows, frame, history>>

(* run_job returned: arq removes the entry. *)
Ack(e) ==
  /\ Goto(e, "ack", "free")
  /\ Leave(e)
  /\ UNCHANGED <<rows, frame, history>>

(* Retries exhausted: dead letter, and run_job returns without a callback. *)
DeadLetter(e) ==
  /\ tries[e] >= MaxTries
  /\ Goto(e, "transient", "ack")
  /\ status' = [status EXCEPT ![of[e]] = "dead_letter"]
  /\ Return(e)
  /\ UNCHANGED <<keyed, pin, live, of, tries, history>>

(* Mutant: the transient error is swallowed instead of raising Retry. *)
BackoffForgets(e) ==
  /\ tries[e] < MaxTries
  /\ Goto(e, "transient", "ack")
  /\ Return(e)
  /\ UNCHANGED <<rows, of, tries, history>>

(* Mutant: off by one, a try too many. *)
BackoffOnceMore(e) ==
  /\ tries[e] <= MaxTries
  /\ Goto(e, "transient", "ready")
  /\ Return(e)
  /\ UNCHANGED <<rows, of, tries, history>>

(* raise Retry: the entry stays queued, the row stays running. *)
Backoff(e) ==
  /\ tries[e] < MaxTries
  /\ Goto(e, "transient", "ready")
  /\ Return(e)
  /\ UNCHANGED <<rows, of, tries, history>>

(* A sync run has no retry budget: it fails the row. *)
FailSync(c) ==
  /\ c \in Sync
  /\ Goto(c, "transient", "callback")
  /\ status' = [status EXCEPT ![of[c]] = "failed"]
  /\ Return(c)
  /\ UNCHANGED <<keyed, pin, live, of, tries, history>>

(* After execute_job returned, however it returned: the callback. *)
Callback(p) ==
  /\ Goto(p, "callback", IF p \in Entries THEN "ack" ELSE "done")
  /\ notified' = notified \cup ({of[p]} \cap WithCallback)
  /\ UNCHANGED <<rows, of, tries, frame, used, lost>>

-------------------------------------------------------------------------------
(* execute_job. *)

(* Mutant: a finished row is dropped without its callback. *)
LoadSilent(p) ==
  LET j == of[p] IN
  /\ pc[p] = "load"
  /\ \/ /\ status[j] \in LiveStatus
        /\ Goto(p, "load", "begin")
        /\ frame' = [frame EXCEPT ![p].status = status[j],
                                  ![p].prompt = IF status[j] = "queued" THEN live ELSE pin[j]]
     \/ /\ status[j] \notin LiveStatus
        /\ Goto(p, "load", "ack")
        /\ Return(p)
  /\ UNCHANGED <<rows, of, tries, history>>

(* Mutant: no guard on the row's status. *)
LoadUnguarded(p) ==
  LET j == of[p] IN
  /\ Goto(p, "load", "begin")
  /\ frame' = [frame EXCEPT ![p].status = status[j],
                            ![p].prompt = IF status[j] = "queued" THEN live ELSE pin[j]]
  /\ UNCHANGED <<rows, of, tries, history>>

(* Mutant: every attempt takes the live prompts. *)
LoadRepins(p) ==
  LET j == of[p] IN
  /\ pc[p] = "load"
  /\ \/ /\ status[j] \in LiveStatus
        /\ Goto(p, "load", "begin")
        /\ frame' = [frame EXCEPT ![p].status = status[j], ![p].prompt = live]
     \/ /\ status[j] \notin LiveStatus
        /\ Goto(p, "load", "callback")
        /\ Return(p)
  /\ UNCHANGED <<rows, of, tries, history>>

(* The guard on the row, then everything read in the first session. *)
Load(p) ==
  LET j == of[p] IN
  /\ pc[p] = "load"
  /\ \/ /\ status[j] \in LiveStatus
        /\ Goto(p, "load", "begin")
        /\ frame' = [frame EXCEPT ![p].status = status[j],
                                  ![p].prompt = IF status[j] = "queued" THEN live ELSE pin[j]]
     \/ /\ status[j] \notin LiveStatus
        /\ Goto(p, "load", "callback")
        /\ Return(p)
  /\ UNCHANGED <<rows, of, tries, history>>

(* The month's budget is gone: finalize without running. *)
OverBudget(p) ==
  /\ Goto(p, "begin", "finalize")
  /\ frame' = [frame EXCEPT ![p].result = "budget_exceeded"]
  /\ UNCHANGED <<rows, of, tries, history>>

(* The first commit.  A row read as running is not re-pinned, and its      *)
(* status is not written again: the ORM emits the changed columns only.    *)
Begin(p) ==
  LET j == of[p]
      first == frame[p].status = "queued" IN
  /\ Goto(p, "begin", "setup")
  /\ status' = IF first THEN [status EXCEPT ![j] = "running"] ELSE status
  /\ pin' = IF first THEN [pin EXCEPT ![j] = frame[p].prompt] ELSE pin
  /\ used' = [used EXCEPT ![j] = @ \cup {frame[p].prompt}]
  /\ frame' = [frame EXCEPT ![p] = [Frame0 EXCEPT !.prompted = frame[p].prompted]]
  /\ UNCHANGED <<keyed, live, of, tries, notified, lost>>

(* A bad decision config or grant, or the injection screen, ends the job. *)
SetupFails(p) ==
  /\ Goto(p, "setup", "finalize")
  /\ \E r \in {"failed", "rejected"} : frame' = [frame EXCEPT ![p].result = r]
  /\ UNCHANGED <<rows, of, tries, history>>

SetupDone(p) ==
  /\ Goto(p, "setup", "loop")
  /\ UNCHANGED <<rows, of, tries, frame, history>>

(* The loop ends, within timeout_s, and the post-hooks run. *)
LoopEnds(p) ==
  /\ Goto(p, "loop", "finalize")
  /\ \E r \in RunOutcomes : frame' = [frame EXCEPT ![p].result = r]
  /\ UNCHANGED <<rows, of, tries, history>>

(* 429, 5xx, a lost upstream or a transport error. *)
LoopTransient(p) ==
  /\ Goto(p, "loop", "transient")
  /\ UNCHANGED <<rows, of, tries, frame, history>>

(* The provider refuses a forced tool_choice: execute_job once more. *)
LoopFallback(p) ==
  /\ ~frame[p].prompted
  /\ Goto(p, "loop", "load")
  /\ frame' = [frame EXCEPT ![p] = [Frame0 EXCEPT !.prompted = TRUE]]
  /\ UNCHANGED <<rows, of, tries, history>>

(* _finalize overwrites whatever status the row has by now. *)
Finalize(p) ==
  /\ Goto(p, "finalize", "callback")
  /\ status' = [status EXCEPT ![of[p]] = frame[p].result]
  /\ Return(p)
  /\ UNCHANGED <<keyed, pin, live, of, tries, history>>

-------------------------------------------------------------------------------
(* Faults. *)

(* _handle_cancellation: a job cancelled inside the loop is queued again. *)
HandBack(j) ==
  /\ status' = [status EXCEPT ![j] = "queued"]
  /\ used' = [used EXCEPT ![j] = {}]

(* A worker shutdown cancels the task; arq runs a cancelled entry again. *)
Shutdown(e) ==
  /\ "shutdown" \in Faults
  /\ pc[e] \in ActivePC
  /\ pc' = [pc EXCEPT ![e] = "ready"]
  /\ IF pc[e] = "loop" THEN HandBack(of[e]) ELSE UNCHANGED <<status, used>>
  /\ Return(e)
  /\ UNCHANGED <<keyed, pin, live, of, tries, notified, lost>>

(* A worker dies: arq's in-progress mark expires and the entry runs again. *)
Crash(e) ==
  /\ "crash" \in Faults
  /\ pc[e] \in ActivePC
  /\ pc' = [pc EXCEPT ![e] = "ready"]
  /\ Return(e)
  /\ UNCHANGED <<rows, of, tries, history>>

(* An exception outside the try (a file, a link, the memory write): arq    *)
(* drops the entry, a sync request answers 500; the row is left as it is.  *)
Unhandled(p) ==
  /\ "error" \in Faults
  /\ \/ pc[p] = "setup"
     \/ pc[p] = "finalize" /\ frame[p].result = "succeeded"
  /\ pc' = [pc EXCEPT ![p] = IF p \in Entries THEN "free" ELSE "done"]
  /\ lost' = lost \cup {of[p]}
  /\ of' = [of EXCEPT ![p] = NoJob]
  /\ Return(p)
  /\ tries' = IF p \in Entries THEN [tries EXCEPT ![p] = 0] ELSE tries
  /\ UNCHANGED <<rows, used, notified>>

(* The API process goes away under a request that has committed a row; a   *)
(* sync run cancelled inside the loop also re-queues its row.              *)
ApiStop(c) ==
  /\ "apiStop" \in Faults
  /\ pc[c] \in {"preflight", "enqueue", "callback"} \cup RunPC
  /\ pc' = [pc EXCEPT ![c] = "done"]
  /\ \/ UNCHANGED <<status, used>>
     \/ pc[c] = "loop" /\ HandBack(of[c])
  /\ Return(c)
  /\ lost' = lost \cup {of[c]}
  /\ UNCHANGED <<keyed, pin, live, of, tries, notified>>

(* An owner saves another tenant or team prompt: a new version is appended *)
(* and becomes the live one (saving the live text again changes nothing).  *)
ChangePrompt ==
  /\ live < MaxPrompt
  /\ live' = live + 1
  /\ UNCHANGED <<status, keyed, pin, procs, history>>

(* Every request is answered and the queue is empty: nothing need happen. *)
Rest ==
  /\ \A p \in Procs : pc[p] \in {"idle", "done", "free"}
  /\ UNCHANGED vars

-------------------------------------------------------------------------------
RunStep(p) ==
  \/ Load(p) \/ OverBudget(p) \/ Begin(p) \/ SetupFails(p) \/ SetupDone(p)
  \/ LoopEnds(p) \/ LoopTransient(p) \/ LoopFallback(p) \/ Finalize(p)
  \/ Callback(p)

EntryStep(e) ==
  \/ Deliver(e) \/ DropExhausted(e) \/ Admit(e) \/ Defer(e) \/ Ack(e)
  \/ DeadLetter(e) \/ Backoff(e) \/ RunStep(e)

RequestStep(c) ==
  \/ Insert(c) \/ InsertConflict(c) \/ Accept(c) \/ RefuseOverBudget(c)
  \/ Enqueue(c) \/ RetryCommit(c) \/ FailSync(c) \/ RunStep(c)

Next ==
  \/ \E c \in Clients : Lookup(c) \/ RunForm(c) \/ RetryLoad(c) \/ RequestStep(c) \/ ApiStop(c)
  \/ \E e \in Entries : EntryStep(e) \/ Shutdown(e) \/ Crash(e)
  \/ \E p \in Procs : Unhandled(p)
  \/ ChangePrompt
  \/ Rest

Spec == Init /\ [][Next]_vars

(* arq polls its queue, every await of a request returns, and the loop is  *)
(* cut by asyncio.timeout: a process that can move does.  Clients start,   *)
(* prompts change and faults strike as they please.                        *)
Fairness ==
  /\ \A e \in Entries : WF_vars(EntryStep(e))
  /\ \A c \in Clients : WF_vars(RequestStep(c))

FairSpec == Spec /\ Fairness

-------------------------------------------------------------------------------
Live(j) == status[j] \in LiveStatus
Owed(j) == \E p \in Procs : of[p] = j /\ pc[p] \in OwingPC

(* A job that is queued or running always has something that will run it:  *)
(* a request about to enqueue it, an arq entry, or a run in progress - or  *)
(* a named fault took it away.  It says every early return of run_job and  *)
(* execute_job leaves either a terminal row or another deliverer behind.   *)
LiveOwed == \A j \in Jobs : Live(j) => Owed(j) \/ j \in lost

(* A run that reached its end tells the caller: a finished row whose       *)
(* callback was not enqueued yet still has a process that will enqueue it. *)
(* dead_letter and a submission refused for budget send no callback.       *)
Reported == Terminal \ {"dead_letter", "budget_exceeded"}
CallbackOwed ==
  \A j \in WithCallback :
    status[j] \in Reported /\ j \notin notified =>
      \/ j \in lost
      \/ \E p \in Procs : of[p] = j /\ pc[p] \in OwingPC \cup {"callback"}

(* Transient errors, deferrals and retries alone never lose a job: without *)
(* an outside fault arq's own limit on tries is never reached.             *)
NoFaultNoLoss == Faults = {} => lost = {}

(* At most one process is inside execute_job for a job. *)
Running(p) == pc[p] \in RunPC
OneRun == \A p, q \in Procs : Running(p) /\ Running(q) /\ of[p] = of[q] => p = q

(* The attempts of a run use the same tenant and team prompts, whatever    *)
(* backoffs, deaths of workers and prompt fallbacks lie between them; other *)
(* prompts come only with a row that was put to queued again, by a manual   *)
(* retry or by a worker that shut down.                                     *)
OneInstruction == \A j \in Jobs : Cardinality(used[j]) <= 1

(* The comment in execute_job: a re-entry, "the worker's transient-error    *)
(* retry, a worker restart", keeps the pinned prompts; only a manual retry  *)
(* takes the live ones.                                                     *)
PinsKept ==
  [][Retriers = {} => \A j \in Jobs : pin[j] # NoPrompt => pin'[j] = pin[j]]_vars

(* The tenant's max_concurrent_jobs bounds the jobs running at once. *)
CapHolds == Cap > 0 => Cardinality({j \in Jobs : status[j] = "running"}) <= Cap

(* What a reader of the row is promised: queued, running, one end, and    *)
(* back to queued only by a retry of a failed job or a worker handing it   *)
(* back.                                                                   *)
Row == INSTANCE JobRow WITH Jobs <- Jobs, status <- status
RowSpec == Row!Spec

(* retry_job: "Only failed jobs can be retried". *)
OnlyFailedRetried ==
  [][\A r \in Retriers : pc[r] = "requeue" /\ pc'[r] = "enqueue" => status[of[r]] \in Retriable]_vars

(* Every submission with the idempotency key is answered with one job. *)
Answered(c) == c \in Keyed /\ of[c] # NoJob
OneJobPerKey == \A c, d \in Clients : Answered(c) /\ Answered(d) => of[c] = of[d]

(* Every job reaches a terminal status, unless a fault lost it. *)
Completes == \A j \in Jobs : Live(j) ~> (~Live(j) \/ j \in lost)

(* Results are pushed: the end of a job with a callback_url is reported  *)
(* (a submission refused for budget is answered in the response itself).   *)
EndsReported ==
  \A j \in WithCallback : status[j] \in Terminal \ {"budget_exceeded"} ~> (j \in notified \/ Live(j) \/ j \in lost)
===============================================================================
