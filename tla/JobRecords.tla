------------------------------ MODULE JobRecords -------------------------------
(***************************************************************************)
(* What a job's row keeps besides its status, and for how long: the cost   *)
(* that counts against the agent's monthly limit (runtime/spending.py and  *)
(* the checks in runner.execute_job), the payload and the output, which a  *)
(* tenant's retention policy prunes, and the uploaded file the payload     *)
(* names, which expires (runtime/retention.py, api/v1/files.py).           *)
(*                                                                         *)
(* One agent with a limit, one tenant with both policies.  A day is a unit *)
(* of time.  JobLifecycle has who runs a job and when; here at most Slots  *)
(* runs are under way, an attempt ends, is taken up again or is retried.   *)
(***************************************************************************)
EXTENDS Integers, FiniteSets, Functions

CONSTANTS
  Jobs,
  Files,
  Slots,      \* runs of the agent that can be under way at once
  Limit,      \* agents.spending_limit
  Kinds,      \* how the models of the agent's versions are priced
  MaxCall,    \* bound: the price, and the charge, of a model call
  MaxCalls,   \* version.max_iterations, the calls of a run
  MonthStart, \* the day the second month begins
  LastDay,    \* bound: days
  Retention,  \* tenant.settings.job_retention_days
  Ttl,        \* tenant.settings.file_ttl_days
  MaxCrashes, \* bound: passes, uploads and removals that fail
  NoFile

ASSUME RecordsAssumption ==
  /\ Kinds \subseteq {"table", "unpriced", "aggregator", "decision"}
  /\ Slots \in Nat \ {0} /\ Limit \in Nat \ {0} /\ MaxCall \in Nat \ {0} /\ MaxCalls \in Nat \ {0}
  /\ MonthStart \in Nat /\ LastDay \in Nat /\ Retention \in Nat /\ Ttl \in Nat
  /\ MaxCrashes \in Nat /\ NoFile \notin Files /\ IsFiniteSet(Jobs)

VARIABLES
  now,     \* the day
  job,     \* jobs: status, day created, day last begun, model, cost, content
  run,     \* each run: where it is, the budget it read, its calls and their table price
  file,    \* files: the row, its expires_at, the object in storage
  pass,    \* cleanup_tick: where it is, the day it began, its files
  crashes, \* bound: the failures so far
  unbilled \* history: the jobs with calls whose cost their row does not show

vars == <<now, job, run, file, pass, crashes, unbilled>>

Days == 0..LastDay
Months == {1, 2}
Month(day) == IF day < MonthStart THEN 1 ELSE 2

Ends == {"succeeded", "failed", "timeout", "iteration_limit", "budget_exceeded", "dead_letter"}
Retriable == {"failed", "timeout", "dead_letter"}

NewJob == [status |-> "absent", born |-> 0, begun |-> 0, kind |-> "table", cost |-> 0,
           payload |-> "raw", output |-> FALSE, file |-> NoFile]
NoRun == [at |-> "none", raw |-> TRUE, left |-> 0, calls |-> 0, price |-> 0]
NoUpload == [upload |-> "none", object |-> FALSE, row |-> FALSE, expires |-> 0]
NoPass == [at |-> "idle", day |-> 0, todo |-> {}, removed |-> {}]

(* The most a run can be charged. *)
MaxRun == MaxCalls * MaxCall

JobRecord == [status : {"absent", "queued", "running"} \cup Ends, born : Days, begun : Days,
              kind : {"table"} \cup Kinds, cost : 0..MaxRun,
              payload : {"raw", "pruned"}, output : BOOLEAN, file : Files \cup {NoFile}]
RunRecord == [at : {"none", "preflight", "waiting", "setup", "loop", "broken"}, raw : BOOLEAN,
              left : 0..Limit, calls : 0..MaxCalls, price : 0..MaxRun]
FileRecord == [upload : {"none", "put", "done"}, object : BOOLEAN, row : BOOLEAN, expires : 0..(LastDay + Ttl)]
PassRecord == [at : {"idle", "files", "prune"}, day : Days, todo : SUBSET Files, removed : SUBSET Files]

TypeOK ==
  /\ now \in Days /\ job \in [Jobs -> JobRecord] /\ run \in [Jobs -> RunRecord]
  /\ file \in [Files -> FileRecord] /\ pass \in PassRecord
  /\ crashes \in 0..MaxCrashes /\ unbilled \subseteq Jobs

Init ==
  /\ now = 0
  /\ job = [j \in Jobs |-> NewJob]
  /\ run = [j \in Jobs |-> NoRun]
  /\ file = [f \in Files |-> NoUpload]
  /\ pass = NoPass
  /\ crashes = 0
  /\ unbilled = {}

-------------------------------------------------------------------------------
(* Spending.                                                               *)

Cost == [j \in Jobs |-> job[j].cost]

(* month_spend: the costs of the jobs created since the month began. *)
MonthSpend ==
  SumFunctionOnSet(Cost, {j \in Jobs : job[j].status # "absent" /\ Month(job[j].born) = Month(now)})

Exhausted == MonthSpend >= Limit

(* create_job commits the row, pinned to a version and so to a model; the    *)
(* files it names have rows.                                                *)
Submit(j) ==
  /\ job[j].status = "absent"
  /\ \E f \in {f \in Files : file[f].row} \cup {NoFile}, kind \in Kinds :
       job' = [job EXCEPT ![j] = [NewJob EXCEPT !.status = "queued", !.born = now, !.begun = now,
                                                !.kind = kind, !.file = f]]
  /\ run' = [run EXCEPT ![j].at = "preflight"]
  /\ UNCHANGED <<now, file, pass, crashes, unbilled>>

(* The check after the commit: an auditable row that is not enqueued. *)
Preflight(j) ==
  /\ run[j].at = "preflight"
  /\ IF Exhausted
     THEN /\ job' = [job EXCEPT ![j].status = "budget_exceeded"]
          /\ run' = [run EXCEPT ![j] = NoRun]
     ELSE run' = [run EXCEPT ![j].at = "waiting"] /\ UNCHANGED job
  /\ UNCHANGED <<now, file, pass, crashes, unbilled>>

UnderWay == {j \in Jobs : run[j].at \in {"setup", "loop"}}

(* What is left of the month bounds the run. *)
Remaining == Limit - MonthSpend

(* execute_job loads the row and its payload, and checks the budget again. *)
Begin(j) ==
  /\ run[j].at = "waiting"
  /\ Cardinality(UnderWay) < Slots
  /\ IF Exhausted
     THEN /\ job' = [job EXCEPT ![j].status = "budget_exceeded", ![j].output = FALSE]
          /\ run' = [run EXCEPT ![j] = NoRun]
     ELSE /\ job' = [job EXCEPT ![j].status = "running", ![j].begun = now]
          /\ run' = [run EXCEPT ![j] = [at |-> "setup", raw |-> job[j].payload = "raw",
                                        left |-> Remaining, calls |-> 0, price |-> 0]]
  /\ UNCHANGED <<now, file, pass, crashes, unbilled>>

(* A file without a row is left out.  A payload without a prompt, and a row  *)
(* without an object, raise outside the try: the entry ends, the row stays   *)
(* running.                                                                *)
LoadContent(j) ==
  LET f == job[j].file
      broken == ~run[j].raw \/ (f # NoFile /\ file[f].row /\ ~file[f].object) IN
  /\ run[j].at = "setup"
  /\ run' = [run EXCEPT ![j].at = IF broken THEN "broken" ELSE "loop"]
  /\ UNCHANGED <<now, job, file, pass, crashes, unbilled>>

(* Mutant: the price so far is not looked at between calls. *)
OverMidRunNever(j) == FALSE

(* Between model calls the table price so far is compared with what was      *)
(* left; a decision model's one call is not iterated over.                   *)
OverMidRun(j) == job[j].kind # "decision" /\ run[j].price >= run[j].left

CallLimit(j) == IF job[j].kind = "decision" THEN 1 ELSE MaxCalls

(* _calc_cost: what the table says of a call, nothing for a model it does    *)
(* not know.                                                                 *)
Prices(j) == IF job[j].kind \in {"table", "aggregator"} THEN 0..MaxCall ELSE {0}

(* A model call, unless the run is about to be stopped. *)
Call(j) ==
  /\ run[j].at = "loop" /\ ~OverMidRun(j) /\ run[j].calls < CallLimit(j)
  /\ \E p \in Prices(j) : run' = [run EXCEPT ![j].calls = @ + 1, ![j].price = @ + p]
  /\ UNCHANGED <<now, job, file, pass, crashes, unbilled>>

(* What a run's usage is recorded as: its table price, or in its place what  *)
(* the provider says it charged, which OpenRouter may not know for every     *)
(* call yet.                                                                 *)
Charges(j) ==
  IF job[j].kind \in {"table", "unpriced"} THEN {run[j].price} ELSE 0..(run[j].calls * MaxCall)

Forgets(j, lost) == unbilled' = IF lost THEN unbilled \cup {j} ELSE unbilled

Ending(j, status, cost) ==
  /\ job' = [job EXCEPT ![j].status = status, ![j].output = (status = "succeeded"), ![j].cost = cost]
  /\ run' = [run EXCEPT ![j] = NoRun]
  /\ UNCHANGED <<now, file, pass, crashes>>

(* _finalize with a usage writes the cost, in the place of an earlier one. *)
FinalizeUsage(j, status) ==
  /\ run[j].at = "loop"
  /\ \E cost \in Charges(j) : Ending(j, status, cost)
  /\ Forgets(j, job[j].cost > 0 \/ (job[j].kind = "unpriced" /\ run[j].calls > 0))

(* _finalize without a usage leaves the cost that was there. *)
Finalize(j, status) ==
  /\ run[j].at = "loop"
  /\ Ending(j, status, job[j].cost)
  /\ Forgets(j, run[j].calls > 0)

(* The loop's result, which a post-hook may refuse; the limit; an exception, *)
(* the wall clock or a call too many, which leave no usage.                  *)
Returns(j) == ~OverMidRun(j) /\ \E status \in {"succeeded", "failed"} : FinalizeUsage(j, status)
StopOverBudget(j) == OverMidRun(j) /\ FinalizeUsage(j, "budget_exceeded")
Raises(j) == \E status \in {"failed", "timeout"} : Finalize(j, status)
StopOverCalls(j) ==
  job[j].kind # "decision" /\ ~OverMidRun(j) /\ run[j].calls = MaxCalls /\ Finalize(j, "iteration_limit")

(* A transient error: the entry comes back, or the row is dead-lettered.    *)
Transient(j) ==
  /\ run[j].at = "loop"
  /\ \/ run' = [run EXCEPT ![j] = [NoRun EXCEPT !.at = "waiting"]] /\ UNCHANGED job
     \/ /\ job' = [job EXCEPT ![j].status = "dead_letter"]
        /\ run' = [run EXCEPT ![j] = NoRun]
  /\ Forgets(j, run[j].calls > 0)
  /\ UNCHANGED <<now, file, pass, crashes>>

Retry(j) ==
  /\ job[j].status \in Retriable /\ run[j].at = "none"
  /\ job' = [job EXCEPT ![j].status = "queued", ![j].output = FALSE]
  /\ run' = [run EXCEPT ![j].at = "waiting"]
  /\ UNCHANGED <<now, file, pass, crashes, unbilled>>

-------------------------------------------------------------------------------
(* Files.                                                                  *)

(* Mutant: the row is committed before the object is put. *)
PutRowFirst(f) == [NoUpload EXCEPT !.upload = "put", !.row = TRUE, !.expires = now + Ttl]

(* put_object comes first. *)
Put(f) == [NoUpload EXCEPT !.upload = "put", !.object = TRUE]

UploadObject(f) ==
  /\ file[f].upload = "none"
  /\ file' = [file EXCEPT ![f] = Put(f)]
  /\ UNCHANGED <<now, job, run, pass, crashes, unbilled>>

(* The row with expires_at = file_expiry(settings); a process that stops    *)
(* before it leaves the object.                                             *)
UploadRow(f) ==
  /\ file[f].upload = "put"
  /\ file' = [file EXCEPT ![f] = [upload |-> "done", object |-> TRUE, row |-> TRUE, expires |-> now + Ttl]]
  /\ UNCHANGED <<now, job, run, pass, crashes, unbilled>>

UiUploadRow(f) == UploadRow(f)

Fail == crashes < MaxCrashes /\ crashes' = crashes + 1

CrashUpload(f) ==
  /\ file[f].upload = "put"
  /\ file' = [file EXCEPT ![f].upload = "done"]
  /\ Fail
  /\ UNCHANGED <<now, job, run, pass, unbilled>>

-------------------------------------------------------------------------------
(* The hourly pass.                                                        *)

Expired(f) == file[f].row /\ file[f].expires < now

StartPass ==
  /\ pass.at = "idle"
  /\ pass' = [at |-> "files", day |-> now, todo |-> {f \in Files : Expired(f)}, removed |-> {}]
  /\ UNCHANGED <<now, job, run, file, crashes, unbilled>>

(* Mutant: removing an object that is gone is an error. *)
RemovableThere(f) == file[f].object

(* _rm removes the object if it exists. *)
Removable(f) == TRUE

RemoveObject(f) ==
  /\ pass.at = "files" /\ f \in pass.todo
  /\ pass' = [pass EXCEPT !.todo = @ \ {f}, !.removed = IF Removable(f) THEN @ \cup {f} ELSE @]
  /\ file' = [file EXCEPT ![f].object = FALSE]
  /\ UNCHANGED <<now, job, run, crashes, unbilled>>

(* Storage refuses: the row stays for the next pass. *)
RemoveFails(f) ==
  /\ pass.at = "files" /\ f \in pass.todo
  /\ pass' = [pass EXCEPT !.todo = @ \ {f}]
  /\ Fail
  /\ UNCHANGED <<now, job, run, file, unbilled>>

(* One commit for all the rows. *)
CommitFiles ==
  /\ pass.at = "files" /\ pass.todo = {}
  /\ pass' = [pass EXCEPT !.at = "prune", !.removed = {}]
  /\ file' = [f \in Files |-> IF f \in pass.removed THEN [file[f] EXCEPT !.row = FALSE] ELSE file[f]]
  /\ UNCHANGED <<now, job, run, crashes, unbilled>>

Old(j, day) == job[j].status # "absent" /\ job[j].born < day - Retention

(* Payload and output of the jobs of that age, whatever their status. *)
Prune ==
  /\ pass.at = "prune"
  /\ pass' = NoPass
  /\ job' = [j \in Jobs |-> IF Old(j, pass.day) /\ job[j].payload # "pruned"
                            THEN [job[j] EXCEPT !.payload = "pruned", !.output = FALSE] ELSE job[j]]
  /\ UNCHANGED <<now, run, file, crashes, unbilled>>

(* The worker stops: nothing of the transaction under way is committed. *)
CrashPass ==
  /\ pass.at # "idle"
  /\ pass' = NoPass
  /\ Fail
  /\ UNCHANGED <<now, job, run, file, unbilled>>

Tick ==
  /\ now < LastDay
  /\ now' = now + 1
  /\ UNCHANGED <<job, run, file, pass, crashes, unbilled>>

-------------------------------------------------------------------------------
Cleanup == StartPass \/ (\E f \in Files : RemoveObject(f)) \/ CommitFiles \/ Prune

Next ==
  \/ \E j \in Jobs :
       \/ Submit(j) \/ Preflight(j) \/ Begin(j) \/ LoadContent(j) \/ Call(j) \/ Returns(j)
       \/ StopOverBudget(j) \/ StopOverCalls(j) \/ Raises(j) \/ Transient(j) \/ Retry(j)
  \/ \E f \in Files :
       UploadObject(f) \/ UploadRow(f) \/ UiUploadRow(f) \/ CrashUpload(f) \/ RemoveFails(f)
  \/ Cleanup \/ CrashPass \/ Tick

(* The worker's cron starts a pass every hour and a pass goes on; storage   *)
(* and workers fail at most MaxCrashes times.                               *)
Spec == Init /\ [][Next]_vars /\ WF_vars(Cleanup)

-------------------------------------------------------------------------------
(* Properties.                                                             *)

(* The jobs created, and last begun, in month m, and the cost on the rows of *)
(* those with a model in K.                                                  *)
RunIn(m) == {j \in Jobs : Month(job[j].born) = m /\ Month(job[j].begun) = m}
Recorded(m, K) == SumFunctionOnSet(Cost, {j \in RunIn(m) : job[j].kind \in K})

(* Runs started side by side each find what no other has recorded yet.  A    *)
(* run whose model the table prices is stopped after the call that crosses   *)
(* its budget: so those of a month that were run in it record at most a      *)
(* limit and a call per slot, whatever the others are charged.  A run whose  *)
(* record is not what is compared (an unpriced model, a provider's charge)   *)
(* is bounded by its calls alone: together they pass the limit by at most a  *)
(* whole run per slot (spending.month_spend, the checks of execute_job).     *)
SpendBounded ==
  \A m \in Months :
    /\ Recorded(m, {"table"}) <= Slots * (Limit - 1 + MaxCall)
    /\ Recorded(m, Kinds) <= Limit - 1 + Slots * MaxRun

(* What a row or a run can rely on: a file whose row is there has its       *)
(* object until it expires; an object without a row belongs to an upload    *)
(* that did not get to its row (files.upload_file, cleanup_tick).           *)
FilesHonest ==
  \A f \in Files :
    /\ file[f].row => file[f].object \/ Expired(f)
    /\ file[f].object /\ ~file[f].row => file[f].expires = 0 /\ file[f].upload # "none"

(* An expired file goes, object and row, and the payload of an old job,     *)
(* whichever passes and removals fail (cleanup_tick).                       *)
ExpiredGoes ==
  /\ \A f \in Files : Expired(f) ~> ~file[f].row /\ ~file[f].object
  /\ \A j \in Jobs : Old(j, now) ~> job[j].payload = "pruned"

(* spending.py 5: cost accrues on job rows and rolls up by summation.  So   *)
(* the rows show the cost of every call that was made.                      *)
CostsRecorded == unbilled = {}

(* A run that found its row finds its content.                              *)
NoneBroken == \A j \in Jobs : run[j].at # "broken"
===============================================================================
