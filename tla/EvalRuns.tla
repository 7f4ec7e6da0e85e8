------------------------------- MODULE EvalRuns -------------------------------
(***************************************************************************)
(* The eval harness (runtime/evals.py) for one agent version: runs of its  *)
(* suite of cases, started over the API or by the memory gate, executed by *)
(* arq entries of worker.run_eval.  A run grades every case and records    *)
(* its pass rate, or stops early without one; a rate below the baseline -  *)
(* the newest completed run - alerts the team.  An entry that a worker     *)
(* shutdown cuts is run again, from the first case.                        *)
(***************************************************************************)
EXTENDS Naturals, FiniteSets

CONSTANTS
  Evals,        \* ids of eval_runs
  NoRun,
  Suites,       \* the sizes the suite has while cases are added and deleted
  MaxAttempts,  \* EVAL_TRANSIENT_ATTEMPTS
  ArqMaxTries,  \* WorkerSettings.max_tries
  Faults        \* subset of {"stop", "limit"}: worker stops, arq's job_timeout

ASSUME EvalAssumption ==
  /\ NoRun \notin Evals /\ IsFiniteSet(Evals)
  /\ Suites \subseteq Nat /\ \E n \in Suites : \A m \in Suites : m <= n
  /\ MaxAttempts \in Nat \ {0}
  /\ ArqMaxTries \in Nat \ {0}
  /\ Faults \subseteq {"stop", "limit"}

VARIABLES
  suite,    \* number of rows of eval_cases
  born,     \* created_at, as a rank; 0: no such run yet
  status,   \* eval_runs.status
  rate,     \* eval_runs.pass_rate, Numeric(5, 4), in ten-thousandths
  at,       \* where the run and its entry are
  tries,    \* job_try of the entry
  exec,     \* the locals of the execution: see Execution
  base,     \* the run read as the baseline
  told,     \* runs somebody was notified about
  lost,     \* history: running rows whose entry is gone
  cut       \* history: runs with an execution that was cut

evalVars == <<suite, born, status, rate, at, tries, exec, base, told, lost, cut>>
rows == <<suite, born>>

Final == {"completed", "budget_exceeded", "errored"}
Active == {"cases", "save", "tell"}
Cases == 0 .. CHOOSE n \in Suites : \A m \in Suites : m <= n

(* Cases loaded and graded, passes counted, attempts at the next case; ran *)
(* is history: the cases the agent really ran.                             *)
Execution == [total : Cases, graded : Cases, passed : Cases, ran : Cases, attempt : 1 .. MaxAttempts]
Fresh == [total |-> 0, graded |-> 0, passed |-> 0, ran |-> 0, attempt |-> 1]

EvalTypeOK ==
  /\ suite \in Suites
  /\ born \in [Evals -> 0 .. Cardinality(Evals)]
  /\ status \in [Evals -> Final \cup {"absent", "running"}]
  /\ rate \in [Evals -> 0 .. 10000]
  /\ at \in [Evals -> Active \cup {"none", "created", "queue", "done"}]
  /\ tries \in [Evals -> 0 .. ArqMaxTries]
  /\ exec \in [Evals -> Execution]
  /\ base \in [Evals -> Evals \cup {NoRun}]
  /\ told \subseteq Evals
  /\ lost \subseteq Evals
  /\ cut \subseteq Evals

EvalInit ==
  /\ suite \in Suites \ {0}
  /\ born = [r \in Evals |-> 0]
  /\ status = [r \in Evals |-> "absent"]
  /\ rate = [r \in Evals |-> 0]
  /\ at = [r \in Evals |-> "none"]
  /\ tries = [r \in Evals |-> 0]
  /\ exec = [r \in Evals |-> Fresh]
  /\ base = [r \in Evals |-> NoRun]
  /\ told = {}
  /\ lost = {}
  /\ cut = {}

Goto(r, from, to) ==
  /\ at[r] = from
  /\ at' = [at EXCEPT ![r] = to]

-------------------------------------------------------------------------------
(* The suite's cases: ui_create_eval_case and ui_delete_eval_case. *)
AddCase == suite + 1 \in Suites /\ suite' = suite + 1
DropCase == suite - 1 \in Suites /\ suite' = suite - 1

(* The API's create_eval_case and delete_eval_case do the same. *)
EditSuite ==
  /\ AddCase \/ DropCase
  /\ UNCHANGED <<born, status, rate, at, tries, exec, base, told, lost, cut>>

(* Without cases no run is started, from the page as over the API. *)
Startable == suite > 0

(* start_eval_run or maybe_trigger_memory_eval: the row, then the entry.   *)
(* With the budget gone nothing is created either.                         *)
Start(r) ==
  /\ Startable
  /\ Goto(r, "none", "created")
  /\ born' = [born EXCEPT ![r] = 1 + Cardinality({q \in Evals : born[q] > 0})]
  /\ status' = [status EXCEPT ![r] = "running"]
  /\ UNCHANGED <<suite, rate, tries, exec, base, told, lost, cut>>

Enqueue(r) ==
  /\ Goto(r, "created", "queue")
  /\ UNCHANGED <<rows, status, rate, tries, exec, base, told, lost, cut>>

-------------------------------------------------------------------------------
(* Mutant: a redelivered entry does not look at the row's status. *)
DeliverUnchecked(r) ==
  /\ tries[r] < ArqMaxTries
  /\ Goto(r, "queue", "cases")
  /\ tries' = [tries EXCEPT ![r] = @ + 1]
  /\ exec' = [exec EXCEPT ![r] = [Fresh EXCEPT !.total = suite]]
  /\ UNCHANGED <<rows, status, rate, base, told, lost, cut>>

(* run_eval begins: a run that has ended is left alone. *)
Deliver(r) ==
  /\ tries[r] < ArqMaxTries
  /\ Goto(r, "queue", IF status[r] = "running" THEN "cases" ELSE "done")
  /\ tries' = [tries EXCEPT ![r] = @ + 1]
  /\ exec' = [exec EXCEPT ![r] = IF status[r] = "running" THEN [Fresh EXCEPT !.total = suite] ELSE @]
  /\ UNCHANGED <<rows, status, rate, base, told, lost, cut>>

(* arq drops an entry that was started too often. *)
DropExhausted(r) ==
  /\ tries[r] = ArqMaxTries
  /\ Goto(r, "queue", "done")
  /\ lost' = IF status[r] = "running" THEN lost \cup {r} ELSE lost
  /\ UNCHANGED <<rows, status, rate, tries, exec, base, told, cut>>

InCases(r) == at[r] = "cases" /\ exec[r].graded < exec[r].total

(* The case's job ran: it passes its checks or not. *)
RunCase(r) ==
  /\ InCases(r)
  /\ \E pass \in {0, 1} :
       exec' = [exec EXCEPT ![r].graded = @ + 1, ![r].passed = @ + pass,
                            ![r].ran = @ + 1, ![r].attempt = 1]
  /\ UNCHANGED <<rows, status, rate, at, tries, base, told, lost, cut>>

(* Mutant: the attempts begin again when they are used up. *)
RetryCaseForever(r) ==
  /\ InCases(r)
  /\ exec' = [exec EXCEPT ![r].attempt = (@ % MaxAttempts) + 1]
  /\ UNCHANGED <<rows, status, rate, at, tries, base, told, lost, cut>>

(* A transient provider error: the same case once more. *)
RetryCase(r) ==
  /\ InCases(r)
  /\ exec[r].attempt < MaxAttempts
  /\ exec' = [exec EXCEPT ![r].attempt = @ + 1]
  /\ UNCHANGED <<rows, status, rate, at, tries, base, told, lost, cut>>

EndEarly(r, end) ==
  /\ Goto(r, "cases", "tell")
  /\ status' = [status EXCEPT ![r] = end]
  /\ UNCHANGED <<rows, rate, tries, exec, base, told, lost, cut>>

(* Mutant: a provider that keeps failing is graded as the agent's failure. *)
HaltGrades(r) ==
  /\ InCases(r)
  /\ exec[r].attempt = MaxAttempts
  /\ exec' = [exec EXCEPT ![r].graded = @ + 1, ![r].attempt = 1]
  /\ UNCHANGED <<rows, status, rate, at, tries, base, told, lost, cut>>

(* _halt_on_provider_failure. *)
Halt(r) ==
  /\ InCases(r)
  /\ exec[r].attempt = MaxAttempts
  /\ EndEarly(r, "errored")

(* _refuse_run: the budget is gone before the first case - of an empty     *)
(* suite too - or in the middle.                                           *)
Refuse(r) ==
  /\ InCases(r) \/ exec[r].graded = 0
  /\ EndEarly(r, "budget_exceeded")

(* The run read as the baseline: of the completed ones, the newest. *)
Baseline(r) ==
  LET done == {q \in Evals \ {r} : status[q] = "completed"} IN
  IF done = {} THEN NoRun ELSE CHOOSE q \in done : \A p \in done : born[p] <= born[q]

ReadBaseline(r) ==
  /\ exec[r].graded = exec[r].total
  /\ Goto(r, "cases", "save")
  /\ base' = [base EXCEPT ![r] = Baseline(r)]
  /\ UNCHANGED <<rows, status, rate, tries, exec, told, lost, cut>>

(* passed / total, as the column rounds it; a suite without cases scores 0. *)
Rounded(e) == IF e.total = 0 THEN 0 ELSE (20000 * e.passed + e.total) \div (2 * e.total)

Save(r) ==
  /\ Goto(r, "save", "tell")
  /\ rate' = [rate EXCEPT ![r] = Rounded(exec[r])]
  /\ status' = [status EXCEPT ![r] = "completed"]
  /\ UNCHANGED <<rows, tries, exec, base, told, lost, cut>>

(* Mutant: an equal score is a regression. *)
RegressedLoose(r) ==
  /\ base[r] # NoRun
  /\ 10000 * exec[r].passed <= rate[base[r]] * exec[r].total

(* The rate as computed, not as saved, against the baseline's saved rate. *)
Regressed(r) ==
  /\ base[r] # NoRun
  /\ IF exec[r].total = 0 THEN rate[base[r]] > 0
     ELSE 10000 * exec[r].passed < rate[base[r]] * exec[r].total

Tell(r) ==
  /\ Goto(r, "tell", "done")
  /\ told' = IF status[r] = "completed" /\ ~Regressed(r) THEN told ELSE told \cup {r}
  /\ UNCHANGED <<rows, status, rate, tries, exec, base, lost, cut>>

-------------------------------------------------------------------------------
(* The API process stops between the commit and the entry. *)
StopStart(r) ==
  /\ "stop" \in Faults
  /\ Goto(r, "created", "done")
  /\ lost' = lost \cup {r}
  /\ UNCHANGED <<rows, status, rate, tries, exec, base, told, cut>>

(* What becomes of the job of the open case is JobLifecycle's.             *)
Cut(r, to) ==
  /\ at[r] \in Active
  /\ at' = [at EXCEPT ![r] = to]
  /\ cut' = cut \cup {r}
  /\ UNCHANGED <<rows, status, rate, tries, exec, base, told>>

Stop(r) == "stop" \in Faults /\ Cut(r, "queue") /\ UNCHANGED lost

(* arq's job_timeout ends the entry for good: the suite's jobs each have a *)
(* timeout, the suite has none.                                            *)
Expire(r) ==
  /\ "limit" \in Faults
  /\ Cut(r, "done")
  /\ lost' = IF status[r] = "running" THEN lost \cup {r} ELSE lost

Rest ==
  /\ \A r \in Evals : at[r] = "done"
  /\ UNCHANGED evalVars

Work(r) ==
  \/ Enqueue(r) \/ Deliver(r) \/ DropExhausted(r) \/ RunCase(r) \/ RetryCase(r)
  \/ Halt(r) \/ Refuse(r) \/ ReadBaseline(r) \/ Save(r) \/ Tell(r)

EvalNext ==
  \/ \E r \in Evals : Start(r) \/ Work(r) \/ StopStart(r) \/ Stop(r) \/ Expire(r)
  \/ EditSuite
  \/ Rest

EvalSpec == EvalInit /\ [][EvalNext]_evalVars

(* arq polls its queue, a job has a timeout, an alert is sent or fails. *)
EvalFairSpec == EvalSpec /\ \A r \in Evals : WF_evalVars(Work(r))

-------------------------------------------------------------------------------
(* A pass rate is measured: a run that completed ran every case of the     *)
(* suite it loaded, in one execution, whatever happened to the ones before. *)
HonestRate ==
  \A r \in Evals : status[r] = "completed" =>
    exec[r].ran = exec[r].total /\ rate[r] = Rounded(exec[r])

(* "the only status a baseline is taken from": what an ended run recorded  *)
(* stays, however often its entry is delivered.                            *)
RecordStays ==
  [][\A r \in Evals : status[r] \in Final => status'[r] = status[r] /\ rate'[r] = rate[r]]_evalVars

(* The share of cases run r passed is below that of b; a suite without     *)
(* cases counts as one case that fails.                                    *)
Size(r) == IF exec[r].total = 0 THEN 1 ELSE exec[r].total
Worse(r, b) == exec[r].passed * Size(b) < exec[b].passed * Size(r)

(* The column does not hold the share of b exactly, and the two shares are *)
(* within half a unit of its last place of each other.                     *)
Near(r, b) ==
  /\ (10000 * exec[b].passed) % Size(b) # 0
  /\ 20000 * (exec[b].passed * Size(r)) <= 20000 * (exec[r].passed * Size(b)) + Size(r) * Size(b)
  /\ 20000 * (exec[r].passed * Size(b)) <= 20000 * (exec[b].passed * Size(r)) + Size(r) * Size(b)

Concluded(r) == at[r] = "done" /\ status[r] \in Final
Below(r) == base[r] # NoRun /\ Worse(r, base[r])
Close(r) == base[r] # NoRun /\ Near(r, base[r])

(* A pass rate below that of the run it is compared with alerts the team,  *)
(* and so does a run that stopped early; an equal or better one does not.  *)
(* Two rates that only the column's rounding tells apart may be taken      *)
(* either way, and a run that was cut may miss its alert.                  *)
AlertsMatch ==
  \A r \in Evals : Concluded(r) =>
    /\ r \in told => status[r] # "completed" \/ Below(r) \/ Close(r)
    /\ status[r] # "completed" \/ (Below(r) /\ ~Close(r)) => r \in told \cup cut

(* "a pass rate below the last completed run for the same agent version    *)
(* alerts the owning team", to the last place: nothing is excepted for     *)
(* the rounding of the baseline.                                           *)
AlertsExact ==
  \A r \in Evals : Concluded(r) =>
    /\ r \in told => status[r] # "completed" \/ Below(r)
    /\ status[r] # "completed" \/ Below(r) => r \in told \cup cut

(* The alert of a rate below the baseline goes out, also when the run was  *)
(* cut.                                                                    *)
RegressionTold ==
  \A r \in Evals : Concluded(r) /\ status[r] = "completed" /\ Below(r) => r \in told

(* A started run ends with one of its statuses, unless its entry is gone:  *)
(* never put on the queue, stopped too often, or beyond arq's time limit.  *)
Ends == \A r \in Evals : status[r] = "running" ~> status[r] \in Final \/ r \in lost

===============================================================================
