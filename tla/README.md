# A verification project for Sleeper Service

Sleeper Service runs LLM agents as jobs: clients submit work over a REST API or
a web UI, an arq queue in Redis hands it to workers, a runner executes it
against a model provider, and results go out as signed callbacks. State lives
in PostgreSQL rows that many processes read and write in separate transactions.
This directory holds TLA+ models of that behaviour, TLC runs over small
instances, and TLAPS proofs for every value of the constants. Paths below are
relative to `src/src/sleeper_service/` unless they start with `src/`.

## Inventory of the system

| Component | State | Operations | Correct when |
|---|---|---|---|
| Job API (`api/v1/jobs.py`) | `jobs`, `job_events`, idempotency keys | submit (also synchronous), list, retry | one job per key; an accepted job has something that runs it; only failed jobs are retried |
| Worker (`worker.py`, `queue.py`) | arq entries, their `job_try` | `run_job`, `deliver_callback`, `fold_feedback`, `run_eval`, hourly `cleanup` | backoff is bounded, an exhausted job is dead-lettered, a tenant's cap holds, nothing is dropped silently |
| Runner (`runtime/runner.py`) | the job row, pins of prompt and memory versions | `execute_job`, `_finalize`, `mark_job`, `_handle_cancellation` | a row moves only along the documented statuses, one execution at a time, one set of instructions per run |
| Memory (`runtime/memory.py`, `api/v1/memory_admin.py`) | `memory_versions` | `write_memory`, `latest_memory`, approve, roll back | governed agents change memory only by approval; a rejected version is not injected and does not come back |
| Work items (`runtime/work_items.py`, `api/v1/work_items.py`) | `work_items` | escalate, resolve | an item is decided once; an approval item is open exactly while its version is pending |
| Learning (`runtime/learning.py`, `api/v1/feedback.py`) | `feedback` | vote, `fold_feedback` | every vote reaches memory, once |
| Delegation (`runtime/delegation.py`) | `jobs.parent_job_id` | `call_agent` | chains are short and acyclic, a call does not outlive its caller, no child is left behind |
| Callbacks (`runtime/callbacks.py`) | `callback_delivered` and `callback_failed` events | deliver, abandon | each delivery ends and leaves a trace; the newest result arrives |
| Evals (`runtime/evals.py`, `api/v1/evals.py`) | `eval_cases`, `eval_runs` | start, run, refuse, halt, alert | a recorded rate was measured; a regression is reported, an equal score is not |
| Agents and versions (`api/v1/agents.py`, `api/v1/versions.py`, forms of `ui/routes.py`) | `agents`, `agent_versions`, `version_aliases` | create, archive, restore, delete, settings, new version, promote, alias | versions are immutable, no pointer dangles, owners decide what is current and what is governed |
| System prompts (`runtime/system_prompts.py`) | `prompt_versions` | publish, read the live ones | numbers are unique, one live version per scope |
| Events ingress (`api/v1/events.py`) | event sources, idempotency keys | wire, unwire, submit from a source system | as for the job API; a wired agent exists |
| Authentication, roles, tenants, teams (`auth/`, `api/v1/users.py`, `api_keys.py`, `teams.py`, `tenants.py`, `oidc.py`, `ui/oidc.py`) | `users`, `api_keys`, `team_members`, identity providers, browser sessions | sign in, resolve a principal, check a role, issue and revoke keys, create and change all of these | a team keeps an owner, a provider's session stays within its tenant, cutting a person off leaves no live key |
| Registries (`api/v1/data_stores.py`, `mcp_servers.py`, `models.py`, `provider_creds.py`, `runtime/toolsets.py`, `runtime/providers.py`) | stores, servers, models, credentials; the grants of a version | register, change, delete, publish, resolve at set-up | a run gets exactly the tools its version grants, in its tenant, and a credential of the right scope and provider; a used model stays |
| Spending (`runtime/spending.py`) | sums of `jobs.cost` | `budget_exhausted`, the check between calls | the month's spend stays near the limit |
| Retention, files (`runtime/retention.py`, `api/v1/files.py`, `storage.py`) | payloads, `files`, objects | upload, expire, prune | a file's row has its object, what has expired goes |
| Notifications (`runtime/notify.py`, `api/v1/notif_channels.py`) | dedup keys in Redis, channels | `check_error_rate`, `notify`, create and delete channels | at most one message per window and event, none without cause, none missing without a fault |
| Hooks, screening (`runtime/hooks.py`), links, sandboxes | none | pre- and post-run hooks, templates, signed URLs | functions of their inputs |
| UI (`ui/routes.py`) | none of its own | forms that mirror the API, pages that read | the guards of the API, or the differences are deliberate |
| CLI, configuration, demo | none at run time | start-up, one-shot commands | |

How they interact: the API commits a row and then enqueues an arq entry (two
systems, no transaction over both). A worker starts an entry by counting it
(`job_try`), runs `execute_job`, and enqueues a `deliver_callback` entry when
it returns. `execute_job` reads and writes the row in several sessions, resolves
grants and a credential, calls providers, writes memory and opens work items,
and asks for an alert when it has failed. Delegated children run inside the
caller's task; eval jobs run inside the task of `run_eval`; a synchronous
submission runs inside the API request. A deploy stops workers: tasks are
cancelled, arq delivers their entries again. Owners edit prompts, approve
memory, resolve items, change roles and delete rows while all that runs, and an
hourly pass prunes what is old.

What is hard here: read-then-write across transactions (cap, retry, owners,
version numbers, work items, budgets), redelivery of entries whose effect has
partly happened, the commit-then-enqueue, put-then-commit and claim-then-send
windows, cancellation arriving at any await, several limits on tries that count
the same thing, pins taken at one attempt and used at another, grants that are
names looked up long after they were checked, and a saved number that is not
the number compared. `PROJECT.json` lists these hazards at their lines.

## Plan

The order in which the modules were written, most important behaviour first:

1. `JobLifecycle` (API, queue, worker, runner) with `JobRow`, the abstract
   specification of the row that it implements.
2. `MemoryGovernance` (memory, work items, learning); `Delegation` (jobs inside
   jobs); `CallbackDelivery` (what follows the end of a job).
3. `EvalRuns`, `AgentCatalog` (the forms of the pages beside the API).
4. `Access` (users, keys, roles, sessions, teams, tenants), `Registry`
   (connections, models, credentials and the set-up that resolves them),
   `JobRecords` (costs, files, retention), `Alerts`.
5. Proofs: a module beside each component, and two that each hold the proofs of
   two small ones (`ReportProofs`, `LearningProofs`).

What is left: deduplication of alerts and callbacks in one composition (the
alert of `_finalize` comes before the callback is enqueued, `runner.py:634`);
`CallbackDelivery` over `JobLifecycle`'s row instead of its own abstraction of
it; prompt publishing; the login limiter; the pure algorithms (eval checks,
template rendering, the policy on destinations in `outbound.py`).

Composition: `JobLifecycle` instantiates `JobRow` (`INSTANCE JobRow WITH` the
statuses of its rows) and `RowSpec` is the property that it implements it,
checked by `job_redelivery` and proved by `RowImplemented`.
The other modules are separate abstractions of the same database, cut where
their state meets: `Delegation` keeps one execution per job and adds the tree,
`CallbackDelivery` keeps only "how often queued, has ended", `JobRecords` the
columns a status does not determine, `Alerts` the ends that count, `Registry`
the pin and the set-up, and `Access` the principal that every other module takes
as given.
## Modules

A module's header says what it stands for; `PROJECT.json` maps every definition
to the lines it models. The `MC*` modules add only symmetry sets, the values of
structured constants and two state constraints. Operators marked "Mutant" are
plausible bugs of the definition that follows them, each of which one property
of a run detects.

### JobLifecycle, JobRow

Processes are arq *entries* (`run_job`), *submitters* (`submit_job`, possibly
synchronous) and *retriers* (`retry_job`). Each has a program counter `pc`; one
action is one transaction or one await. `Load`, `Begin`, `SetupDone`,
`LoopEnds`, `LoopTransient`, `LoopFallback`, `Finalize` are `execute_job`
between its awaits; `Admit`, `Defer`, `Backoff`, `DeadLetter`, `Callback` are
`run_job`; `Lookup`, `Insert`, `InsertConflict`, `Accept`, `RefuseOverBudget`,
`Enqueue`, `FailSync` are the submission, `RunForm` the form of the pages;
`RetryLoad`, `RetryCommit` the retry. `Deliver`, `DropExhausted`, `Ack`, `Leave`
are arq. Faults: `Shutdown` (task cancelled, `_handle_cancellation`), `Crash`,
`Unhandled` (an exception outside the `try`), `ApiStop` (the API process stops).
`HandBack` is what a
shutdown does to a row in its loop: back to queued, so that the next attempt
pins prompts again.
History variables: `used` (the prompts of the attempts since the row was last put
to queued), `notified`, `lost` (jobs whose deliverer a fault took away). The module is about top-level jobs;
children are `Delegation`'s. An eval job whose memory is pinned in advance is
not among its jobs.

`JobRow` is what a reader of the row is promised: absent, queued, running, one
end, back to queued only by a retry of a failed job or a hand-back.

### MemoryGovernance

Versions of one agent's memory, the inbox items, and the processes over them:
runs that propose a document (`update_memory`), folds of votes (`FoldRead`, then
`Number` and `Insert` of `write_memory`), reviewers (`LoadItem` or
`LoadVersion`, then `DecideMemory`, `DecideEscalation` or `Conflict`, with the
status they loaded, because the locking SELECT returns the loaded object),
rollbacks, and jobs that pin a version on a first attempt and use it on later
ones. A vote is cast before it is folded: the look-up of an earlier vote and the
INSERT are two steps. Whether a writer is gated is a constant: the agent's
`memory_approval` for runs, and the feedback rule for votes. Writers and version
numbers are finite, so the system really stops (`CHECK_DEADLOCK FALSE`).

### Delegation

A forest of jobs. `CallAgent` creates a child and runs it inside the caller's
loop; `at` is where each execution is ("start" before the first commit, "setup"
until the loop, "loop", "post" until `_finalize` commits), `by` whether an arq
entry or the caller's task runs it. `Timeout` cancels what is inside, `Shutdown`
everything. arq counts the starts of an entry (`starts`): a transient error
backs off below `JobMaxTries`, and `DropExhausted` is arq taking an entry off the
queue after `ArqMaxTries` starts, whatever its row says. `MeetCancel` is the execution meeting its cancellation: inside the
loop `_handle_cancellation` applies, elsewhere the row stays as it is. `above`
is what `_ancestry` walks; `Roots` bounds the ids clients submit under.

### CallbackDelivery

Entries of `deliver_callback`, each a small machine: `Deliver` (counts the try),
`ReadRow` (builds the payload from the row as it is), `Rejected`, `Post` (2xx,
or a failure after which the receiver may have the body all the same),
`Record`, `Backoff`, `GiveUp`, `Abandon`. `Finish` and `Requeue` are the job
ending and being retried; `Stop` a worker stopping.

### EvalRuns

Runs of one agent version's suite. `Start` and `Enqueue` create one, `Deliver`
begins (status guard, cases loaded), `RunCase`, `RetryCase`, `Halt`, `Refuse`
are the loop over cases, `ReadBaseline`, `Save`, `Tell` its end; `EditSuite`
changes the number of cases; `Cut` is a shutdown, a crash or arq's
`job_timeout`. `rate` is the column, `Numeric(5, 4)`, in ten-thousandths;
`Regressed` compares the quotient as computed with the column of the baseline, which
is why `AlertsMatch` lets two rates go either way that only the rounding tells apart
(the baseline's is not exact and they are within half a unit of the last place); a
suite that was emptied meanwhile has rate 0, which is a regression from any rate above 0.
The names that most modules share carry a prefix here and in `CallbackDelivery`
(`EvalSpec`, `CallbackSpec`, ...), so that one proof module can extend two models.

### AgentCatalog

One agent: the row (`agent`, `options`, `current`), its versions (`author` stands
for the content of version n), the aliases, the event source that targets it and
the version each job row pins. A client has one request at a time. A request
that reads and later writes is two or three actions (`OpenPromote`, `Promote`;
`OpenVersion`, `Number`, `InsertVersion`; ...); the rest write what does not
depend on what they read and are one. `held` is what the request loaded. An
UPDATE that SQLAlchemy sends has only the columns whose value differs from the
loaded one (`Sent`): a promotion to the version that was current when the
request began writes nothing. Foreign keys and the unique constraint are guards.
The forms (`CreateAgentForm`, `OpenVersionForm`, `OpenSettingsForm`) differ from
the routes where their guards do: a form is closed on an archived agent, and
creates an agent together with its first version. History variables: `chosen`,
what the last promotion left current, and `stale`, the versions added since by
requests that had found none and so took themselves for the first. Options are two bits, the keys
owners govern and the others. Names, spending limits, model and grant checks only
refuse requests and are left out.

### Access

A request resolves its principal (`ArriveUi`, `ArriveApi`): a snapshot of the
caller's roles, confined to the provider's tenant when the session came from an
identity provider (`RolesOf`). It then runs one handler, in one step when the
handler decides and writes without an await that matters, in several ("count",
"commit"; "put"; "cut") when it reads, awaits and writes; `seen` is whom it
counted. A key is a row of a kind ("user", "invoke") with its user or its scope and
team; revoking keeps the row. The guards are the
role checks of `auth/rbac.py` and of the pages, one operator each (`Owns`,
`MemberOf`, `TenantAdmin`, `Sees`, `OwnerPage`, `AdminPage`). `Refuse` stands for
every refusal. A page's read is a step that shows a team ("shown"), so that a
confined session's reads are checked and not only its writes. `Given` and `Issued`
bound the memberships and the invoke keys that requests ask for. A tenant exists
with its org-wide team; every team is taken to have one agent; an address is one
of the spellings of a mailbox, because the pages lower it and `POST /users` does
not.

### Registry

Connections, models and credentials are rows that appear and go; what a row says
is a constant function of it (`Conn`, `Model`), so a row that is deleted and
created again under the same name is another row. A version holds a model and a
sequence of grants, names or ids checked when it is published and looked up again
by each run: `ReadCred` and `ReadGrant` are one SELECT each, the credential scope
by scope, the connections grant by grant, servers before the others
(`ServersFirst`; `left` is the set of grants still to be read), while requests go on. Deletion of a model
counts the versions that use it, of a connection on the pages the current
versions that grant it. `seen` and `kept` record what was there at some time,
and all the time, of each set-up.

### JobRecords

What a row keeps besides its status. A run reads the month's budget
(`Preflight`), begins, loads its content, calls the model (`Call`) at most
`MaxCalls` times, and is stopped between calls when its price has reached what was
left. What is compared and what is recorded are two numbers: the price is the
table's (`Prices`, nothing for a model it does not know), while the row gets what
the provider charged where that is known (`Charges`): `kind` says of each job
which it is ("table"; "unpriced"; "aggregator", an OpenRouter model; "decision",
one call that is not iterated over). A cost is recorded only when the loop returns
or is stopped over budget (`FinalizeUsage`). Uploads put an object and then commit a row; the hourly pass removes
objects one by one, deletes their rows in one commit, prunes old payloads, and may
fail at each of these. Days pass (`Tick`), a month turns at `MonthStart`.

### Alerts

`Finalize` commits a run's end; a failed one checks the error rate over the newest
runs that count (`Check`), claims the event's key in Redis (`Claim`, `SET NX EX`), looks
the channels up and checks each destination again (`Look`), and sends. Work items
call the same with a key of their own. Keys run out at any time (`Expire`), also
under a slow send; channels come by API and form and go; sends fail and workers
stop. Other alerts call `notify` as these do and are not repeated.
## Runs

| Run | Instance | Shows |
|---|---|---|
| `job_faults` | two submissions with one key (one synchronous), a retry, three entries, cap 1, every fault | `LiveOwed`: a live job has a deliverer or a named fault lost it. `CallbackOwed`: a reportable end has a process that will report it. `OneJobPerKey`: both submissions are answered with one job |
| `job_exclusive` | two jobs (one synchronous), one retry, three entries, prompts change, no faults | `OneRun`: a job runs in one deliverer. `OneInstruction`: attempts of a run have the same prompts, over backoffs and fallbacks. `NoFaultNoLoss`: the limits on tries alone lose nothing |
| `job_redelivery` | two jobs, shutdowns, crashes, exceptions, no retry | `RowSpec`: the rows implement `JobRow` although entries are redelivered. `OneInstruction` over crashes and shutdowns: prompts change only with a row that was handed back. `Completes`: every job ends or a fault lost it |
| `memory_governance` | a gated run, a gated and an ungated vote on one job, two reviewers, a rollback, a job, an escalation, two versions | `ItemTracksVersion`, `ApprovalGoverns`, `RejectedIsFinal`, `MemoryDecidedOnce` |
| `delegation` | one tree of four jobs of four agents, depth limit 3, two starts of an entry, all faults | `DepthBounded`, `NoCycle`, `CallerWaits`, `LiveRuns` |
| `callback_delivery` | two deliveries, a job queued twice, two tries, stops | `Accounted`, `NoSilentDrop`, `NewestReported`, `Settles` |
| `eval_runs` | two runs, a suite of none, one or three cases that is edited, two tries, stops and the time limit | `HonestRate`, `RecordStays`, `AlertsMatch`, `Ends` |
| `agent_catalog` | one agent, two owners, two version numbers, one alias, one job | `PointersResolve`, `Runnable`, `VersionsImmutable`, and `PromotionStands`: only a first version whose request began before there was one displaces a promotion |
| `access` | the founder and a user, two tenants, three teams, three keys, a browser, two requests at once, a tenant with an identity provider | `OwnerKept`: a team's last owner goes only to a reading that is out of date, or to the add-member form. `Confined`: a provider's session changes and shows its own tenant and its user's own keys only |
| `registry` | a superuser and an editor, two stores of one name, a server of that name, a store of another tenant, three models, two versions, one job, four changes | `RunFaithful`: the tools of a run are those its version grants. `KeyFaithful`: its credential is of the right provider and the narrowest scope. `ModelKept`: a used model stays registered |
| `records` | two jobs of any kind of price, three calls, one file, two slots, limit 2, four days, one failure | `SpendBounded`: a limit and a call for every slot where the table prices the model, the limit and a run for every slot in all. `FilesHonest`, and `ExpiredGoes` under fairness of the pass |
| `alerts` | three jobs and a request for a human, two channels (one refused at send time), a window of two, one key that runs out, faults | `NoRepeat`, `AlarmJustified`, and `Told` under fairness of the calls |

Types are proved rather than checked: `TypeOK` of every module (`EvalTypeOK`,
`CallbackTypeOK`) is a theorem below, or a conjunct of one.

### Bounds

Every hazard in the list needs at most two processes on one row plus a
redelivery: two submissions or a retry beside an entry, a third entry for what
they enqueue, two tries so that there is a first and a last one, two prompt
versions so that a change shows. Delegation needs a chain as long as the limit
allows and one agent more than that, so that a limit off by one and a cycle would
show, and two starts so that an entry comes back and is dropped. The catalog needs two requests under way and two version numbers: the
second is the first that does not promote itself, and two requests can compute
either. Both clients are owners: what an editor may do an owner may. Two memory versions are enough for a version to be decided while another
is numbered. Evals need a redelivery after each point, and two runs so that there
is a baseline; suites of none, one and three cases have rates the column holds
exactly and rates it rounds. Access needs two
tenants so that a session can leave its own, two people so that an owner can
go, and two requests so that what one has read changes before it writes. The registry
needs a name that two rows share and that changes hands during a set-up:
`MaxChanges` = 4 is a creation, a deletion, a second creation and a publication.
The alerts need one failure before and one after a key has run out. The theorems
below remove the bounds for what they cover.

Bounds that are not the code's: `MaxPrompt`, `MaxVersion`, `MaxRuns`, `MaxNo`,
`Roots`, `Providers`, `Given`, `Issued`, `Grants`, `MaxVersions`, `MaxChanges`,
`MaxCall`, `LastDay`, `MaxCrashes`, `LastJob`, `MaxExpiries`, `MaxEdits`, and the
finite sets of ids. `MaxTries`, `JobMaxTries`, `ArqMaxTries`, `MaxDepth`, `MaxAttempts`, `MaxCalls`,
`Cap`, `Limit`, `Retention`, `Ttl`, `Window`, `MinSample` are settings of the code with
small values; `Slots` is how many runs of an agent its callers have under way.

Symmetry is declared only in runs without a liveness property. Two runs have a
state constraint: a state outside it is checked but not explored further.
`delegation` follows one retried child at a time that is queued or executing
(`OneRetried`); the theorems have any number. `records` has `Apart`: a pass or an
upload under way meets at most one job and no cost, call or kind of price but the
first; costs are followed up to the day the month turns and without failures. Costs
and content are different fields that no action relates, and no property speaks of
both, so each half is explored on its own. For `ExpiredGoes`, a behaviour that
leaves the constraint only adds jobs and costs, which change neither what a pass
does to a file nor when it prunes a payload.

`CHECK_DEADLOCK FALSE` is said where the system really stops:
`MemoryGovernance` has finitely many writers, nothing follows the deletion of the
agent of `AgentCatalog`, and after `MaxChanges` changes no request is sent in
`Registry`.

### Fairness

Weak fairness on the steps of an entry, a request, a delivery, a run of a suite,
a call of `notify`, and on the pass of the cron: arq polls its queue and its
schedule, every await returns because the loop is under `asyncio.timeout`, the
HTTP client has a timeout of 10 s, the look-up and the send of an alert have
theirs, and an alert is sent or fails. There is no fairness on clients, owners,
prompt changes, days or faults, and none on which result an execution has.

## What the code does otherwise than it says

Each of these configurations has one property that a comment or a document of the
repository states, and TLC finds it violated. They are kept beside the runs and
are not part of them: `tlc -config <cfg> <MC module>` shows each (`Alerts` and
`CallbackDelivery` have no MC module of their own).

* `JobLifecyclePrompts.cfg`, `PinsKept` (runtime/runner.py:275):
  runtime/runner.py:275 says 'A re-entry (the worker's transient-error retry, a
  worker restart) finds the job already running and keeps them, so every attempt
  of a run gets the same instructions.' _handle_cancellation (runner.py:664) sets
  a job that a worker shutdown cancels back to 'queued', so the attempt after the
  restart pins the prompts that are live then: two attempts of one run use two
  versions. After a crash the row is still running and the pins stay.
* `JobLifecycleCap.cfg`, `CapHolds` (worker.py:92): src/docs/BUILD_PLAN.md:126
  speaks of 'per-tenant worker concurrency caps'; _tenant_at_capacity counts
  running rows in a session of its own and execute_job writes 'running' in a
  later one, so deliveries that check together all pass and the tenant runs
  more jobs at once than max_concurrent_jobs.
* `JobLifecycleCapRetry.cfg`, `Completes` (worker.py:108): runtime/runner.py:5
  says 'the arq worker retries with backoff (dead_letter after max tries)'. A
  transient error leaves the row 'running' (worker.py:46), and
  _tenant_at_capacity counts that row too: at max_concurrent_jobs = 1 the
  redelivered job sees a running count of one - itself - and run_job defers it
  every 10 s, never retrying, never dead-lettering, and holding the tenant's
  only slot.
* `JobLifecycleTwoRetries.cfg`, `OnlyFailedRetried` (api/v1/jobs.py:386):
  api/v1/jobs.py:388 says 'Only failed jobs can be retried'. retry_job checks
  the status it loaded, without a lock, and writes 'queued' later: of two
  concurrent retries the slower one re-queues a job the faster one has already
  run to success, and erases its output.
* `JobLifecycleReports.cfg`, `EndsReported` (worker.py:47): src/README.md:127
  says 'Results push, don't poll. Workers deliver HMAC-signed callbacks with
  retries'; run_job returns at worker.py:47 after a dead letter, before
  deliver_callback is enqueued, so a submitter with a callback_url is never
  told that its job ended.
* `MemoryApproval.cfg`, `ApprovedIsInjected` (runtime/work_items.py:99):
  api/v1/memory_admin.py:4 says 'Approve to make it the injected version'.
  Approval sets the status only, and latest_memory injects the active version
  with the highest number: a pending version approved after a newer one is
  never injected.
* `MemoryRejected.cfg`, `RejectedNeverInjected` (runtime/runner.py:265):
  db/models.py:363 says 'rejected: never injected (also how rollback retires a
  version)'. execute_job injects the version pinned on the job row whatever its
  status is by then, and the pin of a first attempt stays on the row: a retry
  after a rollback injects the retired version.
* `MemoryVotes.cfg`, `VotesFolded` (runtime/learning.py:195):
  runtime/learning.py:5 says 'A background job folds the vote into memory'.
  fold_feedback reads the current document in one session and writes a new one
  in another: of two votes folded at once one task ends with an IntegrityError
  on (agent_id, version_no), or its document, built on the stale one, drops the
  other's lesson.
* `MemoryBallots.cfg`, `OneVotePerJob` (api/v1/feedback.py:40):
  api/v1/feedback.py:5 says 'One vote per job'. submit_feedback (and the page's
  form, ui/routes.py:3478) looks for a vote on the job before it inserts one,
  and the table has no unique constraint on job_id: two votes cast at once are
  both recorded and both folded into the memory.
* `DelegationStranded.cfg`, `NoneStranded` (runtime/runner.py:423):
  runtime/runner.py:462 says 'Cancelled from outside. CancelledError is
  BaseException, so without this clause the job would be stranded in `running`
  forever.' The try it belongs to begins at the loop (line 423): a caller's
  timeout that cancels a child while it is still being set up, or in _finalize,
  leaves the child's row queued or running with nothing on the queue.
* `CallbackResults.cfg`, `ResultsOnly` (runtime/callbacks.py:82):
  src/README.md:333 says 'result arrives at your callback, HMAC-signed'. The
  payload is built from the row at delivery time: a delivery in backoff while
  the job is retried posts status queued or running with no output.
* `EvalRounding.cfg`, `AlertsExact` (runtime/evals.py:364): runtime/evals.py:24
  says 'a pass rate below the last completed run for the same agent version
  alerts the owning team'. The rate is compared as the unrounded quotient with
  the baseline as the column holds it, Numeric(5, 4): 2/3 = 0.66666... is below
  the saved 0.6667, so a run that scores what its baseline scored is reported
  as a regression.
* `EvalAlertLost.cfg`, `RegressionTold` (runtime/evals.py:362):
  runtime/evals.py:24 says 'a pass rate below the last completed run for the
  same agent version alerts the owning team'. The run is committed as completed
  (line 362) before notify (line 367): when the worker stops in between, the
  redelivered entry returns at once (line 254) and nobody is alerted.
* `AgentCatalogPromotion.cfg`, `PromotionKept` (api/v1/versions.py:95):
  api/v1/versions.py:3 says 'Editors create versions; owners promote (repoint
  current_version_id ...)'. create_version tests the current pointer it loaded
  at the start of the request: an editor's request that began before the
  agent's first version promotes its own version over one an owner has promoted
  since.
* `AccessRace.cfg`, `OwnerAlways` (api/v1/teams.py:166): api/v1/teams.py:172 says
  'Every team must keep at least one owner'. The owners are counted without a
  lock and the row goes in a later statement: two requests at once that demote
  or remove the two last owners leave the team without one. So does one request of
  the page's add-member form (ui/routes.py:1181), which sets the role of a user
  who is a member already without the check of ui/routes.py:1206.
* `RegistryDangling.cfg`, `PageDeletesSpare` (ui/routes.py:2592):
  ui/routes.py:2588 says 'while a dangling grant on a version nothing
  dispatches to cannot break a run'. _versions_granting counts only current
  versions of agents that are not archived: a version an alias points at, one a
  submission names, and the version a queued job has pinned are dispatched to
  as well, and their runs fail with an unknown connection.
* `JobRecordsCosts.cfg`, `CostsRecorded` (runtime/runner.py:598):
  runtime/spending.py:4 says 'cost accrues on job rows and rolls up by
  summation'. usage is known only when the loop returns or is stopped over
  budget: a timeout, an exception and a transient error record nothing for the
  calls made, and the next attempt's cost replaces the one before.
* `JobRecordsBroken.cfg`, `NoneBroken` (runtime/retention.py:74):
  runtime/runner.py:463 says of the clause around the loop that without it 'the
  job would be stranded in `running` forever'. The pass prunes by age whatever
  the status: the payload of a job that is still queued, or is retried, has no
  prompt, the look-up at line 344 raises before the try, and so does a file
  whose object a pass has removed and whose row it has not deleted yet.
* `AlertsSilenced.cfg`, `AlertedInWindow` (runtime/notify.py:41):
  runtime/notify.py:42 says of the caller that finds the key 'already alerted
  inside the window', and work_items.py:177 tells the agent that 'the owning
  team was notified'. The key is set before the channels are looked up and the
  message is sent, and it stays when the send fails, the worker stops or no
  channel listened: the alerts of the next 15 minutes are skipped although
  nobody was alerted.

Two statements are weaker in the properties than in the comments, and have no
configuration of their own. ui/routes.py:206 says of a session that a tenant's
provider opened that it does not carry the user's roles in other tenants;
`Confined` excepts the keys of the session's own user, because the account page
(ui/routes.py:4015, 4027) issues and revokes them in every session, and such a key
has all the user's roles. runner.py:434 says that a job 'is bounded by $' as well:
that is so on models the table prices. The number compared is nothing on a model
without a price, and not what is recorded where the provider's charge replaces it,
and a decision is not compared at all: there the calls are the bound, as the
comments of `_calc_cost` (runner.py:180) and `_finalize` (608) say of the first
case. `SpendBounded` has both bounds.

## Proofs

TLAPS checks these for every value of the constants that the `ASSUME`s allow
(which fault sets, which scopes, positive limits, distinct markers; TLC
evaluates them in every run):

* `JobLifecycleProofs`: `TypeCorrect`; `NeverForgotten` (`LiveOwed`);
  `NeverUnreported` (`CallbackOwed`); `NothingLost` (`NoFaultNoLoss`);
  `KeyHonoured` (`OneJobPerKey`). `LiveOwed` and `CallbackOwed` are inductive over
  the types: each early return of `run_job` and `execute_job` is one step of the
  proof, and shows the deliverer that takes over. `NoFaultNoLoss` is not: that
  arq's own limit is never reached needs the invariant that an entry waiting for
  its next try has tries left (`NoFaultInv`). `OneJobPerKey` needs what a
  submission holds before it answers: the rows with the key are one row, and
  whoever carries the key and has a row has that one (`KeyInv`).
  `OneAtATime` (`OneRun`), `RowImplemented` (`RowSpec`) and `SameInstructions`
  (`OneInstruction`) assume `OneDeliverer`: either no worker stops or crashes and
  at most one request retries, or nothing is retried and no cap defers an entry.
  Nothing is claimed beyond it: `JobLifecycleTwoRetries.cfg` shows what two
  retries of one job at once do. The instances of `job_exclusive` and
  `job_redelivery` satisfy it. The invariant is `OneInv`: no two processes hold one
  job, where to hold is to run it or to be an entry that arq may make run it
  (`Sole`), and the row is as its holder takes it to be (`Agrees`). A step then
  either hands a job from one holder to another (`HandOver`) or belongs to one
  holder and writes only its row (`StepOf`), and such a write is a move of `JobRow`
  (`RowStep`). `PromptInv` adds that the prompts pinned on a running row are those every
  attempt has used since the row was last put to queued: that a shutdown puts it
  there is the row's business, not an assumption.
* `LearningProofs`, of `MemoryGovernance`: `InboxFaithful`, `Governance`,
  `RejectionFinal`, `DecidedOnce`. The two invariants are inductive together with
  `InProgress`, what processes hold between a read and its write: a rollback never
  holds a pending version, an insert holds a number, a gated version exists, a
  number not taken has no item. The two action properties follow from it and the
  guard `Admits`, although reviewers decide on what they loaded earlier.
* `LearningProofs`, of `EvalRuns`: `EvalTyped`, `RatesHonest`, `RecordsStay`,
  `AlertsRight` (`AlertsMatch`). While a run is under way its row says running
  (`Open`) and the cases run are the cases graded; at the save they are all
  (`Counts`). `EvalTyped` has that a rate is one the column can hold. `AlertsRight`
  is for suites of every size. The invariant `Verdict` says of each
  run that its baseline, once read, is a completed run (`Based`, which therefore
  keeps its record), that the last thing it does before it is over is to tell
  (`Placed`), and that it told only where an alert may go out, and told or was cut
  where one must (`Judged`). What is left is the arithmetic of rounded quotients: how far a
  rate is from its quotient (`RateBounds`), what a comparison with one says
  (`Compared`), and so what `Regressed` means (`RegressedMeans`).
* `DelegationProofs`: `ChainsBounded`, `ChainsAcyclic`, `LiveRowsRun`,
  `CallersWait`. The induction needs the shape of the forest (a chain is the
  caller's chain and the caller; a row that does not exist is in no chain) and
  what executions hold. `LiveRowsRun` covers the entry that arq drops: its row is
  counted as stranded in the same step. `CallersWait` rests on `InsideClosed`: what is inside
  an execution contains the callers of what is inside, so a timeout that cancels
  all of it leaves no call without its caller's loop.
* `ReportProofs`, of `CallbackDelivery`: `CallbackTyped`, `AlwaysAccounted`,
  `NeverDroppedSilently`, `NewestAlwaysReported`. A delivery nobody stopped under
  has tries left while it waits (`Unexhausted`), what is about to be recorded has
  arrived (`Arrived`), and while the row has ended some entry will read it as it is
  now or carries it already (`Owed`), which is what a retry between two deliveries
  could break.
* `AgentCatalogProofs`: `PointersAlwaysResolve`, `AlwaysRunnable`,
  `NeverMutated`, and `PromotionAlwaysStands`, for any number of owners and
  editors. The invariant adds to the properties what requests hold while they
  are under way: while the agent is there a held version exists, a number
  computed from the largest leaves no gap below it, and a current version once
  seen stays set (`Holds`); an agent that is absent or gone has no rows
  (`Nothing`). For the last theorem, what the last promotion left is current
  but for a late first version, and on an agent born with its first version no
  request takes its own for the first (`Steady`). That a deleted agent's requests cannot leave a dangling pointer is
  the part a test would hardly reach: it needs a request of each kind between its
  two steps.
* `AccessProofs`: `SessionsConfined` (`Confined`), for any number of requests at
  once. The principal of a confined session has no role outside its tenant, and
  what its request holds between a read and a write is of that tenant (`Narrow`);
  the proof then goes handler by handler, API and page. `Signed` says that a
  user's key and a session have a user.
  `OwnersStay` (`OwnerKept`) is for any number of requests too. A request that is
  about to take an owner counted another (`Loaded`), so that the team loses its last
  one only when what was read has changed since; that no handler writes a role or
  counts owners but on the paths the property names is gone through handler by
  handler (`Paths`, `RoleWrites`).
* `RegistryProofs`: `TypeCorrect`, `ToolsFaithful` (`RunFaithful`), `KeysFaithful`
  (`KeyFaithful`), `ModelsStay` (`ModelKept`). A run reads three scopes and then
  its grants while rows come and go. The invariant is about rows (`RowsInv`: a
  request between its checks and its commit holds a row of the right kind, a model
  that a version uses is live) and about each run (`JobInv`): the rows it relies on
  were there throughout its set-up, and those it met were there at some time of
  it (`Window`); the scopes it passed over had no lasting credential (`Asking`);
  what it has no tool for is still to be looked up (`Looking`). A change of a row
  disturbs no run (`StoredStep`), a run disturbs no other (`Others`).
* `JobRecordsProofs`: `TypeCorrect`, `MonthsBounded` (`SpendBounded`),
  `FilesStayHonest` (`FilesHonest`). What a month's rows show is not inductive: it
  jumps when a run ends. So each run under way is charged from its beginning with
  the most it can write (`Due`), and rows and charges together (`Load`) stay below a
  ceiling (`Committed`). There are two such accounts: of all jobs, where a run weighs
  its calls, and of those the table prices, where it weighs what it found left and a
  call. A run that begins is the only step that adds a charge;
  it read a month whose rows left what it may spend, and the other runs under way
  are fewer than `Slots` (`BeginStep`). Every other step writes at most what was
  charged (`NoHeavier`). The sums are the library's `SumFunctionOnSet`. Its
  induction theorems with a predicate as parameter cannot be used here, so the
  facts about sums are proved by induction over a set of numbers (`NaturalsAll`)
  and a set of sets of jobs (`SubsetsAll`), from a least counterexample.
* `ReportProofs`, of `Alerts`: `AlertsTyped`, `NeverRepeated` (`NoRepeat`),
  `AlwaysJustified` (`AlarmJustified`). A window pays for one message, so the
  messages sent and the callers that hold a window are together at most the windows
  opened (`Budgeted`), for a work item at most one (`OnceAsked`); a caller past the
  check, or a window opened, means that enough runs have failed (`Alarmed`), because
  what the check counts is the history's (`Real`).

Every safety invariant and action property that a run checks is stated by one of
these theorems. One hypothesis on the constants is left, `OneDeliverer` of
`JobLifecycle`, under which three of them are proved; the run's instance satisfies
it.

Only model-checked: the liveness properties (`Completes`, `Settles`, `Ends`,
`ExpiredGoes`, `Told`), because the prover has no rule for liveness under
fairness; and that without `OneDeliverer` two retries go wrong
(`JobLifecycleTwoRetries.cfg`).

## What is not modelled

* What a model answers, provider and tool protocols, the policy on destinations
  (`runtime/outbound.py`), sandboxes and runners, signatures, encryption and
  passwords: their results appear as nondeterministic outcomes. Prompt
  rendering, hooks and screening are outcomes of the set-up step. The decision
  clients (`runtime/decisions.py`) and signed links (`runtime/links.py`) keep no
  state.
* In `JobLifecycle` and `EvalRuns` a refusal over budget is a nondeterministic
  outcome; `JobRecords` has the sum behind it. `Delegation` has no exceptions
  outside the `try` (they are in `JobLifecycle`) and no retry beside an entry that
  is still queued (likewise). An exception of `callbacks.deliver` other than
  `CallbackDeliveryError`, such as a lost database connection, is not in
  `CallbackDelivery`.
* The error-rate alert follows the commit of the job's end and precedes the
  callback's entry (`runner.py:634`): an exception in it leaves `run_job` before
  the callback is enqueued. `JobLifecycle` takes `_finalize` as one step and
  `Alerts` ends with the call, so no module has both. The hazard is listed
  without a property.
* The rate limiter of keys and the limiter of logins only refuse. Reading pages,
  the overview queries, the reassignment of prompts and the conversation view of
  `ui/routes.py` change no state that a property here speaks of.
* Request schemas, migrations, configuration, start-up, the one-shot commands of
  the CLI but `sleeper init` (which is `Access`'s initial state) and the demo
  poller.

Each component's entry in `PROJECT.json` says what is left out of it.
