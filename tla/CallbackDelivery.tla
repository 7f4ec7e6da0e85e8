--------------------------- MODULE CallbackDelivery ---------------------------
(***************************************************************************)
(* The callbacks of one job: the arq entries of worker.deliver_callback,   *)
(* the payload callbacks.deliver builds from the job row as it is then,    *)
(* and the receiver.  The row itself is JobLifecycle's: it ends, and a     *)
(* retry puts it back to live.  An entry may be delivered several times:   *)
(* after a backoff, and after a worker stopped in the middle.              *)
(***************************************************************************)
EXTENDS Naturals

CONSTANTS
  Deliveries,   \* deliver_callback entries
  MaxRuns,      \* bound: times the job is queued
  MaxTries,     \* settings.callback_max_tries
  ArqMaxTries,  \* WorkerSettings.max_tries: the larger of job and callback tries
  StopFaults    \* subset of {"stop"}: a worker shutting down or dying

ASSUME CallbackAssumption ==
  /\ MaxRuns \in Nat \ {0}
  /\ MaxTries \in Nat \ {0}
  /\ ArqMaxTries \in Nat
  /\ MaxTries <= ArqMaxTries
  /\ StopFaults \subseteq {"stop"}

VARIABLES
  job,        \* the row: how often it was queued, and whether it has ended
  place,      \* where each entry is
  tries,      \* job_try of each entry
  carries,    \* the row an entry's payload was built from
  received,   \* the payloads the receiver got
  delivered,  \* entries with a callback_delivered event
  abandoned,  \* entries with a callback_failed event
  dropped,    \* history: entries arq dropped at its own limit
  stopped     \* history: entries a worker stopped under

callbackVars == <<job, place, tries, carries, received, delivered, abandoned, dropped, stopped>>

JobRows == [run : 1 .. MaxRuns, ended : BOOLEAN]
NoRow == [run |-> 1, ended |-> FALSE]
Active == {"read", "post", "record", "failed", "abandon"}

CallbackTypeOK ==
  /\ job \in JobRows
  /\ place \in [Deliveries -> Active \cup {"none", "ready", "done"}]
  /\ tries \in [Deliveries -> 0 .. ArqMaxTries]
  /\ carries \in [Deliveries -> JobRows]
  /\ received \subseteq JobRows
  /\ delivered \subseteq Deliveries
  /\ abandoned \subseteq Deliveries
  /\ dropped \subseteq Deliveries
  /\ stopped \subseteq Deliveries

CallbackInit ==
  /\ job = NoRow
  /\ place = [d \in Deliveries |-> "none"]
  /\ tries = [d \in Deliveries |-> 0]
  /\ carries = [d \in Deliveries |-> NoRow]
  /\ received = {}
  /\ delivered = {}
  /\ abandoned = {}
  /\ dropped = {}
  /\ stopped = {}

Goto(d, from, to) ==
  /\ place[d] = from
  /\ place' = [place EXCEPT ![d] = to]

-------------------------------------------------------------------------------
(* Mutant: one callback per job, whatever a retry changed. *)
FinishOnce(d) ==
  /\ place[d] = "none"
  /\ place' = IF \A e \in Deliveries : place[e] = "none"
              THEN [place EXCEPT ![d] = "ready"]
              ELSE place
  /\ job' = [job EXCEPT !.ended = TRUE]
  /\ UNCHANGED <<tries, carries, received, delivered, abandoned, dropped, stopped>>

(* run_job after execute_job returned: the row has ended - now, or it had  *)
(* before a redelivered entry ran - and a delivery is enqueued.            *)
Finish(d) ==
  /\ Goto(d, "none", "ready")
  /\ job' = [job EXCEPT !.ended = TRUE]
  /\ UNCHANGED <<tries, carries, received, delivered, abandoned, dropped, stopped>>

(* retry_job, a delivery pending or not.  The bound leaves an entry for    *)
(* the end of the new run.                                                 *)
Requeue ==
  /\ job.ended
  /\ job.run < MaxRuns
  /\ \E d \in Deliveries : place[d] = "none"
  /\ job' = [run |-> job.run + 1, ended |-> FALSE]
  /\ UNCHANGED <<place, tries, carries, received, delivered, abandoned, dropped, stopped>>

-------------------------------------------------------------------------------
(* WorkerSettings.max_tries. *)
MayTry(d) == tries[d] < ArqMaxTries

Deliver(d) ==
  /\ MayTry(d)
  /\ Goto(d, "ready", "read")
  /\ tries' = [tries EXCEPT ![d] = @ + 1]
  /\ UNCHANGED <<job, carries, received, delivered, abandoned, dropped, stopped>>

DropExhausted(d) ==
  /\ ~MayTry(d)
  /\ Goto(d, "ready", "done")
  /\ dropped' = dropped \cup {d}
  /\ UNCHANGED <<job, tries, carries, received, delivered, abandoned, stopped>>

(* The row is read, then the destination is resolved and checked. *)
ReadRow(d) ==
  /\ Goto(d, "read", "post")
  /\ carries' = [carries EXCEPT ![d] = job]
  /\ UNCHANGED <<job, tries, received, delivered, abandoned, dropped, stopped>>

(* CallbackDestinationRejected: no retry. *)
Rejected(d) ==
  /\ Goto(d, "read", "abandon")
  /\ UNCHANGED <<job, tries, carries, received, delivered, abandoned, dropped, stopped>>

(* Mutant: any answer counts as a delivery, no answer included. *)
PostBlind(d) ==
  /\ Goto(d, "post", "record")
  /\ received' \in {received, received \cup {carries[d]}}
  /\ UNCHANGED <<job, tries, carries, delivered, abandoned, dropped, stopped>>

(* The POST: a 2xx answer; or a refusal or a broken connection, whether    *)
(* the receiver got the body or not.                                       *)
Post(d) ==
  /\ \/ Goto(d, "post", "record") /\ received' = received \cup {carries[d]}
     \/ Goto(d, "post", "failed") /\ received' \in {received, received \cup {carries[d]}}
  /\ UNCHANGED <<job, tries, carries, delivered, abandoned, dropped, stopped>>

Record(d) ==
  /\ Goto(d, "record", "done")
  /\ delivered' = delivered \cup {d}
  /\ UNCHANGED <<job, tries, carries, received, abandoned, dropped, stopped>>

(* Mutant: off by one, a try too many. *)
BackoffOnceMore(d) ==
  /\ tries[d] <= MaxTries
  /\ Goto(d, "failed", "ready")
  /\ UNCHANGED <<job, tries, carries, received, delivered, abandoned, dropped, stopped>>

(* Mutant: the retry is a new entry, whose tries count from one again. *)
BackoffAnew(d) ==
  /\ tries[d] < MaxTries
  /\ Goto(d, "failed", "ready")
  /\ tries' = [tries EXCEPT ![d] = 0]
  /\ UNCHANGED <<job, carries, received, delivered, abandoned, dropped, stopped>>

(* raise Retry. *)
Backoff(d) ==
  /\ tries[d] < MaxTries
  /\ Goto(d, "failed", "ready")
  /\ UNCHANGED <<job, tries, carries, received, delivered, abandoned, dropped, stopped>>

GiveUp(d) ==
  /\ tries[d] >= MaxTries
  /\ Goto(d, "failed", "abandon")
  /\ UNCHANGED <<job, tries, carries, received, delivered, abandoned, dropped, stopped>>

(* _abandon_callback: the event, then the alert. *)
Abandon(d) ==
  /\ Goto(d, "abandon", "done")
  /\ abandoned' = abandoned \cup {d}
  /\ UNCHANGED <<job, tries, carries, received, delivered, dropped, stopped>>

(* The worker stops under a delivery: arq runs the entry again. *)
Stop(d) ==
  /\ "stop" \in StopFaults
  /\ place[d] \in Active
  /\ place' = [place EXCEPT ![d] = "ready"]
  /\ stopped' = stopped \cup {d}
  /\ UNCHANGED <<job, tries, carries, received, delivered, abandoned, dropped>>

CallbackRest ==
  /\ \A d \in Deliveries : place[d] \in {"none", "done"}
  /\ UNCHANGED callbackVars

EntryStep(d) ==
  \/ Deliver(d) \/ DropExhausted(d) \/ ReadRow(d) \/ Rejected(d) \/ Post(d)
  \/ Record(d) \/ Backoff(d) \/ GiveUp(d) \/ Abandon(d)

CallbackNext ==
  \/ \E d \in Deliveries : EntryStep(d) \/ Finish(d) \/ Stop(d)
  \/ Requeue
  \/ CallbackRest

CallbackSpec == CallbackInit /\ [][CallbackNext]_callbackVars

(* arq polls its queue and the HTTP client has a timeout. *)
CallbackFairSpec == CallbackSpec /\ \A d \in Deliveries : WF_callbackVars(EntryStep(d))

-------------------------------------------------------------------------------
(* An entry that is over has left a trace: a delivered event, and then the *)
(* receiver has the payload, or a failed one - unless arq dropped it.      *)
Accounted ==
  \A d \in Deliveries :
    /\ place[d] = "done" => d \in delivered \cup abandoned \cup dropped
    /\ d \in delivered => carries[d] \in received

(* The limit on callback tries is met before arq's own: no delivery        *)
(* disappears without its callback_failed event and alert, unless workers  *)
(* stopped under it.                                                       *)
NoSilentDrop == dropped \subseteq stopped

(* Once nothing is in flight the receiver has the job's newest result, or  *)
(* a delivery was given up or dropped.                                     *)
NewestReported ==
  job.ended /\ (\A d \in Deliveries : place[d] \in {"none", "done"}) =>
    job \in received \/ abandoned \cup dropped # {}

(* Every delivery comes to an end, however often workers stop under it. *)
Settles == \A d \in Deliveries : place[d] = "ready" ~> place[d] = "done"

(* "result arrives at your callback": what arrives is a result. *)
ResultsOnly == \A p \in received : p.ended
===============================================================================
