-------------------------------- MODULE Alerts --------------------------------
(***************************************************************************)
(* The alerts of one agent (runtime/notify.py): the error-rate check that  *)
(* follows a failed job, the request for a human that follows a work item, *)
(* and notify itself: the key claimed in Redis for a window, the channels  *)
(* looked up, the messages sent.  Budget, dead-letter, callback and        *)
(* regression alerts call notify as the error-rate check does, on a key of *)
(* their own.                                                              *)
(***************************************************************************)
EXTENDS Naturals, FiniteSets

CONSTANTS
  LastJob,      \* bound: jobs, eval runs apart, in the order of created_at
  Items,        \* work items; each is its own dedup key
  Channels,     \* notification channels of the owning team
  Founders,     \* channels that are there at the start
  Refused,      \* channels whose destination notify's fresh check refuses
  Window,       \* ERROR_RATE_WINDOW
  MinSample,    \* ERROR_RATE_MIN_SAMPLE
  MaxExpiries,  \* bound: keys that run out
  MaxEdits,     \* bound: channels created and deleted
  Faults        \* subset of {"lose", "send"}

Jobs == 1 .. LastJob
Callers == Jobs \cup Items
Keys == {"error_rate"} \cup Items
Events == {"error_rate", "human_attention"}

ASSUME AlertsAssumption ==
  /\ LastJob \in Nat
  /\ IsFiniteSet(Items)
  /\ Items \cap Jobs = {} /\ "error_rate" \notin Items
  /\ IsFiniteSet(Channels)
  /\ Founders \subseteq Channels
  /\ Refused \subseteq Channels
  /\ Window \in Nat \ {0}
  /\ MinSample \in 1 .. Window
  /\ MaxExpiries \in Nat
  /\ MaxEdits \in Nat
  /\ Faults \subseteq {"lose", "send"}

VARIABLES
  status,   \* of each job row
  at,       \* where each caller of notify is
  claimed,  \* keys in Redis
  events,   \* events each channel row subscribes to; none: there is no row
  urls,     \* the channels a caller found
  sent,     \* messages of each key on each channel
  windows,  \* history: times each key was claimed
  counted,  \* history: real runs that ended in one of COUNTED_STATUSES
  broken,   \* history: those that failed
  lost,     \* history: a worker stopped under a call, or a send failed
  edits     \* channel edits so far

vars == <<status, at, claimed, events, urls, sent, windows, counted, broken, lost, edits>>
history == <<counted, broken>>

KeyOf(c) == IF c \in Items THEN c ELSE "error_rate"
EventOf(c) == IF c \in Items THEN "human_attention" ELSE "error_rate"

Calling == {"check", "claim", "look", "send"}

TypeOK ==
  /\ status \in [Jobs -> {"none", "live", "succeeded", "failed", "refused"}]
  /\ at \in [Callers -> {"idle", "done"} \cup Calling]
  /\ claimed \subseteq Keys
  /\ events \in [Channels -> SUBSET Events]
  /\ urls \in [Callers -> SUBSET Channels]
  /\ sent \in [Keys -> [Channels -> Nat]]
  /\ windows \in [Keys -> Nat]
  /\ broken \subseteq counted
  /\ counted \subseteq Jobs
  /\ lost \in BOOLEAN
  /\ edits \in 0 .. MaxEdits

Init ==
  /\ status = [j \in Jobs |-> "none"]
  /\ at = [c \in Callers |-> "idle"]
  /\ claimed = {}
  /\ events = [h \in Channels |-> IF h \in Founders THEN Events ELSE {}]
  /\ urls = [c \in Callers |-> {}]
  /\ sent = [k \in Keys |-> [c \in Channels |-> 0]]
  /\ windows = [k \in Keys |-> 0]
  /\ counted = {}
  /\ broken = {}
  /\ lost = FALSE
  /\ edits = 0

-------------------------------------------------------------------------------
(* check_error_rate: the newest Window of the counted runs, half of which  *)
(* or more failed.  "failed" stands for every counted status but           *)
(* succeeded, "refused" for the others: policy, budget, an escalation.     *)
Counted == {j \in Jobs : status[j] \in {"succeeded", "failed"}}
Newest(s) == {j \in s : Cardinality({i \in s : i > j}) < Window}
Failed(s) == {j \in s : status[j] # "succeeded"}

(* Mutant: no smallest sample. *)
ErrorRateAnySample ==
  LET recent == Newest(Counted)
  IN  2 * Cardinality(Failed(recent)) >= Cardinality(recent)

ErrorRate ==
  LET recent == Newest(Counted)
  IN  Cardinality(recent) >= MinSample /\ 2 * Cardinality(Failed(recent)) >= Cardinality(recent)

-------------------------------------------------------------------------------
(* create_job. *)
Submit(j) ==
  /\ status[j] = "none"
  /\ \A i \in Jobs : i < j => status[i] # "none"
  /\ status' = [status EXCEPT ![j] = "live"]
  /\ UNCHANGED <<at, claimed, events, urls, sent, windows, history, lost, edits>>

(* _finalize: the row is committed; the check follows a failed run.      *)
Finalize(j, outcome) ==
  /\ status[j] = "live"
  /\ at[j] = "idle"
  /\ status' = [status EXCEPT ![j] = outcome]
  /\ counted' = IF outcome # "refused" THEN counted \cup {j} ELSE counted
  /\ broken' = IF outcome = "failed" THEN broken \cup {j} ELSE broken
  /\ at' = IF outcome = "failed" THEN [at EXCEPT ![j] = "check"] ELSE at
  /\ UNCHANGED <<claimed, events, urls, sent, windows, lost, edits>>

(* retry_job: the job runs again in its old place in the order.  The bound *)
(* is the end of its first alert, which may have been sent or not.         *)
Retry(j) ==
  /\ status[j] = "failed"
  /\ at[j] = "idle"
  /\ status' = [status EXCEPT ![j] = "live"]
  /\ UNCHANGED <<at, claimed, events, urls, sent, windows, history, lost, edits>>

Check(j) ==
  /\ at[j] = "check"
  /\ at' = [at EXCEPT ![j] = IF ErrorRate THEN "claim" ELSE "idle"]
  /\ UNCHANGED <<status, claimed, events, urls, sent, windows, history, lost, edits>>

(* escalate_to_human, or a memory version put up for approval: the item is *)
(* committed, then notify_created.                                         *)
Ask(i) ==
  /\ at[i] = "idle"
  /\ at' = [at EXCEPT ![i] = "claim"]
  /\ UNCHANGED <<status, claimed, events, urls, sent, windows, history, lost, edits>>

-------------------------------------------------------------------------------
(* Where a call of notify ends: a job may be retried and fail again, an    *)
(* item was asked for.                                                     *)
Over(c) == IF c \in Items THEN "done" ELSE "idle"

(* Mutant: the key is written whether it was there or not. *)
ClaimAlways(c) ==
  /\ at[c] = "claim"
  /\ claimed' = claimed \cup {KeyOf(c)}
  /\ windows' = IF KeyOf(c) \in claimed THEN windows ELSE [windows EXCEPT ![KeyOf(c)] = @ + 1]
  /\ at' = [at EXCEPT ![c] = "look"]
  /\ UNCHANGED <<status, events, urls, sent, history, lost, edits>>

(* SET NX EX: taken for the window, or taken already. *)
Claim(c) ==
  /\ at[c] = "claim"
  /\ IF KeyOf(c) \in claimed
     THEN /\ at' = [at EXCEPT ![c] = Over(c)]
          /\ UNCHANGED <<claimed, windows>>
     ELSE /\ at' = [at EXCEPT ![c] = "look"]
          /\ claimed' = claimed \cup {KeyOf(c)}
          /\ windows' = [windows EXCEPT ![KeyOf(c)] = @ + 1]
  /\ UNCHANGED <<status, events, urls, sent, history, lost, edits>>

Subscribed(e) == {c \in Channels : e \in events[c]}

(* Mutant: one refused destination ends the alert. *)
LookAllOrNone(c) ==
  /\ at[c] = "look"
  /\ LET found == Subscribed(EventOf(c))
     IN  IF found = {} \/ found \cap Refused # {}
         THEN at' = [at EXCEPT ![c] = Over(c)] /\ UNCHANGED urls
         ELSE at' = [at EXCEPT ![c] = "send"] /\ urls' = [urls EXCEPT ![c] = found]
  /\ UNCHANGED <<status, claimed, events, sent, windows, history, lost, edits>>

(* The subscribed channels are read and each destination checked again. *)
Look(c) ==
  /\ at[c] = "look"
  /\ LET found == Subscribed(EventOf(c)) \ Refused
     IN  IF found = {}
         THEN at' = [at EXCEPT ![c] = Over(c)] /\ UNCHANGED urls
         ELSE at' = [at EXCEPT ![c] = "send"] /\ urls' = [urls EXCEPT ![c] = found]
  /\ UNCHANGED <<status, claimed, events, sent, windows, history, lost, edits>>

(* ap.notify in a thread, which may reach some of the channels and fail    *)
(* for others; a failure is logged.                                        *)
Send(c) ==
  /\ at[c] = "send"
  /\ \E reached \in SUBSET urls[c] :
       /\ reached # urls[c] => "send" \in Faults
       /\ sent' = [sent EXCEPT ![KeyOf(c)] =
                     [h \in Channels |-> IF h \in reached THEN @[h] + 1 ELSE @[h]]]
       /\ lost' = (lost \/ reached # urls[c])
  /\ at' = [at EXCEPT ![c] = Over(c)]
  /\ urls' = [urls EXCEPT ![c] = {}]
  /\ UNCHANGED <<status, claimed, events, windows, history, edits>>

(* The worker stops, or Redis or the database fails under the call: the    *)
(* row and the item were committed before and nothing calls notify again.  *)
Lose(c) ==
  /\ "lose" \in Faults
  /\ at[c] \in Calling
  /\ at' = [at EXCEPT ![c] = Over(c)]
  /\ urls' = [urls EXCEPT ![c] = {}]
  /\ lost' = TRUE
  /\ UNCHANGED <<status, claimed, events, sent, windows, history, edits>>

(* DEDUP_WINDOW_S runs out, wherever the callers are. *)
Expire(k) ==
  /\ k \in claimed
  /\ \E n \in 1 .. MaxExpiries : windows[k] = n
  /\ claimed' = claimed \ {k}
  /\ UNCHANGED <<status, at, events, urls, sent, windows, history, lost, edits>>

-------------------------------------------------------------------------------
Edit(h, chosen) ==
  /\ edits < MaxEdits
  /\ edits' = edits + 1
  /\ events' = [events EXCEPT ![h] = chosen]
  /\ UNCHANGED <<status, at, claimed, urls, sent, windows, history, lost>>

(* An owner creates a channel; the API refuses events it does not know. *)
create_channel(h, asked) ==
  asked # {} /\ asked \subseteq Events /\ events[h] = {} /\ Edit(h, asked)

(* The form leaves them out, and refuses a channel that would be silent. *)
ChannelForm(h, ticked) ==
  ticked \cap Events # {} /\ events[h] = {} /\ Edit(h, ticked \cap Events)

delete_channel(h) == events[h] # {} /\ Edit(h, {})

DeleteForm(h) == events[h] # {} /\ Edit(h, {})

-------------------------------------------------------------------------------
Rest ==
  /\ \A c \in Callers : at[c] \in {"idle", "done"}
  /\ UNCHANGED vars

CallStep(c) == Claim(c) \/ Look(c) \/ Send(c) \/ (c \in Jobs /\ Check(c))

Next ==
  \/ \E j \in Jobs :
       \/ Submit(j) \/ Retry(j)
       \/ \E outcome \in {"succeeded", "failed", "refused"} : Finalize(j, outcome)
  \/ \E i \in Items : Ask(i)
  \/ \E c \in Callers : CallStep(c) \/ Lose(c)
  \/ \E k \in Keys : Expire(k)
  \/ \E h \in Channels :
       \/ \E asked \in SUBSET (Events \cup {"unknown"}) :
            create_channel(h, asked) \/ ChannelForm(h, asked)
       \/ delete_channel(h)
       \/ DeleteForm(h)
  \/ Rest

Spec == Init /\ [][Next]_vars

(* The event loop of a worker goes on with every call it has begun; the    *)
(* look-up and the send have timeouts.                                     *)
FairSpec == Spec /\ \A c \in Callers : WF_vars(CallStep(c))

-------------------------------------------------------------------------------
(* "dedupe per agent+event in a 15-minute window", notify.py:4: however    *)
(* many jobs fail at once, and whenever the key runs out, a channel gets   *)
(* at most one message for each window that was opened, and at most one    *)
(* for a work item.                                                        *)
NoRepeat ==
  \A k \in Keys, h \in Channels :
    /\ sent[k][h] <= windows[k]
    /\ k \in Items => sent[k][h] <= 1

(* "policy, not malfunction", notify.py:95: no error-rate alert before     *)
(* MinSample real runs have ended by themselves, half of them badly.       *)
AlarmJustified ==
  windows["error_rate"] > 0 =>
    Cardinality(counted) >= MinSample /\ 2 * Cardinality(broken) >= MinSample

Listens(h, e) == h \notin Refused /\ e \in events[h]

AlarmDue == \E j \in Jobs : at[j] = "check" /\ ErrorRate /\ "error_rate" \notin claimed

(* A failed job that finds the error rate high outside a window, and every *)
(* request for a human, reaches each channel that goes on listening for it *)
(* - unless a worker stopped or a send failed, or the rate fell before the *)
(* check.  A refused or deleted neighbour does not keep it away.           *)
Told ==
  \A h \in Channels \ Refused :
    /\ \A n \in 0 .. MaxExpiries :
         (AlarmDue /\ Listens(h, "error_rate") /\ sent["error_rate"][h] = n)
           ~> (sent["error_rate"][h] > n \/ ~ErrorRate \/ ~Listens(h, "error_rate") \/ lost)
    /\ \A i \in Items :
         (at[i] = "claim" /\ Listens(h, "human_attention"))
           ~> (sent[i][h] > 0 \/ ~Listens(h, "human_attention") \/ lost)

(* notify.py:42, "already alerted inside the window": while a key is held  *)
(* and nobody is about to send, its message went to a channel.             *)
AlertedInWindow ==
  \A k \in claimed :
    (\A c \in Callers : KeyOf(c) = k => at[c] \notin {"look", "send"})
      => \E h \in Channels : sent[k][h] >= windows[k]
===============================================================================
