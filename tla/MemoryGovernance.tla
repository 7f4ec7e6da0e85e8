--------------------------- MODULE MemoryGovernance ---------------------------
(***************************************************************************)
(* One agent's memory: the votes cast on results (api/v1/feedback and its  *)
(* form), versions written by job runs and feedback folds (runtime/        *)
(* memory.write_memory, learning.fold_feedback), the human-work            *)
(* inbox that decides the pending ones (runtime/work_items, api/v1/        *)
(* work_items, api/v1/memory_admin), rollback, and the jobs that inject a  *)
(* version (runner.execute_job).  A memory document is the set of lessons  *)
(* it holds; documents stay under memory_max_chars.                        *)
(***************************************************************************)
EXTENDS Naturals

CONSTANTS
  Runs,         \* job runs that end with an update_memory proposal
  Folds,        \* feedback votes: the requests, their rows and their folds
  SameJob,      \* the votes on one and the same result; the others have theirs
  Gated,        \* the writers that see options.memory_approval on
  Escalations,  \* escalate_to_human items
  Reviewers,    \* people deciding inbox items
  Rollers,      \* owners rolling memory back
  Jobs,         \* jobs of the agent
  MaxVersion    \* bound: memory versions ever written

Writers == Runs \cup Folds
Versions == 1 .. MaxVersion
Items == Versions \cup Escalations
NoItem == 0

ASSUME MemoryAssumption ==
  /\ MaxVersion \in Nat
  /\ Runs \cap Folds = {}
  /\ Gated \subseteq Writers
  /\ SameJob \subseteq Folds
  /\ Escalations \cap Nat = {}

VARIABLES
  vstatus,   \* memory_versions.status; "none": no such version yet
  doc,       \* memory_versions.content: the lessons it holds
  gated,     \* the versions written under approval governance
  item,      \* work_items: status and resolution of each item
  vote,      \* feedback: the request that casts each vote, then its row
  writer,    \* write_memory in progress: where, the content and the number read
  reviewer,  \* a resolution in progress: where, the item, the status it loaded
  roller,    \* a rollback in progress: the version it loaded
  pin,       \* jobs.memory_version_id
  injected   \* history: the status a job's injected version had, per job

memory == <<vstatus, doc, gated, item>>
vars == <<vstatus, doc, gated, item, vote, writer, reviewer, roller, pin, injected>>

VStatus == {"none", "active", "pending", "rejected"}
NoRow == [status |-> "none", resolution |-> "none"]
OpenRow == [status |-> "open", resolution |-> "none"]
Rows == [status : {"none", "open", "resolved", "dismissed"},
         resolution : {"none", "approved", "rejected", "resolved", "dismissed"}]

WIdle == [at |-> "idle", content |-> {}, no |-> 0]
RIdle == [at |-> "idle", item |-> NoItem, seen |-> "none"]

TypeOK ==
  /\ vstatus \in [Versions -> VStatus]
  /\ doc \in [Versions -> SUBSET Folds]
  /\ gated \subseteq Versions
  /\ item \in [Items -> Rows]
  /\ vote \in [Folds -> {"none", "checked", "refused", "recorded", "queued"}]
  /\ writer \in [Writers -> [at : {"idle", "number", "insert", "done", "failed"},
                             content : SUBSET Folds, no : 0 .. MaxVersion]]
  /\ reviewer \in [Reviewers -> [at : {"idle", "inbox", "admin"},
                                 item : Items \cup {NoItem},
                                 seen : {"none", "open", "resolved", "dismissed"}]]
  /\ roller \in [Rollers -> 0 .. MaxVersion]
  /\ pin \in [Jobs -> 0 .. MaxVersion]
  /\ injected \in [Jobs -> VStatus]

Init ==
  /\ vstatus = [n \in Versions |-> "none"]
  /\ doc = [n \in Versions |-> {}]
  /\ gated = {}
  /\ item = [i \in Items |-> NoRow]
  /\ vote = [w \in Folds |-> "none"]
  /\ writer = [w \in Writers |-> WIdle]
  /\ reviewer = [r \in Reviewers |-> RIdle]
  /\ roller = [u \in Rollers |-> 0]
  /\ pin = [j \in Jobs |-> 0]
  /\ injected = [j \in Jobs |-> "none"]

-------------------------------------------------------------------------------
(* latest_memory: the newest active version. *)
IsLatest(n) ==
  /\ n \in Versions
  /\ vstatus[n] = "active"
  /\ \A k \in Versions : vstatus[k] = "active" => k <= n
NoneActive == \A n \in Versions : vstatus[n] # "active"
CurrentDocs == {doc[n] : n \in {k \in Versions : IsLatest(k)}}
CurrentLessons == UNION CurrentDocs

(* max(version_no), 0 when there is none. *)
IsLast(n) ==
  /\ n \in 0 .. MaxVersion
  /\ n # 0 => vstatus[n] # "none"
  /\ \A k \in Versions : vstatus[k] # "none" => k <= n

-------------------------------------------------------------------------------
(* Voting, on an agent whose learning stays on. *)
Recorded(w) == vote[w] \in {"recorded", "queued"}

(* The votes on the result w is about. *)
Rivals(w) == IF w \in SameJob THEN SameJob ELSE {w}

(* submit_feedback looks for a vote on the job: with one it answers 409. *)
CastCheck(w) ==
  /\ vote[w] = "none"
  /\ vote' = [vote EXCEPT ![w] = IF \E v \in Rivals(w) : Recorded(v) THEN "refused" ELSE "checked"]
  /\ UNCHANGED <<memory, writer, reviewer, roller, pin, injected>>

(* The INSERT, from the link as from the page: no constraint on job_id. *)
CastRecord(w) ==
  /\ vote[w] = "checked"
  /\ vote' = [vote EXCEPT ![w] = "recorded"]
  /\ UNCHANGED <<memory, writer, reviewer, roller, pin, injected>>

(* Its fold is enqueued after the commit. *)
CastQueue(w) ==
  /\ vote[w] = "recorded"
  /\ vote' = [vote EXCEPT ![w] = "queued"]
  /\ UNCHANGED <<memory, writer, reviewer, roller, pin, injected>>

-------------------------------------------------------------------------------
(* Writing. *)

(* fold_feedback reads the current document and appends its lesson. *)
FoldRead(w) ==
  /\ w \in Folds
  /\ vote[w] = "queued"
  /\ writer[w].at = "idle"
  /\ writer' = [writer EXCEPT ![w] = [at |-> "number", no |-> 0,
                                      content |-> CurrentLessons \cup {w}]]
  /\ UNCHANGED <<memory, vote, reviewer, roller, pin, injected>>

(* The worker stops before arq has seen the task return: the fold is       *)
(* delivered again and starts over, also when its version is committed.    *)
FoldStops(w) ==
  /\ w \in Folds
  /\ writer[w].at \in {"number", "insert", "done"}
  /\ writer' = [writer EXCEPT ![w] = WIdle]
  /\ UNCHANGED <<memory, vote, reviewer, roller, pin, injected>>

(* A run proposes a whole new document; it may keep any lesson or none. *)
Propose(w) ==
  /\ w \in Runs
  /\ writer[w].at = "idle"
  /\ \E kept \in SUBSET CurrentLessons :
       writer' = [writer EXCEPT ![w] = [at |-> "number", no |-> 0, content |-> kept]]
  /\ UNCHANGED <<memory, vote, reviewer, roller, pin, injected>>

(* The injection screen blocks a proposal; a fold is not screened again. *)
Blocked(w) ==
  /\ w \in Runs
  /\ writer[w].at = "idle"
  /\ writer' = [writer EXCEPT ![w].at = "done"]
  /\ UNCHANGED <<memory, vote, reviewer, roller, pin, injected>>

(* The next version number, read before the row is inserted. *)
Number(w) ==
  /\ writer[w].at = "number"
  /\ \E n \in 0 .. MaxVersion - 1 :
       /\ IsLast(n)
       /\ writer' = [writer EXCEPT ![w].at = "insert", ![w].no = n + 1]
  /\ UNCHANGED <<memory, vote, reviewer, roller, pin, injected>>

(* Mutant: a pending version without its inbox item. *)
InsertNoItem(w) ==
  LET n == writer[w].no IN
  /\ writer[w].at = "insert"
  /\ vstatus[n] = "none"
  /\ vstatus' = [vstatus EXCEPT ![n] = IF w \in Gated THEN "pending" ELSE "active"]
  /\ doc' = [doc EXCEPT ![n] = writer[w].content]
  /\ gated' = IF w \in Gated THEN gated \cup {n} ELSE gated
  /\ writer' = [writer EXCEPT ![w] = [WIdle EXCEPT !.at = "done"]]
  /\ UNCHANGED <<item, vote, reviewer, roller, pin, injected>>

(* Mutant: the fold forgets to pass pending. *)
InsertUngated(w) ==
  LET n == writer[w].no IN
  /\ writer[w].at = "insert"
  /\ vstatus[n] = "none"
  /\ vstatus' = [vstatus EXCEPT ![n] = IF w \in Gated \cap Runs THEN "pending" ELSE "active"]
  /\ item' = [item EXCEPT ![n] = IF w \in Gated \cap Runs THEN OpenRow ELSE NoRow]
  /\ doc' = [doc EXCEPT ![n] = writer[w].content]
  /\ gated' = IF w \in Gated THEN gated \cup {n} ELSE gated
  /\ writer' = [writer EXCEPT ![w] = [WIdle EXCEPT !.at = "done"]]
  /\ UNCHANGED <<vote, reviewer, roller, pin, injected>>

(* The version and, when it awaits approval, its inbox item: one commit. *)
Insert(w) ==
  LET n == writer[w].no IN
  /\ writer[w].at = "insert"
  /\ vstatus[n] = "none"
  /\ vstatus' = [vstatus EXCEPT ![n] = IF w \in Gated THEN "pending" ELSE "active"]
  /\ item' = [item EXCEPT ![n] = IF w \in Gated THEN OpenRow ELSE NoRow]
  /\ doc' = [doc EXCEPT ![n] = writer[w].content]
  /\ gated' = IF w \in Gated THEN gated \cup {n} ELSE gated
  /\ writer' = [writer EXCEPT ![w] = [WIdle EXCEPT !.at = "done"]]
  /\ UNCHANGED <<vote, reviewer, roller, pin, injected>>

(* IntegrityError on (agent_id, version_no) ends the task. *)
InsertConflict(w) ==
  /\ writer[w].at = "insert"
  /\ vstatus[writer[w].no] # "none"
  /\ writer' = [writer EXCEPT ![w] = [WIdle EXCEPT !.at = "failed"]]
  /\ UNCHANGED <<memory, vote, reviewer, roller, pin, injected>>

(* escalate_to_human commits an inbox item. *)
Escalate(i) ==
  /\ item[i] = NoRow
  /\ item' = [item EXCEPT ![i] = OpenRow]
  /\ UNCHANGED <<vstatus, doc, gated, vote, writer, reviewer, roller, pin, injected>>

-------------------------------------------------------------------------------
(* Deciding.  A review loads without a lock, then takes the item's row     *)
(* lock (SELECT ... FOR UPDATE) and decides in one transaction.            *)

(* The inbox loads the item.  The locking SELECT later returns this same   *)
(* object: the ORM does not refresh what the session already holds.        *)
LoadItem(r) ==
  /\ reviewer[r].at = "idle"
  /\ \E i \in Items :
       /\ item[i].status # "none"
       /\ reviewer' = [reviewer EXCEPT ![r] = [at |-> "inbox", item |-> i,
                                               seen |-> item[i].status]]
  /\ UNCHANGED <<memory, vote, writer, roller, pin, injected>>

(* approve_memory, reject_memory and the page's ui_memory_action load the  *)
(* version instead, and find it pending.  The item is first loaded under   *)
(* the lock; every pending version has one.                                *)
LoadVersion(r) ==
  /\ reviewer[r].at = "idle"
  /\ \E n \in Versions :
       /\ vstatus[n] = "pending"
       /\ reviewer' = [reviewer EXCEPT ![r] = [at |-> "admin", item |-> n, seen |-> "none"]]
  /\ UNCHANGED <<memory, vote, writer, roller, pin, injected>>

(* Mutant: the version's status is not checked again under the lock. *)
AdmitsStale(r) ==
  LET i == reviewer[r].item IN
  \/ /\ reviewer[r].at = "inbox"
     /\ reviewer[r].seen = "open"
  \/ /\ reviewer[r].at = "admin"
     /\ item[i].status = "open"

(* Whether resolve_work_item lets the decision through: the item's status  *)
(* as the session has it, and, from the inbox, the version's fresh status. *)
Admits(r) ==
  LET i == reviewer[r].item IN
  \/ /\ reviewer[r].at = "inbox"
     /\ reviewer[r].seen = "open"
     /\ i \in Versions => vstatus[i] = "pending"
  \/ /\ reviewer[r].at = "admin"
     /\ item[i].status = "open"

(* approve_memory and reject_memory: what the version and its item become. *)
Verdicts == {[version |-> "active", resolution |-> "approved"],
             [version |-> "rejected", resolution |-> "rejected"]}

DecideMemory(r) ==
  LET n == reviewer[r].item IN
  /\ reviewer[r].at # "idle"
  /\ n \in Versions
  /\ Admits(r)
  /\ \E v \in Verdicts :
       /\ vstatus' = [vstatus EXCEPT ![n] = v.version]
       /\ item' = [item EXCEPT ![n] = [status |-> "resolved", resolution |-> v.resolution]]
  /\ reviewer' = [reviewer EXCEPT ![r] = RIdle]
  /\ UNCHANGED <<doc, gated, vote, writer, roller, pin, injected>>

DecideEscalation(r) ==
  LET i == reviewer[r].item IN
  /\ reviewer[r].at # "idle"
  /\ i \in Escalations
  /\ Admits(r)
  /\ \E x \in {"resolved", "dismissed"} :
       item' = [item EXCEPT ![i] = [status |-> x, resolution |-> x]]
  /\ reviewer' = [reviewer EXCEPT ![r] = RIdle]
  /\ UNCHANGED <<vstatus, doc, gated, vote, writer, roller, pin, injected>>

(* 409: WorkItemConflict, or the client gave a resolution of another kind. *)
Conflict(r) ==
  /\ reviewer[r].at # "idle"
  /\ reviewer' = [reviewer EXCEPT ![r] = RIdle]
  /\ UNCHANGED <<memory, vote, writer, roller, pin, injected>>

-------------------------------------------------------------------------------
(* Rolling back: load the latest active version, then retire it. *)
RollbackLoad(u) ==
  /\ roller[u] = 0
  /\ \E n \in Versions : IsLatest(n) /\ roller' = [roller EXCEPT ![u] = n]
  /\ UNCHANGED <<memory, vote, writer, reviewer, pin, injected>>

RollbackCommit(u) ==
  /\ roller[u] # 0
  /\ vstatus' = [vstatus EXCEPT ![roller[u]] = "rejected"]
  /\ roller' = [roller EXCEPT ![u] = 0]
  /\ UNCHANGED <<doc, gated, item, vote, writer, reviewer, pin, injected>>

-------------------------------------------------------------------------------
(* An attempt of a job: the first one pins the latest active version, a    *)
(* later one (a transient retry, a restart, a manual retry) injects the    *)
(* pinned version whatever has become of it.                               *)
FirstAttempt(j) ==
  /\ pin[j] = 0
  /\ \E n \in Versions :
       /\ IsLatest(n)
       /\ pin' = [pin EXCEPT ![j] = n]
       /\ injected' = [injected EXCEPT ![j] = vstatus[n]]
  /\ UNCHANGED <<memory, vote, writer, reviewer, roller>>

LaterAttempt(j) ==
  /\ pin[j] # 0
  /\ injected' = [injected EXCEPT ![j] = vstatus[pin[j]]]
  /\ UNCHANGED <<memory, vote, writer, reviewer, roller, pin>>

Next ==
  \/ \E w \in Folds : CastCheck(w) \/ CastRecord(w) \/ CastQueue(w) \/ FoldStops(w)
  \/ \E w \in Writers : FoldRead(w) \/ Propose(w) \/ Blocked(w) \/ Number(w)
                        \/ Insert(w) \/ InsertConflict(w)
  \/ \E i \in Escalations : Escalate(i)
  \/ \E r \in Reviewers : LoadItem(r) \/ LoadVersion(r) \/ DecideMemory(r)
                          \/ DecideEscalation(r) \/ Conflict(r)
  \/ \E u \in Rollers : RollbackLoad(u) \/ RollbackCommit(u)
  \/ \E j \in Jobs : FirstAttempt(j) \/ LaterAttempt(j)

Spec == Init /\ [][Next]_vars

-------------------------------------------------------------------------------
(* The inbox is a faithful projection: an approval item is open exactly    *)
(* while its version is pending, whichever of the two doors decides it.    *)
ItemTracksVersion ==
  \A n \in Versions : vstatus[n] = "pending" <=> item[n].status = "open"

(* Under memory_approval no version is injectable unless an owner approved *)
(* it, and one an owner rejected stays out.                                *)
ApprovalGoverns ==
  \A n \in Versions :
    /\ n \in gated /\ vstatus[n] = "active" => item[n].resolution = "approved"
    /\ item[n].resolution = "rejected" => vstatus[n] = "rejected"

(* Nothing brings a rejected version back: no late approval, no rollback. *)
RejectedIsFinal ==
  [][\A n \in Versions : vstatus[n] = "rejected" => vstatus'[n] = "rejected"]_vars

(* A memory decision is taken once, however many owners decide at a time. *)
MemoryDecidedOnce ==
  [][\A n \in Versions : item[n].status = "resolved" => item'[n] = item[n]]_vars

(* "Approve to make it the injected version." *)
ApprovedIsInjected ==
  [][\A n \in Versions : vstatus[n] = "pending" /\ vstatus'[n] = "active" => IsLatest(n)']_vars

(* "rejected: never injected". *)
RejectedNeverInjected == \A j \in Jobs : injected[j] # "rejected"

(* "One vote per job". *)
OneVotePerJob == \A v, w \in SameJob : Recorded(v) /\ Recorded(w) => v = w

(* A vote that has been folded is in the agent's memory from then on, as   *)
(* long as nobody gates, rewrites or rolls the memory back.                *)
VotesFolded ==
  Gated = {} /\ Runs = {} /\ Rollers = {} =>
    \A w \in Folds : writer[w].at \in {"done", "failed"} => w \in CurrentLessons
===============================================================================
