---------------------------- MODULE LearningProofs ----------------------------
(*****************************************************************************)
(* What agents learn, and how well they do, proved: the memory they are      *)
(* given (MemoryGovernance) and the pass rates of their eval runs            *)
(* (EvalRuns), each for every value of its constants.  The two do not        *)
(* interact: each theorem is about one of the two specifications.            *)
(*                                                                           *)
(* Memory. The invariant adds to the two stated ones what the processes in   *)
(* progress hold: a rollback never holds a pending version, an insert holds  *)
(* a version number, a gated version exists, a number not yet taken has no   *)
(* item (InProgress).                                                        *)
(*                                                                           *)
(* Eval runs. An execution counts the cases it ran, and an entry looks at    *)
(* its run's status before it begins one: so while a run is being executed   *)
(* its row is running (Open), and what it graded is what it ran (Counts).    *)
(* That gives the records of runs (HonestRate, RecordStays). For their       *)
(* alerts (AlertsMatch) a run's baseline is a completed run, whose record    *)
(* stays (Based), and an ended run whose entry is not about to tell was      *)
(* told about or cut (Placed, Judged); what Tell compares is then            *)
(* arithmetic (RateBounds, Compared, RegressedMeans).                        *)
(*****************************************************************************)
EXTENDS MemoryGovernance, EvalRuns, FiniteSetTheorems, TLAPS

(* What the processes in progress hold. *)
InProgress ==
  /\ \A u \in Rollers : roller[u] # 0 => vstatus[roller[u]] \in {"active", "rejected"}
  /\ \A w \in Writers : writer[w].at = "insert" => writer[w].no \in Versions
  /\ \A n \in gated : vstatus[n] # "none"
  /\ \A n \in Versions : vstatus[n] = "none" => item[n] = NoRow

Inv == TypeOK /\ InProgress /\ ItemTracksVersion /\ ApprovalGoverns

(* The constants keep items of the two kinds apart, and 0 out of both. *)
LEMMA Kinds ==
  /\ Versions \cap Escalations = {}
  /\ 0 \notin Versions
  /\ Versions \subseteq 0 .. MaxVersion
  /\ Versions \subseteq Items
  BY MemoryAssumption DEF Versions, Items

(* The invariant holds before anything is written. *)
LEMMA InvInit == Init => Inv
  BY MemoryAssumption, Kinds
     DEF Init, Inv, TypeOK, InProgress, ItemTracksVersion, ApprovalGoverns, VStatus, NoRow, Rows,
         WIdle, RIdle

(* The lessons of the current document are lessons of folds. *)
LEMMA LessonsType == TypeOK => CurrentLessons \subseteq Folds
  BY DEF TypeOK, CurrentLessons, CurrentDocs, IsLatest

(* Every step keeps the inductive invariant. *)
LEMMA InvStep == Inv /\ [Next]_vars => Inv'
  <1> SUFFICES ASSUME Inv, [Next]_vars PROVE Inv'
    OBVIOUS
  <1> USE MemoryAssumption, Kinds
  <1> USE DEF Inv, TypeOK, InProgress, ItemTracksVersion, ApprovalGoverns, memory
  <1>1. ASSUME NEW w \in Writers, FoldRead(w) PROVE Inv'
    BY <1>1, LessonsType DEF FoldRead
  <1>2. ASSUME NEW w \in Writers, Propose(w) PROVE Inv'
    BY <1>2, LessonsType DEF Propose
  <1>3. ASSUME NEW w \in Writers, Blocked(w) PROVE Inv'
    BY <1>3 DEF Blocked
  <1>4. ASSUME NEW w \in Writers, Number(w) PROVE Inv'
    <2>1. PICK k \in 0 .. MaxVersion - 1 :
              writer' = [writer EXCEPT ![w].at = "insert", ![w].no = k + 1]
      BY <1>4 DEF Number
    <2>2. k + 1 \in Versions /\ k + 1 \in 0 .. MaxVersion
      BY DEF Versions
    <2>3. writer[w] \in [at : {"idle", "number", "insert", "done", "failed"},
                        content : SUBSET Folds, no : 0 .. MaxVersion]
      OBVIOUS
    <2>4. writer'[w].no = k + 1
      BY <2>1, <2>3
    <2>5. writer' \in [Writers -> [at : {"idle", "number", "insert", "done", "failed"},
                                  content : SUBSET Folds, no : 0 .. MaxVersion]]
      BY <2>1, <2>2, <2>3
    <2>6. /\ UNCHANGED <<memory, vote, reviewer, roller, pin, injected>>
          /\ \A x \in Writers : x # w => writer'[x] = writer[x]
      BY <1>4, <2>1 DEF Number
    <2>7. TypeOK'
      BY <2>5, <2>6
    <2>8. \A x \in Writers : writer'[x].at = "insert" => writer'[x].no \in Versions
      <3> TAKE x \in Writers
      <3>1. CASE x = w
        BY <3>1, <2>2, <2>4
      <3>2. CASE x # w
        BY <3>2, <2>6
      <3> QED
        BY <3>1, <3>2
    <2>9. InProgress'
      BY <2>6, <2>8 DEF Versions
    <2> QED
      BY <2>6, <2>7, <2>9
  <1>5. ASSUME NEW w \in Writers, Insert(w) PROVE Inv'
    BY <1>5 DEF Insert, VStatus, OpenRow, NoRow, Rows, WIdle
  <1>6. ASSUME NEW w \in Writers, InsertConflict(w) PROVE Inv'
    BY <1>6 DEF InsertConflict, WIdle
  <1>7. ASSUME NEW i \in Escalations, Escalate(i) PROVE Inv'
    BY <1>7 DEF Escalate, OpenRow, Rows, Items
  <1>8. ASSUME NEW r \in Reviewers, LoadItem(r) PROVE Inv'
    BY <1>8 DEF LoadItem, Rows
  <1>9. ASSUME NEW r \in Reviewers, LoadVersion(r) PROVE Inv'
    BY <1>9 DEF LoadVersion
  <1>10. ASSUME NEW r \in Reviewers, DecideMemory(r) PROVE Inv'
    <2>1. PICK v \in {"active", "rejected"}, x \in {"approved", "rejected"} :
             /\ v = "active" <=> x = "approved"
             /\ vstatus' = [vstatus EXCEPT ![reviewer[r].item] = v]
             /\ item' = [item EXCEPT ![reviewer[r].item] = [status |-> "resolved", resolution |-> x]]
      <3>1. PICK d \in Verdicts :
               /\ vstatus' = [vstatus EXCEPT ![reviewer[r].item] = d.version]
               /\ item' = [item EXCEPT ![reviewer[r].item] =
                             [status |-> "resolved", resolution |-> d.resolution]]
        BY <1>10 DEF DecideMemory
      <3>2. \/ d.version = "active" /\ d.resolution = "approved"
            \/ d.version = "rejected" /\ d.resolution = "rejected"
        BY <3>1 DEF Verdicts
      <3> QED
        BY <3>1, <3>2
    <2>2. reviewer[r].item \in Versions
      BY <1>10 DEF DecideMemory
    <2>3. reviewer' = [reviewer EXCEPT ![r] = RIdle] /\ UNCHANGED <<doc, gated, vote, writer, roller, pin, injected>>
      BY <1>10 DEF DecideMemory
    <2>4. vstatus[reviewer[r].item] = "pending"
      BY <1>10, <2>2 DEF DecideMemory, Admits
    <2>5. TypeOK'
      BY <2>1, <2>2, <2>3 DEF RIdle, Rows, VStatus
    <2>6. InProgress'
      BY <2>1, <2>2, <2>3, <2>4
    <2>7. ItemTracksVersion' /\ ApprovalGoverns'
      BY <2>1, <2>2, <2>3
    <2> QED
      BY <2>5, <2>6, <2>7
  <1>11. ASSUME NEW r \in Reviewers, DecideEscalation(r) PROVE Inv'
    BY <1>11 DEF DecideEscalation, RIdle, Rows, Items
  <1>12. ASSUME NEW r \in Reviewers, Conflict(r) PROVE Inv'
    BY <1>12 DEF Conflict, RIdle
  <1>13. ASSUME NEW u \in Rollers, RollbackLoad(u) PROVE Inv'
    BY <1>13 DEF RollbackLoad, IsLatest
  <1>14. ASSUME NEW u \in Rollers, RollbackCommit(u) PROVE Inv'
    <2>1. /\ roller[u] \in Versions
          /\ vstatus' = [vstatus EXCEPT ![roller[u]] = "rejected"]
          /\ roller' = [roller EXCEPT ![u] = 0]
          /\ UNCHANGED <<doc, gated, item, vote, writer, reviewer, pin, injected>>
      BY <1>14 DEF RollbackCommit, Versions
    <2>2. vstatus[roller[u]] \in {"active", "rejected"}
      BY <1>14 DEF RollbackCommit
    <2>3. TypeOK'
      BY <2>1 DEF VStatus
    <2>4. InProgress' /\ ItemTracksVersion' /\ ApprovalGoverns'
      BY <2>1, <2>2
    <2> QED
      BY <2>3, <2>4
  <1>15. ASSUME NEW j \in Jobs, FirstAttempt(j) PROVE Inv'
    BY <1>15 DEF FirstAttempt, IsLatest, VStatus
  <1>16. ASSUME NEW j \in Jobs, LaterAttempt(j) PROVE Inv'
    BY <1>16 DEF LaterAttempt, VStatus, Versions
  <1>17. ASSUME NEW w \in Folds, CastCheck(w) \/ CastRecord(w) \/ CastQueue(w) PROVE Inv'
    <2>1. /\ vote' \in [Folds -> {"none", "checked", "refused", "recorded", "queued"}]
          /\ UNCHANGED <<memory, writer, reviewer, roller, pin, injected>>
      BY <1>17 DEF CastCheck, CastRecord, CastQueue
    <2> QED
      BY <2>1
  <1>18. ASSUME NEW w \in Folds, FoldStops(w) PROVE Inv'
    BY <1>18 DEF FoldStops, WIdle, Writers
  <1>19. CASE UNCHANGED vars
    BY <1>19 DEF vars
  <1> QED
    BY <1>1, <1>2, <1>3, <1>4, <1>5, <1>6, <1>7, <1>8, <1>9, <1>10, <1>11, <1>12, <1>13, <1>14,
       <1>15, <1>16, <1>17, <1>18, <1>19 DEF Next

(* The inductive invariant holds of every reachable state. *)
THEOREM Invariant == Spec => []Inv
  BY InvInit, InvStep, PTL DEF Spec

(* The inbox projects memory approvals faithfully: open exactly while the  *)
(* version is pending.                                                     *)
THEOREM InboxFaithful == Spec => []ItemTracksVersion
  <1>1. Inv => ItemTracksVersion
    BY DEF Inv
  <1> QED
    BY <1>1, Invariant, PTL

(* A version written under memory_approval is injectable only after an     *)
(* owner approved it, and never after one rejected it.                     *)
THEOREM Governance == Spec => []ApprovalGoverns
  <1>1. Inv => ApprovalGoverns
    BY DEF Inv
  <1> QED
    BY <1>1, Invariant, PTL

(* A rejected version stays rejected, a decided item stays decided: what a *)
(* single step does from a state of the invariant.                         *)
LEMMA FinalStep ==
  ASSUME Inv, [Next]_vars, NEW n \in Versions
  PROVE  /\ vstatus[n] = "rejected" => vstatus'[n] = "rejected"
         /\ item[n].status = "resolved" => item'[n] = item[n]
  <1> DEFINE Goal == /\ vstatus[n] = "rejected" => vstatus'[n] = "rejected"
                     /\ item[n].status = "resolved" => item'[n] = item[n]
  <1> USE MemoryAssumption, Kinds
  <1> USE DEF Inv, TypeOK, InProgress, ItemTracksVersion, ApprovalGoverns, memory
  <1>1. CASE UNCHANGED <<vstatus, item>>
    BY <1>1
  <1>2. ASSUME NEW w \in Writers, Insert(w) PROVE Goal
    <2>1. (vstatus[n] # "rejected" /\ item[n].status # "resolved") \/ n # writer[w].no
      BY <1>2 DEF Insert, NoRow
    <2> QED
      BY <1>2, <2>1 DEF Insert
  <1>3. ASSUME NEW i \in Escalations, Escalate(i) PROVE Goal
    BY <1>3 DEF Escalate, Items
  <1>4. ASSUME NEW r \in Reviewers, DecideMemory(r) PROVE Goal
    BY <1>4 DEF DecideMemory, Admits, Verdicts
  <1>5. ASSUME NEW r \in Reviewers, DecideEscalation(r) PROVE Goal
    BY <1>5 DEF DecideEscalation, Items
  <1>6. ASSUME NEW u \in Rollers, RollbackCommit(u) PROVE Goal
    BY <1>6 DEF RollbackCommit
  <1> QED
    BY <1>1, <1>2, <1>3, <1>4, <1>5, <1>6
    DEF Next, vars, CastCheck, CastRecord, CastQueue, FoldStops, FoldRead, Propose, Blocked, Number, InsertConflict, LoadItem, LoadVersion,
        Conflict, RollbackLoad, FirstAttempt, LaterAttempt

(* No approval, however late, and no rollback brings a rejected version    *)
(* back.                                                                   *)
THEOREM RejectionFinal == Spec => RejectedIsFinal
  <1>1. Inv /\ [Next]_vars =>
          [\A n \in Versions : vstatus[n] = "rejected" => vstatus'[n] = "rejected"]_vars
    BY FinalStep
  <1> QED
    BY <1>1, Invariant, PTL DEF Spec, RejectedIsFinal

(* However many owners decide a memory change at once, one decision stands. *)
THEOREM DecidedOnce == Spec => MemoryDecidedOnce
  <1>1. Inv /\ [Next]_vars =>
          [\A n \in Versions : item[n].status = "resolved" => item'[n] = item[n]]_vars
    BY FinalStep
  <1> QED
    BY <1>1, Invariant, PTL DEF Spec, MemoryDecidedOnce

-------------------------------------------------------------------------------

(* The types the first part needs. *)
Shape ==
  /\ at \in [Evals -> Active \cup {"none", "created", "queue", "done"}]
  /\ status \in [Evals -> Final \cup {"absent", "running"}]
  /\ exec \in [Evals -> [total : Nat, graded : Nat, passed : Nat, ran : Nat, attempt : Nat]]
  /\ DOMAIN rate = Evals
  /\ rate = [r \in Evals |-> rate[r]]
  /\ suite \in Nat

(* While a run is being executed its row is running. *)
Open ==
  \A r \in Evals : /\ at[r] = "none" => status[r] = "absent"
                   /\ at[r] \in {"created", "cases", "save"} => status[r] = "running"

(* An execution grades the cases it runs, and saves when all are graded. *)
Counts ==
  \A r \in Evals : /\ at[r] \in {"cases", "save"} => exec[r].ran = exec[r].graded
                   /\ at[r] = "save" => exec[r].graded = exec[r].total

(* The inductive invariant of the records of runs. *)
EvalInv == Shape /\ Open /\ Counts /\ HonestRate

(* What each run's entry leaves of it, whatever it does to run r. *)
RunOK(r) ==
  /\ at[r] = "none" => status[r] = "absent"
  /\ at[r] \in {"created", "cases", "save"} => status[r] = "running"
  /\ at[r] \in {"cases", "save"} => exec[r].ran = exec[r].graded
  /\ at[r] = "save" => exec[r].graded = exec[r].total
  /\ status[r] = "completed" => exec[r].ran = exec[r].total /\ rate[r] = Rounded(exec[r])

(* It is a statement about every run. *)
LEMMA ByRun == EvalInv <=> Shape /\ \A r \in Evals : RunOK(r)
BY DEF EvalInv, Open, Counts, HonestRate, RunOK

(* At the beginning there is no run. *)
LEMMA EvalStarts == ASSUME EvalAssumption, EvalInit PROVE EvalInv
<1>1. Fresh \in [total : Nat, graded : Nat, passed : Nat, ran : Nat, attempt : Nat]
  BY DEF Fresh
<1>2. suite \in Nat BY DEF EvalAssumption, EvalInit
<1>3. Shape BY <1>1, <1>2 DEF EvalInit, Shape
<1>4. \A r \in Evals : RunOK(r) BY DEF EvalInit, RunOK
<1> QED BY <1>3, <1>4, ByRun

(* A record of one run stays once it is final. *)
Stays(r) == status[r] \in Final => status'[r] = status[r] /\ rate'[r] = rate[r]

(* Nothing happens to the runs but one of them. *)
LEMMA OneRun ==
  ASSUME EvalInv, Shape', NEW r \in Evals, RunOK(r)', Stays(r),
         \A p \in Evals : p # r => /\ at'[p] = at[p] /\ status'[p] = status[p]
                                   /\ exec'[p] = exec[p] /\ rate'[p] = rate[p]
  PROVE  EvalInv' /\ \A p \in Evals : Stays(p)
<1>1. ASSUME NEW p \in Evals, p # r PROVE RunOK(p)' /\ Stays(p)
  BY <1>1, ByRun DEF RunOK, Stays, Rounded
<1>2. \A p \in Evals : RunOK(p)' BY <1>1
<1>3. EvalInv'
  BY <1>2 DEF EvalInv, Open, Counts, HonestRate, RunOK
<1> QED BY <1>1, <1>3

(* The row is created, and its entry - or not. *)
LEMMA StartStep ==
  ASSUME EvalAssumption, EvalInv, NEW r \in Evals,
         Start(r) \/ Enqueue(r) \/ StopStart(r)
  PROVE  EvalInv' /\ \A p \in Evals : Stays(p)
<1>1. Shape /\ RunOK(r) BY ByRun
<1>2. UNCHANGED <<suite, exec, rate>>
  BY DEF Start, Enqueue, StopStart, rows
<1>3. Shape' BY <1>1, <1>2 DEF Shape, Start, Enqueue, StopStart, Goto
<1>4. \A p \in Evals : p # r => at'[p] = at[p] /\ status'[p] = status[p]
  BY <1>1 DEF Shape, Start, Enqueue, StopStart, Goto
<1>5. RunOK(r)' /\ Stays(r)
  BY <1>1, <1>2
     DEF Shape, RunOK, Stays, Start, Enqueue, StopStart, Goto, Final,
         Rounded
<1> QED BY <1>2, <1>3, <1>4, <1>5, OneRun

(* An entry begins: with nothing, if the run has ended. *)
LEMMA DeliverStep ==
  ASSUME EvalAssumption, EvalInv, NEW r \in Evals, Deliver(r) \/ DropExhausted(r)
  PROVE  EvalInv' /\ \A p \in Evals : Stays(p)
<1>1. Shape /\ RunOK(r) BY ByRun
<1>2. CASE Deliver(r)
  <2> DEFINE begun == [Fresh EXCEPT !.total = suite]
  <2>1. /\ begun \in [total : Nat, graded : Nat, passed : Nat, ran : Nat, attempt : Nat]
        /\ begun.ran = begun.graded
    BY <1>1 DEF Shape, Fresh
  <2>2. /\ at[r] = "queue"
        /\ at' = [at EXCEPT ![r] = IF status[r] = "running" THEN "cases" ELSE "done"]
        /\ exec' = [exec EXCEPT ![r] = IF status[r] = "running" THEN begun ELSE exec[r]]
        /\ UNCHANGED <<suite, status, rate>>
    BY <1>2 DEF Deliver, Goto, rows
  <2> HIDE DEF begun
  <2>3. Shape' BY <1>1, <2>1, <2>2 DEF Shape, Active
  <2>4. \A p \in Evals : p # r => at'[p] = at[p] /\ exec'[p] = exec[p] BY <1>1, <2>2 DEF Shape
  <2>5. RunOK(r)' /\ Stays(r) BY <1>1, <2>1, <2>2 DEF Shape, RunOK, Stays, Final, Rounded
  <2> QED BY <2>2, <2>3, <2>4, <2>5, OneRun
<1>3. CASE DropExhausted(r)
  <2>1. /\ at[r] = "queue" /\ at' = [at EXCEPT ![r] = "done"]
        /\ UNCHANGED <<suite, status, exec, rate>>
    BY <1>3 DEF DropExhausted, Goto, rows
  <2>2. Shape' BY <1>1, <2>1 DEF Shape
  <2>3. RunOK(r)' /\ Stays(r) BY <1>1, <2>1 DEF Shape, RunOK, Stays, Rounded
  <2>4. \A p \in Evals : p # r => at'[p] = at[p] BY <1>1, <2>1 DEF Shape
  <2> QED BY <2>1, <2>2, <2>3, <2>4, OneRun
<1> QED BY <1>2, <1>3

(* A case is graded or tried again. *)
LEMMA CaseStep ==
  ASSUME EvalAssumption, EvalInv, NEW r \in Evals, RunCase(r) \/ RetryCase(r)
  PROVE  EvalInv' /\ \A p \in Evals : Stays(p)
<1>1. Shape /\ RunOK(r) BY ByRun
<1>2. at[r] = "cases" /\ UNCHANGED <<suite, status, rate, at>>
  BY DEF RunCase, RetryCase, InCases, rows
<1>3. exec[r] \in [total : Nat, graded : Nat, passed : Nat, ran : Nat, attempt : Nat]
  BY <1>1 DEF Shape
<1>4. exec[r].ran = exec[r].graded /\ status[r] = "running" BY <1>1, <1>2 DEF RunOK
<1>5. PICK e \in [total : Nat, graded : Nat, passed : Nat, ran : Nat, attempt : Nat] :
        exec' = [exec EXCEPT ![r] = e] /\ e.ran = e.graded
  <2>1. CASE RunCase(r)
    <3>1. PICK pass \in {0, 1} :
            exec' = [exec EXCEPT ![r].graded = @ + 1, ![r].passed = @ + pass,
                                 ![r].ran = @ + 1, ![r].attempt = 1]
      BY <2>1 DEF RunCase
    <3> DEFINE e == [exec[r] EXCEPT !.graded = @ + 1, !.passed = @ + pass, !.ran = @ + 1,
                                    !.attempt = 1]
    <3>2. e \in [total : Nat, graded : Nat, passed : Nat, ran : Nat, attempt : Nat]
      <4>1. /\ exec[r].graded + 1 \in Nat /\ exec[r].passed + pass \in Nat
            /\ exec[r].ran + 1 \in Nat /\ 1 \in Nat
        BY <1>3
      <4> QED BY <1>3, <4>1
    <3>3. e.ran = e.graded BY <1>3, <1>4
    <3>4. exec' = [exec EXCEPT ![r] = e] BY <1>1, <3>1 DEF Shape
    <3> HIDE DEF e
    <3> QED BY <3>2, <3>3, <3>4
  <2>2. CASE RetryCase(r)
    <3> DEFINE e == [exec[r] EXCEPT !.attempt = @ + 1]
    <3>1. e \in [total : Nat, graded : Nat, passed : Nat, ran : Nat, attempt : Nat]
      BY <1>3
    <3>2. e.ran = e.graded BY <1>3, <1>4
    <3>3. exec' = [exec EXCEPT ![r] = e] BY <1>1, <2>2 DEF Shape, RetryCase
    <3> HIDE DEF e
    <3> QED BY <3>1, <3>2, <3>3
  <2> QED BY <2>1, <2>2
<1>6. exec'[r] = e /\ \A p \in Evals : p # r => exec'[p] = exec[p] BY <1>1, <1>5 DEF Shape
<1>7. Shape' BY <1>1, <1>2, <1>5 DEF Shape
<1>8. RunOK(r)' /\ Stays(r) BY <1>2, <1>4, <1>5, <1>6 DEF RunOK, Stays
<1> QED BY <1>2, <1>6, <1>7, <1>8, OneRun

(* The run stops early, reads its baseline, saves, and tells. *)
LEMMA EndStep ==
  ASSUME EvalAssumption, EvalInv, NEW r \in Evals,
         Halt(r) \/ Refuse(r) \/ ReadBaseline(r) \/ Save(r) \/ Tell(r)
  PROVE  EvalInv' /\ \A p \in Evals : Stays(p)
<1>1. Shape /\ RunOK(r) BY ByRun
<1>2. CASE Halt(r) \/ Refuse(r)
  <2>1. PICK end \in {"errored", "budget_exceeded"} :
          /\ at[r] = "cases" /\ at' = [at EXCEPT ![r] = "tell"]
          /\ status' = [status EXCEPT ![r] = end]
          /\ UNCHANGED <<suite, exec, rate>>
    BY <1>2 DEF Halt, Refuse, EndEarly, Goto, rows
  <2>2. Shape' BY <1>1, <2>1 DEF Shape, Active, Final
  <2>3. \A p \in Evals : p # r => at'[p] = at[p] /\ status'[p] = status[p]
    BY <1>1, <2>1 DEF Shape
  <2>4. RunOK(r)' /\ Stays(r) BY <1>1, <2>1 DEF Shape, RunOK, Stays, Final
  <2> QED BY <2>1, <2>2, <2>3, <2>4, OneRun
<1>3. CASE ReadBaseline(r)
  <2>1. /\ at[r] = "cases" /\ at' = [at EXCEPT ![r] = "save"]
        /\ exec[r].graded = exec[r].total
        /\ UNCHANGED <<suite, status, exec, rate>>
    BY <1>3 DEF ReadBaseline, Goto, rows
  <2>2. Shape' BY <1>1, <2>1 DEF Shape, Active
  <2>3. \A p \in Evals : p # r => at'[p] = at[p] BY <1>1, <2>1 DEF Shape
  <2>4. RunOK(r)' /\ Stays(r) BY <1>1, <2>1 DEF Shape, RunOK, Stays
  <2> QED BY <2>1, <2>2, <2>3, <2>4, OneRun
<1>4. CASE Save(r)
  <2>1. /\ at[r] = "save" /\ at' = [at EXCEPT ![r] = "tell"]
        /\ rate' = [rate EXCEPT ![r] = Rounded(exec[r])]
        /\ status' = [status EXCEPT ![r] = "completed"]
        /\ UNCHANGED <<suite, exec>>
    BY <1>4 DEF Save, Goto, rows
  <2>2. Shape' BY <1>1, <2>1 DEF Shape, Active, Final
  <2>3. /\ rate'[r] = Rounded(exec[r]) /\ at'[r] = "tell"
        /\ \A p \in Evals : p # r => at'[p] = at[p] /\ status'[p] = status[p] /\ rate'[p] = rate[p]
    BY <1>1, <2>1 DEF Shape
  <2>4. exec[r].ran = exec[r].total /\ status[r] = "running" BY <1>1, <2>1 DEF RunOK
  <2>5. Rounded(exec[r])' = Rounded(exec[r]) BY <2>1 DEF Rounded
  <2>6. RunOK(r)' BY <2>1, <2>3, <2>4, <2>5 DEF RunOK
  <2>7. Stays(r) BY <2>4 DEF Stays, Final
  <2> QED BY <2>1, <2>2, <2>3, <2>6, <2>7, OneRun
<1>5. CASE Tell(r)
  <2>1. /\ at[r] = "tell" /\ at' = [at EXCEPT ![r] = "done"]
        /\ UNCHANGED <<suite, status, exec, rate>>
    BY <1>5 DEF Tell, Goto, rows
  <2>2. Shape' BY <1>1, <2>1 DEF Shape
  <2>3. \A p \in Evals : p # r => at'[p] = at[p] BY <1>1, <2>1 DEF Shape
  <2>4. RunOK(r)' /\ Stays(r) BY <1>1, <2>1 DEF Shape, RunOK, Stays, Rounded
  <2> QED BY <2>1, <2>2, <2>3, <2>4, OneRun
<1> QED BY <1>2, <1>3, <1>4, <1>5

(* A worker stops, or arq's time limit passes, in the middle of a run.     *)
LEMMA CutStep ==
  ASSUME EvalAssumption, EvalInv, NEW r \in Evals, Stop(r) \/ Expire(r)
  PROVE  EvalInv' /\ \A p \in Evals : Stays(p)
<1>1. Shape /\ RunOK(r) BY ByRun
<1>2. PICK to \in {"queue", "done"} :
        /\ at[r] \in Active /\ at' = [at EXCEPT ![r] = to]
        /\ UNCHANGED <<suite, status, exec, rate>>
  BY DEF Stop, Expire, Cut, rows
<1>3. Shape' BY <1>1, <1>2 DEF Shape
<1>4. \A p \in Evals : p # r => at'[p] = at[p] BY <1>1, <1>2 DEF Shape
<1>5. RunOK(r)' /\ Stays(r) BY <1>1, <1>2 DEF Shape, RunOK, Stays, Rounded
<1> QED BY <1>2, <1>3, <1>4, <1>5, OneRun

(* Every step keeps the invariant, and what an ended run recorded. *)
LEMMA EvalKeeps ==
  ASSUME EvalAssumption, EvalInv, [EvalNext]_evalVars
  PROVE  EvalInv' /\ \A p \in Evals : Stays(p)
<1>1. Shape /\ \A r \in Evals : RunOK(r) BY ByRun
<1>2. CASE UNCHANGED <<status, at, exec, rate>> /\ suite' \in Nat
  <2>1. Shape' BY <1>1, <1>2 DEF Shape
  <2>2. \A p \in Evals : RunOK(p)' /\ Stays(p) BY <1>1, <1>2 DEF RunOK, Stays, Rounded
  <2> QED BY <2>1, <2>2 DEF EvalInv, Open, Counts, HonestRate, RunOK
<1>3. CASE EditSuite
  <2>1. suite' \in Nat BY <1>3 DEF EditSuite, AddCase, DropCase, EvalAssumption
  <2> QED BY <1>2, <1>3, <2>1 DEF EditSuite
<1>4. CASE UNCHANGED evalVars BY <1>1, <1>2, <1>4 DEF evalVars, Shape
<1>5. ASSUME NEW r \in Evals,
             Start(r) \/ Work(r) \/ StopStart(r) \/ Stop(r) \/ Expire(r)
      PROVE  EvalInv' /\ \A p \in Evals : Stays(p)
  BY <1>5, StartStep, DeliverStep, CaseStep, EndStep, CutStep DEF Work
<1> QED BY <1>3, <1>4, <1>5 DEF EvalNext, Rest

(* The invariant of the runs' records holds for every number of runs,        *)
(* every suite and every limit.                                              *)
THEOREM EvalInvariance == EvalSpec => []EvalInv
<1>1. EvalInit => EvalInv BY EvalStarts, EvalAssumption
<1>2. EvalInv /\ [EvalNext]_evalVars => EvalInv' BY EvalKeeps, EvalAssumption
<1> QED BY <1>1, <1>2, PTL DEF EvalSpec

(* A completed run ran every case it loaded, in one execution (evals.py,   *)
(* execute_eval_run).                                                      *)
THEOREM RatesHonest == EvalSpec => []HonestRate
<1>1. EvalInv => HonestRate BY DEF EvalInv
<1> QED BY <1>1, EvalInvariance, PTL

(* What an ended run recorded stays, however often its entry is delivered  *)
(* (evals.py, execute_eval_run).                                           *)
THEOREM RecordsStay == EvalSpec => RecordStays
<1>1. EvalInv /\ [EvalNext]_evalVars =>
        [\A r \in Evals :
           status[r] \in Final => status'[r] = status[r] /\ rate'[r] = rate[r]]_evalVars
  BY EvalKeeps, EvalAssumption DEF Stays
<1> QED BY <1>1, EvalInvariance, PTL DEF EvalSpec, RecordStays

-------------------------------------------------------------------------------
(* The team of run r may be told, and must be: it stopped early, or passed   *)
(* a smaller share than its baseline.                                        *)
May(r) == status[r] # "completed" \/ Below(r) \/ Close(r)
Must(r) == status[r] # "completed" \/ (Below(r) /\ ~Close(r))
AsDue(r) == (May(r)' <=> May(r)) /\ (Must(r)' <=> Must(r))

(* A run passes what it grades, and is complete when all is graded. *)
Sized(r) ==
  /\ exec[r].passed <= exec[r].graded
  /\ status[r] = "completed" => exec[r].graded = exec[r].total

(* A baseline is a completed run. *)
Based(r) == base[r] # NoRun => base[r] \in Evals /\ status[base[r]] = "completed"

(* Where the entry of an ended run is: back on the queue only if it was      *)
(* cut.                                                                      *)
Placed(r) ==
  /\ status[r] \in Final => at[r] \in {"tell", "queue", "done"}
  /\ at[r] = "tell" => status[r] \in Final
  /\ at[r] = "queue" /\ status[r] \in Final => r \in cut

(* Ranks are those of the runs there are; a run not yet created has none. *)
Ranked(r) ==
  /\ born[r] \in 0 .. Cardinality(Evals)
  /\ at[r] = "none" => born[r] = 0

(* Who was told had reason to be, and who has reason is told or was cut. *)
Judged(r) ==
  /\ r \in told => at[r] = "done" /\ status[r] \in Final /\ May(r)
  /\ at[r] = "done" /\ status[r] \in Final /\ Must(r) => r \in told \cup cut

(* What a run's end and alert rest on. *)
Verdict(r) == Sized(r) /\ Based(r) /\ Placed(r) /\ Ranked(r) /\ Judged(r)

(* The invariant of the alerts of runs. *)
VerdictInv ==
  /\ base = [r \in Evals |-> base[r]] /\ born = [r \in Evals |-> born[r]]
  /\ \A r \in Evals : Verdict(r)

(* A larger number, n times, is larger by n. *)
LEMMA Product ==
  ASSUME NEW n \in Nat, NEW a \in Nat, NEW b \in Nat, a < b
  PROVE  n * a + n <= n * b
<1>1. PICK d \in Nat : b = a + 1 + d
  <2>1. b - (a + 1) \in Nat /\ b = a + 1 + (b - (a + 1)) OBVIOUS
  <2> QED BY <2>1
<1>2. n * b = n * a + n + n * d BY <1>1
<1>3. n * d \in Nat /\ n * a \in Nat OBVIOUS
<1> QED BY <1>2, <1>3

(* What the quotient is. *)
LEMMA Quotient ==
  ASSUME NEW x \in Nat, NEW d \in Nat \ {0}
  PROVE  x \div d \in Nat /\ d * (x \div d) <= x /\ x < d * (x \div d) + d
OBVIOUS

(* What divides without rest. *)
LEMMA Divides ==
  ASSUME NEW m \in Nat, NEW t \in Nat \ {0}, m % t = 0
  PROVE  m \div t \in Nat /\ m = t * (m \div t)
OBVIOUS

(* Rounding, by half the divisor, what the divisor divides. *)
LEMMA DivExact ==
  ASSUME NEW x \in Nat, NEW d \in Nat \ {0}, NEW a \in Nat, NEW n \in Nat,
         x = d * a + n, n < d
  PROVE  x \div d = a
<1> DEFINE q == x \div d
<1>1. q \in Nat /\ d * q <= x /\ x < d * q + d BY Quotient
<1>2. d * a \in Nat OBVIOUS
<1> HIDE DEF q
<1>3. d * q \in Nat BY <1>1
<1>4. ~(a < q)
  <2>1. a < q => d * a + d <= d * q BY <1>1, Product
  <2> QED BY <1>1, <1>2, <1>3, <2>1
<1>5. ~(q < a)
  <2>1. q < a => d * q + d <= d * a BY <1>1, Product
  <2> QED BY <1>1, <1>2, <1>3, <2>1
<1>6. q = a BY <1>1, <1>4, <1>5
<1> QED BY <1>6 DEF q

(* A positive factor keeps an order. *)
LEMMA Scaled ==
  ASSUME NEW k \in Nat \ {0}, NEW a \in Nat, NEW b \in Nat
  PROVE  k * a < k * b <=> a < b
<1>1. a < b => k * a + k <= k * b BY Product
<1>2. b < a => k * b + k <= k * a BY Product
<1>3. k * a \in Nat /\ k * b \in Nat OBVIOUS
<1> QED BY <1>1, <1>2, <1>3

(* And a factor keeps it, weakly. *)
LEMMA ScaledUp ==
  ASSUME NEW k \in Nat, NEW a \in Nat, NEW b \in Nat, a <= b
  PROVE  k * a <= k * b
<1>1. a < b => k * a + k <= k * b BY Product
<1>2. k * a \in Nat /\ k * b \in Nat OBVIOUS
<1> QED BY <1>1, <1>2

(* The column, for p cases of t; whether it can hold the share exactly.      *)
Column(p, t) == (20000 * p + t) \div (2 * t)
Even(p, t) == (10000 * p) % t = 0

(* The column is within half a unit of its last place of the share, and is   *)
(* the share where it can be.                                                *)
LEMMA RateBounds ==
  ASSUME NEW p \in Nat, NEW t \in Nat \ {0}
  PROVE  /\ Column(p, t) \in Nat
         /\ 2 * (t * Column(p, t)) <= 20000 * p + t
         /\ 20000 * p + t < 2 * (t * Column(p, t)) + 2 * t
         /\ Even(p, t) => t * Column(p, t) = 10000 * p
<1> DEFINE x == Column(p, t)
           n == 20000 * p + t
           d == 2 * t
<1>1. n \in Nat /\ d \in Nat \ {0} /\ t < d OBVIOUS
<1>2. x = n \div d BY DEF Column
<1> HIDE DEF x
<1>3. x \in Nat /\ d * x <= n /\ n < d * x + d
  <2> HIDE DEF n, d
  <2> QED BY <1>1, <1>2, Quotient
<1>4. d * x = 2 * (t * x) BY <1>3
<1>5. ASSUME Even(p, t) PROVE t * x = 10000 * p
  <2> DEFINE m == 10000 * p
             k == m \div t
  <2>1. m \in Nat OBVIOUS
  <2>2. k \in Nat /\ m = t * k
    <3>1. m % t = 0 BY <1>5 DEF Even
    <3> HIDE DEF m
    <3> QED BY <2>1, <3>1, Divides
  <2>4. n = 2 * m + t OBVIOUS
  <2>5. d * k = 2 * (t * k) BY <2>2
  <2>6. n = d * k + t
    <3> HIDE DEF n, d, k, m
    <3> QED BY <2>1, <2>2, <2>4, <2>5
  <2>7. x = k
    <3> HIDE DEF n, d, k, m
    <3> QED BY <1>1, <1>2, <2>2, <2>6, DivExact
  <2> QED BY <2>2, <2>7
<1> QED BY <1>3, <1>4, <1>5 DEF x

(* A share p of t against the column x of a share q of u.                    *)
LEMMA Compared ==
  ASSUME NEW p \in Nat, NEW t \in Nat \ {0}, NEW q \in Nat, NEW u \in Nat \ {0}, NEW x \in Nat,
         2 * (u * x) <= 20000 * q + u, 20000 * q + u < 2 * (u * x) + 2 * u,
         NEW even \in BOOLEAN, even => u * x = 10000 * q
  PROVE  LET worse == p * u < q * t
             near == /\ ~even
                     /\ 20000 * (q * t) <= 20000 * (p * u) + t * u
                     /\ 20000 * (p * u) <= 20000 * (q * t) + t * u
         IN /\ 10000 * p < x * t => worse \/ near
            /\ worse /\ ~near => 10000 * p < x * t
<1> DEFINE pu == p * u
           qt == q * t
           tu == t * u
           w == t * (u * x)
<1>1. pu \in Nat /\ qt \in Nat /\ tu \in Nat /\ w \in Nat /\ u * x \in Nat /\ x * t \in Nat OBVIOUS
<1>2. 10000 * p < x * t <=> 10000 * pu < w
  <2>1. u * (10000 * p) = 10000 * pu OBVIOUS
  <2>2. u * (x * t) = w OBVIOUS
  <2>3. u * (10000 * p) < u * (x * t) <=> 10000 * p < x * t
    <3>1. 10000 * p \in Nat OBVIOUS
    <3> QED BY <1>1, <3>1, Scaled
  <2> QED BY <2>1, <2>2, <2>3
<1>3. 2 * w <= 20000 * qt + tu
  <2>1. t * (2 * (u * x)) <= t * (20000 * q + u)
    <3>1. 2 * (u * x) \in Nat /\ 20000 * q + u \in Nat BY <1>1
    <3> QED BY <3>1, ScaledUp
  <2>2. t * (2 * (u * x)) = 2 * w BY <1>1
  <2>3. t * (20000 * q + u) = 20000 * qt + tu OBVIOUS
  <2> QED BY <2>1, <2>2, <2>3
<1>4. 20000 * qt + tu < 2 * w + 2 * tu
  <2>1. t * (20000 * q + u) < t * (2 * (u * x) + 2 * u)
    <3>1. 2 * (u * x) + 2 * u \in Nat /\ 20000 * q + u \in Nat BY <1>1
    <3> QED BY <3>1, Scaled
  <2>2. t * (2 * (u * x) + 2 * u) = 2 * w + 2 * tu
    <3> DEFINE y == u * x
    <3>1. t * (2 * y + 2 * u) = 2 * (t * y) + 2 * (t * u)
      <4>1. y \in Nat BY <1>1
      <4> HIDE DEF y
      <4> QED BY <4>1
    <3> QED BY <3>1
  <2>3. t * (20000 * q + u) = 20000 * qt + tu OBVIOUS
  <2> QED BY <2>1, <2>2, <2>3
<1>5. even => w = 10000 * qt
  <2>1. t * (10000 * q) = 10000 * qt OBVIOUS
  <2> QED BY <2>1
<1> HIDE DEF pu, qt, tu, w
<1>6. 10000 * pu < w => \/ pu < qt
                        \/ ~even /\ 20000 * qt <= 20000 * pu + tu /\ 20000 * pu <= 20000 * qt + tu
  BY <1>1, <1>3, <1>5
<1>7. /\ pu < qt
      /\ ~(~even /\ 20000 * qt <= 20000 * pu + tu /\ 20000 * pu <= 20000 * qt + tu)
      => 10000 * pu < w
  BY <1>1, <1>4, <1>5
<1> QED BY <1>2, <1>6, <1>7 DEF pu, qt, tu

(* What Tell compares, for a run that has completed, is what the shares      *)
(* compare to, but for the rounding.                                         *)
LEMMA RegressedMeans ==
  ASSUME EvalInv, NEW r \in Evals, status[r] = "completed", base[r] # NoRun,
         Sized(r), Based(r), Sized(base[r])
  PROVE  /\ Regressed(r) => Worse(r, base[r]) \/ Near(r, base[r])
         /\ Worse(r, base[r]) /\ ~Near(r, base[r]) => Regressed(r)
<1> DEFINE b == base[r]
           p == exec[r].passed
           q == exec[b].passed
           t == Size(r)
           u == Size(b)
           x == rate[b]
<1>1. b \in Evals /\ status[b] = "completed" /\ b # NoRun BY DEF Based
<1>2. /\ exec[r] \in [total : Nat, graded : Nat, passed : Nat, ran : Nat, attempt : Nat]
      /\ exec[b] \in [total : Nat, graded : Nat, passed : Nat, ran : Nat, attempt : Nat]
  BY <1>1 DEF EvalInv, Shape
<1>3. exec[r].passed <= exec[r].total /\ exec[b].passed <= exec[b].total
  BY <1>1, <1>2 DEF Sized
<1>4. p \in Nat /\ q \in Nat /\ t \in Nat \ {0} /\ u \in Nat \ {0} BY <1>2 DEF Size
<1>5. x = Column(q, u)
  <2>1. x = Rounded(exec[b]) BY <1>1, ByRun DEF RunOK
  <2>2. CASE exec[b].total = 0
    <3>1. q = 0 /\ u = 1 BY <1>2, <1>3, <2>2 DEF Size
    <3>2. (20000 * 0 + 1) \div (2 * 1) = 0 OBVIOUS
    <3> QED BY <2>1, <2>2, <3>1, <3>2 DEF Rounded, Column
  <2>3. CASE exec[b].total # 0
    BY <2>1, <2>3 DEF Rounded, Size, Column
  <2> QED BY <2>2, <2>3
<1>6. Regressed(r) <=> 10000 * p < x * t
  <2>1. x \in Nat
    <3> HIDE DEF q, u, x
    <3> QED BY <1>4, <1>5, RateBounds
  <2>2. CASE exec[r].total = 0
    <3>1. p = 0 /\ t = 1 BY <1>2, <1>3, <2>2 DEF Size
    <3>2. Regressed(r) <=> x > 0 BY <2>2 DEF Regressed
    <3> HIDE DEF x, p, t
    <3> QED BY <2>1, <3>1, <3>2
  <2>3. CASE exec[r].total # 0
    BY <2>3 DEF Regressed, Size
  <2> QED BY <2>2, <2>3
<1> DEFINE even == Even(q, u)
<1>7. Worse(r, b) <=> p * u < q * t BY DEF Worse
<1>8. Near(r, b) <=> /\ ~even
                     /\ 20000 * (q * t) <= 20000 * (p * u) + t * u
                     /\ 20000 * (p * u) <= 20000 * (q * t) + t * u
  BY DEF Near, Even
<1>9. /\ x \in Nat
      /\ 2 * (u * x) <= 20000 * q + u
      /\ 20000 * q + u < 2 * (u * x) + 2 * u
      /\ even => u * x = 10000 * q
  <2> HIDE DEF q, u, x
  <2> QED BY <1>4, <1>5, RateBounds
<1>10. even \in BOOLEAN BY DEF Even
<1> HIDE DEF p, q, t, u, x, even
<1> QED BY <1>4, <1>6, <1>7, <1>8, <1>9, <1>10, Compared DEF b

(* It gives the property. *)
LEMMA VerdictMeans == VerdictInv => AlertsMatch
<1> SUFFICES ASSUME VerdictInv, NEW r \in Evals, at[r] = "done", status[r] \in Final
             PROVE  /\ r \in told => May(r)
                    /\ Must(r) => r \in told \cup cut
  BY DEF AlertsMatch, Concluded, May, Must
<1> QED BY DEF VerdictInv, Verdict, Judged

(* At the beginning nobody was told. *)
LEMMA VerdictInit == ASSUME EvalAssumption, EvalInit PROVE VerdictInv
<1>1. IsFiniteSet(Evals) /\ Cardinality(Evals) \in Nat
  BY FS_CardinalityType DEF EvalAssumption
<1>2. \A r \in Evals : Verdict(r)
  BY <1>1 DEF EvalInit, Fresh, Verdict, Sized, Based, Placed, Ranked, Judged, Final
<1> QED BY <1>2 DEF EvalInit, VerdictInv

(* The rank of the next run. *)
LEMMA RankFits ==
  ASSUME EvalAssumption, NEW r \in Evals, NEW old \in SUBSET (Evals \ {r})
  PROVE  1 + Cardinality(old) \in 0 .. Cardinality(Evals)
<1>1. IsFiniteSet(Evals) /\ IsFiniteSet(Evals \ {r}) BY FS_Subset DEF EvalAssumption
<1>2. Cardinality(Evals \ {r}) = Cardinality(Evals) - 1 BY <1>1, FS_RemoveElement
<1>3. IsFiniteSet(old) /\ Cardinality(old) <= Cardinality(Evals \ {r}) BY <1>1, FS_Subset
<1>4. Cardinality(old) \in Nat /\ Cardinality(Evals) \in Nat BY <1>1, <1>3, FS_CardinalityType
<1> QED BY <1>2, <1>3, <1>4

(* Of some runs one is the newest. *)
LEMMA NewestExists ==
  ASSUME EvalAssumption, \A q \in Evals : born[q] \in 0 .. Cardinality(Evals),
         NEW done \in SUBSET Evals, done # {}
  PROVE  \E q \in done : \A p \in done : born[p] <= born[q]
<1> DEFINE N == Cardinality(Evals)
           Ages == {N - born[q] : q \in done}
<1>1. N \in Nat BY FS_CardinalityType DEF EvalAssumption
<1>2. Ages \in SUBSET Nat /\ Ages # {} BY <1>1
<1>3. \E x \in Ages : \A y \in Ages : ~(<<y, x>> \in OpToRel(<, Nat))
  <2> HIDE DEF Ages
  <2> QED BY <1>2, NatLessThanWellFounded, WFMin
<1>4. PICK q \in done : \A y \in Ages : ~(y < N - born[q])
  <2>1. PICK x \in Ages : \A y \in Ages : ~(<<y, x>> \in OpToRel(<, Nat)) BY <1>3
  <2>2. \A y \in Ages : ~(y < x) BY <1>2, <2>1 DEF OpToRel
  <2> QED BY <2>2
<1>5. ASSUME NEW p \in done PROVE born[p] <= born[q]
  <2>1. ~(N - born[p] < N - born[q]) BY <1>4
  <2>2. born[p] \in Nat /\ born[q] \in Nat OBVIOUS
  <2> QED BY <1>1, <2>1, <2>2
<1> QED BY <1>5

(* What is due for a run that has ended is due from then on. *)
LEMMA DueStays ==
  ASSUME NEW r \in Evals, status[r] \in Final, Stays(r), Based(r),
         base'[r] = base[r], exec'[r] = exec[r] \/ status[r] # "completed",
         base[r] # NoRun => exec'[base[r]] = exec[base[r]]
  PROVE  AsDue(r)
<1>1. status'[r] = status[r] BY DEF Stays
<1>2. CASE status[r] # "completed" BY <1>1, <1>2 DEF AsDue, May, Must
<1>3. CASE status[r] = "completed" /\ base[r] = NoRun
  BY <1>1, <1>3 DEF AsDue, May, Must, Below, Close
<1>4. CASE status[r] = "completed" /\ base[r] # NoRun
  <2>1. exec'[r] = exec[r] /\ exec'[base[r]] = exec[base[r]] BY <1>4
  <2>2. Worse(r, base[r])' <=> Worse(r, base[r]) BY <2>1 DEF Worse, Size
  <2>3. Near(r, base[r])' <=> Near(r, base[r]) BY <2>1 DEF Near, Size
  <2> QED BY <1>1, <1>4, <2>2, <2>3 DEF AsDue, May, Must, Below, Close
<1> QED BY <1>2, <1>3, <1>4

(* A step of run r that leaves the verdicts of the others alone. *)
LEMMA OthersVerdict ==
  ASSUME EvalInv, VerdictInv, NEW r \in Evals, status[r] \in Final => exec'[r] = exec[r],
         \A p \in Evals : Stays(p),
         \A p \in Evals : p # r => /\ at'[p] = at[p] /\ status'[p] = status[p]
                                   /\ exec'[p] = exec[p] /\ base'[p] = base[p]
                                   /\ born'[p] = born[p]
                                   /\ p \in told' <=> p \in told
                                   /\ p \in cut' <=> p \in cut
  PROVE  \A p \in Evals : p # r => Verdict(p)'
<1> SUFFICES ASSUME NEW p \in Evals, p # r PROVE Verdict(p)'
  OBVIOUS
<1>1. Verdict(p) BY DEF VerdictInv
<1>2. base[p] # NoRun => base[p] \in Evals /\ status[base[p]] = "completed"
  BY <1>1 DEF Verdict, Based
<1>3. base[p] # NoRun => exec'[base[p]] = exec[base[p]] /\ status'[base[p]] = "completed"
  BY <1>2 DEF Stays, Final
<1>4. status[p] \in Final => AsDue(p) BY <1>1, <1>3, DueStays DEF Verdict
<1>5. Sized(p)' BY <1>1 DEF Verdict, Sized
<1>6. Based(p)' BY <1>2, <1>3 DEF Based
<1>7. Placed(p)' BY <1>1 DEF Verdict, Placed
<1>8. Ranked(p)' BY <1>1 DEF Verdict, Ranked
<1>9. Judged(p)' BY <1>1, <1>4 DEF Verdict, Judged, AsDue
<1> QED BY <1>5, <1>6, <1>7, <1>8, <1>9 DEF Verdict

(* The steps of one run. *)
LEMMA VerdictStep ==
  ASSUME EvalAssumption, EvalInv, VerdictInv, NEW r \in Evals,
         Start(r) \/ Work(r) \/ StopStart(r) \/ Stop(r) \/ Expire(r),
         \A p \in Evals : Stays(p), Shape'
  PROVE  VerdictInv'
<1>1. Shape /\ RunOK(r) /\ Verdict(r) BY ByRun DEF VerdictInv
<1>2. /\ at \in [Evals -> Active \cup {"none", "created", "queue", "done"}]
      /\ status \in [Evals -> Final \cup {"absent", "running"}]
      /\ exec \in [Evals -> [total : Nat, graded : Nat, passed : Nat, ran : Nat, attempt : Nat]]
      /\ base = [p \in Evals |-> base[p]] /\ born = [p \in Evals |-> born[p]]
  BY <1>1 DEF Shape, VerdictInv
<1>3. (exec[r] \in [total : Nat, graded : Nat, passed : Nat, ran : Nat, attempt : Nat]) BY <1>2
<1> DEFINE Kept == /\ \A p \in Evals : p # r => /\ at'[p] = at[p] /\ status'[p] = status[p]
                                                /\ exec'[p] = exec[p] /\ base'[p] = base[p]
                                                /\ born'[p] = born[p]
                                                /\ p \in told' <=> p \in told
                                                /\ p \in cut' <=> p \in cut
                   /\ base' = [p \in Evals |-> base'[p]] /\ born' = [p \in Evals |-> born'[p]]
                   /\ status[r] \in Final => exec'[r] = exec[r]
<1>4. ASSUME Kept, Verdict(r)' PROVE VerdictInv'
  <2>1. \A p \in Evals : p # r => Verdict(p)' BY <1>1, <1>4, OthersVerdict
  <2> QED BY <1>2, <1>4, <2>1 DEF VerdictInv
<1>5. ASSUME UNCHANGED <<exec, base, told>>, Stays(r), status[r] \in Final PROVE AsDue(r)
  BY <1>1, <1>5, DueStays DEF Verdict
<1>6. \A p \in Evals : status[p] = "completed" => status'[p] = "completed" BY DEF Stays, Final
<1>7. CASE Start(r) \/ Enqueue(r) \/ StopStart(r)
  <2>1. /\ at[r] \in {"none", "created"} /\ UNCHANGED <<suite, exec, base, told, cut>>
        /\ at' \in {[at EXCEPT ![r] = x] : x \in {"created", "queue", "done"}}
        /\ status' \in {status, [status EXCEPT ![r] = "running"]}
    BY <1>7 DEF Start, Enqueue, StopStart, Goto, rows
  <2>a. PICK n \in 0 .. Cardinality(Evals) : born' = [born EXCEPT ![r] = n]
    <3>1. CASE Start(r)
      <4> DEFINE old == {q \in Evals : born[q] > 0}
      <4>1. at[r] = "none" /\ born' = [born EXCEPT ![r] = 1 + Cardinality(old)]
        BY <3>1 DEF Start, Goto
      <4>2. old \in SUBSET (Evals \ {r}) BY <1>1, <4>1 DEF Verdict, Ranked
      <4> QED BY <4>1, <4>2, RankFits
    <3>2. CASE Enqueue(r) \/ StopStart(r)
      <4>1. born' = born BY <3>2 DEF Enqueue, StopStart, rows
      <4>2. born' = [born EXCEPT ![r] = born[r]] BY <1>2, <4>1
      <4> QED BY <1>1, <4>2 DEF Verdict, Ranked
    <3> QED BY <1>7, <3>1, <3>2
  <2>b. born'[r] = n /\ at'[r] # "none" BY <1>2, <2>a, <2>1
  <2>2. Kept BY <1>2, <2>1, <2>a
  <2>3. status[r] \notin Final /\ status'[r] \in {"absent", "running"} /\ at'[r] # "tell"
    BY <1>1, <1>2, <2>1 DEF Verdict, Placed
  <2>4. Verdict(r)'
    BY <1>1, <1>6, <2>1, <2>3, <2>b DEF Verdict, Sized, Based, Placed, Ranked, Judged, Final
  <2> QED BY <1>4, <2>2, <2>4
<1>8. CASE Deliver(r)
  <2> DEFINE begun == [Fresh EXCEPT !.total = suite]
  <2>1. /\ at[r] = "queue" /\ UNCHANGED <<suite, born, status, base, told, cut>>
        /\ at' = [at EXCEPT ![r] = IF status[r] = "running" THEN "cases" ELSE "done"]
        /\ exec' = [exec EXCEPT ![r] = IF status[r] = "running" THEN begun ELSE exec[r]]
    BY <1>8 DEF Deliver, Goto, rows
  <2>2. begun.total = suite /\ begun.passed = 0 /\ begun.graded = 0 BY DEF Fresh
  <2> HIDE DEF begun
  <2>3. Kept BY <1>2, <2>1 DEF Final
  <2>4. Verdict(r)'
    <3>1. CASE status[r] = "running"
      BY <1>1, <1>2, <1>6, <2>1, <2>2, <3>1
      DEF Verdict, Sized, Based, Placed, Ranked, Judged, Final
    <3>2. CASE status[r] # "running"
      <4>1. exec' = exec /\ at'[r] = "done" BY <1>2, <2>1, <3>2
      <4>2. status[r] \in Final => AsDue(r) BY <1>5, <2>1, <4>1
      <4> QED BY <1>1, <1>6, <2>1, <4>1, <4>2 DEF Verdict, Sized, Based, Placed, Ranked, Judged, AsDue
    <3> QED BY <3>1, <3>2
  <2> QED BY <1>4, <2>3, <2>4
<1>9. CASE DropExhausted(r)
  <2>1. /\ at[r] = "queue" /\ UNCHANGED <<suite, born, status, exec, base, told, cut>>
        /\ at' = [at EXCEPT ![r] = "done"]
    BY <1>9 DEF DropExhausted, Goto, rows
  <2>2. Kept BY <1>2, <2>1
  <2>3. status[r] \in Final => AsDue(r) BY <1>5, <2>1
  <2>4. Verdict(r)'
    BY <1>1, <1>2, <1>6, <2>1, <2>3 DEF Verdict, Sized, Based, Placed, Ranked, Judged, AsDue
  <2> QED BY <1>4, <2>2, <2>4
<1>10. CASE RunCase(r) \/ RetryCase(r)
  <2>1. at[r] = "cases" /\ UNCHANGED <<suite, born, status, at, base, told, cut>>
    BY <1>10 DEF RunCase, RetryCase, InCases, rows
  <2>2. status[r] = "running" /\ r \notin told BY <1>1, <2>1 DEF RunOK, Verdict, Judged
  <2>3. /\ \A p \in Evals : p # r => exec'[p] = exec[p]
        /\ exec'[r].total = exec[r].total /\ exec'[r].passed <= exec'[r].graded
    <3>1. CASE RunCase(r)
      <4>1. PICK pass \in {0, 1} :
              exec' = [exec EXCEPT ![r] = [exec[r] EXCEPT !.graded = @ + 1, !.passed = @ + pass,
                                                          !.ran = @ + 1, !.attempt = 1]]
        BY <1>2, <3>1 DEF RunCase
      <4>2. /\ exec'[r].total = exec[r].total /\ exec'[r].graded = exec[r].graded + 1
            /\ exec'[r].passed = exec[r].passed + pass
        BY <1>2, <1>3, <4>1
      <4> QED BY <1>1, <1>2, <1>3, <4>1, <4>2 DEF Verdict, Sized
    <3>2. CASE RetryCase(r)
      BY <1>1, <1>2, <1>3, <3>2 DEF RetryCase, Verdict, Sized
    <3> QED BY <1>10, <3>1, <3>2
  <2>4. Kept BY <1>2, <2>1, <2>2, <2>3 DEF Final
  <2>5. Verdict(r)'
    BY <1>1, <1>6, <2>1, <2>2, <2>3 DEF Verdict, Sized, Based, Placed, Ranked, Judged, Final
  <2> QED BY <1>4, <2>4, <2>5
<1>11. CASE Halt(r) \/ Refuse(r)
  <2>1. PICK end \in {"errored", "budget_exceeded"} :
          /\ at[r] = "cases" /\ at' = [at EXCEPT ![r] = "tell"]
          /\ status' = [status EXCEPT ![r] = end]
          /\ UNCHANGED <<suite, born, exec, base, told, cut>>
    BY <1>11 DEF Halt, Refuse, EndEarly, Goto, rows
  <2>2. Kept BY <1>2, <2>1
  <2>3. r \notin told BY <1>1, <2>1 DEF Verdict, Judged
  <2>4. Verdict(r)'
    BY <1>1, <1>2, <1>6, <2>1, <2>3 DEF Verdict, Sized, Based, Placed, Ranked, Judged, Final
  <2> QED BY <1>4, <2>2, <2>4
<1>12. CASE ReadBaseline(r)
  <2>1. /\ at[r] = "cases" /\ at' = [at EXCEPT ![r] = "save"]
        /\ UNCHANGED <<suite, born, status, exec, told, cut>>
        /\ base' = [base EXCEPT ![r] = Baseline(r)]
    BY <1>12 DEF ReadBaseline, Goto, rows
  <2>2. Kept BY <1>2, <2>1
  <2>3. status[r] = "running" /\ r \notin told BY <1>1, <2>1 DEF RunOK, Verdict, Judged
  <2>4. base'[r] # NoRun => base'[r] \in Evals /\ status'[base'[r]] = "completed"
    <3> DEFINE done == {q \in Evals \ {r} : status[q] = "completed"}
    <3>1. base'[r] = Baseline(r) BY <1>2, <2>1
    <3>2. done # {} => \E q \in done : \A p \in done : born[p] <= born[q]
      <4>1. done \in SUBSET Evals OBVIOUS
      <4>2. \A q \in Evals : born[q] \in 0 .. Cardinality(Evals) BY DEF VerdictInv, Verdict, Ranked
      <4> HIDE DEF done
      <4> QED BY <4>1, <4>2, NewestExists
    <3> QED BY <2>1, <3>1, <3>2 DEF Baseline
  <2>5. Verdict(r)'
    BY <1>1, <1>2, <2>1, <2>3, <2>4 DEF Verdict, Sized, Based, Placed, Ranked, Judged, Final
  <2> QED BY <1>4, <2>2, <2>5
<1>13. CASE Save(r)
  <2>1. /\ at[r] = "save" /\ at' = [at EXCEPT ![r] = "tell"]
        /\ status' = [status EXCEPT ![r] = "completed"]
        /\ UNCHANGED <<suite, born, exec, base, told, cut>>
    BY <1>13 DEF Save, Goto, rows
  <2>2. Kept BY <1>2, <2>1
  <2>3. r \notin told /\ exec[r].graded = exec[r].total BY <1>1, <2>1 DEF RunOK, Verdict, Judged
  <2>4. Verdict(r)'
    BY <1>1, <1>2, <1>6, <2>1, <2>3 DEF Verdict, Sized, Based, Placed, Ranked, Judged, Final
  <2> QED BY <1>4, <2>2, <2>4
<1>14. CASE Tell(r)
  <2>1. /\ at[r] = "tell" /\ at' = [at EXCEPT ![r] = "done"]
        /\ told' = IF status[r] = "completed" /\ ~Regressed(r) THEN told ELSE told \cup {r}
        /\ UNCHANGED <<suite, born, status, exec, base, cut>>
    BY <1>14 DEF Tell, Goto, rows
  <2>2. Kept BY <1>2, <2>1
  <2>3. r \notin told /\ status[r] \in Final BY <1>1, <2>1 DEF Verdict, Judged, Placed
  <2>4. /\ status[r] = "completed" /\ Regressed(r) => May(r)
        /\ status[r] = "completed" /\ Must(r) => Regressed(r)
    <3>1. CASE base[r] = NoRun BY <3>1 DEF Regressed, Must, Below
    <3>2. CASE status[r] = "completed" /\ base[r] # NoRun
      <4>1. Sized(base[r]) BY <1>1, <3>2 DEF VerdictInv, Verdict, Based
      <4> QED BY <1>1, <3>2, <4>1, RegressedMeans DEF Verdict, May, Must, Below, Close
    <3> QED BY <3>1, <3>2
  <2>5. (r \in told' => May(r)) /\ (Must(r) => r \in told') BY <2>1, <2>3, <2>4 DEF May
  <2>6. AsDue(r) BY <1>1, <2>1, <2>3, DueStays DEF Verdict
  <2>7. Verdict(r)'
    BY <1>1, <1>2, <1>6, <2>1, <2>3, <2>5, <2>6
    DEF Verdict, Sized, Based, Placed, Ranked, Judged, AsDue
  <2> QED BY <1>4, <2>2, <2>7
<1>15. CASE Stop(r) \/ Expire(r)
  <2>1. PICK to \in {"queue", "done"} :
          /\ at[r] \in Active /\ at' = [at EXCEPT ![r] = to]
          /\ cut' = cut \cup {r}
          /\ UNCHANGED <<suite, born, status, exec, base, told>>
    BY <1>15 DEF Stop, Expire, Cut, rows
  <2>2. Kept BY <1>2, <2>1
  <2>3. r \notin told BY <1>1, <2>1 DEF Verdict, Judged, Active
  <2>4. Verdict(r)'
    BY <1>1, <1>2, <1>6, <2>1, <2>3 DEF Verdict, Sized, Based, Placed, Ranked, Judged
  <2> QED BY <1>4, <2>2, <2>4
<1> QED BY <1>7, <1>8, <1>9, <1>10, <1>11, <1>12, <1>13, <1>14, <1>15 DEF Work

(* Every step: an edit of the suite changes no run. *)
LEMMA VerdictNext ==
  ASSUME EvalAssumption, EvalInv, VerdictInv, [EvalNext]_evalVars
  PROVE  VerdictInv'
<1>1. EvalInv' /\ \A p \in Evals : Stays(p) BY EvalKeeps
<1>2. Shape' BY <1>1, ByRun DEF EvalInv
<1>3. ASSUME UNCHANGED <<born, status, rate, at, exec, base, told, cut>> PROVE VerdictInv'
  BY <1>3
  DEF VerdictInv, Verdict, Sized, Based, Placed, Ranked, Judged, May, Must, Below, Close, Worse, Near, Size
<1>4. CASE EditSuite
  BY <1>3, <1>4 DEF EditSuite
<1>5. CASE Rest \/ UNCHANGED evalVars
  BY <1>3, <1>5 DEF Rest, evalVars
<1>6. ASSUME NEW r \in Evals,
             Start(r) \/ Work(r) \/ StopStart(r) \/ Stop(r) \/ Expire(r)
      PROVE  VerdictInv'
  BY <1>1, <1>2, <1>6, VerdictStep
<1> QED BY <1>4, <1>5, <1>6 DEF EvalNext

(* Alerts match the shares of cases passed, over every number of runs and    *)
(* every size of a suite, but for two shares that only the rounding of the   *)
(* column tells apart: Save rounds, and Tell compares the unrounded share    *)
(* with the rounded one (evals.py, execute_eval_run).                        *)
THEOREM AlertsRight == EvalSpec => []AlertsMatch
<1>1. EvalInit => EvalInv /\ VerdictInv BY EvalStarts, VerdictInit, EvalAssumption
<1>2. EvalInv /\ VerdictInv /\ [EvalNext]_evalVars => (EvalInv /\ VerdictInv)'
  BY EvalKeeps, VerdictNext, EvalAssumption
<1>3. VerdictInv => AlertsMatch BY VerdictMeans
<1> QED BY <1>1, <1>2, <1>3, PTL DEF EvalSpec

-------------------------------------------------------------------------------

(* The counts of an execution, and the ranks, as far as their types need     *)
(* them.                                                                     *)
Small ==
  \A r \in Evals : /\ exec[r].passed <= exec[r].graded
                   /\ at[r] = "none" => born[r] = 0

(* The types, with what keeps them. *)
TypedInv == EvalTypeOK /\ Small

(* The counts of cases are the numbers up to the largest suite. *)
LEMMA Bounds ==
  ASSUME EvalAssumption
  PROVE  \E n \in Nat : Cases = 0 .. n /\ \A m \in Suites : m \in Nat /\ m <= n
<1> DEFINE top == CHOOSE n \in Suites : \A m \in Suites : m <= n
<1>1. top \in Suites /\ \A m \in Suites : m <= top BY DEF EvalAssumption
<1>2. Cases = 0 .. top BY DEF Cases
<1> HIDE DEF top
<1> QED BY <1>1, <1>2 DEF EvalAssumption

(* A rate is at most 1. *)
LEMMA RateBounded ==
  ASSUME NEW e \in [total : Nat, graded : Nat, passed : Nat, ran : Nat, attempt : Nat],
         e.passed <= e.total
  PROVE  Rounded(e) \in 0 .. 10000
<1>1. CASE e.total = 0 BY <1>1 DEF Rounded
<1>2. CASE e.total # 0
  <2> DEFINE n == e.total
             p == e.passed
             x == 20000 * p + n
             d == 2 * n
             q == x \div d
  <2>1. n \in Nat /\ p \in Nat /\ p <= n /\ n # 0 BY <1>2
  <2>2. Rounded(e) = q BY <1>2 DEF Rounded
  <2> HIDE DEF n, p
  <2>3. x \in Nat /\ d \in Nat \ {0} /\ x <= d * 10000 + n /\ n < d BY <2>1
  <2> HIDE DEF x, d
  <2>4. q \in Nat /\ d * q <= x BY <2>3, Quotient
  <2> HIDE DEF q
  <2>5. ~(10000 < q)
    <3>1. 10000 < q => d * 10000 + d <= d * q BY <2>3, <2>4, Product
    <3>2. d * q \in Nat /\ d * 10000 \in Nat BY <2>3, <2>4
    <3> QED BY <2>1, <2>3, <2>4, <3>1, <3>2
  <2> QED BY <2>2, <2>4, <2>5
<1> QED BY <1>1, <1>2

(* The types at the beginning. *)
LEMMA TypedInit == ASSUME EvalAssumption, EvalInit PROVE TypedInv
<1>1. PICK n \in Nat : Cases = 0 .. n /\ \A m \in Suites : m \in Nat /\ m <= n BY Bounds
<1>2. Fresh \in Execution BY <1>1 DEF Fresh, Execution, EvalAssumption
<1>3. Cardinality(Evals) \in Nat BY FS_CardinalityType DEF EvalAssumption
<1>4. EvalTypeOK BY <1>2, <1>3 DEF EvalInit, EvalTypeOK, EvalAssumption
<1>5. Small BY DEF EvalInit, Small, Fresh
<1> QED BY <1>4, <1>5 DEF TypedInv

(* A step keeps the types if what it changes keeps its own. *)
LEMMA Retyped ==
  EvalTypeOK /\ UNCHANGED suite
    /\ (born' = born \/ born' \in [Evals -> 0 .. Cardinality(Evals)])
    /\ (status' = status \/ status' \in [Evals -> Final \cup {"absent", "running"}])
    /\ (rate' = rate \/ rate' \in [Evals -> 0 .. 10000])
    /\ (at' = at \/ at' \in [Evals -> Active \cup {"none", "created", "queue", "done"}])
    /\ (tries' = tries \/ tries' \in [Evals -> 0 .. ArqMaxTries])
    /\ (exec' = exec \/ exec' \in [Evals -> Execution])
    /\ (base' = base \/ base' \in [Evals -> Evals \cup {NoRun}])
    /\ (told' = told \/ told' \subseteq Evals) /\ (lost' = lost \/ lost' \subseteq Evals)
    /\ (cut' = cut \/ cut' \subseteq Evals)
    => EvalTypeOK'
<1> DEFINE Ranks == [Evals -> 0 .. Cardinality(Evals)]
           Results == [Evals -> Final \cup {"absent", "running"}]
           Rates == [Evals -> 0 .. 10000]
           Places == [Evals -> Active \cup {"none", "created", "queue", "done"}]
           Counters == [Evals -> 0 .. ArqMaxTries]
           Executions == [Evals -> Execution]
           Baselines == [Evals -> Evals \cup {NoRun}]
           Some(S) == S \in SUBSET Evals
<1>1. EvalTypeOK <=>
        /\ suite \in Suites /\ born \in Ranks /\ status \in Results /\ rate \in Rates
        /\ at \in Places /\ tries \in Counters /\ exec \in Executions /\ base \in Baselines
        /\ Some(told) /\ Some(lost) /\ Some(cut)
  BY DEF EvalTypeOK
<1>2. EvalTypeOK' <=>
        /\ suite' \in Suites /\ born' \in Ranks /\ status' \in Results /\ rate' \in Rates
        /\ at' \in Places /\ tries' \in Counters /\ exec' \in Executions /\ base' \in Baselines
        /\ Some(told') /\ Some(lost') /\ Some(cut')
  BY DEF EvalTypeOK
<1>3. \A S : S \subseteq Evals <=> Some(S) OBVIOUS
<1> HIDE DEF Ranks, Results, Rates, Places, Counters, Executions, Baselines, Some
<1>4. SUFFICES ASSUME EvalTypeOK, UNCHANGED suite, born' = born \/ born' \in Ranks,
                      status' = status \/ status' \in Results, rate' = rate \/ rate' \in Rates,
                      at' = at \/ at' \in Places, tries' = tries \/ tries' \in Counters,
                      exec' = exec \/ exec' \in Executions, base' = base \/ base' \in Baselines,
                      told' = told \/ Some(told'), lost' = lost \/ Some(lost'),
                      cut' = cut \/ Some(cut')
               PROVE  EvalTypeOK'
  BY <1>3 DEF Ranks, Results, Rates, Places, Counters, Executions, Baselines
<1> QED BY <1>1, <1>2, <1>4

(* The steps of one run keep the types. *)
LEMMA TypedStep ==
  ASSUME EvalAssumption, EvalInv, TypedInv, NEW r \in Evals,
         Start(r) \/ Work(r) \/ StopStart(r) \/ Stop(r) \/ Expire(r)
  PROVE  TypedInv'
<1>1. PICK n \in Nat : Cases = 0 .. n /\ \A m \in Suites : m \in Nat /\ m <= n BY Bounds
<1>2. EvalTypeOK /\ Small /\ RunOK(r) BY ByRun DEF TypedInv
<1>3. exec[r] \in Execution BY <1>2 DEF EvalTypeOK
<1>b. exec \in [Evals -> [total : Nat, graded : Nat, passed : Nat, ran : Nat, attempt : Nat]]
  BY DEF EvalInv, Shape
<1>c. exec[r].passed <= exec[r].graded BY <1>2 DEF Small
<1>4. CASE Start(r)
  <2> DEFINE old == {q \in Evals : born[q] > 0}
  <2>1. born' = [born EXCEPT ![r] = 1 + Cardinality(old)]
    BY <1>4 DEF Start
  <2>2. old \in SUBSET (Evals \ {r}) BY <1>2, <1>4 DEF Small, Start, Goto
  <2>3. 1 + Cardinality(old) \in 0 .. Cardinality(Evals) BY <2>2, RankFits
  <2> HIDE DEF old
  <2>4. born' \in [Evals -> 0 .. Cardinality(Evals)] BY <1>2, <2>1, <2>3 DEF EvalTypeOK
  <2>5. /\ at' = [at EXCEPT ![r] = "created"] /\ status' = [status EXCEPT ![r] = "running"]
        /\ UNCHANGED <<suite, rate, tries, exec, base, told, lost, cut>>
    BY <1>4 DEF Start, Goto
  <2>a. status' \in [Evals -> Final \cup {"absent", "running"}] BY <1>2, <2>5 DEF EvalTypeOK
  <2>b. at' \in [Evals -> Active \cup {"none", "created", "queue", "done"}]
    BY <1>2, <2>5 DEF EvalTypeOK
  <2>6. EvalTypeOK' BY <1>2, <2>4, <2>5, <2>a, <2>b, Retyped
  <2>7. Small' BY <1>2, <2>1, <2>5 DEF EvalTypeOK, Small
  <2> QED BY <2>6, <2>7 DEF TypedInv
<1>5. CASE \/ Enqueue(r) \/ StopStart(r) \/ DropExhausted(r) \/ Tell(r)
           \/ Stop(r) \/ Expire(r) \/ Halt(r) \/ Refuse(r)
  <2>1. PICK to \in {"tell", "queue", "done"} :
          /\ at' = [at EXCEPT ![r] = to]
          /\ UNCHANGED <<suite, born, rate, tries, exec, base>>
          /\ status' \in {status} \cup {[status EXCEPT ![r] = end] : end \in Final}
          /\ told' \in {told, told \cup {r}} /\ lost' \in {lost, lost \cup {r}}
          /\ cut' \in {cut, cut \cup {r}}
    BY <1>5 DEF Enqueue, StopStart, DropExhausted, Tell, Stop, Expire,
                Halt, Refuse, Cut, EndEarly, Goto, rows, Final
  <2>2. status' \in [Evals -> Final \cup {"absent", "running"}]
    BY <1>2, <2>1 DEF EvalTypeOK
  <2>a. at' \in [Evals -> Active \cup {"none", "created", "queue", "done"}]
    BY <1>2, <2>1 DEF EvalTypeOK, Active
  <2>b. told' \subseteq Evals /\ lost' \subseteq Evals /\ cut' \subseteq Evals
    BY <1>2, <2>1 DEF EvalTypeOK
  <2>c. EvalTypeOK' BY <1>2, <2>1, <2>2, <2>a, <2>b, Retyped
  <2>3. Small' BY <1>2, <2>1 DEF EvalTypeOK, Small
  <2> QED BY <2>c, <2>3 DEF TypedInv
<1>6. CASE Deliver(r)
  <2> DEFINE begun == [Fresh EXCEPT !.total = suite]
             e == IF status[r] = "running" THEN begun ELSE exec[r]
  <2>1. begun \in Execution /\ begun.passed <= begun.graded
    BY <1>1, <1>2 DEF Fresh, Execution, EvalTypeOK, EvalAssumption
  <2>2. e \in Execution /\ e.passed <= e.graded BY <1>2, <1>3, <2>1 DEF Small
  <2>3. /\ at' = [at EXCEPT ![r] = IF status[r] = "running" THEN "cases" ELSE "done"]
        /\ tries[r] < ArqMaxTries /\ tries' = [tries EXCEPT ![r] = tries[r] + 1]
        /\ exec' = [exec EXCEPT ![r] = e]
        /\ UNCHANGED <<suite, born, status, rate, base, told, lost, cut>>
    BY <1>6 DEF Deliver, Goto, rows
  <2> HIDE DEF e
  <2>4. tries[r] + 1 \in 0 .. ArqMaxTries BY <1>2, <2>3 DEF EvalTypeOK, EvalAssumption
  <2>5. at' \in [Evals -> Active \cup {"none", "created", "queue", "done"}]
    BY <1>2, <2>3 DEF EvalTypeOK, Active
  <2>6. tries' \in [Evals -> 0 .. ArqMaxTries] BY <1>2, <2>3, <2>4 DEF EvalTypeOK
  <2>7. exec' \in [Evals -> Execution] BY <1>2, <2>2, <2>3 DEF EvalTypeOK
  <2>8. UNCHANGED <<suite, born, status, rate, base, told, lost, cut>> BY <2>3
  <2>9. EvalTypeOK' BY <1>2, <2>5, <2>6, <2>7, <2>8, Retyped
  <2>10. Small' BY <1>2, <2>2, <2>3 DEF EvalTypeOK, Small
  <2> QED BY <2>9, <2>10 DEF TypedInv
<1>7. CASE RunCase(r) \/ RetryCase(r)
  <2>1. at[r] = "cases" /\ exec[r].graded < exec[r].total /\ exec[r].ran = exec[r].graded
    BY <1>2, <1>7 DEF RunOK, RunCase, RetryCase, InCases
  <2>2. PICK e \in Execution : e.passed <= e.graded /\ exec' = [exec EXCEPT ![r] = e]
    <3>1. CASE RunCase(r)
      <4>1. PICK pass \in {0, 1} :
              exec' = [exec EXCEPT ![r] = [exec[r] EXCEPT !.graded = @ + 1, !.passed = @ + pass,
                                                          !.ran = @ + 1, !.attempt = 1]]
        BY <1>b, <3>1 DEF RunCase
      <4> DEFINE e == [exec[r] EXCEPT !.graded = @ + 1, !.passed = @ + pass,
                                      !.ran = @ + 1, !.attempt = 1]
      <4>2. e \in Execution /\ e.passed <= e.graded
        <5>0. exec[r] \in [total : Nat, graded : Nat, passed : Nat, ran : Nat, attempt : Nat]
          BY <1>b
        <5>1. /\ e.total = exec[r].total /\ e.graded = exec[r].graded + 1 /\ e.ran = exec[r].ran + 1
              /\ e.passed = exec[r].passed + pass /\ e.attempt = 1
          BY <5>0
        <5>4. e \in [total : Nat, graded : Nat, passed : Nat, ran : Nat, attempt : Nat]
          <6>1. /\ exec[r].graded + 1 \in Nat /\ exec[r].passed + pass \in Nat
                /\ exec[r].ran + 1 \in Nat /\ 1 \in Nat
            BY <5>0
          <6> QED BY <5>0, <6>1
        <5>2. /\ exec[r].total \in 0 .. n /\ exec[r].graded \in Nat /\ exec[r].passed \in Nat
              /\ MaxAttempts \in Nat \ {0}
          BY <1>1, <1>3 DEF Execution, EvalAssumption
        <5> HIDE DEF e
        <5>3. /\ e.total \in 0 .. n /\ e.graded \in 0 .. n /\ e.ran \in 0 .. n
              /\ e.passed \in 0 .. n /\ e.attempt \in 1 .. MaxAttempts /\ e.passed <= e.graded
          BY <1>c, <2>1, <5>1, <5>2
        <5> QED BY <1>1, <5>3, <5>4 DEF Execution
      <4> HIDE DEF e
      <4> QED BY <4>1, <4>2 DEF e
    <3>2. CASE RetryCase(r)
      <4> DEFINE e == [exec[r] EXCEPT !.attempt = @ + 1]
      <4>1. exec' = [exec EXCEPT ![r] = e] /\ exec[r].attempt < MaxAttempts
        BY <1>2, <3>2 DEF RetryCase, EvalTypeOK
      <4>2. e \in Execution /\ e.passed <= e.graded
        BY <1>1, <1>2, <1>3, <4>1 DEF Execution, Small, EvalAssumption
      <4> HIDE DEF e
      <4> QED BY <4>1, <4>2
    <3> QED BY <1>7, <3>1, <3>2
  <2>3. UNCHANGED <<suite, born, status, rate, at, tries, base, told, lost, cut>>
    BY <1>7 DEF RunCase, RetryCase, rows
  <2>a. exec' \in [Evals -> Execution] BY <1>2, <2>2 DEF EvalTypeOK
  <2>4. EvalTypeOK' BY <1>2, <2>3, <2>a, Retyped
  <2>5. Small' BY <1>2, <2>2, <2>3 DEF EvalTypeOK, Small
  <2> QED BY <2>4, <2>5 DEF TypedInv
<1>8. CASE ReadBaseline(r)
  <2>1. Baseline(r) \in Evals \cup {NoRun}
    <3> DEFINE done == {q \in Evals \ {r} : status[q] = "completed"}
    <3>1. done # {} => \E q \in done : \A p \in done : born[p] <= born[q]
      <4>1. done \in SUBSET Evals OBVIOUS
      <4>2. \A q \in Evals : born[q] \in 0 .. Cardinality(Evals) BY <1>2 DEF EvalTypeOK
      <4> HIDE DEF done
      <4> QED BY <4>1, <4>2, NewestExists
    <3> QED BY <3>1 DEF Baseline
  <2>2. /\ at' = [at EXCEPT ![r] = "save"] /\ base' = [base EXCEPT ![r] = Baseline(r)]
        /\ UNCHANGED <<suite, born, status, rate, tries, exec, told, lost, cut>>
    BY <1>8 DEF ReadBaseline, Goto, rows
  <2>a. at' \in [Evals -> Active \cup {"none", "created", "queue", "done"}]
    BY <1>2, <2>2 DEF EvalTypeOK, Active
  <2>b. base' \in [Evals -> Evals \cup {NoRun}] BY <1>2, <2>1, <2>2 DEF EvalTypeOK
  <2>3. EvalTypeOK' BY <1>2, <2>2, <2>a, <2>b, Retyped
  <2>4. Small' BY <1>2, <2>2 DEF EvalTypeOK, Small
  <2> QED BY <2>3, <2>4 DEF TypedInv
<1>9. CASE Save(r)
  <2>1. /\ at[r] = "save" /\ at' = [at EXCEPT ![r] = "tell"]
        /\ rate' = [rate EXCEPT ![r] = Rounded(exec[r])]
        /\ status' = [status EXCEPT ![r] = "completed"]
        /\ UNCHANGED <<suite, born, tries, exec, base, told, lost, cut>>
    BY <1>9 DEF Save, Goto, rows
  <2>2. Rounded(exec[r]) \in 0 .. 10000
    <3>1. exec[r] \in [total : Nat, graded : Nat, passed : Nat, ran : Nat, attempt : Nat]
      BY DEF EvalInv, Shape
    <3>2. exec[r].passed <= exec[r].total BY <1>2, <2>1 DEF RunOK, Small
    <3> QED BY <3>1, <3>2, RateBounded
  <2>a. at' \in [Evals -> Active \cup {"none", "created", "queue", "done"}]
    BY <1>2, <2>1 DEF EvalTypeOK, Active
  <2>b. status' \in [Evals -> Final \cup {"absent", "running"}]
    BY <1>2, <2>1 DEF EvalTypeOK, Final
  <2>c. rate' \in [Evals -> 0 .. 10000]
    <3> DEFINE x == Rounded(exec[r])
    <3>0. x \in 0 .. 10000 BY <2>2
    <3>1. rate' = [rate EXCEPT ![r] = x] BY <2>1
    <3>2. rate \in [Evals -> 0 .. 10000] BY <1>2 DEF EvalTypeOK
    <3> HIDE DEF x
    <3> QED BY <3>0, <3>1, <3>2
  <2>d. UNCHANGED <<suite, born, tries, exec, base, told, lost, cut>> BY <2>1
  <2>3. EvalTypeOK' BY <1>2, <2>a, <2>b, <2>c, <2>d, Retyped
  <2>4. Small' BY <1>2, <2>1 DEF EvalTypeOK, Small
  <2> QED BY <2>3, <2>4 DEF TypedInv
<1> QED BY <1>4, <1>5, <1>6, <1>7, <1>8, <1>9 DEF Work

(* Every step keeps the types. *)
LEMMA TypedNext ==
  ASSUME EvalAssumption, EvalInv, TypedInv, [EvalNext]_evalVars
  PROVE  TypedInv'
<1>1. ASSUME UNCHANGED <<born, status, rate, at, tries, exec, base, told, lost, cut>>,
             suite' \in Suites
      PROVE  TypedInv'
  BY <1>1 DEF TypedInv, EvalTypeOK, Small
<1>2. CASE EditSuite BY <1>1, <1>2 DEF EditSuite, AddCase, DropCase
<1>3. CASE Rest \/ UNCHANGED evalVars
  <2>1. suite \in Suites BY DEF TypedInv, EvalTypeOK
  <2> QED BY <1>1, <1>3, <2>1 DEF Rest, evalVars
<1> QED BY <1>2, <1>3, TypedStep DEF EvalNext

(* Every variable keeps its type: in particular a rate is one that its       *)
(* column, Numeric(5, 4) of at most 1, can hold, and a case has at most      *)
(* its attempts.                                                             *)
THEOREM EvalTyped == EvalSpec => []EvalTypeOK
<1>1. EvalInit => EvalInv /\ TypedInv BY EvalStarts, TypedInit, EvalAssumption
<1>2. EvalInv /\ TypedInv /\ [EvalNext]_evalVars => (EvalInv /\ TypedInv)'
  BY EvalKeeps, TypedNext, EvalAssumption
<1>3. TypedInv => EvalTypeOK BY DEF TypedInv
<1> QED BY <1>1, <1>2, <1>3, PTL DEF EvalSpec
===============================================================================
