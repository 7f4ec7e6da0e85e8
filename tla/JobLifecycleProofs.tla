-------------------------- MODULE JobLifecycleProofs --------------------------
(***************************************************************************)
(* What holds of JobLifecycle for every set of jobs, entries and requests, *)
(* every cap, every limit on tries and every set of faults; and, under     *)
(* OneDeliverer, that a job is run by one process at a time, with one set  *)
(* of prompts, and that its row implements JobRow.                         *)
(***************************************************************************)
EXTENDS JobLifecycle, FiniteSetTheorems, TLAPS

(* The type invariant is inductive. *)
LEMMA TypeInit == Init => TypeOK
  BY SetsAssumption, TriesAssumption
     DEF Init, TypeOK, Procs, Clients, PCs, OwingPC, RunPC, ActivePC, Statuses, Frames, Frame0,
         LiveStatus, Terminal, LoopStatus, Prompts, NoPrompt

(* The locals of execute_job start out well typed. *)
LEMMA FrameType == Frame0 \in Frames
  BY DEF Frame0, Frames, Statuses, LiveStatus, Terminal, LoopStatus, NoPrompt

(* Every action keeps every type. *)
LEMMA TypeStep == TypeOK /\ [Next]_vars => TypeOK'
  <1> SUFFICES ASSUME TypeOK, [Next]_vars PROVE TypeOK'
    OBVIOUS
  <1> USE SetsAssumption, TriesAssumption, FrameType
  <1> USE DEF TypeOK, Procs, Clients, PCs, OwingPC, RunPC, ActivePC, rows, history, procs, Goto,
              Prompts, NoPrompt
  <1>1. ASSUME NEW c \in Clients, Lookup(c) PROVE TypeOK'
    BY <1>1 DEF Lookup
  <1>2. ASSUME NEW c \in Clients, Insert(c) PROVE TypeOK'
    BY <1>2 DEF Insert, Statuses, LiveStatus
  <1>3. ASSUME NEW c \in Clients, InsertConflict(c) PROVE TypeOK'
    BY <1>3 DEF InsertConflict
  <1>4. ASSUME NEW c \in Clients, Accept(c) PROVE TypeOK'
    BY <1>4 DEF Accept
  <1>5. ASSUME NEW c \in Clients, RefuseOverBudget(c) PROVE TypeOK'
    BY <1>5 DEF RefuseOverBudget, Statuses, Terminal, LoopStatus
  <1>6. ASSUME NEW c \in Clients, Enqueue(c) PROVE TypeOK'
    BY <1>6 DEF Enqueue, PutOn
  <1>7. ASSUME NEW c \in Clients, RetryLoad(c) PROVE TypeOK'
    BY <1>7 DEF RetryLoad
  <1>8. ASSUME NEW c \in Clients, RetryCommit(c) PROVE TypeOK'
    BY <1>8 DEF RetryCommit, Statuses, LiveStatus
  <1>9. ASSUME NEW c \in Clients, FailSync(c) PROVE TypeOK'
    BY <1>9 DEF FailSync, Return, Statuses, Terminal, LoopStatus
  <1>10. ASSUME NEW c \in Clients, ApiStop(c) PROVE TypeOK'
    BY <1>10 DEF ApiStop, Return, HandBack, Statuses, LiveStatus
  <1>11. ASSUME NEW e \in Entries, Deliver(e) PROVE TypeOK'
    BY <1>11 DEF Deliver, MayTry
  <1>12. ASSUME NEW e \in Entries, DropExhausted(e) PROVE TypeOK'
    BY <1>12 DEF DropExhausted, MayTry, Leave
  <1>13. ASSUME NEW e \in Entries, Admit(e) PROVE TypeOK'
    BY <1>13 DEF Admit
  <1>14. ASSUME NEW e \in Entries, Defer(e) PROVE TypeOK'
    BY <1>14 DEF Defer, PutOn
  <1>15. ASSUME NEW e \in Entries, Ack(e) PROVE TypeOK'
    BY <1>15 DEF Ack, Leave
  <1>16. ASSUME NEW e \in Entries, DeadLetter(e) PROVE TypeOK'
    BY <1>16 DEF DeadLetter, Return, Statuses, Terminal, LoopStatus
  <1>17. ASSUME NEW e \in Entries, Backoff(e) PROVE TypeOK'
    BY <1>17 DEF Backoff, Return
  <1>18. ASSUME NEW e \in Entries, Shutdown(e) PROVE TypeOK'
    BY <1>18 DEF Shutdown, Return, HandBack, Statuses, LiveStatus
  <1>19. ASSUME NEW e \in Entries, Crash(e) PROVE TypeOK'
    BY <1>19 DEF Crash, Return
  <1>20. ASSUME NEW p \in Procs, Unhandled(p) PROVE TypeOK'
    BY <1>20 DEF Unhandled, Return
  <1>21. ASSUME NEW p \in Procs, RunStep(p) PROVE TypeOK'
    <2> USE DEF Frames
    <2>1. CASE Load(p)
      <3>1. of[p] \in Jobs
        BY <2>1 DEF Load
      <3>2. status[of[p]] \in Statuses /\ live \in Prompts /\ pin[of[p]] \in Prompts \cup {NoPrompt}
        BY <3>1
      <3>3. frame' \in [Procs -> Frames]
        BY <2>1, <3>2 DEF Load, Return
      <3> QED
        BY <2>1, <3>3 DEF Load, Return
    <2>2. CASE OverBudget(p)
      BY <2>2 DEF OverBudget, Statuses, LiveStatus, Terminal, LoopStatus
    <2>3. CASE Begin(p)
      BY <2>3 DEF Begin, Statuses, LiveStatus, Frame0
    <2>4. CASE SetupFails(p)
      BY <2>4 DEF SetupFails, Statuses, LiveStatus, Terminal, LoopStatus
    <2>5. CASE SetupDone(p)
      BY <2>5 DEF SetupDone
    <2>6. CASE LoopEnds(p)
      BY <2>6 DEF LoopEnds, Statuses, LiveStatus, Terminal, LoopStatus
    <2>7. CASE LoopTransient(p)
      BY <2>7 DEF LoopTransient
    <2>8. CASE LoopFallback(p)
      BY <2>8 DEF LoopFallback, Frame0
    <2>9. CASE Finalize(p)
      BY <2>9 DEF Finalize, Return
    <2>10. CASE Callback(p)
      BY <2>10 DEF Callback
    <2> QED
      BY <1>21, <2>1, <2>2, <2>3, <2>4, <2>5, <2>6, <2>7, <2>8, <2>9, <2>10 DEF RunStep
  <1>22. CASE ChangePrompt
    BY <1>22 DEF ChangePrompt
  <1>23. CASE Rest \/ UNCHANGED vars
    BY <1>23 DEF Rest, vars
  <1>24. ASSUME NEW c \in Clients, RunForm(c) PROVE TypeOK'
    BY <1>24 DEF RunForm
  <1> QED
    BY <1>1, <1>2, <1>3, <1>4, <1>5, <1>6, <1>7, <1>8, <1>9, <1>10, <1>11, <1>12, <1>13, <1>14,
       <1>15, <1>16, <1>17, <1>18, <1>19, <1>20, <1>21, <1>22, <1>23, <1>24
    DEF Next, EntryStep, RequestStep

(* Every state variable keeps its type, for every value of the constants. *)
THEOREM TypeCorrect == Spec => []TypeOK
  BY TypeInit, TypeStep, PTL DEF Spec

-------------------------------------------------------------------------------
(* A process that owes a job its run after the step keeps the job owed. *)
LEMMA OwedBy ==
  ASSUME NEW j \in Jobs, NEW q \in Procs, of'[q] = j, pc'[q] \in OwingPC
  PROVE  Owed(j)'
  BY DEF Owed

(* No action leaves a live job behind without a deliverer. *)
LEMMA LiveOwedStep == TypeOK /\ LiveOwed /\ [Next]_vars => LiveOwed'
  <1> SUFFICES ASSUME TypeOK, LiveOwed, [Next]_vars, NEW j \in Jobs, Live(j)', j \notin lost'
               PROVE  Owed(j)'
    BY DEF LiveOwed
  <1> USE SetsAssumption, TriesAssumption, OwedBy
  <1> USE DEF TypeOK, Procs, Clients, OwingPC, RunPC, ActivePC, rows, history, procs, Goto
  (* The job was owed before, unless this very step made it live. *)
  <1>a. ASSUME Live(j), j \notin lost PROVE \E q \in Procs : of[q] = j /\ pc[q] \in OwingPC
    BY <1>a DEF LiveOwed, Owed
  <1> USE DEF Live
  <1>1. ASSUME NEW c \in Clients, Lookup(c) PROVE Owed(j)'
    BY <1>1, <1>a DEF Lookup
  <1>2. ASSUME NEW c \in Clients, Insert(c) PROVE Owed(j)'
    BY <1>2, <1>a DEF Insert, LiveStatus
  <1>3. ASSUME NEW c \in Clients, InsertConflict(c) PROVE Owed(j)'
    BY <1>3, <1>a DEF InsertConflict
  <1>4. ASSUME NEW c \in Clients, Accept(c) PROVE Owed(j)'
    BY <1>4, <1>a DEF Accept
  <1>5. ASSUME NEW c \in Clients, RefuseOverBudget(c) PROVE Owed(j)'
    BY <1>5, <1>a DEF RefuseOverBudget, LiveStatus
  <1>6. ASSUME NEW c \in Clients, Enqueue(c) PROVE Owed(j)'
    BY <1>6, <1>a DEF Enqueue, PutOn
  <1>7. ASSUME NEW c \in Clients, RetryLoad(c) PROVE Owed(j)'
    BY <1>7, <1>a DEF RetryLoad
  <1>8. ASSUME NEW c \in Clients, RetryCommit(c) PROVE Owed(j)'
    BY <1>8, <1>a DEF RetryCommit
  <1>9. ASSUME NEW c \in Clients, FailSync(c) PROVE Owed(j)'
    BY <1>9, <1>a DEF FailSync, LiveStatus
  <1>10. ASSUME NEW c \in Clients, ApiStop(c) PROVE Owed(j)'
    BY <1>10, <1>a DEF ApiStop, HandBack
  <1>11. ASSUME NEW e \in Entries, Deliver(e) PROVE Owed(j)'
    BY <1>11, <1>a DEF Deliver, MayTry
  <1>12. ASSUME NEW e \in Entries, DropExhausted(e) PROVE Owed(j)'
    BY <1>12, <1>a DEF DropExhausted, MayTry, Leave
  <1>13. ASSUME NEW e \in Entries, Admit(e) PROVE Owed(j)'
    BY <1>13, <1>a DEF Admit
  <1>14. ASSUME NEW e \in Entries, Defer(e) PROVE Owed(j)'
    BY <1>14, <1>a DEF Defer, PutOn
  <1>15. ASSUME NEW e \in Entries, Ack(e) PROVE Owed(j)'
    BY <1>15, <1>a DEF Ack, Leave
  <1>16. ASSUME NEW e \in Entries, DeadLetter(e) PROVE Owed(j)'
    BY <1>16, <1>a DEF DeadLetter, LiveStatus
  <1>17. ASSUME NEW e \in Entries, Backoff(e) PROVE Owed(j)'
    BY <1>17, <1>a DEF Backoff
  <1>18. ASSUME NEW e \in Entries, Shutdown(e) PROVE Owed(j)'
    BY <1>18, <1>a DEF Shutdown, HandBack
  <1>19. ASSUME NEW e \in Entries, Crash(e) PROVE Owed(j)'
    BY <1>19, <1>a DEF Crash
  <1>20. ASSUME NEW p \in Procs, Unhandled(p) PROVE Owed(j)'
    BY <1>20, <1>a DEF Unhandled
  <1>21. ASSUME NEW p \in Procs, RunStep(p) PROVE Owed(j)'
    <2>1. CASE Load(p)
      BY <2>1, <1>a DEF Load
    <2>2. CASE OverBudget(p)
      BY <2>2, <1>a DEF OverBudget
    <2>3. CASE Begin(p)
      BY <2>3, <1>a DEF Begin
    <2>4. CASE SetupFails(p)
      BY <2>4, <1>a DEF SetupFails
    <2>5. CASE SetupDone(p)
      BY <2>5, <1>a DEF SetupDone
    <2>6. CASE LoopEnds(p)
      BY <2>6, <1>a DEF LoopEnds
    <2>7. CASE LoopTransient(p)
      BY <2>7, <1>a DEF LoopTransient
    <2>8. CASE LoopFallback(p)
      BY <2>8, <1>a DEF LoopFallback
    <2>9. CASE Finalize(p)
      BY <2>9, <1>a DEF Finalize, Frames
    <2>10. CASE Callback(p)
      BY <2>10, <1>a DEF Callback
    <2> QED
      BY <1>21, <2>1, <2>2, <2>3, <2>4, <2>5, <2>6, <2>7, <2>8, <2>9, <2>10 DEF RunStep
  <1>22. CASE ChangePrompt
    BY <1>22, <1>a DEF ChangePrompt
  <1>23. CASE Rest \/ UNCHANGED vars
    BY <1>23, <1>a DEF Rest, vars
  <1>24. ASSUME NEW c \in Clients, RunForm(c) PROVE Owed(j)'
    BY <1>24, <1>a DEF RunForm
  <1> QED
    BY <1>1, <1>2, <1>3, <1>4, <1>5, <1>6, <1>7, <1>8, <1>9, <1>10, <1>11, <1>12, <1>13, <1>14,
       <1>15, <1>16, <1>17, <1>18, <1>19, <1>20, <1>21, <1>22, <1>23, <1>24
    DEF Next, EntryStep, RequestStep

(* A queued or running job always has a request, an arq entry or a run in  *)
(* progress that owes it its end, or a named fault lost it: whatever       *)
(* faults strike, for every number of jobs, entries, requests and tries.   *)
THEOREM NeverForgotten == Spec => []LiveOwed
  <1>1. Init => LiveOwed
    BY DEF Init, LiveOwed, Live, LiveStatus
  <1> QED
    BY <1>1, TypeCorrect, LiveOwedStep, PTL DEF Spec

-------------------------------------------------------------------------------
(* Where a process will still enqueue the callback of a job that ended. *)
ReportingPC == OwingPC \cup {"callback"}
Reporter(j) == \E p \in Procs : of[p] = j /\ pc[p] \in ReportingPC
Reporting(j) == status[j] \in Reported /\ j \notin notified /\ j \notin lost

(* A process that will report a job after the step keeps it reported. *)
LEMMA ReportedBy ==
  ASSUME NEW j \in Jobs, NEW q \in Procs, of'[q] = j, pc'[q] \in ReportingPC
  PROVE  Reporter(j)'
  BY DEF Reporter, ReportingPC

(* No action ends a job that nobody will report, nor loses its reporter. *)
LEMMA CallbackOwedStep == TypeOK /\ CallbackOwed /\ [Next]_vars => CallbackOwed'
  <1> SUFFICES ASSUME TypeOK, CallbackOwed, [Next]_vars, NEW j \in WithCallback, Reporting(j)'
               PROVE  Reporter(j)'
    BY DEF CallbackOwed, Reporter, Reporting, ReportingPC
  <1> USE SetsAssumption, TriesAssumption, ReportedBy
  <1> j \in Jobs
    OBVIOUS
  <1>a. ASSUME Reporting(j) PROVE \E q \in Procs : of[q] = j /\ pc[q] \in ReportingPC
    BY <1>a DEF CallbackOwed, Reporting, ReportingPC
  <1> USE DEF TypeOK, Procs, Clients, OwingPC, RunPC, ActivePC, rows, history, procs, Goto,
              ReportingPC, Reporting, Reported, Terminal, LoopStatus
  <1>1. ASSUME NEW c \in Clients, Lookup(c) PROVE Reporter(j)'
    BY <1>1, <1>a DEF Lookup
  <1>2. ASSUME NEW c \in Clients, Insert(c) PROVE Reporter(j)'
    BY <1>2, <1>a DEF Insert
  <1>3. ASSUME NEW c \in Clients, InsertConflict(c) PROVE Reporter(j)'
    BY <1>3, <1>a DEF InsertConflict
  <1>4. ASSUME NEW c \in Clients, Accept(c) PROVE Reporter(j)'
    BY <1>4, <1>a DEF Accept
  <1>5. ASSUME NEW c \in Clients, RefuseOverBudget(c) PROVE Reporter(j)'
    BY <1>5, <1>a DEF RefuseOverBudget
  <1>6. ASSUME NEW c \in Clients, Enqueue(c) PROVE Reporter(j)'
    BY <1>6, <1>a DEF Enqueue, PutOn
  <1>7. ASSUME NEW c \in Clients, RetryLoad(c) PROVE Reporter(j)'
    BY <1>7, <1>a DEF RetryLoad
  <1>8. ASSUME NEW c \in Clients, RetryCommit(c) PROVE Reporter(j)'
    BY <1>8, <1>a DEF RetryCommit
  <1>9. ASSUME NEW c \in Clients, FailSync(c) PROVE Reporter(j)'
    BY <1>9, <1>a DEF FailSync
  <1>10. ASSUME NEW c \in Clients, ApiStop(c) PROVE Reporter(j)'
    BY <1>10, <1>a DEF ApiStop, HandBack
  <1>11. ASSUME NEW e \in Entries, Deliver(e) PROVE Reporter(j)'
    BY <1>11, <1>a DEF Deliver, MayTry
  <1>12. ASSUME NEW e \in Entries, DropExhausted(e) PROVE Reporter(j)'
    BY <1>12, <1>a DEF DropExhausted, MayTry, Leave
  <1>13. ASSUME NEW e \in Entries, Admit(e) PROVE Reporter(j)'
    BY <1>13, <1>a DEF Admit
  <1>14. ASSUME NEW e \in Entries, Defer(e) PROVE Reporter(j)'
    BY <1>14, <1>a DEF Defer, PutOn
  <1>15. ASSUME NEW e \in Entries, Ack(e) PROVE Reporter(j)'
    BY <1>15, <1>a DEF Ack, Leave
  <1>16. ASSUME NEW e \in Entries, DeadLetter(e) PROVE Reporter(j)'
    BY <1>16, <1>a DEF DeadLetter
  <1>17. ASSUME NEW e \in Entries, Backoff(e) PROVE Reporter(j)'
    BY <1>17, <1>a DEF Backoff
  <1>18. ASSUME NEW e \in Entries, Shutdown(e) PROVE Reporter(j)'
    BY <1>18, <1>a DEF Shutdown, HandBack
  <1>19. ASSUME NEW e \in Entries, Crash(e) PROVE Reporter(j)'
    BY <1>19, <1>a DEF Crash
  <1>20. ASSUME NEW p \in Procs, Unhandled(p) PROVE Reporter(j)'
    BY <1>20, <1>a DEF Unhandled
  <1>21. ASSUME NEW p \in Procs, RunStep(p) PROVE Reporter(j)'
    <2>1. CASE Load(p)
      BY <2>1, <1>a DEF Load
    <2>2. CASE OverBudget(p)
      BY <2>2, <1>a DEF OverBudget
    <2>3. CASE Begin(p)
      BY <2>3, <1>a DEF Begin
    <2>4. CASE SetupFails(p)
      BY <2>4, <1>a DEF SetupFails
    <2>5. CASE SetupDone(p)
      BY <2>5, <1>a DEF SetupDone
    <2>6. CASE LoopEnds(p)
      BY <2>6, <1>a DEF LoopEnds
    <2>7. CASE LoopTransient(p)
      BY <2>7, <1>a DEF LoopTransient
    <2>8. CASE LoopFallback(p)
      BY <2>8, <1>a DEF LoopFallback
    <2>9. CASE Finalize(p)
      BY <2>9, <1>a DEF Finalize
    <2>10. CASE Callback(p)
      BY <2>10, <1>a DEF Callback
    <2> QED
      BY <1>21, <2>1, <2>2, <2>3, <2>4, <2>5, <2>6, <2>7, <2>8, <2>9, <2>10 DEF RunStep
  <1>22. CASE ChangePrompt
    BY <1>22, <1>a DEF ChangePrompt
  <1>23. CASE Rest \/ UNCHANGED vars
    BY <1>23, <1>a DEF Rest, vars
  <1>24. ASSUME NEW c \in Clients, RunForm(c) PROVE Reporter(j)'
    BY <1>24, <1>a DEF RunForm
  <1> QED
    BY <1>1, <1>2, <1>3, <1>4, <1>5, <1>6, <1>7, <1>8, <1>9, <1>10, <1>11, <1>12, <1>13, <1>14,
       <1>15, <1>16, <1>17, <1>18, <1>19, <1>20, <1>21, <1>22, <1>23, <1>24
    DEF Next, EntryStep, RequestStep

(* A job with a callback_url that ended in any way but a dead letter or a  *)
(* budget refusal always has a process that will enqueue its callback, or  *)
(* a named fault lost it.                                                  *)
THEOREM NeverUnreported == Spec => []CallbackOwed
  <1>1. Init => CallbackOwed
    BY SetsAssumption DEF Init, CallbackOwed, Reported, Terminal, LoopStatus
  <1> QED
    BY <1>1, TypeCorrect, CallbackOwedStep, PTL DEF Spec

-------------------------------------------------------------------------------
(* The strengthening of NoFaultNoLoss: an entry only comes back through    *)
(* Backoff, so it never waits with all of its tries used.                  *)
TriesLeft ==
  \A e \in Entries :
    /\ tries[e] <= MaxTries
    /\ pc[e] = "ready" => tries[e] < MaxTries
NoFaultInv == Faults = {} => lost = {} /\ TriesLeft

(* With no outside fault every step leaves arq a try to spare. *)
LEMMA NoFaultStep == TypeOK /\ NoFaultInv /\ [Next]_vars => NoFaultInv'
  <1> SUFFICES ASSUME TypeOK, Faults = {}, lost = {}, TriesLeft, [Next]_vars
               PROVE  (lost = {} /\ TriesLeft)'
    BY DEF NoFaultInv
  <1> USE SetsAssumption, TriesAssumption
  <1> USE DEF TypeOK, Procs, Clients, OwingPC, RunPC, ActivePC, rows, history, procs, Goto, TriesLeft
  <1>1. ASSUME NEW c \in Clients, Lookup(c) PROVE (lost = {} /\ TriesLeft)'
    BY <1>1 DEF Lookup
  <1>2. ASSUME NEW c \in Clients, Insert(c) PROVE (lost = {} /\ TriesLeft)'
    BY <1>2 DEF Insert
  <1>3. ASSUME NEW c \in Clients, InsertConflict(c) PROVE (lost = {} /\ TriesLeft)'
    BY <1>3 DEF InsertConflict
  <1>4. ASSUME NEW c \in Clients, Accept(c) PROVE (lost = {} /\ TriesLeft)'
    BY <1>4 DEF Accept
  <1>5. ASSUME NEW c \in Clients, RefuseOverBudget(c) PROVE (lost = {} /\ TriesLeft)'
    BY <1>5 DEF RefuseOverBudget
  <1>6. ASSUME NEW c \in Clients, Enqueue(c) PROVE (lost = {} /\ TriesLeft)'
    BY <1>6 DEF Enqueue, PutOn
  <1>7. ASSUME NEW c \in Clients, RetryLoad(c) PROVE (lost = {} /\ TriesLeft)'
    BY <1>7 DEF RetryLoad
  <1>8. ASSUME NEW c \in Clients, RetryCommit(c) PROVE (lost = {} /\ TriesLeft)'
    BY <1>8 DEF RetryCommit
  <1>9. ASSUME NEW c \in Clients, FailSync(c) PROVE (lost = {} /\ TriesLeft)'
    BY <1>9 DEF FailSync
  <1>10. ASSUME NEW c \in Clients, ApiStop(c) PROVE (lost = {} /\ TriesLeft)'
    BY <1>10 DEF ApiStop, HandBack
  <1>11. ASSUME NEW e \in Entries, Deliver(e) PROVE (lost = {} /\ TriesLeft)'
    BY <1>11 DEF Deliver, MayTry
  <1>12. ASSUME NEW e \in Entries, DropExhausted(e) PROVE (lost = {} /\ TriesLeft)'
    BY <1>12 DEF DropExhausted, MayTry, Leave
  <1>13. ASSUME NEW e \in Entries, Admit(e) PROVE (lost = {} /\ TriesLeft)'
    BY <1>13 DEF Admit
  <1>14. ASSUME NEW e \in Entries, Defer(e) PROVE (lost = {} /\ TriesLeft)'
    BY <1>14 DEF Defer, PutOn
  <1>15. ASSUME NEW e \in Entries, Ack(e) PROVE (lost = {} /\ TriesLeft)'
    BY <1>15 DEF Ack, Leave
  <1>16. ASSUME NEW e \in Entries, DeadLetter(e) PROVE (lost = {} /\ TriesLeft)'
    BY <1>16 DEF DeadLetter
  <1>17. ASSUME NEW e \in Entries, Backoff(e) PROVE (lost = {} /\ TriesLeft)'
    BY <1>17 DEF Backoff
  <1>18. ASSUME NEW e \in Entries, Shutdown(e) PROVE (lost = {} /\ TriesLeft)'
    BY <1>18 DEF Shutdown, HandBack
  <1>19. ASSUME NEW e \in Entries, Crash(e) PROVE (lost = {} /\ TriesLeft)'
    BY <1>19 DEF Crash
  <1>20. ASSUME NEW p \in Procs, Unhandled(p) PROVE (lost = {} /\ TriesLeft)'
    BY <1>20 DEF Unhandled
  <1>21. ASSUME NEW p \in Procs, RunStep(p) PROVE (lost = {} /\ TriesLeft)'
    <2>1. CASE Load(p)
      BY <2>1 DEF Load
    <2>2. CASE OverBudget(p)
      BY <2>2 DEF OverBudget
    <2>3. CASE Begin(p)
      BY <2>3 DEF Begin
    <2>4. CASE SetupFails(p)
      BY <2>4 DEF SetupFails
    <2>5. CASE SetupDone(p)
      BY <2>5 DEF SetupDone
    <2>6. CASE LoopEnds(p)
      BY <2>6 DEF LoopEnds
    <2>7. CASE LoopTransient(p)
      BY <2>7 DEF LoopTransient
    <2>8. CASE LoopFallback(p)
      BY <2>8 DEF LoopFallback
    <2>9. CASE Finalize(p)
      BY <2>9 DEF Finalize
    <2>10. CASE Callback(p)
      BY <2>10 DEF Callback
    <2> QED
      BY <1>21, <2>1, <2>2, <2>3, <2>4, <2>5, <2>6, <2>7, <2>8, <2>9, <2>10 DEF RunStep
  <1>22. CASE ChangePrompt
    BY <1>22 DEF ChangePrompt
  <1>23. CASE Rest \/ UNCHANGED vars
    BY <1>23 DEF Rest, vars
  <1>24. ASSUME NEW c \in Clients, RunForm(c) PROVE (lost = {} /\ TriesLeft)'
    BY <1>24 DEF RunForm
  <1> QED
    BY <1>1, <1>2, <1>3, <1>4, <1>5, <1>6, <1>7, <1>8, <1>9, <1>10, <1>11, <1>12, <1>13, <1>14,
       <1>15, <1>16, <1>17, <1>18, <1>19, <1>20, <1>21, <1>22, <1>23, <1>24
    DEF Next, EntryStep, RequestStep

(* With no outside fault nothing is ever lost: transient errors, capacity  *)
(* deferrals and retries never exhaust arq's own limit, for every          *)
(* job_max_tries up to that limit.                                         *)
THEOREM NothingLost == Spec => []NoFaultNoLoss
  <1>1. Init => NoFaultInv
    BY TriesAssumption DEF Init, NoFaultInv, TriesLeft, Procs
  <1>2. NoFaultInv => NoFaultNoLoss
    BY DEF NoFaultInv, NoFaultNoLoss
  <1> QED
    BY <1>1, <1>2, TypeCorrect, NoFaultStep, PTL DEF Spec

-------------------------------------------------------------------------------
(* The rows that hold the key are one row, and whoever submitted with the  *)
(* key and has an answer has that row.                                     *)
KeyInv ==
  /\ \A i, j \in keyed : i = j
  /\ \A c \in Keyed : of[c] # NoJob => of[c] \in keyed

LEMMA KeyStep == TypeOK /\ KeyInv /\ [Next]_vars => KeyInv'
  <1> SUFFICES ASSUME TypeOK, KeyInv, [Next]_vars PROVE KeyInv'
    OBVIOUS
  <1>1. of \in [Procs -> Jobs \cup {NoJob}] BY DEF TypeOK
  <1>2. Keyed \subseteq Procs /\ Keyed \cap Entries = {} /\ Keyed \cap Retriers = {}
    BY SetsAssumption DEF Procs, Clients
  (* A step that leaves keyed alone and answers no keyed request, or takes  *)
  (* its answer away.                                                       *)
  <1>3. ASSUME UNCHANGED keyed, \A c \in Keyed : of'[c] \in {of[c], NoJob} \cup keyed
        PROVE  KeyInv'
    BY <1>3 DEF KeyInv
  <1>4. ASSUME NEW c \in Clients, Lookup(c) PROVE KeyInv'
    <2>1. UNCHANGED keyed BY <1>4 DEF Lookup
    <2>2. CASE c \in Keyed /\ keyed # {}
      <3>1. PICK j \in keyed : of' = [of EXCEPT ![c] = j] BY <1>4, <2>2 DEF Lookup, Goto
      <3> QED BY <1>1, <1>2, <1>3, <2>1, <3>1
    <2>3. CASE ~(c \in Keyed /\ keyed # {})
      <3>1. UNCHANGED of BY <1>4, <2>3 DEF Lookup
      <3> QED BY <1>3, <2>1, <3>1
    <2> QED BY <2>2, <2>3
  <1>5. ASSUME NEW c \in Clients, Insert(c) PROVE KeyInv'
    <2>1. PICK j \in Jobs : /\ of' = [of EXCEPT ![c] = j]
                            /\ keyed' = IF c \in Keyed THEN keyed \cup {j} ELSE keyed
      BY <1>5 DEF Insert
    <2>2. CASE c \in Keyed
      <3>1. keyed = {} BY <1>5, <2>2 DEF Insert
      <3>2. keyed' = {j} BY <2>1, <2>2, <3>1
      <3>3. \A d \in Keyed : d # c => of'[d] = NoJob BY <1>1, <1>2, <2>1, <3>1 DEF KeyInv
      <3>4. of'[c] = j BY <1>1, <1>2, <2>1, <2>2
      <3> QED BY <3>2, <3>3, <3>4 DEF KeyInv
    <2>3. CASE c \notin Keyed
      <3>1. \A d \in Keyed : of'[d] = of[d] BY <1>1, <1>2, <2>1, <2>3
      <3> QED BY <1>3, <2>1, <2>3, <3>1
    <2> QED BY <2>2, <2>3
  <1>6. ASSUME NEW c \in Clients, InsertConflict(c) PROVE KeyInv'
    <2>1. UNCHANGED keyed BY <1>6 DEF InsertConflict, rows
    <2>2. PICK j \in keyed : of' = [of EXCEPT ![c] = j] BY <1>6 DEF InsertConflict
    <2> QED BY <1>1, <1>2, <1>3, <2>1, <2>2
  <1>7. ASSUME NEW c \in Clients, RetryLoad(c) PROVE KeyInv'
    <2>1. UNCHANGED keyed /\ c \in Retriers BY <1>7 DEF RetryLoad, rows
    <2>2. PICK j \in Jobs : of' = [of EXCEPT ![c] = j] BY <1>7 DEF RetryLoad
    <2> QED BY <1>1, <1>2, <1>3, <2>1, <2>2
  <1>8. ASSUME NEW c \in Clients, RunForm(c) \/ Accept(c) \/ RefuseOverBudget(c) \/ RetryCommit(c)
                                  \/ FailSync(c) \/ ApiStop(c)
        PROVE  KeyInv'
    <2>1. UNCHANGED <<keyed, of>>
      BY <1>8 DEF RunForm, Accept, RefuseOverBudget, RetryCommit, FailSync, ApiStop, rows
    <2> QED BY <1>3, <2>1
  <1>9. ASSUME NEW p \in Procs, NEW j, NEW to, PutOn(p, j, to), UNCHANGED keyed PROVE KeyInv'
    <2>1. PICK e \in Entries : of' = [of EXCEPT ![e] = j] BY <1>9 DEF PutOn
    <2> QED BY <1>1, <1>2, <1>3, <1>9, <2>1
  <1>10. ASSUME NEW e \in Entries, DropExhausted(e) \/ Ack(e) PROVE KeyInv'
    <2>1. UNCHANGED keyed /\ of' = [of EXCEPT ![e] = NoJob]
      BY <1>10 DEF DropExhausted, Ack, Leave, rows
    <2> QED BY <1>1, <1>2, <1>3, <2>1
  <1>11. ASSUME NEW e \in Entries, Deliver(e) \/ Admit(e) \/ DeadLetter(e) \/ Backoff(e)
                                   \/ Shutdown(e) \/ Crash(e)
         PROVE  KeyInv'
    <2>1. UNCHANGED <<keyed, of>>
      BY <1>11 DEF Deliver, Admit, DeadLetter, Backoff, Shutdown, Crash, rows
    <2> QED BY <1>3, <2>1
  <1>12. ASSUME NEW p \in Procs, RunStep(p) PROVE KeyInv'
    <2>1. UNCHANGED <<keyed, of>>
      BY <1>12 DEF RunStep, Load, OverBudget, Begin, SetupFails, SetupDone, LoopEnds, LoopTransient,
                   LoopFallback, Finalize, Callback, rows
    <2> QED BY <1>3, <2>1
  <1>13. ASSUME NEW p \in Procs, Unhandled(p) PROVE KeyInv'
    <2>1. UNCHANGED keyed /\ of' = [of EXCEPT ![p] = NoJob] BY <1>13 DEF Unhandled, rows
    <2> QED BY <1>1, <1>3, <2>1
  <1>14. CASE ChangePrompt \/ Rest \/ UNCHANGED vars
    <2>1. UNCHANGED <<keyed, of>> BY <1>14 DEF ChangePrompt, Rest, vars, rows, procs
    <2> QED BY <1>3, <2>1
  <1>15. ASSUME NEW c \in Clients, Enqueue(c) PROVE KeyInv'
    BY <1>9, <1>15 DEF Enqueue, rows, Procs
  <1>16. ASSUME NEW e \in Entries, Defer(e) PROVE KeyInv'
    BY <1>9, <1>16 DEF Defer, rows, Procs
  <1> QED
    BY <1>4, <1>5, <1>6, <1>7, <1>8, <1>10, <1>11, <1>12, <1>13, <1>14, <1>15, <1>16
    DEF Next, EntryStep, RequestStep, Procs

(* However many submissions carry one idempotency key, and however they    *)
(* interleave with retries, workers and faults, they are all answered with *)
(* one job (create_job and the constraint on agent_id, idempotency_key).   *)
THEOREM KeyHonoured == Spec => []OneJobPerKey
  <1>1. Init => KeyInv
    BY SetsAssumption DEF Init, KeyInv, Procs, Clients
  <1>2. TypeOK /\ KeyInv => OneJobPerKey
    BY DEF KeyInv, OneJobPerKey, Answered
  <1> QED
    BY <1>1, <1>2, KeyStep, TypeInit, TypeStep, PTL DEF Spec

-------------------------------------------------------------------------------
(* One deliverer.  A job has two processes that may run it when two        *)
(* retries cross, or when a delivery that was deferred or has ended comes  *)
(* back beside a new one; so one of the two is ruled out.                  *)
NoRedelivery == Faults \cap {"shutdown", "crash"} = {}
OneDeliverer ==
  \/ NoRedelivery /\ \A r, s \in Retriers : r = s
  \/ Retriers = {} /\ Cap = 0

(* Where a process holds a job: it will run it, or arq may make it.        *)
HoldPC == OwingPC \cup (IF NoRedelivery THEN {} ELSE {"callback", "ack"})
Holds(p) == pc[p] \in HoldPC

Sole == \A p, q \in Procs : Holds(p) /\ Holds(q) /\ of[p] = of[q] => p = q

(* The row is as the process that holds it, or will re-queue it, takes it  *)
(* to be.                                                                  *)
Agrees(p) ==
  LET s == status[of[p]] IN
  /\ Holds(p) => s # "absent" /\ (NoRedelivery => s \in LiveStatus)
  /\ pc[p] \in {"preflight", "enqueue"} => s = "queued"
  /\ pc[p] = "begin" => s \in LiveStatus /\ frame[p].status = s
  /\ pc[p] \in {"setup", "loop", "transient"} => s = "running"
  /\ pc[p] = "finalize" =>
       /\ s \in LiveStatus /\ frame[p].result \in Terminal
       /\ s = "queued" => frame[p].result = "budget_exceeded"
  /\ pc[p] = "requeue" => s \in Retriable /\ p \in Retriers

OneInv == Sole /\ \A p \in Procs : Agrees(p)

(* A step of one process that takes up no job, and writes at most the row  *)
(* of a live job it holds...                                               *)
Alone(p) ==
  /\ \A q \in Procs : q # p => pc'[q] = pc[q] /\ of'[q] = of[q] /\ frame'[q] = frame[q]
  /\ Holds(p)' => Holds(p) /\ of'[p] = of[p]
  /\ \/ UNCHANGED status
     \/ /\ Holds(p) /\ status[of[p]] \in LiveStatus
        /\ \A j \in Jobs : j # of[p] => status'[j] = status[j]
  /\ Agrees(p)'

(* ... leaves all the others in agreement.                                 *)
LEMMA StepOf ==
  ASSUME TypeOK, OneInv, NEW p \in Procs, Alone(p)
  PROVE  OneInv'
  <1>1. Sole'
    BY DEF OneInv, Sole, Alone, Holds
  <1>2. ASSUME NEW q \in Procs, q # p PROVE Agrees(q)'
    <2>1. Agrees(q) /\ pc'[q] = pc[q] /\ of'[q] = of[q] /\ frame'[q] = frame[q]
      BY <1>2 DEF OneInv, Alone
    <2>2. CASE status'[of[q]] = status[of[q]]
      BY <2>1, <2>2 DEF Agrees, Holds
    <2>3. CASE status'[of[q]] # status[of[q]] /\ of[q] = of[p]
      <3>1. Holds(p) /\ status[of[p]] \in LiveStatus BY <2>3 DEF Alone
      <3>2. ~Holds(q) BY <1>2, <2>3, <3>1 DEF OneInv, Sole
      <3>3. pc[q] # "requeue"
        BY <2>1, <2>3, <3>1 DEF Agrees, Retriable, LiveStatus
      <3> QED BY <2>1, <3>2, <3>3 DEF Agrees, Holds, HoldPC, OwingPC, RunPC
    <2>4. CASE status'[of[q]] # status[of[q]] /\ of[q] # of[p]
      <3>1. of[q] \notin Jobs BY <2>4 DEF Alone
      <3>2. pc[q] \notin OwingPC \cup {"requeue", "callback", "ack"} BY <3>1 DEF TypeOK
      <3> QED BY <2>1, <3>2 DEF Agrees, Holds, HoldPC, OwingPC, RunPC
    <2> QED BY <2>2, <2>3, <2>4
  <1>3. Agrees(p)' BY DEF Alone
  <1> QED BY <1>1, <1>2, <1>3 DEF OneInv

(* A new entry takes the job over from the process that put it on.         *)
LEMMA HandOver ==
  ASSUME TypeOK, OneInv, NEW p \in Procs, NEW to, PutOn(p, of[p], to),
         Holds(p), to \notin HoldPC, to \in {"done", "ack"}, UNCHANGED <<status, frame>>
  PROVE  OneInv'
  <1>1. PICK e \in Entries : /\ pc[e] = "free"
                             /\ pc' = [pc EXCEPT ![p] = to, ![e] = "ready"]
                             /\ of' = [of EXCEPT ![e] = of[p]]
    BY DEF PutOn
  <1>2. e \in Procs /\ e # p /\ ~Holds(e)
    BY <1>1, SetsAssumption DEF Procs, Holds, HoldPC, OwingPC, RunPC
  <1>3. /\ pc'[e] = "ready" /\ of'[e] = of[p] /\ pc'[p] = to /\ of'[p] = of[p]
        /\ \A q \in Procs : q \notin {p, e} => pc'[q] = pc[q] /\ of'[q] = of[q]
    BY <1>1, <1>2 DEF TypeOK
  <1>4. Sole'
    BY <1>2, <1>3 DEF OneInv, Sole, Holds
  <1>5. ASSUME NEW q \in Procs, q \notin {p, e} PROVE Agrees(q)'
    BY <1>3, <1>5 DEF OneInv, Agrees, Holds
  <1>6. Agrees(p)'
    BY <1>3 DEF Agrees, Holds
  <1>7. Agrees(e)'
    BY <1>3 DEF OneInv, Agrees, Holds
  <1> QED BY <1>4, <1>5, <1>6, <1>7 DEF OneInv

(* Every action keeps one deliverer a job, and the row as it takes it.     *)
LEMMA OneStep == OneDeliverer /\ TypeOK /\ OneInv /\ [Next]_vars => OneInv'
  <1> SUFFICES ASSUME OneDeliverer, TypeOK, OneInv, [Next]_vars PROVE OneInv'
    OBVIOUS
  <1>a. /\ \A p \in Procs : Agrees(p)
        /\ pc \in [Procs -> PCs] /\ of \in [Procs -> Jobs \cup {NoJob}] /\ frame \in [Procs -> Frames]
        /\ status \in [Jobs -> Statuses]
        /\ \A p \in Procs : pc[p] \in OwingPC \cup {"requeue", "callback", "ack"} => of[p] \in Jobs
    BY DEF OneInv, TypeOK
  <1>b. Clients \subseteq Procs /\ Entries \subseteq Procs
    BY DEF Procs
  <1> USE DEF Goto, Return, rows, history, procs
  <1>0. ASSUME NEW p \in Procs, Alone(p) PROVE OneInv'
    BY <1>0, StepOf
  <1>1. ASSUME NEW c \in Clients, Lookup(c) PROVE Alone(c)
    BY <1>1, <1>a, <1>b DEF Lookup, LiveStatus, Alone, Agrees, Holds, HoldPC, OwingPC, RunPC
  <1>2. ASSUME NEW c \in Clients, RunForm(c) PROVE Alone(c)
    BY <1>2, <1>a, <1>b DEF RunForm, LiveStatus, Alone, Agrees, Holds, HoldPC, OwingPC, RunPC
  <1>3. ASSUME NEW c \in Clients, InsertConflict(c) PROVE Alone(c)
    BY <1>3, <1>a, <1>b
    DEF InsertConflict, LiveStatus, Alone, Agrees, Holds, HoldPC, OwingPC, RunPC
  <1>4. ASSUME NEW c \in Clients, Accept(c) PROVE Alone(c)
    BY <1>4, <1>a, <1>b DEF Accept, LiveStatus, Alone, Agrees, Holds, HoldPC, OwingPC, RunPC
  <1>5. ASSUME NEW c \in Clients, RefuseOverBudget(c) PROVE Alone(c)
    BY <1>5, <1>a, <1>b
    DEF RefuseOverBudget, LiveStatus, Alone, Agrees, Holds, HoldPC, OwingPC, RunPC
  <1>6. ASSUME NEW c \in Clients, RetryLoad(c) PROVE Alone(c)
    BY <1>6, <1>a, <1>b DEF RetryLoad, LiveStatus, Alone, Agrees, Holds, HoldPC, OwingPC, RunPC
  <1>7. ASSUME NEW c \in Clients, FailSync(c) PROVE Alone(c)
    BY <1>7, <1>a, <1>b DEF FailSync, LiveStatus, Alone, Agrees, Holds, HoldPC, OwingPC, RunPC
  <1>8. ASSUME NEW c \in Clients, ApiStop(c) PROVE Alone(c)
    BY <1>8, <1>a, <1>b DEF ApiStop, HandBack, LiveStatus, Alone, Agrees, Holds, HoldPC, OwingPC, RunPC
  <1>9. ASSUME NEW e \in Entries, Deliver(e) PROVE Alone(e)
    BY <1>9, <1>a, <1>b DEF Deliver, LiveStatus, Alone, Agrees, Holds, HoldPC, OwingPC, RunPC
  <1>10. ASSUME NEW e \in Entries, DropExhausted(e) PROVE Alone(e)
    BY <1>10, <1>a, <1>b
    DEF DropExhausted, Leave, LiveStatus, Alone, Agrees, Holds, HoldPC, OwingPC, RunPC
  <1>11. ASSUME NEW e \in Entries, Admit(e) PROVE Alone(e)
    BY <1>11, <1>a, <1>b DEF Admit, LiveStatus, Alone, Agrees, Holds, HoldPC, OwingPC, RunPC
  <1>12. ASSUME NEW e \in Entries, Ack(e) PROVE Alone(e)
    BY <1>12, <1>a, <1>b DEF Ack, Leave, LiveStatus, Alone, Agrees, Holds, HoldPC, OwingPC, RunPC
  <1>13. ASSUME NEW e \in Entries, DeadLetter(e) PROVE Alone(e)
    BY <1>13, <1>a, <1>b DEF DeadLetter, LiveStatus, Alone, Agrees, Holds, HoldPC, OwingPC, RunPC
  <1>14. ASSUME NEW e \in Entries, Backoff(e) PROVE Alone(e)
    BY <1>14, <1>a, <1>b DEF Backoff, LiveStatus, Alone, Agrees, Holds, HoldPC, OwingPC, RunPC
  <1>15. ASSUME NEW e \in Entries, Shutdown(e) PROVE Alone(e)
    BY <1>15, <1>a, <1>b
    DEF Shutdown, HandBack, ActivePC, NoRedelivery, LiveStatus, Alone, Agrees, Holds, HoldPC, OwingPC, RunPC
  <1>16. ASSUME NEW e \in Entries, Crash(e) PROVE Alone(e)
    BY <1>16, <1>a, <1>b
    DEF Crash, ActivePC, NoRedelivery, LiveStatus, Alone, Agrees, Holds, HoldPC, OwingPC, RunPC
  <1>17. ASSUME NEW p \in Procs, Unhandled(p) PROVE Alone(p)
    BY <1>17, <1>a DEF Unhandled, LiveStatus, Alone, Agrees, Holds, HoldPC, OwingPC, RunPC
  <1>18. ASSUME NEW p \in Procs, Load(p) PROVE Alone(p)
    <2>1. /\ Agrees(p) /\ of[p] \in Jobs /\ of' = of /\ status' = status /\ pc[p] = "load"
          /\ \A q \in Procs : q # p => pc'[q] = pc[q] /\ frame'[q] = frame[q]
      BY <1>18, <1>a DEF Load, OwingPC, RunPC
    <2>2. CASE status[of[p]] \in LiveStatus
      <3>1. pc'[p] = "begin" /\ frame'[p].status = status[of[p]]
        BY <1>18, <1>a, <2>2 DEF Load, Frames
      <3> QED BY <2>1, <2>2, <3>1 DEF Alone, Agrees, Holds, HoldPC, OwingPC, RunPC
    <2>3. CASE status[of[p]] \notin LiveStatus
      <3>1. pc'[p] = "callback" BY <1>18, <1>a, <2>3 DEF Load
      <3> QED BY <2>1, <2>3, <3>1 DEF Alone, Agrees, Holds, HoldPC, OwingPC, RunPC
    <2> QED BY <2>2, <2>3
  <1>19. ASSUME NEW p \in Procs, OverBudget(p) PROVE Alone(p)
    BY <1>19, <1>a
    DEF OverBudget, Frames, Terminal, LoopStatus, LiveStatus, Alone, Agrees, Holds, HoldPC, OwingPC,
        RunPC
  <1>20. ASSUME NEW p \in Procs, Begin(p) PROVE Alone(p)
    BY <1>20, <1>a DEF Begin, LiveStatus, Alone, Agrees, Holds, HoldPC, OwingPC, RunPC
  <1>21. ASSUME NEW p \in Procs, SetupFails(p) PROVE Alone(p)
    BY <1>21, <1>a
    DEF SetupFails, Frames, Terminal, LoopStatus, LiveStatus, Alone, Agrees, Holds, HoldPC, OwingPC,
        RunPC
  <1>22. ASSUME NEW p \in Procs, SetupDone(p) PROVE Alone(p)
    BY <1>22, <1>a DEF SetupDone, LiveStatus, Alone, Agrees, Holds, HoldPC, OwingPC, RunPC
  <1>23. ASSUME NEW p \in Procs, LoopEnds(p) PROVE Alone(p)
    BY <1>23, <1>a, SetsAssumption
    DEF LoopEnds, Frames, Terminal, LiveStatus, Alone, Agrees, Holds, HoldPC, OwingPC, RunPC
  <1>24. ASSUME NEW p \in Procs, LoopTransient(p) PROVE Alone(p)
    BY <1>24, <1>a DEF LoopTransient, LiveStatus, Alone, Agrees, Holds, HoldPC, OwingPC, RunPC
  <1>25. ASSUME NEW p \in Procs, LoopFallback(p) PROVE Alone(p)
    BY <1>25, <1>a DEF LoopFallback, LiveStatus, Alone, Agrees, Holds, HoldPC, OwingPC, RunPC
  <1>26. ASSUME NEW p \in Procs, Finalize(p) PROVE Alone(p)
    <2>1. /\ Agrees(p) /\ of[p] \in Jobs /\ of' = of /\ pc[p] = "finalize" /\ pc'[p] = "callback"
          /\ status' = [status EXCEPT ![of[p]] = frame[p].result]
          /\ \A q \in Procs : q # p => pc'[q] = pc[q] /\ frame'[q] = frame[q]
      BY <1>26, <1>a DEF Finalize, OwingPC, RunPC
    <2>2. status'[of[p]] # "absent" BY <1>a, <2>1 DEF Agrees, Terminal, LoopStatus
    <2> QED BY <1>a, <2>1, <2>2 DEF Alone, Agrees, Holds, HoldPC, OwingPC, RunPC
  <1>27. ASSUME NEW p \in Procs, Callback(p) PROVE Alone(p)
    BY <1>27, <1>a DEF Callback, LiveStatus, Alone, Agrees, Holds, HoldPC, OwingPC, RunPC
  <1>28. ASSUME NEW c \in Clients, Insert(c) PROVE OneInv'
    <2>1. PICK j \in Jobs : status[j] = "absent" /\ status' = [status EXCEPT ![j] = "queued"]
                            /\ of' = [of EXCEPT ![c] = j]
      BY <1>28 DEF Insert
    <2>2. /\ pc'[c] = "preflight" /\ of'[c] = j /\ status'[j] = "queued" /\ frame' = frame
          /\ \A q \in Procs : q # c => pc'[q] = pc[q] /\ of'[q] = of[q]
          /\ \A i \in Jobs : i # j => status'[i] = status[i]
      BY <1>28, <1>a, <1>b, <2>1 DEF Insert
    <2>3. \A q \in Procs : pc[q] \in OwingPC \cup {"requeue"} \/ Holds(q) => of[q] # j
      BY <1>a, <2>1 DEF Agrees, Holds, HoldPC, OwingPC, RunPC, Retriable
    <2>4. Sole'
      BY <2>2, <2>3 DEF OneInv, Sole, Holds
    <2>5. ASSUME NEW q \in Procs, q # c PROVE Agrees(q)'
      <3>1. CASE of[q] # j /\ of[q] \in Jobs
        BY <1>a, <2>2, <2>5, <3>1 DEF Agrees, Holds
      <3>2. CASE of[q] = j \/ of[q] \notin Jobs
        BY <1>a, <2>2, <2>3, <2>5, <3>2 DEF Agrees, Holds, HoldPC, OwingPC, RunPC
      <3> QED BY <3>1, <3>2
    <2>6. Agrees(c)'
      BY <2>2 DEF Agrees, Holds, LiveStatus
    <2> QED BY <2>4, <2>5, <2>6 DEF OneInv
  <1>29. ASSUME NEW c \in Clients, RetryCommit(c) PROVE OneInv'
    <2>1. NoRedelivery /\ (\A r \in Retriers : r = c) /\ c \in Retriers /\ of[c] \in Jobs
          /\ status[of[c]] \in Retriable
      BY <1>29, <1>a, <1>b DEF RetryCommit, OneDeliverer, Agrees
    <2>2. /\ pc'[c] = "enqueue" /\ of' = of /\ status'[of[c]] = "queued" /\ frame' = frame
          /\ \A q \in Procs : q # c => pc'[q] = pc[q]
          /\ \A i \in Jobs : i # of[c] => status'[i] = status[i]
      BY <1>29, <1>a, <1>b, <2>1 DEF RetryCommit
    <2>3. \A q \in Procs : q # c => (Holds(q) => of[q] # of[c]) /\ pc[q] # "requeue"
      BY <1>a, <2>1 DEF Agrees, Retriable, LiveStatus
    <2>4. Sole'
      BY <2>2, <2>3 DEF OneInv, Sole, Holds
    <2>5. ASSUME NEW q \in Procs, q # c PROVE Agrees(q)'
      <3>1. CASE of[q] # of[c] /\ of[q] \in Jobs
        BY <1>a, <2>2, <2>5, <3>1 DEF Agrees, Holds
      <3>2. CASE of[q] = of[c] \/ of[q] \notin Jobs
        BY <1>a, <2>2, <2>3, <2>5, <3>2 DEF Agrees, Holds, HoldPC, OwingPC, RunPC
      <3> QED BY <3>1, <3>2
    <2>6. Agrees(c)'
      BY <2>2 DEF Agrees, Holds, LiveStatus
    <2> QED BY <2>4, <2>5, <2>6 DEF OneInv
  <1>30. ASSUME NEW c \in Clients, Enqueue(c) PROVE OneInv'
    <2>1. Holds(c) /\ "done" \notin HoldPC
      BY <1>30 DEF Enqueue, Holds, HoldPC, OwingPC, RunPC
    <2> QED BY <1>30, <1>b, <2>1, HandOver DEF Enqueue
  <1>31. ASSUME NEW e \in Entries, Defer(e) PROVE OneInv'
    <2>1. NoRedelivery
      BY <1>31, TriesAssumption DEF Defer, AtCapacity, OneDeliverer
    <2>2. Holds(e) /\ "ack" \notin HoldPC
      BY <1>31, <2>1 DEF Defer, Holds, HoldPC, OwingPC, RunPC
    <2> QED BY <1>31, <1>b, <2>2, HandOver DEF Defer
  <1>32. CASE ChangePrompt \/ Rest \/ UNCHANGED vars
    <2>1. UNCHANGED <<status, pc, of, frame>>
      BY <1>32 DEF ChangePrompt, Rest, vars
    <2> QED BY <2>1 DEF OneInv, Sole, Agrees, Holds
  <1> QED
    BY <1>b, <1>0, <1>1, <1>2, <1>3, <1>4, <1>5, <1>6, <1>7, <1>8, <1>9, <1>10, <1>11, <1>12, <1>13,
       <1>14, <1>15, <1>16, <1>17, <1>18, <1>19, <1>20, <1>21, <1>22, <1>23, <1>24, <1>25, <1>26,
       <1>27, <1>28, <1>29, <1>30, <1>31, <1>32
    DEF Next, EntryStep, RequestStep, RunStep, Procs

LEMMA OneInit == Init => OneInv
  BY SetsAssumption DEF Init, OneInv, Sole, Agrees, Holds, HoldPC, OwingPC, RunPC, Procs

(* A job is run by at most one process at a time: whatever is delivered    *)
(* again when no client retries and no cap defers, and with a retry when   *)
(* no worker stops (run_job, execute_job).                                 *)
THEOREM OneAtATime ==
  ASSUME OneDeliverer
  PROVE  Spec => []OneRun
  <1>1. TypeOK /\ OneInv => OneRun
    BY DEF OneInv, Sole, OneRun, Running, Holds, HoldPC, OwingPC
  <1>2. OneInv /\ TypeOK /\ [Next]_vars => OneInv'
    BY OneStep
  <1> QED
    BY <1>1, <1>2, OneInit, TypeCorrect, PTL DEF Spec

-------------------------------------------------------------------------------
(* The refinement: a write of a row is a move of JobRow.                   *)
LEMMA MoveOf ==
  ASSUME TypeOK, NEW j \in Jobs, NEW s, status' = [status EXCEPT ![j] = s],
         \/ status[j] = "absent" /\ s = "queued"
         \/ status[j] = "queued" /\ s \in {"running", "budget_exceeded"}
         \/ status[j] = "running" /\ s \in Terminal \cup {"queued"}
         \/ status[j] \in Retriable /\ s = "queued"
  PROVE  Row!Next
  <1> USE DEF Row!Move
  <1>1. CASE status[j] = "absent" /\ s = "queued"
    BY <1>1 DEF Row!Next, Row!Submit
  <1>2. CASE status[j] = "queued" /\ s = "running"
    BY <1>2 DEF Row!Next, Row!Start
  <1>3. CASE status[j] = "queued" /\ s = "budget_exceeded"
    BY <1>3 DEF Row!Next, Row!Refuse
  <1>4. CASE status[j] = "running" /\ s \in Terminal
    <2>1. s \in Row!Ends BY <1>4 DEF Terminal, LoopStatus, Row!Ends
    <2> QED BY <1>4, <2>1 DEF Row!Next, Row!End
  <1>5. CASE status[j] = "running" /\ s = "queued"
    BY <1>5 DEF Row!Next, Row!HandBack
  <1>6. CASE status[j] \in Retriable /\ s = "queued"
    BY <1>6 DEF Row!Next, Row!Retry, Retriable
  <1> QED BY <1>1, <1>2, <1>3, <1>4, <1>5, <1>6

LEMMA RowStep == TypeOK /\ OneInv /\ [Next]_vars => [Row!Next]_status
  <1> SUFFICES ASSUME TypeOK, OneInv, [Next]_vars, status' # status PROVE Row!Next
    OBVIOUS
  <1>a. /\ \A p \in Procs : Agrees(p)
        /\ \A p \in Procs : pc[p] \in OwingPC \cup {"requeue"} => of[p] \in Jobs
        /\ Clients \subseteq Procs /\ Entries \subseteq Procs
    BY DEF OneInv, TypeOK, Procs
  <1> USE DEF Goto
  <1>1. ASSUME NEW c \in Clients, Insert(c) PROVE Row!Next
    BY <1>1, MoveOf DEF Insert
  <1>2. ASSUME NEW c \in Clients, RefuseOverBudget(c) PROVE Row!Next
    <2>1. of[c] \in Jobs /\ status[of[c]] = "queued"
      BY <1>2, <1>a DEF RefuseOverBudget, Agrees, OwingPC
    <2> QED BY <1>2, <2>1, MoveOf DEF RefuseOverBudget
  <1>3. ASSUME NEW c \in Clients, RetryCommit(c) PROVE Row!Next
    <2>1. of[c] \in Jobs /\ status[of[c]] \in Retriable
      BY <1>3, <1>a DEF RetryCommit, Agrees
    <2> QED BY <1>3, <2>1, MoveOf DEF RetryCommit
  <1>4. ASSUME NEW p \in Procs, FailSync(p) \/ DeadLetter(p) PROVE Row!Next
    <2>1. of[p] \in Jobs /\ status[of[p]] = "running"
      BY <1>4, <1>a DEF FailSync, DeadLetter, Agrees, OwingPC, RunPC
    <2> QED BY <1>4, <2>1, MoveOf DEF FailSync, DeadLetter, Terminal, LoopStatus
  <1>5. ASSUME NEW p \in Procs, ApiStop(p) \/ Shutdown(p) PROVE Row!Next
    <2>1. pc[p] = "loop" /\ status' = [status EXCEPT ![of[p]] = "queued"]
      BY <1>5 DEF ApiStop, Shutdown, HandBack
    <2>2. of[p] \in Jobs /\ status[of[p]] = "running"
      BY <1>a, <2>1 DEF Agrees, OwingPC, RunPC
    <2> QED BY <2>1, <2>2, MoveOf
  <1>6. ASSUME NEW p \in Procs, Begin(p) PROVE Row!Next
    <2>1. of[p] \in Jobs /\ frame[p].status = status[of[p]]
      BY <1>6, <1>a DEF Begin, Agrees, OwingPC, RunPC
    <2>2. status[of[p]] = "queued" /\ status' = [status EXCEPT ![of[p]] = "running"]
      BY <1>6, <2>1 DEF Begin
    <2> QED BY <2>1, <2>2, MoveOf
  <1>7. ASSUME NEW p \in Procs, Finalize(p) PROVE Row!Next
    <2>1. /\ of[p] \in Jobs /\ status[of[p]] \in LiveStatus /\ frame[p].result \in Terminal
          /\ status[of[p]] = "queued" => frame[p].result = "budget_exceeded"
      BY <1>7, <1>a DEF Finalize, Agrees, OwingPC, RunPC
    <2> QED BY <1>7, <2>1, MoveOf DEF Finalize, LiveStatus
  <1>8. ASSUME \/ \E c \in Clients : \/ Lookup(c) \/ RunForm(c) \/ RetryLoad(c) \/ InsertConflict(c)
                                     \/ Accept(c) \/ Enqueue(c)
               \/ \E e \in Entries : \/ Deliver(e) \/ DropExhausted(e) \/ Admit(e) \/ Defer(e)
                                     \/ Ack(e) \/ Backoff(e) \/ Crash(e)
        PROVE  FALSE
    BY <1>8 DEF Lookup, RunForm, RetryLoad, InsertConflict, Accept, Enqueue, Deliver, DropExhausted,
                Admit, Defer, Ack, Backoff, Crash, rows
  <1>9. ASSUME \/ \E p \in Procs : \/ Unhandled(p) \/ Load(p) \/ OverBudget(p) \/ SetupFails(p)
                                   \/ SetupDone(p) \/ LoopEnds(p) \/ LoopTransient(p)
                                   \/ LoopFallback(p) \/ Callback(p)
               \/ ChangePrompt \/ Rest \/ UNCHANGED vars
        PROVE  FALSE
    BY <1>9 DEF Unhandled, Load, OverBudget, SetupFails, SetupDone, LoopEnds, LoopTransient,
                LoopFallback, Callback, ChangePrompt, Rest, vars, rows
  <1> QED
    BY <1>a, <1>1, <1>2, <1>3, <1>4, <1>5, <1>6, <1>7, <1>8, <1>9
    DEF Next, EntryStep, RequestStep, RunStep

(* With one deliverer a job, the rows implement JobRow: what a reader sees *)
(* of a job moves only as that specification says, whatever is delivered   *)
(* again or stopped in the middle.                                         *)
THEOREM RowImplemented ==
  ASSUME OneDeliverer
  PROVE  Spec => RowSpec
  <1>1. Init => Row!Init
    BY DEF Init, Row!Init
  <1>2. OneInv /\ TypeOK /\ [Next]_vars => OneInv' /\ [Row!Next]_status
    BY OneStep, RowStep
  <1> QED
    BY <1>1, <1>2, OneInit, TypeCorrect, PTL DEF Spec, RowSpec, Row!Spec

-------------------------------------------------------------------------------
(* The prompts of a run.  Until a process that holds the job has begun it  *)
(* no prompt was used since the job was queued; from then on its attempts  *)
(* use the pin, and one that is about to begin has read the pin.           *)
OneUsed == \A j \in Jobs : \E x \in Prompts \cup {NoPrompt} : used[j] \subseteq {x}
Unborn == \A j \in Jobs : status[j] = "absent" => used[j] = {}
Pinned ==
  \A p \in Procs : Holds(p) =>
    /\ status[of[p]] = "queued" => used[of[p]] = {}
    /\ status[of[p]] = "running" => used[of[p]] \subseteq {pin[of[p]]}
    /\ pc[p] = "begin" /\ status[of[p]] = "running" => frame[p].prompt = pin[of[p]]

PromptInv == OneUsed /\ Unborn /\ Pinned

(* A step that uses no prompt, and after which the jobs that are held were *)
(* held before and have the status they had.                               *)
Promptless ==
  /\ UNCHANGED <<used, pin>>
  /\ \A j \in Jobs : status'[j] = "absent" => status[j] = "absent"
  /\ \A p \in Procs : Holds(p)' =>
       /\ of'[p] \in Jobs /\ status'[of'[p]] = status[of'[p]]
       /\ \E q \in Procs : Holds(q) /\ of[q] = of'[p]
       /\ pc'[p] = "begin" =>
            \/ pc[p] = "begin" /\ of'[p] = of[p] /\ frame'[p] = frame[p]
            \/ status[of'[p]] = "running" => frame'[p].prompt = pin[of'[p]]

LEMMA PromptKept == TypeOK /\ PromptInv /\ Promptless => PromptInv'
  <1> SUFFICES ASSUME TypeOK, PromptInv, Promptless PROVE PromptInv'
    OBVIOUS
  <1>1. OneUsed' /\ Unborn' BY DEF PromptInv, OneUsed, Unborn, Promptless
  <1>2. ASSUME NEW p \in Procs, Holds(p)'
        PROVE  /\ status'[of'[p]] = "queued" => used'[of'[p]] = {}
               /\ status'[of'[p]] = "running" => used'[of'[p]] \subseteq {pin'[of'[p]]}
    <2>1. PICK q \in Procs : Holds(q) /\ of[q] = of'[p] BY <1>2 DEF Promptless
    <2>2. status'[of'[p]] = status[of[q]] BY <1>2, <2>1 DEF Promptless
    <2> QED BY <2>1, <2>2 DEF PromptInv, Pinned, Promptless
  <1>3. ASSUME NEW p \in Procs, Holds(p)', pc'[p] = "begin", status'[of'[p]] = "running"
        PROVE  frame'[p].prompt = pin'[of'[p]]
    <2>1. CASE pc[p] = "begin" /\ of'[p] = of[p] /\ frame'[p] = frame[p]
      <3>1. Holds(p) BY <2>1 DEF Holds, HoldPC, OwingPC, RunPC
      <3> QED BY <1>3, <2>1, <3>1 DEF PromptInv, Pinned, Promptless
    <2> QED BY <1>3, <2>1 DEF Promptless
  <1> QED BY <1>1, <1>2, <1>3 DEF PromptInv, Pinned

(* Every action keeps the prompts of a run.                                *)
LEMMA PromptStep ==
  ASSUME OneDeliverer
  PROVE  TypeOK /\ OneInv /\ OneInv' /\ PromptInv /\ [Next]_vars => PromptInv'
  <1> SUFFICES ASSUME TypeOK, OneInv, OneInv', PromptInv, [Next]_vars PROVE PromptInv'
    OBVIOUS
  <1>a. /\ \A p \in Procs : Agrees(p)
        /\ pc \in [Procs -> PCs] /\ of \in [Procs -> Jobs \cup {NoJob}] /\ frame \in [Procs -> Frames]
        /\ status \in [Jobs -> Statuses]
        /\ \A p \in Procs : pc[p] \in OwingPC \cup {"requeue", "callback", "ack"} => of[p] \in Jobs
        /\ used \in [Jobs -> SUBSET (Prompts \cup {NoPrompt})]
        /\ pin \in [Jobs -> Prompts \cup {NoPrompt}]
    BY DEF OneInv, TypeOK
  <1>b. Clients \subseteq Procs /\ Entries \subseteq Procs
    BY DEF Procs
  <1>c. HoldPC = OwingPC \/ HoldPC = OwingPC \cup {"callback", "ack"}
    BY DEF HoldPC
  <1> USE DEF Goto, Return, rows, history, procs
  <1>0. ASSUME Promptless PROVE PromptInv'
    BY <1>0, PromptKept
  <1>1. ASSUME NEW c \in Clients, Lookup(c) \/ RunForm(c) \/ InsertConflict(c) \/ RetryLoad(c)
        PROVE  Promptless
    BY <1>1, <1>a, <1>b, <1>c
    DEF Lookup, RunForm, InsertConflict, RetryLoad, Promptless, Holds, OwingPC, RunPC
  <1>2. ASSUME NEW c \in Clients, Accept(c) PROVE Promptless
    BY <1>2, <1>a, <1>b, <1>c DEF Accept, Promptless, Holds, OwingPC, RunPC
  <1>3. ASSUME NEW e \in Entries, Deliver(e) \/ Admit(e) PROVE Promptless
    BY <1>3, <1>a, <1>b, <1>c DEF Deliver, Admit, Promptless, Holds, OwingPC, RunPC
  <1>4. ASSUME NEW e \in Entries, DropExhausted(e) \/ Ack(e) PROVE Promptless
    BY <1>4, <1>a, <1>b, <1>c DEF DropExhausted, Ack, Leave, Promptless, Holds, OwingPC, RunPC
  <1>5. ASSUME NEW e \in Entries, Backoff(e) PROVE Promptless
    BY <1>5, <1>a, <1>b, <1>c DEF Backoff, Promptless, Holds, OwingPC, RunPC
  <1>6. ASSUME NEW e \in Entries, Shutdown(e) \/ Crash(e), UNCHANGED <<status, used>>
        PROVE  Promptless
    <2>1. HoldPC = OwingPC \cup {"callback", "ack"}
      BY <1>6 DEF HoldPC, NoRedelivery, Shutdown, Crash
    <2>2. /\ pc[e] \in ActivePC /\ of' = of /\ frame' = [frame EXCEPT ![e] = Frame0]
          /\ pc' = [pc EXCEPT ![e] = "ready"] /\ UNCHANGED pin
      BY <1>6 DEF Shutdown, Crash
    <2>3. Holds(e) /\ \A q \in Procs : Holds(q) => of[q] \in Jobs
      BY <1>a, <2>1, <2>2 DEF Holds, ActivePC, OwingPC
    <2> QED BY <1>6, <1>a, <1>b, <2>2, <2>3 DEF Promptless, Holds
  <1>7. ASSUME NEW p \in Procs, Unhandled(p) PROVE Promptless
    BY <1>7, <1>a, <1>c DEF Unhandled, Promptless, Holds, OwingPC, RunPC
  <1>8. ASSUME NEW p \in Procs, Load(p) PROVE Promptless
    BY <1>8, <1>a, <1>c DEF Load, Frames, Promptless, Holds, OwingPC, RunPC
  <1>9. ASSUME NEW p \in Procs, OverBudget(p) \/ SetupFails(p) \/ LoopEnds(p) PROVE Promptless
    BY <1>9, <1>a, <1>c DEF OverBudget, SetupFails, LoopEnds, Promptless, Holds, OwingPC, RunPC
  <1>10. ASSUME NEW p \in Procs, SetupDone(p) \/ LoopTransient(p) \/ LoopFallback(p) PROVE Promptless
    BY <1>10, <1>a, <1>c
    DEF SetupDone, LoopTransient, LoopFallback, Promptless, Holds, OwingPC, RunPC
  <1>11. ASSUME NEW p \in Procs, Callback(p) PROVE Promptless
    BY <1>11, <1>a, <1>c DEF Callback, Promptless, Holds, OwingPC, RunPC
  (* A process that writes the row is the only one to hold the job. *)
  <1>12. ASSUME NEW p \in Procs, Holds(p), of' = of,
                \A q \in Procs : q # p => pc'[q] = pc[q] /\ frame'[q] = frame[q],
                pc'[p] # "begin", UNCHANGED pin,
                NEW s \in Statuses, s # "absent", status' = [status EXCEPT ![of[p]] = s],
                \/ s \notin LiveStatus /\ used' = used
                \/ s = "queued" /\ used' = [used EXCEPT ![of[p]] = {}]
         PROVE  PromptInv'
    <2>1. \A q \in Procs : q # p /\ Holds(q)' => Holds(q) /\ of[q] # of[p]
      BY <1>12 DEF OneInv, Sole, Holds
    <2>2. \A q \in Procs : Holds(q) => of[q] \in Jobs
      BY <1>a, <1>c DEF Holds
    <2>3. /\ status'[of[p]] = s /\ (s = "queued" => used'[of[p]] = {})
          /\ s = "queued" \/ s \notin LiveStatus
          /\ \A i \in Jobs : i # of[p] => status'[i] = status[i] /\ used'[i] = used[i]
      BY <1>12, <1>a, <2>2 DEF LiveStatus
    <2>4. \A i \in Jobs : used'[i] = used[i] \/ used'[i] = {}
      BY <1>12, <1>a
    <2>5. Pinned'
      <3> SUFFICES ASSUME NEW q \in Procs, Holds(q)'
                   PROVE  /\ status'[of'[q]] = "queued" => used'[of'[q]] = {}
                          /\ status'[of'[q]] = "running" => used'[of'[q]] \subseteq {pin'[of'[q]]}
                          /\ pc'[q] = "begin" /\ status'[of'[q]] = "running" =>
                               frame'[q].prompt = pin'[of'[q]]
        BY DEF Pinned
      <3>1. CASE q = p BY <1>12, <2>3, <3>1 DEF LiveStatus
      <3>2. CASE q # p
        BY <1>12, <2>1, <2>2, <2>3, <3>2 DEF PromptInv, Pinned
      <3> QED BY <3>1, <3>2
    <2>6. OneUsed' BY <2>4 DEF PromptInv, OneUsed, NoPrompt
    <2>7. Unborn' BY <1>12, <2>3, <2>4 DEF PromptInv, Unborn
    <2> QED BY <2>5, <2>6, <2>7 DEF PromptInv
  <1>13. ASSUME NEW p \in Procs, RefuseOverBudget(p) \/ FailSync(p) \/ DeadLetter(p) \/ Finalize(p)
         PROVE  PromptInv'
    <2>1. pc[p] = "finalize" => frame[p].result \in Terminal
      BY <1>a DEF Agrees
    <2>2. Holds(p) /\ pc'[p] # "begin" /\ of' = of /\ UNCHANGED <<used, pin>>
      BY <1>13, <1>a, <1>c
      DEF RefuseOverBudget, FailSync, DeadLetter, Finalize, Holds, OwingPC, RunPC
    <2>3. \A q \in Procs : q # p => pc'[q] = pc[q] /\ frame'[q] = frame[q]
      BY <1>13, <1>a DEF RefuseOverBudget, FailSync, DeadLetter, Finalize
    <2>4. PICK s \in Statuses : s # "absent" /\ s \notin LiveStatus /\ status' = [status EXCEPT ![of[p]] = s]
      BY <1>13, <2>1
      DEF RefuseOverBudget, FailSync, DeadLetter, Finalize, Statuses, Terminal, LoopStatus, LiveStatus
    <2> QED BY <1>12, <2>2, <2>3, <2>4
  <1>14. ASSUME NEW p \in Procs, ApiStop(p) \/ Shutdown(p), pc[p] = "loop", HandBack(of[p])
         PROVE  PromptInv'
    <2>1. /\ of' = of /\ UNCHANGED pin /\ pc'[p] # "begin"
          /\ \A q \in Procs : q # p => pc'[q] = pc[q] /\ frame'[q] = frame[q]
      BY <1>14, <1>a DEF ApiStop, Shutdown
    <2>2. Holds(p) BY <1>14, <1>c DEF Holds, OwingPC, RunPC
    <2>3. "queued" \in Statuses /\ "queued" # "absent" BY DEF Statuses, LiveStatus
    <2> QED BY <1>12, <1>14, <2>1, <2>2, <2>3 DEF HandBack
  <1>21. ASSUME NEW c \in Clients, ApiStop(c), UNCHANGED <<status, used>> PROVE Promptless
    BY <1>21, <1>a, <1>b, <1>c DEF ApiStop, Promptless, Holds, OwingPC, RunPC
  <1>22. ASSUME NEW c \in Clients, ApiStop(c) PROVE PromptInv'
    BY <1>0, <1>14, <1>21, <1>22, <1>b DEF ApiStop
  <1>23. ASSUME NEW e \in Entries, Shutdown(e) \/ Crash(e) PROVE PromptInv'
    <2>1. \/ UNCHANGED <<status, used>>
          \/ Shutdown(e) /\ pc[e] = "loop" /\ HandBack(of[e])
      BY <1>23 DEF Shutdown, Crash
    <2> QED BY <1>0, <1>6, <1>14, <1>23, <1>b, <2>1
  <1>15. ASSUME NEW p \in Procs, NEW to, PutOn(p, of[p], to), to \in {"done", "ack"}, Holds(p),
                UNCHANGED <<status, used, pin, frame>>
         PROVE  Promptless
    <2>1. PICK e \in Entries : /\ pc' = [pc EXCEPT ![p] = to, ![e] = "ready"]
                               /\ of' = [of EXCEPT ![e] = of[p]]
      BY <1>15 DEF PutOn
    <2>2. \A q \in Procs : Holds(q)' => \/ q = e /\ of'[q] = of[p] /\ pc'[q] = "ready"
                                        \/ Holds(q) /\ of'[q] = of[q] /\ pc'[q] \in {pc[q], "ack"}
      BY <1>15, <1>a, <1>b, <1>c, <2>1 DEF Holds, OwingPC, RunPC
    <2>3. \A q \in Procs : Holds(q) => of[q] \in Jobs
      BY <1>a, <1>c DEF Holds
    <2> QED BY <1>15, <2>2, <2>3 DEF Promptless
  <1>16. ASSUME NEW p \in Procs, Enqueue(p) \/ Defer(p) PROVE Promptless
    BY <1>15, <1>16, <1>c DEF Enqueue, Defer, Holds, OwingPC, RunPC
  <1>17. CASE ChangePrompt \/ Rest \/ UNCHANGED vars
    <2>1. UNCHANGED <<status, pc, of, frame, used, pin>>
      BY <1>17 DEF ChangePrompt, Rest, vars
    <2> QED BY <2>1 DEF PromptInv, OneUsed, Unborn, Pinned, Holds
  <1>18. ASSUME NEW c \in Clients, Insert(c) PROVE PromptInv'
    <2>1. PICK j \in Jobs : status[j] = "absent" /\ status' = [status EXCEPT ![j] = "queued"]
                            /\ of' = [of EXCEPT ![c] = j]
      BY <1>18 DEF Insert
    <2>2. /\ pc'[c] = "preflight" /\ of'[c] = j /\ status'[j] = "queued"
          /\ UNCHANGED <<frame, used, pin>> /\ used[j] = {}
          /\ \A q \in Procs : q # c => pc'[q] = pc[q] /\ of'[q] = of[q]
          /\ \A i \in Jobs : i # j => status'[i] = status[i]
      BY <1>18, <1>a, <1>b, <2>1 DEF Insert, PromptInv, Unborn
    <2>3. \A q \in Procs : Holds(q) => of[q] # j /\ of[q] \in Jobs
      BY <1>a, <1>c, <2>1 DEF Agrees, Holds
    <2>4. Pinned'
      BY <2>2, <2>3 DEF PromptInv, Pinned, Holds
    <2> QED BY <2>2, <2>4 DEF PromptInv, OneUsed, Unborn
  <1>19. ASSUME NEW c \in Clients, RetryCommit(c) PROVE PromptInv'
    <2>1. /\ of[c] \in Jobs /\ of' = of /\ UNCHANGED <<frame, pin>>
          /\ status' = [status EXCEPT ![of[c]] = "queued"] /\ used' = [used EXCEPT ![of[c]] = {}]
          /\ pc'[c] = "enqueue" /\ \A q \in Procs : q # c => pc'[q] = pc[q]
      BY <1>19, <1>a, <1>b DEF RetryCommit
    <2>2. \A q \in Procs : q # c /\ Holds(q) => of[q] # of[c] /\ of[q] \in Jobs
      <3>1. Holds(c)' BY <1>c, <2>1 DEF Holds, OwingPC
      <3> QED BY <1>a, <1>b, <1>c, <2>1, <3>1 DEF OneInv, Sole, Holds
    <2>3. /\ status'[of[c]] = "queued" /\ used'[of[c]] = {}
          /\ \A i \in Jobs : i # of[c] => status'[i] = status[i] /\ used'[i] = used[i]
      BY <1>a, <2>1
    <2>4. Pinned'
      BY <2>1, <2>2, <2>3 DEF PromptInv, Pinned, Holds
    <2>5. OneUsed' BY <2>3 DEF PromptInv, OneUsed, NoPrompt
    <2> QED BY <2>3, <2>4, <2>5 DEF PromptInv, Unborn
  <1>20. ASSUME NEW p \in Procs, Begin(p) PROVE PromptInv'
    <2> DEFINE j == of[p]
    <2>1. /\ Holds(p) /\ j \in Jobs /\ of' = of /\ pc'[p] = "setup" /\ frame[p].status = status[j]
          /\ status[j] \in LiveStatus /\ frame[p].prompt \in Prompts \cup {NoPrompt} /\ pc[p] = "begin"
      BY <1>20, <1>a, <1>c DEF Begin, Agrees, Holds, OwingPC, RunPC, Frames
    <2>2. /\ status'[j] = "running" /\ \A i \in Jobs : i # j => status'[i] = status[i]
          /\ \A i \in Jobs : i # j => used'[i] = used[i] /\ pin'[i] = pin[i]
          /\ \A q \in Procs : q # p => pc'[q] = pc[q] /\ frame'[q] = frame[q]
      BY <1>20, <1>a, <2>1 DEF Begin, LiveStatus
    <2>3. used'[j] = used[j] \cup {frame[p].prompt}
      BY <1>20, <1>a, <2>1 DEF Begin
    <2>4. used'[j] \subseteq {frame[p].prompt} /\ pin'[j] = frame[p].prompt
      <3>1. CASE status[j] = "queued"
        <4>1. used[j] = {} BY <2>1, <3>1 DEF PromptInv, Pinned
        <4>2. pin'[j] = frame[p].prompt BY <1>20, <1>a, <2>1, <3>1 DEF Begin
        <4> QED BY <2>3, <4>1, <4>2
      <3>2. CASE status[j] = "running"
        <4>1. used[j] \subseteq {pin[j]} /\ frame[p].prompt = pin[j]
          BY <2>1, <3>2 DEF PromptInv, Pinned
        <4>2. pin' = pin BY <1>20, <2>1, <3>2 DEF Begin
        <4> QED BY <2>3, <4>1, <4>2
      <3> QED BY <2>1, <3>1, <3>2 DEF LiveStatus
    <2>5. \A q \in Procs : q # p /\ Holds(q) => of[q] # j /\ of[q] \in Jobs
      BY <1>a, <1>c, <2>1 DEF OneInv, Sole, Holds
    <2>6. Pinned'
      BY <2>1, <2>2, <2>4, <2>5 DEF PromptInv, Pinned, Holds
    <2>7. OneUsed' BY <2>1, <2>2, <2>4 DEF PromptInv, OneUsed
    <2>8. Unborn' BY <2>1, <2>2 DEF PromptInv, Unborn
    <2> QED BY <2>6, <2>7, <2>8 DEF PromptInv
  <1> QED
    BY <1>b, <1>0, <1>1, <1>2, <1>3, <1>4, <1>5, <1>7, <1>8, <1>9, <1>10, <1>11, <1>13, <1>16,
       <1>17, <1>18, <1>19, <1>20, <1>22, <1>23
    DEF Next, EntryStep, RequestStep, RunStep

(* Every attempt of a run gets the same prompts, however often owners      *)
(* change them, over backoffs, crashes, redeliveries and prompt fallbacks; *)
(* only a row that was put to queued again takes others (execute_job's pin,*)
(* _handle_cancellation).                                                  *)
THEOREM SameInstructions ==
  ASSUME OneDeliverer
  PROVE  Spec => []OneInstruction
  <1>1. Init => PromptInv
    BY SetsAssumption
    DEF Init, PromptInv, OneUsed, Unborn, Pinned, Holds, HoldPC, OwingPC, RunPC, NoPrompt, Procs
  <1>2. PromptInv => OneInstruction
    <2>1. SUFFICES ASSUME PromptInv, NEW j \in Jobs PROVE Cardinality(used[j]) <= 1
      BY DEF OneInstruction
    <2>2. PICK x : used[j] \subseteq {x} BY <2>1 DEF PromptInv, OneUsed
    <2>3. used[j] = {} \/ used[j] = {x} BY <2>2
    <2>4. CASE used[j] = {} BY <2>4, FS_EmptySet
    <2>5. CASE used[j] = {x}
      <3>1. Cardinality({x}) = 1 BY FS_Singleton
      <3> QED BY <2>5, <3>1
    <2> QED BY <2>3, <2>4, <2>5
  <1>3. TypeOK /\ OneInv /\ [Next]_vars => OneInv' BY OneStep
  <1>4. TypeOK /\ OneInv /\ OneInv' /\ PromptInv /\ [Next]_vars => PromptInv' BY PromptStep
  <1> QED
    BY <1>1, <1>2, <1>3, <1>4, OneInit, TypeCorrect, PTL DEF Spec
===============================================================================
