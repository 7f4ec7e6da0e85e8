--------------------------- MODULE DelegationProofs ---------------------------
(***************************************************************************)
(* Delegation trees for every number of agents, jobs and levels.  The      *)
(* bounds on a chain are inductive once two facts are added: a row that    *)
(* does not exist is in no chain, and a chain is the caller's chain with   *)
(* the caller.                                                             *)
(***************************************************************************)
EXTENDS Delegation, FiniteSetTheorems, TLAPS

(* The shape of the job forest. *)
Shape ==
  /\ \A j \in Jobs : IsFiniteSet(above[j])
  /\ \A j \in Jobs : parent[j] \in Jobs => above[j] = above[parent[j]] \cup {parent[j]}
  /\ \A j \in Jobs : parent[j] = NoJob => above[j] = {}
  /\ \A j \in Jobs : \A k \in above[j] : above[k] \subseteq above[j]
  /\ \A j \in Jobs : \A k \in above[j] : status[k] # "absent"

(* What executions in progress hold. *)
Running ==
  /\ \A j \in Jobs : status[j] = "absent" => parent[j] = NoJob /\ at[j] = "none"
  /\ \A j \in Jobs : by[j] = "call" => parent[j] \in Jobs
  /\ \A j \in Jobs : at[j] \notin Executing => by[j] = "arq"
  /\ \A j \in cancelled : at[j] \in Executing

Inv == TypeOK /\ Shape /\ Running /\ DepthBounded /\ NoCycle /\ LiveRuns

(* The invariant holds before the first job. *)
LEMMA InvInit == Init => Inv
  <1> SUFFICES ASSUME Init PROVE Inv
    OBVIOUS
  <1> USE DelegationAssumption DEF Init
  <1>1. TypeOK
    BY DEF TypeOK, Live, Ends
  <1>2. Shape /\ DepthBounded
    BY FS_EmptySet DEF Shape, DepthBounded, Depth
  <1>3. Running /\ NoCycle /\ LiveRuns
    BY DEF Running, NoCycle, LiveRuns, Live
  <1> QED
    BY <1>1, <1>2, <1>3 DEF Inv

(* No job is above itself. *)
LEMMA NotAboveItself == ASSUME NoCycle, NEW j \in Jobs PROVE j \notin above[j]
  BY DEF NoCycle

(* Every step keeps types. *)
LEMMA TypeStep == TypeOK /\ [Next]_vars => TypeOK'
  <1> SUFFICES ASSUME TypeOK, [Next]_vars PROVE TypeOK'
    OBVIOUS
  <1> USE DelegationAssumption DEF TypeOK, Live, Ends, Executing, tree, Step
  <1>1. ASSUME NEW j \in Jobs, NEW a \in Agents, Submit(j, a) PROVE TypeOK'
    BY <1>1 DEF Submit
  <1>2. ASSUME NEW p \in Jobs, NEW c \in Jobs, NEW a \in Agents, CallAgent(p, a, c) PROVE TypeOK'
    BY <1>2 DEF CallAgent
  <1>3. ASSUME NEW j \in Jobs, Retry(j) \/ Begin(j) \/ SetUp(j) \/ LoopEnds(j)
        PROVE TypeOK'
    BY <1>3 DEF Retry, Begin, SetUp, LoopEnds
  <1>3a. ASSUME NEW j \in Jobs, Deliver(j) \/ DropExhausted(j) PROVE TypeOK'
    BY <1>3a DEF Deliver, DropExhausted
  <1>4. ASSUME NEW j \in Jobs, Transient(j) PROVE TypeOK'
    BY <1>4 DEF Transient
  <1>5. ASSUME NEW j \in Jobs, Timeout(j) PROVE TypeOK'
    BY <1>5 DEF Timeout, Inside
  <1>6. ASSUME NEW j \in Jobs, Finalize(j) PROVE TypeOK'
    BY <1>6 DEF Finalize
  <1>7. ASSUME NEW j \in Jobs, MeetCancel(j) PROVE TypeOK'
    BY <1>7 DEF MeetCancel
  <1>8. CASE Shutdown
    BY <1>8 DEF Shutdown
  <1>9. CASE Crash
    BY <1>9 DEF Crash
  <1>10. CASE UNCHANGED vars
    BY <1>10 DEF vars
  <1> QED
    BY <1>1, <1>2, <1>3, <1>3a, <1>4, <1>5, <1>6, <1>7, <1>8, <1>9, <1>10 DEF Next, Rest

(* Only a submission and a call change the forest. *)
LEMMA TreeStep ==
  ASSUME [Next]_vars
  PROVE  \/ UNCHANGED tree
         \/ \E j \in Jobs, a \in Agents : Submit(j, a)
         \/ \E p, c \in Jobs, a \in Agents : CallAgent(p, a, c)
  BY DelegationAssumption
  DEF Next, vars, tree, Retry, Deliver, DropExhausted, Begin, SetUp, LoopEnds, Transient, Timeout,
      Finalize, MeetCancel, Shutdown, Crash, Rest

(* A row, once there, stays. *)
LEMMA RowsStay ==
  ASSUME TypeOK, [Next]_vars, NEW j \in Jobs, status[j] # "absent"
  PROVE  status'[j] # "absent"
  <1> USE DEF TypeOK, Live, Ends, Executing
  <1>1. ASSUME NEW k \in Jobs, Finalize(k) PROVE status'[j] # "absent"
    BY <1>1 DEF Finalize
  <1>2. ASSUME NEW k \in Jobs, MeetCancel(k) PROVE status'[j] # "absent"
    BY <1>2 DEF MeetCancel
  <1>3. ASSUME NEW k \in Jobs, Transient(k) PROVE status'[j] # "absent"
    BY <1>3 DEF Transient
  <1> QED
    BY <1>1, <1>2, <1>3, DelegationAssumption
    DEF Next, vars, Submit, CallAgent, Retry, Deliver, DropExhausted, Begin, SetUp, LoopEnds,
        Timeout, Shutdown, Crash, Rest

(* A call extends its caller's chain by the caller and nothing else. *)
LEMMA CallExtends ==
  ASSUME Inv, NEW p \in Jobs, NEW c \in Jobs, NEW a \in Agents, CallAgent(p, a, c)
  PROVE  /\ p # c
         /\ status[p] # "absent"
         /\ above' = [above EXCEPT ![c] = above[p] \cup {p}]
         /\ parent' = [parent EXCEPT ![c] = p]
         /\ agent' = [agent EXCEPT ![c] = a]
         /\ \A j \in Jobs : c \notin above[j] /\ parent[j] # c
         /\ IsFiniteSet(above[p] \cup {p})
         /\ Cardinality(above[p] \cup {p}) = Depth(p) + 1
         /\ Depth(p) + 1 < MaxDepth
         /\ a \notin Lineage(p)
  <1>1. status[p] # "absent" /\ status[c] = "absent"
    BY DEF CallAgent, Inv, Running
  <1>2. \A j \in Jobs : c \notin above[j]
    BY <1>1 DEF Inv, Shape
  <1>3. \A j \in Jobs : parent[j] # c
    BY <1>2 DEF Inv, Shape
  <1>4. IsFiniteSet(above[p]) /\ p \notin above[p]
    BY NotAboveItself DEF Inv, Shape
  <1>5. IsFiniteSet(above[p] \cup {p}) /\ Cardinality(above[p] \cup {p}) = Depth(p) + 1
    BY <1>4, FS_AddElement DEF Depth
  <1> QED
    BY <1>1, <1>2, <1>3, <1>5 DEF CallAgent, MayCall

(* The forest keeps its shape and its bounds. *)
LEMMA ForestStep == Inv /\ [Next]_vars => Shape' /\ DepthBounded' /\ NoCycle'
  <1> SUFFICES ASSUME Inv, [Next]_vars PROVE Shape' /\ DepthBounded' /\ NoCycle'
    OBVIOUS
  <1>1. CASE UNCHANGED tree
    <2>1. \A j \in Jobs : \A k \in above'[j] : status'[k] # "absent"
      BY <1>1, RowsStay DEF Inv, TypeOK, Shape, tree
    <2> QED
      BY <1>1, <2>1 DEF Inv, Shape, DepthBounded, NoCycle, Depth, tree
  <1>2. ASSUME NEW s \in Jobs, NEW a \in Agents, Submit(s, a)
        PROVE Shape' /\ DepthBounded' /\ NoCycle'
    <2>1. /\ UNCHANGED <<parent, above>>
          /\ agent' = [agent EXCEPT ![s] = a]
          /\ \A j \in Jobs : s \notin above[j]
          /\ above[s] = {}
      BY <1>2 DEF Submit, Inv, Shape, Running
    <2>2. Shape' /\ DepthBounded'
      BY <1>2, <2>1, RowsStay DEF Inv, TypeOK, Shape, DepthBounded, Depth
    <2>3. NoCycle'
      BY <2>1 DEF Inv, TypeOK, NoCycle
    <2> QED
      BY <2>2, <2>3
  <1>3. ASSUME NEW p \in Jobs, NEW c \in Jobs, NEW a \in Agents, CallAgent(p, a, c)
        PROVE Shape' /\ DepthBounded' /\ NoCycle'
    <2> DEFINE chain == above[p] \cup {p}
    <2>a. /\ p # c /\ status[p] # "absent" /\ a \notin Lineage(p)
          /\ \A j \in Jobs : c \notin above[j] /\ parent[j] # c
      BY <1>3, CallExtends
    <2>d. /\ above' = [above EXCEPT ![c] = chain]
          /\ parent' = [parent EXCEPT ![c] = p]
          /\ agent' = [agent EXCEPT ![c] = a]
      BY <1>3 DEF CallAgent
    <2>b. IsFiniteSet(chain) /\ Cardinality(chain) < MaxDepth
      BY <1>3, CallExtends
    <2>c. above \in [Jobs -> SUBSET Jobs] /\ parent \in [Jobs -> Jobs \cup {NoJob}]
          /\ agent \in [Jobs -> Agents \cup {NoAgent}]
      BY DEF Inv, TypeOK
    <2>1. /\ p # c
          /\ above'[c] = above[p] \cup {p} /\ parent'[c] = p /\ agent'[c] = a
          /\ \A j \in Jobs \ {c} : above'[j] = above[j] /\ parent'[j] = parent[j] /\ agent'[j] = agent[j]
          /\ \A j \in Jobs : c \notin above[j] /\ parent[j] # c
          /\ a \notin Lineage(p)
      BY <2>a, <2>c, <2>d
    <2>2. ASSUME NEW j \in Jobs PROVE \A k \in above'[j] : status'[k] # "absent"
      <3>1. \A k \in above'[j] : k \in Jobs /\ status[k] # "absent"
        <4>1. CASE j = c
          BY <2>a, <2>1, <2>c, <4>1 DEF Inv, Shape
        <4>2. CASE j # c
          BY <2>1, <2>c, <4>2 DEF Inv, Shape
        <4> QED
          BY <4>1, <4>2
      <3> QED
        BY <3>1, RowsStay DEF Inv
    <2>3. \A j \in Jobs : \A k \in above'[j] : above'[k] \subseteq above'[j]
      BY <2>1 DEF Inv, TypeOK, Shape
    <2>4. \A j \in Jobs : IsFiniteSet(above'[j]) /\ Cardinality(above'[j]) < MaxDepth
      <3> TAKE j \in Jobs
      <3>1. CASE j = c
        BY <2>1, <2>b, <3>1
      <3>2. CASE j # c
        BY <2>1, <3>2 DEF Inv, Shape, DepthBounded, Depth
      <3> QED
        BY <3>1, <3>2
    <2>5. \A j \in Jobs : parent'[j] \in Jobs => above'[j] = above'[parent'[j]] \cup {parent'[j]}
      BY <2>1 DEF Inv, TypeOK, Shape
    <2>6. \A j \in Jobs : parent'[j] = NoJob => above'[j] = {}
      BY <2>1, DelegationAssumption DEF Inv, TypeOK, Shape
    <2>7. NoCycle'
      <3> SUFFICES ASSUME NEW j \in Jobs, NEW k \in above'[j]
                   PROVE  /\ agent'[k] # agent'[j]
                          /\ \A l \in above'[j] : agent'[k] = agent'[l] => k = l
        BY DEF NoCycle
      <3>1. CASE j # c
        <4>1. above'[j] = above[j] /\ above[j] \subseteq Jobs \ {c}
          BY <2>1, <3>1 DEF Inv, TypeOK
        <4> QED
          BY <2>1, <3>1, <4>1 DEF Inv, NoCycle
      <3>2. CASE j = c
        <4>1. above'[j] = above[p] \cup {p} /\ above'[j] \subseteq Jobs \ {c}
          BY <2>1, <3>2 DEF Inv, TypeOK
        <4>2. \A x \in above[p] \cup {p} : agent'[x] = agent[x] /\ agent[x] # a
          BY <2>1, <4>1 DEF Lineage
        <4> QED
          BY <2>1, <3>2, <4>1, <4>2 DEF Inv, NoCycle
      <3> QED
        BY <3>1, <3>2
    <2> QED
      BY <2>2, <2>3, <2>4, <2>5, <2>6, <2>7 DEF Shape, DepthBounded, Depth
  <1> QED
    BY <1>1, <1>2, <1>3, TreeStep

(* Executions hold what they held, and no live row is left behind. *)
LEMMA RunningStep == Inv /\ [Next]_vars => Running' /\ LiveRuns'
  <1> SUFFICES ASSUME Inv, [Next]_vars PROVE Running' /\ LiveRuns'
    OBVIOUS
  <1> USE DelegationAssumption
  <1> USE DEF Inv, TypeOK, Running, LiveRuns, Live, Ends, Executing, tree, Step
  <1>1. ASSUME NEW j \in Jobs, NEW a \in Agents, Submit(j, a) PROVE Running' /\ LiveRuns'
    BY <1>1 DEF Submit
  <1>2. ASSUME NEW p \in Jobs, NEW c \in Jobs, NEW a \in Agents, CallAgent(p, a, c)
        PROVE Running' /\ LiveRuns'
    BY <1>2 DEF CallAgent
  <1>3. ASSUME NEW j \in Jobs, Retry(j) PROVE Running' /\ LiveRuns'
    BY <1>3 DEF Retry, Retriable
  <1>4. ASSUME NEW j \in Jobs, Deliver(j) \/ DropExhausted(j) PROVE Running' /\ LiveRuns'
    BY <1>4 DEF Deliver, DropExhausted
  <1>5. ASSUME NEW j \in Jobs, Begin(j) \/ SetUp(j) \/ LoopEnds(j) PROVE Running' /\ LiveRuns'
    BY <1>5 DEF Begin, SetUp, LoopEnds
  <1>6. ASSUME NEW j \in Jobs, Transient(j) PROVE Running' /\ LiveRuns'
    BY <1>6 DEF Transient
  <1>7. ASSUME NEW j \in Jobs, Timeout(j) PROVE Running' /\ LiveRuns'
    BY <1>7 DEF Timeout, Inside
  <1>8. ASSUME NEW j \in Jobs, Finalize(j) PROVE Running' /\ LiveRuns'
    BY <1>8 DEF Finalize
  <1>9. ASSUME NEW j \in Jobs, MeetCancel(j) PROVE Running' /\ LiveRuns'
    BY <1>9 DEF MeetCancel
  <1>10. CASE Shutdown
    BY <1>10 DEF Shutdown
  <1>11. CASE Crash
    BY <1>11 DEF Crash
  <1>12. CASE UNCHANGED vars
    BY <1>12 DEF vars
  <1> QED
    BY <1>1, <1>2, <1>3, <1>4, <1>5, <1>6, <1>7, <1>8, <1>9, <1>10, <1>11, <1>12 DEF Next, Rest

(* The inductive invariant holds of every reachable state. *)
THEOREM Invariant == Spec => []Inv
  <1>1. Inv /\ [Next]_vars => Inv'
    BY TypeStep, ForestStep, RunningStep DEF Inv
  <1> QED
    BY <1>1, InvInit, PTL DEF Spec

(* No chain of calls reaches max_delegation_depth jobs above one job. *)
THEOREM ChainsBounded == Spec => []DepthBounded
  <1>1. Inv => DepthBounded
    BY DEF Inv
  <1> QED
    BY <1>1, Invariant, PTL

(* No agent appears twice along a chain of calls. *)
THEOREM ChainsAcyclic == Spec => []NoCycle
  <1>1. Inv => NoCycle
    BY DEF Inv
  <1> QED
    BY <1>1, Invariant, PTL

(* A live row has an execution or an arq entry, or was cut where nothing   *)
(* looks after it, or its entry was started max_tries times and dropped.   *)
THEOREM LiveRowsRun == Spec => []LiveRuns
  <1>1. Inv => LiveRuns
    BY DEF Inv
  <1> QED
    BY <1>1, Invariant, PTL

(* A call has the caller it was made by above it. *)
LEMMA CallBelow ==
  ASSUME Inv, NEW c \in Jobs, by[c] = "call"
  PROVE  parent[c] \in Jobs /\ parent[c] \in above[c] /\ above[c] = above[parent[c]] \cup {parent[c]}
  BY DEF Inv, Running, Shape

(* What a timeout cancels: the job's open calls, and with a call whatever  *)
(* runs inside it.                                                         *)
LEMMA InsideClosed ==
  ASSUME Inv, NEW j \in Jobs, NEW c \in Jobs, at[c] \in Executing, by[c] = "call",
         parent[c] = j \/ parent[c] \in Inside(j)
  PROVE  c \in Inside(j)
  <1>1. parent[c] \in Jobs /\ above[c] = above[parent[c]] \cup {parent[c]}
    BY CallBelow
  <1>2. CASE parent[c] = j
    <2>1. \A k \in above[c] : j \notin above[k]
      <3> SUFFICES ASSUME NEW k \in above[j] \cup {j}, j \in above[k] PROVE FALSE
        BY <1>1, <1>2
      <3>1. j \notin above[j]
        BY NotAboveItself DEF Inv
      <3>2. \A x \in above[j] : above[x] \subseteq above[j]
        BY DEF Inv, Shape
      <3> QED
        BY <3>1, <3>2
    <2> QED
      BY <1>1, <1>2, <2>1 DEF Inside
  <1>3. CASE parent[c] \in Inside(j)
    BY <1>1, <1>3 DEF Inside
  <1> QED
    BY <1>2, <1>3

(* Every way a caller leaves its loop has ended or cancelled its calls. *)
LEMMA CallerStep == Inv /\ CallerWaits /\ [Next]_vars => CallerWaits'
  <1> SUFFICES ASSUME Inv, CallerWaits, [Next]_vars,
                      NEW c \in Jobs, at'[c] \in Executing, by'[c] = "call", c \notin cancelled'
               PROVE  at'[parent'[c]] = "loop" /\ parent'[c] \notin cancelled'
    BY DEF CallerWaits
  <1> DEFINE Goal == at'[parent'[c]] = "loop" /\ parent'[c] \notin cancelled'
  <1>0. /\ TypeOK /\ Running
        /\ at[c] \in Executing /\ by[c] = "call" /\ c \notin cancelled =>
             /\ at[parent[c]] = "loop" /\ parent[c] \notin cancelled
             /\ parent[c] \in Jobs
    BY CallBelow DEF Inv, CallerWaits
  <1> USE <1>0 DEF TypeOK, Running, Executing, tree, Step
  <1>1. ASSUME NEW j \in Jobs, NEW a \in Agents, Submit(j, a) PROVE Goal
    BY <1>1 DEF Submit
  <1>2. ASSUME NEW p \in Jobs, NEW d \in Jobs, NEW a \in Agents, CallAgent(p, a, d) PROVE Goal
    <2>1. CASE c = d
      <3>1. p # d /\ at[p] = "loop" /\ p \notin cancelled
        BY <1>2, CallExtends DEF CallAgent
      <3> QED
        BY <1>2, <2>1, <3>1 DEF CallAgent
    <2>2. CASE c # d
      <3>1. at[c] \in Executing /\ by[c] = "call" /\ c \notin cancelled
        BY <1>2, <2>2 DEF CallAgent
      <3>2. parent[c] # d
        BY <1>2, CallExtends
      <3> QED
        BY <1>2, <2>2, <3>1, <3>2 DEF CallAgent
    <2> QED
      BY <2>1, <2>2
  <1>3. ASSUME NEW j \in Jobs, Retry(j) PROVE Goal
    BY <1>3 DEF Retry
  <1>4. ASSUME NEW j \in Jobs, Deliver(j) \/ DropExhausted(j) \/ Begin(j) \/ SetUp(j) PROVE Goal
    BY <1>4 DEF Deliver, DropExhausted, Begin, SetUp
  <1>5. ASSUME NEW j \in Jobs, LoopEnds(j) \/ Transient(j) PROVE Goal
    BY <1>5 DEF LoopEnds, Transient, OpenCalls
  <1>6. ASSUME NEW j \in Jobs, Timeout(j) PROVE Goal
    <2>1. at[c] \in Executing /\ by[c] = "call" /\ c \notin cancelled /\ c \notin Inside(j)
      BY <1>6 DEF Timeout
    <2>2. parent[c] # j /\ parent[c] \notin Inside(j)
      BY <2>1, InsideClosed
    <2> QED
      BY <1>6, <2>1, <2>2 DEF Timeout
  <1>7. ASSUME NEW j \in Jobs, Finalize(j) PROVE Goal
    BY <1>7 DEF Finalize
  <1>8. ASSUME NEW j \in Jobs, MeetCancel(j) PROVE Goal
    BY <1>8 DEF MeetCancel
  <1>9. CASE Shutdown
    BY <1>9 DEF Shutdown
  <1>10. CASE Crash
    BY <1>10 DEF Crash
  <1>11. CASE UNCHANGED vars
    BY <1>11 DEF vars
  <1> QED
    BY <1>1, <1>2, <1>3, <1>4, <1>5, <1>6, <1>7, <1>8, <1>9, <1>10, <1>11,
       DelegationAssumption
    DEF Next, Rest

(* No call outlives its caller's loop uncancelled. *)
THEOREM CallersWait == Spec => []CallerWaits
  <1>1. Init => CallerWaits
    BY DEF Init, CallerWaits, Executing
  <1> QED
    BY <1>1, Invariant, CallerStep, PTL DEF Spec
===============================================================================
