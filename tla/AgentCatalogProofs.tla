-------------------------- MODULE AgentCatalogProofs --------------------------
(***************************************************************************)
(* The agent catalog for every set of clients, aliases and jobs and every  *)
(* bound on version numbers.  The inductive invariant says what a request  *)
(* holds between its read and its commit: a version it found still exists, *)
(* a number it computed leaves no gap, and a current version, once set, is *)
(* never unset while the agent is there.                                   *)
(***************************************************************************)
EXTENDS AgentCatalog, TLAPS

(* Before it is created and after it is deleted the agent has no rows. *)
Nothing ==
  /\ ~Visible => /\ author = [n \in Nos |-> NoOne]
                 /\ current = 0
                 /\ alias = [a \in Aliases |-> 0]
                 /\ \A j \in Jobs : pinned[j] = 0
  /\ agent = "absent" => \A c \in Clients : pc[c] = "idle"

(* What request c holds, as long as the agent is there. *)
Holds(c) ==
  /\ pc[c] \in {"promote", "alias", "submit"} => held[c].no \in Written
  /\ pc[c] = "insert" => /\ held[c].no \in Nos
                         /\ \A m \in Nos : m < held[c].no => m \in Written
  /\ pc[c] \in {"number", "insert", "resolve"} /\ held[c].current # 0 => current # 0
  /\ pc[c] = "resolve" => held[c].current \in Written \cup {0}
  /\ pc[c] = "alias" => held[c].on \in Aliases

InProgress == Visible => \A c \in Clients : Holds(c)

Inv == TypeOK /\ Nothing /\ InProgress /\ PointersResolve /\ Runnable

LEMMA NosType == /\ Nos \subseteq 0..MaxNo
                 /\ 1 \in Nos
                 /\ 0 \notin Nos
                 /\ 0 \in 0..MaxNo
                 /\ Written \subseteq Nos
  BY CatalogAssumption DEF Nos, Written

(* What a request is handed keeps its type. *)
HeldType == [current : 0..MaxNo, no : 0..MaxNo, row : 0..MaxNo,
             on : Aliases \cup {NoOne}, options : Options, wish : Options]

LEMMA BlankType == Blank \in HeldType /\ Blank.options \in Options
  BY NosType DEF Blank, HeldType, Options

LEMMA InvInit == Init => Inv
  <1> SUFFICES ASSUME Init PROVE Inv
    OBVIOUS
  <1>1. TypeOK
    BY CatalogAssumption, NosType, BlankType DEF Init, TypeOK, Stages, HeldType
  <1>2. Nothing /\ ~Visible
    BY DEF Init, Nothing, Visible
  <1>3. Written = {}
    BY DEF Init, Written
  <1>4. PointersResolve
    BY <1>3 DEF Init, PointersResolve
  <1>5. Runnable
    BY <1>3 DEF Runnable
  <1> QED BY <1>1, <1>2, <1>4, <1>5 DEF Inv, InProgress

(* A request that begins holds what it was handed, one that ends nothing.  *)
LEMMA BeginType ==
  ASSUME TypeOK, NEW c \in Clients, NEW s \in Stages, NEW h \in HeldType, Begin(c, s, h)
  PROVE  /\ pc' \in [Clients -> Stages] /\ held' \in [Clients -> HeldType]
         /\ pc'[c] = s /\ held'[c] = h
         /\ \A d \in Clients : d # c => pc'[d] = pc[d] /\ held'[d] = held[d]
  BY DEF TypeOK, Begin, HeldType

LEMMA AnswerType ==
  ASSUME TypeOK, NEW c \in Clients, NEW s, Answer(c, s)
  PROVE  /\ pc' \in [Clients -> Stages] /\ held' \in [Clients -> HeldType]
         /\ pc'[c] = "idle"
         /\ \A d \in Clients : d # c => pc'[d] = pc[d] /\ held'[d] = held[d]
  BY BlankType DEF TypeOK, Answer, HeldType, Stages

(* A request that opens and leaves the rows alone. *)
LEMMA OpenStep ==
  ASSUME Inv, NEW c \in Clients, NEW s \in Stages, NEW h \in HeldType, Begin(c, s, h),
         UNCHANGED <<rows, history>>, Visible,
         s \notin {"insert"},
         s \in {"promote", "alias", "submit"} => h.no \in Written,
         s \in {"number", "resolve"} => h.current = current,
         s = "alias" => h.on \in Aliases
  PROVE  Inv'
  <1>1. /\ pc' \in [Clients -> Stages] /\ held' \in [Clients -> HeldType]
        /\ pc'[c] = s /\ held'[c] = h
        /\ \A d \in Clients : d # c => pc'[d] = pc[d] /\ held'[d] = held[d]
    BY BeginType DEF Inv
  <1>2. TypeOK' /\ Nothing' /\ PointersResolve' /\ Runnable'
    BY <1>1 DEF Inv, TypeOK, Nothing, PointersResolve, Runnable, rows, history, Visible, Written,
                HeldType
  <1>3. current \in Written \cup {0}
    BY DEF Inv, PointersResolve
  <1>4. Holds(c)'
    BY <1>1, <1>3 DEF Holds, rows, Written
  <1>5. ASSUME NEW d \in Clients, d # c PROVE Holds(d)'
    BY <1>1, <1>5 DEF Inv, InProgress, Holds, rows, Written
  <1> QED BY <1>2, <1>4, <1>5 DEF Inv, InProgress

(* A request that ends without touching what the others hold. *)
LEMMA AnswerStep ==
  ASSUME Inv, NEW c \in Clients, NEW s, Answer(c, s), TypeOK', Nothing', PointersResolve', Runnable',
         Visible' => /\ Visible
                     /\ Written \subseteq Written'
                     /\ current # 0 => current' # 0
  PROVE  Inv'
  <1>1. /\ pc'[c] = "idle"
        /\ \A d \in Clients : d # c => pc'[d] = pc[d] /\ held'[d] = held[d]
    BY AnswerType DEF Inv
  <1>2. ASSUME Visible', NEW d \in Clients PROVE Holds(d)'
    BY <1>1, <1>2 DEF Inv, InProgress, Holds
  <1> QED BY <1>2 DEF Inv, InProgress

(* No step but an INSERT or a DELETE writes a version. *)
LEMMA Same == UNCHANGED author => Written' = Written
  BY DEF Written

(* Creating the agent, with or without its first version. *)
LEMMA CreateStep ==
  ASSUME Inv, NEW c \in Clients, CreateAgent(c) \/ CreateAgentForm(c)
  PROVE  Inv'
  <1>1. /\ agent = "absent" /\ agent' = "live" /\ options' \in Options
        /\ UNCHANGED <<alias, wired, pinned, request, chosen, stale>>
    BY DEF CreateAgent, CreateAgentForm, history
  <1>2. /\ \A d \in Clients : pc'[d] = "idle"
        /\ ~Visible /\ Visible' /\ author = [n \in Nos |-> NoOne]
        /\ current = 0 /\ \A a \in Aliases : alias'[a] = 0
        /\ \A j \in Jobs : pinned'[j] = 0
    BY <1>1 DEF Inv, Nothing, Visible, request
  <1>3. InProgress'
    BY <1>2 DEF InProgress, Holds
  <1>4. CASE CreateAgent(c)
    <2>1. UNCHANGED <<current, author, born>>
      BY <1>4 DEF CreateAgent, history
    <2>2. Written' = {}
      BY <1>2, <2>1 DEF Written
    <2> QED BY <1>1, <1>2, <1>3, <2>1, <2>2
            DEF Inv, TypeOK, Nothing, PointersResolve, Runnable, request
  <1>5. CASE CreateAgentForm(c)
    <2>1. author' = [author EXCEPT ![1] = c] /\ current' = 1 /\ born' = TRUE
      BY <1>5 DEF CreateAgentForm
    <2>2. Written' = {1} /\ author' \in [Nos -> Clients \cup {NoOne}]
      BY <1>2, <2>1, NosType, CatalogAssumption DEF Written
    <2>3. \A m \in Nos : m >= 1
      BY CatalogAssumption DEF Nos
    <2>4. TypeOK'
      BY <1>1, <2>1, <2>2, NosType DEF Inv, TypeOK, request
    <2> QED BY <1>1, <1>2, <1>3, <2>1, <2>2, <2>3, <2>4
            DEF Inv, Nothing, PointersResolve, Runnable, request, Nos
  <1> QED BY <1>4, <1>5

(* Archiving and restoring. *)
LEMMA RetireStep ==
  ASSUME Inv, NEW c \in Clients, Archive(c) \/ Restore(c)
  PROVE  Inv'
  <1>1. /\ UNCHANGED <<options, current, author, alias, wired, pinned, request, history>>
        /\ Visible /\ Visible' /\ agent' \in {"live", "archived"}
    BY DEF Archive, Restore, Visible
  <1>2. \A d \in Clients : Holds(d)'
    BY <1>1, Same DEF Inv, InProgress, Holds, request
  <1> QED BY <1>1, <1>2, Same
          DEF Inv, TypeOK, Nothing, InProgress, PointersResolve, Runnable, request, history, Visible

LEMMA DeleteStep ==
  ASSUME Inv, NEW c \in Clients, Delete(c)
  PROVE  Inv'
  <1>1. /\ pc' \in [Clients -> Stages] /\ held' \in [Clients -> HeldType]
        /\ pc'[c] = "idle" /\ pc[c] = "delete"
        /\ UNCHANGED <<options, wired, pinned, history>>
        /\ Answer(c, "delete")
    BY AnswerType DEF Inv, Delete, Answer
  <1>2. CASE UNCHANGED <<agent, current, author, alias>>
    <2>1. /\ TypeOK' /\ PointersResolve' /\ Runnable'
          /\ Visible' = Visible
      BY <1>1, <1>2, Same DEF Inv, TypeOK, PointersResolve, Runnable, history, Visible, HeldType
    <2>2. Nothing'
      BY <1>1, <1>2, <2>1 DEF Inv, Nothing
    <2> QED BY <1>1, <1>2, <2>1, <2>2, AnswerStep, Same
  <1>3. CASE Erase /\ \A j \in Jobs : pinned[j] = 0
    <2>1. Written' = {} /\ ~Visible'
      BY <1>3 DEF Erase, Written, Visible
    <2> QED BY <1>1, <1>3, <2>1, NosType
            DEF Inv, TypeOK, Nothing, InProgress, PointersResolve, Runnable, Erase, Visible,
                history, HeldType
  <1> QED BY <1>2, <1>3 DEF Delete

LEMMA SettingsStep ==
  ASSUME Inv, NEW c \in Clients, Settings(c)
  PROVE  Inv'
  <1>1. /\ pc' \in [Clients -> Stages] /\ held' \in [Clients -> HeldType]
        /\ Answer(c, "settings")
        /\ UNCHANGED <<agent, current, author, alias, wired, pinned, history>>
    BY AnswerType DEF Inv, Settings
  <1>2. options' \in Options
    BY DEF Inv, TypeOK, Settings, Sent
  <1>3. /\ TypeOK' /\ PointersResolve' /\ Runnable'
        /\ Visible' = Visible /\ Written' = Written
    BY <1>1, <1>2, Same DEF Inv, TypeOK, PointersResolve, Runnable, history, Visible, HeldType
  <1>4. Nothing'
    <2>1. pc[c] = "settings" /\ agent # "absent"
      BY <1>1 DEF Answer, Inv, Nothing
    <2> QED BY <1>1, <1>3, <2>1 DEF Inv, Nothing
  <1> QED BY <1>1, <1>3, <1>4, AnswerStep

(* A request in progress that looks something up and goes on. *)
LEMMA LookUpStep ==
  ASSUME Inv, NEW c \in Clients, NEW s \in Stages, NEW n \in 0..MaxNo,
         pc[c] # "idle", pc' = [pc EXCEPT ![c] = s], held' = [held EXCEPT ![c].no = n],
         UNCHANGED <<rows, history>>,
         Visible => Holds(c)'
  PROVE  Inv'
  <1>1. /\ TypeOK' /\ pc'[c] = s
        /\ \A d \in Clients : d # c => pc'[d] = pc[d] /\ held'[d] = held[d]
    BY DEF Inv, TypeOK, rows, history
  <1>2. /\ UNCHANGED <<agent, options, current, author, alias, wired, pinned>>
        /\ Visible' = Visible /\ Written' = Written
    BY DEF rows, Visible, Written
  <1>3. PointersResolve' /\ Runnable'
    BY <1>2 DEF Inv, PointersResolve, Runnable
  <1>4. Nothing'
    <2>1. agent # "absent"
      BY DEF Inv, Nothing
    <2> QED BY <1>2, <2>1 DEF Inv, Nothing
  <1>5. ASSUME Visible, NEW d \in Clients, d # c PROVE Holds(d)'
    BY <1>1, <1>2, <1>5 DEF Inv, InProgress, Holds
  <1> QED BY <1>1, <1>2, <1>3, <1>4, <1>5 DEF Inv, InProgress

LEMMA NumberStep ==
  ASSUME Inv, NEW c \in Clients, Number(c)
  PROVE  Inv'
  <1>1. PICK n \in Nos : NextNo(n) /\ held' = [held EXCEPT ![c].no = n]
    BY DEF Number
  <1>2. /\ pc[c] = "number" /\ pc' = [pc EXCEPT ![c] = "insert"]
        /\ UNCHANGED <<rows, history>>
    BY DEF Number
  <1>3. pc'[c] = "insert" /\ held'[c].no = n /\ held'[c].current = held[c].current
    BY <1>1, <1>2 DEF Inv, TypeOK
  <1>4. ASSUME NEW m \in Nos, m < n PROVE m \in Written
    <2>1. n > 1 /\ n - 1 \in Written /\ m <= n - 1
      BY <1>1, <1>4 DEF NextNo, Nos
    <2>2. CASE m = n - 1
      BY <2>1, <2>2
    <2>3. CASE m < n - 1
      BY <2>1, <2>3 DEF Inv, Runnable
    <2> QED BY <2>1, <2>2, <2>3 DEF Nos
  <1>5. Visible => Holds(c)'
    <2>1. Written' = Written /\ current' = current
      BY <1>2, Same DEF rows
    <2>2. Visible /\ held[c].current # 0 => current # 0
      BY <1>2 DEF Inv, InProgress, Holds
    <2> QED BY <1>1, <1>3, <1>4, <2>1, <2>2 DEF Holds
  <1> QED BY <1>1, <1>2, <1>5, LookUpStep, NosType DEF Stages

LEMMA ResolveStep ==
  ASSUME Inv, NEW c \in Clients, Resolve(c)
  PROVE  Inv'
  <1>1. PICK n \in Pins(c) \ {0} :
           pc' = [pc EXCEPT ![c] = "submit"] /\ held' = [held EXCEPT ![c].no = n]
    BY DEF Resolve
  <1>2. pc[c] = "resolve" /\ UNCHANGED <<rows, history>>
    BY DEF Resolve
  <1>3. n \in 0..MaxNo
    BY NosType, <1>1 DEF Pins, Inv, TypeOK
  <1>4. pc'[c] = "submit" /\ held'[c].no = n
    BY <1>1, <1>3 DEF Inv, TypeOK
  <1>5. Visible => n \in Written
    BY <1>1, <1>2 DEF Pins, Inv, InProgress, Holds, PointersResolve
  <1>6. Visible => Holds(c)'
    BY <1>2, <1>4, <1>5, Same DEF Holds, rows
  <1> QED BY <1>1, <1>2, <1>3, <1>6, LookUpStep DEF Stages

LEMMA InsertStep ==
  ASSUME Inv, NEW c \in Clients, InsertVersion(c)
  PROVE  Inv'
  <1> DEFINE n == held[c].no
  <1>1. /\ Answer(c, "insert") /\ Visible /\ pc[c] = "insert"
        /\ author' = [author EXCEPT ![n] = c]
        /\ current' = IF Promotes(c) THEN n ELSE current
        /\ UNCHANGED <<agent, options, alias, wired, pinned, born, chosen>>
        /\ stale' \in {stale, stale \cup {n}}
    BY DEF InsertVersion, Answer
  <1>2. /\ pc' \in [Clients -> Stages] /\ held' \in [Clients -> HeldType]
    BY <1>1, AnswerType DEF Inv
  <1>3. /\ n \in Nos /\ \A m \in Nos : m < n => m \in Written
        /\ held[c].current # 0 => current # 0
    BY <1>1 DEF Inv, InProgress, Holds
  <1>4. Written' = Written \cup {n}
    BY <1>1, <1>3, CatalogAssumption DEF Written, Inv, TypeOK
  <1>5. current' # 0 /\ current' \in Written' /\ current' \in 0..MaxNo
    BY <1>1, <1>3, <1>4, NosType DEF Promotes, Inv, PointersResolve, TypeOK
  <1>6. TypeOK'
    BY <1>1, <1>2, <1>3, <1>5 DEF Inv, TypeOK, HeldType
  <1>7. Nothing' /\ PointersResolve'
    BY <1>1, <1>4, <1>5 DEF Inv, Nothing, PointersResolve, Visible
  <1>8. Runnable'
    BY <1>3, <1>4, <1>5 DEF Inv, Runnable
  <1> QED BY <1>1, <1>4, <1>5, <1>6, <1>7, <1>8, AnswerStep

LEMMA PromoteStep ==
  ASSUME Inv, NEW c \in Clients, Promote(c)
  PROVE  Inv'
  <1>1. /\ Answer(c, "promote") /\ pc[c] = "promote"
        /\ UNCHANGED <<agent, options, author, alias, wired, pinned, born>>
        /\ pc' \in [Clients -> Stages] /\ held' \in [Clients -> HeldType]
    BY AnswerType DEF Promote, Answer, Inv
  <1>2. Written' = Written /\ Visible' = Visible
    BY <1>1, Same DEF Visible
  <1>3. CASE ~Visible
    <2>1. UNCHANGED <<current, chosen, stale>>
      BY <1>3 DEF Promote
    <2>2. TypeOK' /\ Nothing' /\ PointersResolve' /\ Runnable'
      BY <1>1, <1>2, <2>1, <1>3
         DEF Inv, TypeOK, Nothing, PointersResolve, Runnable, HeldType
    <2> QED BY <1>1, <1>2, <1>3, <2>2, AnswerStep
  <1>4. CASE Visible
    <2>1. held[c].no \in Written /\ held[c].no \in Nos
      BY <1>1, <1>4, NosType DEF Inv, InProgress, Holds
    <2>2. current' \in {held[c].no, current} /\ chosen' = current' /\ stale' = {}
      BY <1>4 DEF Promote, Sent
    <2>3. current # 0
      BY <2>1 DEF Inv, Runnable
    <2>4. current' # 0 /\ current' \in Written \cup {0} /\ current' \in 0..MaxNo
      BY <2>1, <2>2, <2>3, NosType DEF Inv, PointersResolve, TypeOK
    <2>5. TypeOK'
      BY <1>1, <2>1, <2>2, <2>4, NosType DEF Inv, TypeOK, HeldType
    <2>6. Nothing' /\ PointersResolve' /\ Runnable'
      BY <1>1, <1>2, <1>4, <2>4 DEF Inv, Nothing, PointersResolve, Runnable, Visible
    <2> QED BY <1>1, <1>2, <2>4, <2>5, <2>6, AnswerStep
  <1> QED BY <1>3, <1>4

LEMMA SetAliasStep ==
  ASSUME Inv, NEW c \in Clients, SetAlias(c)
  PROVE  Inv'
  <1>1. /\ Answer(c, "alias") /\ pc[c] = "alias"
        /\ UNCHANGED <<agent, options, current, author, wired, pinned, history>>
        /\ pc' \in [Clients -> Stages] /\ held' \in [Clients -> HeldType]
    BY AnswerType DEF SetAlias, Answer, Inv
  <1>2. Written' = Written /\ Visible' = Visible
    BY <1>1, Same DEF Visible
  <1>3. /\ alias' \in [Aliases -> 0..MaxNo]
        /\ \A a \in Aliases : alias'[a] \in Written \cup {0}
        /\ ~Visible => alias' = alias
    <2>1. CASE alias' = alias
      BY <2>1 DEF Inv, TypeOK, PointersResolve
    <2>2. CASE alias' # alias
      <3>1. Visible /\ held[c].no \in Written /\ held[c].on \in Aliases
        BY <1>1, <2>2 DEF SetAlias, Inv, InProgress, Holds
      <3>2. alias' = [alias EXCEPT ![held[c].on] = Sent(held[c].row, held[c].no, @)]
        BY <2>2 DEF SetAlias
      <3>3. Sent(held[c].row, held[c].no, alias[held[c].on]) \in {held[c].no, alias[held[c].on]}
        BY DEF Sent
      <3> QED BY <3>1, <3>2, <3>3, NosType DEF Inv, TypeOK, PointersResolve
    <2> QED BY <2>1, <2>2
  <1>4. TypeOK' /\ Nothing' /\ PointersResolve' /\ Runnable'
    BY <1>1, <1>2, <1>3 DEF Inv, TypeOK, Nothing, PointersResolve, Runnable, history, HeldType, Visible
  <1> QED BY <1>1, <1>2, <1>4, AnswerStep

LEMMA SubmitStep ==
  ASSUME Inv, NEW c \in Clients, Submit(c)
  PROVE  Inv'
  <1>1. /\ Answer(c, "submit") /\ pc[c] = "submit"
        /\ UNCHANGED <<agent, options, current, author, alias, wired, history>>
        /\ pc' \in [Clients -> Stages] /\ held' \in [Clients -> HeldType]
    BY AnswerType DEF Submit, Answer, Inv
  <1>2. Written' = Written /\ Visible' = Visible
    BY <1>1, Same DEF Visible
  <1>3. /\ pinned' \in [Jobs -> 0..MaxNo]
        /\ \A j \in Jobs : pinned'[j] \in Written \cup {0}
        /\ ~Visible => pinned' = pinned
    <2>1. CASE ~Visible
      BY <2>1 DEF Submit, Inv, TypeOK, PointersResolve
    <2>2. CASE Visible
      <3>1. PICK j \in Jobs : pinned' = [pinned EXCEPT ![j] = held[c].no]
        BY <2>2 DEF Submit
      <3>2. held[c].no \in Written
        BY <1>1, <2>2 DEF Inv, InProgress, Holds
      <3> QED BY <2>2, <3>1, <3>2, NosType DEF Inv, TypeOK, PointersResolve
    <2> QED BY <2>1, <2>2
  <1>4. TypeOK' /\ Nothing' /\ PointersResolve' /\ Runnable'
    BY <1>1, <1>2, <1>3 DEF Inv, TypeOK, Nothing, PointersResolve, Runnable, history, HeldType, Visible
  <1> QED BY <1>1, <1>2, <1>4, AnswerStep

(* A request refused at its commit changes nothing. *)
LEMMA RefusedStep ==
  ASSUME Inv, NEW c \in Clients, InsertVersionFails(c) \/ ResolveFails(c)
  PROVE  Inv'
  <1>1. PICK s \in {"insert", "resolve"} : Answer(c, s)
    BY DEF InsertVersionFails, ResolveFails
  <1>2. UNCHANGED <<rows, history>> /\ pc[c] # "idle"
    BY DEF InsertVersionFails, ResolveFails, Answer
  <1>3. pc' \in [Clients -> Stages] /\ held' \in [Clients -> HeldType]
    BY <1>1, AnswerType DEF Inv
  <1>4. Written' = Written /\ Visible' = Visible /\ current' = current
    BY <1>2, Same DEF Visible, rows
  <1>5. TypeOK' /\ PointersResolve' /\ Runnable'
    BY <1>2, <1>3, <1>4 DEF Inv, TypeOK, PointersResolve, Runnable, rows, history, HeldType
  <1>6. Nothing'
    BY <1>2, <1>4 DEF Inv, Nothing, rows
  <1> QED BY <1>1, <1>4, <1>5, <1>6, AnswerStep

(* The commits that touch one row and no request: an alias, a source. *)
LEMMA RowStep ==
  ASSUME Inv, NEW c \in Clients,
         \/ \E a \in Aliases : DeleteAlias(c, a) \/ DeleteAliasForm(c, a)
         \/ Wire(c) \/ Unwire(c)
  PROVE  Inv'
  <1>1. /\ UNCHANGED <<agent, options, current, author, pinned, request, history>>
        /\ wired' \in BOOLEAN /\ alias' \in [Aliases -> 0..MaxNo]
        /\ \A a \in Aliases : alias'[a] \in {alias[a], 0}
        /\ ~Visible => alias' = alias
    BY NosType DEF DeleteAlias, DeleteAliasForm, Wire, Unwire, Inv, TypeOK, Visible
  <1>2. Written' = Written /\ Visible' = Visible
    BY <1>1, Same DEF Visible
  <1>3. InProgress'
    BY <1>1, <1>2 DEF Inv, InProgress, Holds, request
  <1>4. TypeOK' /\ Nothing' /\ Runnable'
    BY <1>1, <1>2 DEF Inv, TypeOK, Nothing, Runnable, request, history
  <1>5. PointersResolve'
    BY <1>1, <1>2 DEF Inv, PointersResolve
  <1> QED BY <1>3, <1>4, <1>5 DEF Inv

(* The requests that only load. *)
LEMMA LoadStep ==
  ASSUME Inv, NEW c \in Clients,
         \/ OpenDelete(c) \/ OpenSettings(c) \/ OpenVersion(c) \/ OpenPromote(c)
         \/ OpenAlias(c) \/ OpenSubmit(c) \/ Ingest(c)
  PROVE  Inv'
  <1> USE NosType, BlankType DEF Stages
  <1>1. UNCHANGED <<rows, history>> /\ Visible
    BY DEF OpenDelete, OpenSettings, OpenVersion, OpenPromote, OpenAlias, OpenSubmit, Ingest, Visible
  <1>2. options \in Options /\ current \in 0..MaxNo /\ alias \in [Aliases -> 0..MaxNo]
    BY DEF Inv, TypeOK
  <1>3. CASE OpenDelete(c)
    BY <1>1, <1>3, OpenStep DEF OpenDelete
  <1>4. CASE OpenSettings(c)
    <2>1. PICK o \in Options :
             Begin(c, "settings", [Blank EXCEPT !.options = options, !.wish = o])
      BY <1>4 DEF OpenSettings
    <2>2. [Blank EXCEPT !.options = options, !.wish = o] \in HeldType
      BY <1>2 DEF HeldType
    <2> QED BY <1>1, <2>1, <2>2, OpenStep
  <1>5. CASE OpenVersion(c)
    <2>1. [Blank EXCEPT !.current = current] \in HeldType
          /\ [Blank EXCEPT !.current = current].current = current
      BY <1>2 DEF HeldType
    <2> QED BY <1>1, <1>5, <2>1, OpenStep DEF OpenVersion
  <1>6. CASE OpenPromote(c)
    <2>1. PICK n \in Written : Begin(c, "promote", [Blank EXCEPT !.current = current, !.no = n])
      BY <1>6 DEF OpenPromote
    <2>2. [Blank EXCEPT !.current = current, !.no = n] \in HeldType
          /\ [Blank EXCEPT !.current = current, !.no = n].no = n
      BY <1>2 DEF HeldType
    <2> QED BY <1>1, <2>1, <2>2, OpenStep
  <1>7. CASE OpenAlias(c)
    <2>1. PICK n \in Written, a \in Aliases :
             Begin(c, "alias", [Blank EXCEPT !.no = n, !.row = alias[a], !.on = a])
      BY <1>7 DEF OpenAlias
    <2>2. /\ [Blank EXCEPT !.no = n, !.row = alias[a], !.on = a] \in HeldType
          /\ [Blank EXCEPT !.no = n, !.row = alias[a], !.on = a].no = n
          /\ [Blank EXCEPT !.no = n, !.row = alias[a], !.on = a].on = a
      BY <1>2 DEF HeldType
    <2> QED BY <1>1, <2>1, <2>2, OpenStep
  <1>8. CASE OpenSubmit(c)
    <2>1. [Blank EXCEPT !.current = current] \in HeldType
          /\ [Blank EXCEPT !.current = current].current = current
      BY <1>2 DEF HeldType
    <2> QED BY <1>1, <1>8, <2>1, OpenStep DEF OpenSubmit
  <1>9. CASE Ingest(c)
    <2>1. [Blank EXCEPT !.no = current] \in HeldType /\ [Blank EXCEPT !.no = current].no = current
      BY <1>2 DEF HeldType
    <2>2. current \in Written
      BY <1>9 DEF Ingest, Inv, PointersResolve
    <2> QED BY <1>1, <1>9, <2>1, <2>2, OpenStep DEF Ingest
  <1> QED BY <1>3, <1>4, <1>5, <1>6, <1>7, <1>8, <1>9

(* Every step keeps the inductive invariant. *)
LEMMA InvStep == Inv /\ [Next]_vars => Inv'
  <1> SUFFICES ASSUME Inv, [Next]_vars PROVE Inv'
    OBVIOUS
  <1>1. CASE UNCHANGED vars
    BY <1>1, Same DEF vars, rows, request, history, Inv, TypeOK, Nothing, InProgress, Holds, Visible,
                      PointersResolve, Runnable
  <1>2. ASSUME NEW c \in Clients,
               \/ CreateAgent(c) \/ CreateAgentForm(c) \/ Archive(c) \/ Restore(c)
               \/ OpenDelete(c) \/ Delete(c)
               \/ OpenSettings(c) \/ OpenSettingsForm(c) \/ Settings(c)
               \/ OpenVersion(c) \/ OpenVersionForm(c) \/ Number(c)
               \/ InsertVersion(c) \/ InsertVersionFails(c)
               \/ OpenPromote(c) \/ Promote(c)
               \/ OpenAlias(c) \/ SetAlias(c)
               \/ (\E a \in Aliases : DeleteAlias(c, a) \/ DeleteAliasForm(c, a))
               \/ Wire(c) \/ WireForm(c) \/ Unwire(c) \/ UnwireForm(c)
               \/ OpenSubmit(c) \/ Resolve(c) \/ ResolveFails(c) \/ Ingest(c) \/ Submit(c)
        PROVE  Inv'
    BY <1>2, CreateStep, RetireStep, LoadStep, DeleteStep, SettingsStep, NumberStep, InsertStep,
       RefusedStep, PromoteStep, SetAliasStep, RowStep, ResolveStep, SubmitStep
       DEF OpenSettingsForm, OpenVersionForm, WireForm, UnwireForm
  <1> QED BY <1>1, <1>2 DEF Next

(* The inductive invariant: types, and what requests under way hold.       *)
THEOREM Invariant == Spec => []Inv
  BY InvInit, InvStep, PTL DEF Spec

(* Every variable keeps its type (api/v1/agents.py, api/v1/versions.py).   *)
THEOREM TypeCorrect == Spec => []TypeOK
  BY Invariant, PTL DEF Inv

(* current, the aliases and the job rows always name existing versions.    *)
THEOREM PointersAlwaysResolve == Spec => []PointersResolve
  BY Invariant, PTL DEF Inv

(* An agent with a version has a current one; version numbers have no gap. *)
THEOREM AlwaysRunnable == Spec => []Runnable
  BY Invariant, PTL DEF Inv

(* create_version never overwrites a version row, whoever else numbers one. *)
LEMMA ImmutableStep ==
  Inv /\ [Next]_vars => (agent' # "gone" => \A n \in Written : author'[n] = author[n])
  <1> SUFFICES ASSUME Inv, [Next]_vars, agent' # "gone", NEW n \in Written
               PROVE  author'[n] = author[n]
    OBVIOUS
  <1>1. CASE UNCHANGED author
    BY <1>1
  <1>2. ASSUME NEW c \in Clients, InsertVersion(c) PROVE author'[n] = author[n]
    BY <1>2, NosType DEF InsertVersion, Taken, Written, Inv, TypeOK
  <1>3. ASSUME NEW c \in Clients, CreateAgentForm(c) PROVE author'[n] = author[n]
    <2>1. author = [m \in Nos |-> NoOne]
      BY <1>3 DEF CreateAgentForm, Inv, Nothing, Visible
    <2> QED BY <2>1 DEF Written
  <1>4. ASSUME NEW c \in Clients, Delete(c) PROVE UNCHANGED author
    BY <1>4 DEF Delete, Erase
  <1>5. ASSUME NEW c \in Clients,
               \/ CreateAgent(c) \/ Archive(c) \/ Restore(c) \/ OpenDelete(c)
               \/ OpenSettings(c) \/ OpenSettingsForm(c) \/ Settings(c)
               \/ OpenVersion(c) \/ OpenVersionForm(c) \/ Number(c) \/ InsertVersionFails(c)
               \/ OpenPromote(c) \/ Promote(c)
               \/ OpenAlias(c) \/ SetAlias(c)
               \/ (\E a \in Aliases : DeleteAlias(c, a) \/ DeleteAliasForm(c, a))
               \/ Wire(c) \/ WireForm(c) \/ Unwire(c) \/ UnwireForm(c)
               \/ OpenSubmit(c) \/ Resolve(c) \/ ResolveFails(c) \/ Ingest(c) \/ Submit(c)
        PROVE  UNCHANGED author
    BY <1>5 DEF CreateAgent, Archive, Restore, OpenDelete, OpenSettings, OpenSettingsForm, Settings,
                OpenVersion, OpenVersionForm, Number, InsertVersionFails, OpenPromote, Promote,
                OpenAlias, SetAlias, DeleteAlias, DeleteAliasForm, Wire, WireForm, Unwire, UnwireForm,
                OpenSubmit, Resolve, ResolveFails,
                Ingest, Submit, rows
  <1> QED BY <1>1, <1>2, <1>3, <1>4, <1>5 DEF Next, vars, rows

(* "Version rows are never mutated", over every interleaving of requests.  *)
THEOREM NeverMutated == Spec => VersionsImmutable
  <1>1. Inv /\ [Next]_vars
          => [agent' # "gone" => \A n \in Written : author'[n] = author[n]]_vars
    BY ImmutableStep
  <1> QED BY <1>1, Invariant, PTL DEF Spec, VersionsImmutable

-------------------------------------------------------------------------------
(* What a promotion leaves current. *)

(* What the last promotion left is current but for a late first version;    *)
(* and on an agent born with its first version no pending version takes      *)
(* itself for the first.                                                     *)
Steady ==
  /\ agent = "absent" => ~born /\ chosen = 0
  /\ Visible /\ chosen # 0 => current # 0 /\ (current = chosen \/ (~born /\ current \in stale))
  /\ Visible /\ born =>
       /\ current # 0
       /\ \A c \in Clients : pc[c] \in {"number", "insert"} => held[c].current # 0

LEMMA SteadyInit == Init => Steady
  BY DEF Init, Steady, Visible

LEMMA SteadyStep ==
  ASSUME Inv, Inv', Steady, [Next]_vars
  PROVE  Steady'
  <1> USE DEF Inv
  <1>1. CASE UNCHANGED vars
    BY <1>1 DEF vars, rows, request, history, Steady, Visible
  <1>2. ASSUME NEW c \in Clients, CreateAgent(c) PROVE Steady'
    BY <1>2 DEF CreateAgent, Steady, history
  <1>3. ASSUME NEW c \in Clients, CreateAgentForm(c) PROVE Steady'
    <2>1. \A d \in Clients : pc'[d] = "idle"
      BY <1>3 DEF CreateAgentForm, Nothing, request
    <2> QED BY <1>3, <2>1 DEF CreateAgentForm, Steady
  <1>4. ASSUME NEW c \in Clients, Archive(c) \/ Restore(c) PROVE Steady'
    BY <1>4 DEF Archive, Restore, Steady, Visible, request, history
  <1>5. ASSUME NEW c \in Clients, Delete(c) PROVE Steady'
    <2>1. /\ \A d \in Clients : d # c => pc'[d] = pc[d] /\ held'[d] = held[d]
          /\ pc'[c] = "idle" /\ UNCHANGED history /\ pc[c] = "delete"
      BY <1>5, AnswerType DEF Delete, Answer
    <2>2. agent # "absent"
      BY <2>1 DEF Nothing
    <2>3. CASE UNCHANGED <<agent, current, author, alias>>
      BY <2>1, <2>2, <2>3 DEF Steady, Visible, history
    <2>4. CASE Erase
      BY <2>4 DEF Steady, Erase, Visible
    <2> QED BY <1>5, <2>3, <2>4 DEF Delete
  <1>6. ASSUME NEW c \in Clients, Settings(c) PROVE Steady'
    <2>1. /\ \A d \in Clients : d # c => pc'[d] = pc[d] /\ held'[d] = held[d]
          /\ pc'[c] = "idle"
      BY <1>6, AnswerType DEF Settings
    <2> QED BY <1>6, <2>1 DEF Settings, Steady, Visible, history
  <1>7. ASSUME NEW c \in Clients, NEW s \in Stages, NEW h, Begin(c, s, h),
               UNCHANGED <<rows, history>>, Visible,
               s # "insert", s = "number" => h.current = current
        PROVE Steady'
    <2>1. /\ \A d \in Clients : d # c => pc'[d] = pc[d] /\ held'[d] = held[d]
          /\ pc'[c] = s /\ held'[c] = h
      BY <1>7 DEF Begin, TypeOK
    <2> QED BY <1>7, <2>1 DEF Steady, Visible, rows, history
  <1>8. ASSUME NEW c \in Clients,
               \/ OpenDelete(c) \/ OpenSettings(c) \/ OpenVersion(c)
               \/ OpenAlias(c) \/ OpenSubmit(c) \/ Ingest(c)
        PROVE Steady'
    <2>1. UNCHANGED <<rows, history>> /\ Visible
      BY <1>8 DEF OpenDelete, OpenSettings, OpenVersion, OpenAlias, OpenSubmit, Ingest, Visible
    <2>2. [Blank EXCEPT !.current = current].current = current
      BY DEF Blank
    <2>3. PICK s \in {"delete", "settings", "number", "alias", "resolve", "submit"} :
            \E h : Begin(c, s, h) /\ (s = "number" => h.current = current)
      BY <1>8, <2>2 DEF OpenDelete, OpenSettings, OpenVersion, OpenAlias, OpenSubmit, Ingest
    <2> QED BY <1>7, <2>1, <2>3 DEF Stages
  <1>9. ASSUME NEW c \in Clients, OpenPromote(c) PROVE Steady'
    <2>1. PICK n \in Written : Begin(c, "promote", [Blank EXCEPT !.current = current, !.no = n])
      BY <1>9 DEF OpenPromote
    <2> QED BY <1>7, <1>9, <2>1 DEF OpenPromote, Stages
  <1>10. ASSUME NEW c \in Clients, Number(c) \/ Resolve(c) PROVE Steady'
    <2>1. PICK n : held' = [held EXCEPT ![c].no = n]
      BY <1>10 DEF Number, Resolve
    <2>2. /\ \A d \in Clients : held'[d].current = held[d].current
          /\ \A d \in Clients : d # c => pc'[d] = pc[d]
          /\ pc'[c] = "submit" \/ (pc[c] = "number" /\ pc'[c] = "insert")
      <3>1. \A d \in Clients : held'[d].current = held[d].current
        <4>1. held[c] \in HeldType /\ held \in [Clients -> HeldType]
          BY DEF TypeOK, HeldType
        <4>2. /\ held'[c] = [held[c] EXCEPT !.no = n]
              /\ \A d \in Clients : d # c => held'[d] = held[d]
          BY <2>1, <4>1
        <4>3. [held[c] EXCEPT !.no = n].current = held[c].current
          BY <4>1 DEF HeldType
        <4> QED BY <4>2, <4>3
      <3>2. CASE Number(c)
        BY <3>1, <3>2 DEF Number, TypeOK
      <3>3. CASE Resolve(c)
        <4>1. pc' = [pc EXCEPT ![c] = "submit"]
          BY <3>3 DEF Resolve
        <4> QED BY <3>1, <4>1 DEF TypeOK
      <3> QED BY <1>10, <3>2, <3>3
    <2>3. UNCHANGED <<agent, current, born, chosen, stale>>
      BY <1>10 DEF Number, Resolve, rows, history
    <2> QED BY <2>2, <2>3 DEF Steady, Visible
  <1>11. ASSUME NEW c \in Clients, InsertVersion(c) PROVE Steady'
    <2>1. /\ \A d \in Clients : d # c => pc'[d] = pc[d] /\ held'[d] = held[d]
          /\ pc'[c] = "idle" /\ pc[c] = "insert"
      BY <1>11, AnswerType DEF InsertVersion, Answer
    <2>2. UNCHANGED <<agent, born, chosen>> /\ agent # "absent" /\ Visible
      BY <1>11 DEF InsertVersion, Visible
    <2>3. CASE held[c].current # 0
      <3>1. current' = current /\ stale' = stale
        BY <1>11, <2>3 DEF InsertVersion, Promotes
      <3> QED BY <2>1, <2>2, <3>1 DEF Steady, Visible
    <2>4. CASE held[c].current = 0
      <3>1. ~born /\ current' = held[c].no /\ current' # 0
        <4>1. held[c].no # 0 BY <2>1, <2>2, NosType DEF InProgress, Holds
        <4> QED BY <1>11, <2>1, <2>2, <2>4, <4>1 DEF InsertVersion, Promotes, Steady
      <3>2. chosen # 0 => current' \in stale'
        <4>1. chosen # 0 => Written # {}
          BY <2>2 DEF Steady, PointersResolve
        <4> QED BY <1>11, <2>4, <3>1, <4>1 DEF InsertVersion
      <3> QED BY <2>1, <2>2, <3>1, <3>2 DEF Steady, Visible
    <2> QED BY <2>3, <2>4
  <1>12. ASSUME NEW c \in Clients, InsertVersionFails(c) \/ ResolveFails(c) PROVE Steady'
    <2>1. PICK s \in {"insert", "resolve"} : Answer(c, s)
      BY <1>12 DEF InsertVersionFails, ResolveFails
    <2>2. /\ \A d \in Clients : d # c => pc'[d] = pc[d] /\ held'[d] = held[d]
          /\ pc'[c] = "idle"
      BY <2>1, AnswerType
    <2> QED BY <1>12, <2>2 DEF InsertVersionFails, ResolveFails, Steady, Visible, rows, history
  <1>13. ASSUME NEW c \in Clients, Promote(c) PROVE Steady'
    <2>1. /\ \A d \in Clients : d # c => pc'[d] = pc[d] /\ held'[d] = held[d]
          /\ pc'[c] = "idle" /\ pc[c] = "promote"
      BY <1>13, AnswerType DEF Promote, Answer
    <2>2. UNCHANGED <<agent, born>> /\ agent # "absent"
      BY <1>13, <2>1 DEF Promote, Nothing
    <2>3. CASE Visible
      <3>1. held[c].no # 0 /\ current # 0
        <4>1. held[c].no \in Written
          BY <2>1, <2>3 DEF InProgress, Holds
        <4> QED BY <4>1, NosType DEF Runnable
      <3>2. current' # 0 /\ chosen' = current'
        BY <1>13, <2>3, <3>1 DEF Promote, Sent
      <3> QED BY <2>1, <2>2, <2>3, <3>2 DEF Steady, Visible
    <2>4. CASE ~Visible
      <3>1. UNCHANGED <<current, chosen, stale>>
        BY <1>13, <2>4 DEF Promote
      <3> QED BY <2>1, <2>2, <2>4, <3>1 DEF Steady, Visible
    <2> QED BY <2>3, <2>4
  <1>14. ASSUME NEW c \in Clients, SetAlias(c) PROVE Steady'
    <2>1. /\ \A d \in Clients : d # c => pc'[d] = pc[d] /\ held'[d] = held[d]
          /\ pc'[c] = "idle"
      BY <1>14, AnswerType DEF SetAlias
    <2> QED BY <1>14, <2>1 DEF SetAlias, Steady, Visible, history
  <1>15. ASSUME NEW c \in Clients, Submit(c) PROVE Steady'
    <2>1. /\ \A d \in Clients : d # c => pc'[d] = pc[d] /\ held'[d] = held[d]
          /\ pc'[c] = "idle"
      BY <1>15, AnswerType DEF Submit
    <2> QED BY <1>15, <2>1 DEF Submit, Steady, Visible, history
  <1>16. ASSUME NEW c \in Clients, NEW a \in Aliases, DeleteAlias(c, a) \/ DeleteAliasForm(c, a)
         PROVE Steady'
    BY <1>16 DEF DeleteAlias, DeleteAliasForm, Steady, Visible, request, history
  <1>17. ASSUME NEW c \in Clients, Wire(c) \/ Unwire(c) PROVE Steady'
    BY <1>17 DEF Wire, Unwire, Steady, Visible, request, history
  <1>18. ASSUME NEW c \in Clients,
                \/ OpenSettingsForm(c) \/ OpenVersionForm(c) \/ WireForm(c) \/ UnwireForm(c)
         PROVE Steady'
    BY <1>8, <1>17, <1>18 DEF OpenSettingsForm, OpenVersionForm, WireForm, UnwireForm
  <1> QED BY <1>1, <1>2, <1>3, <1>4, <1>5, <1>6, <1>8, <1>9, <1>10, <1>11, <1>12, <1>13, <1>14,
             <1>15, <1>16, <1>17, <1>18 DEF Next

(* What a promotion left current stays until the next one, for any number  *)
(* of owners and editors at once, but for the version of a request that    *)
(* loaded the agent before its first version; on an agent born with its    *)
(* first version there is no such request (versions.create_version,        *)
(* versions.promote_version).                                              *)
THEOREM PromotionAlwaysStands == Spec => []PromotionStands
  <1>1. Inv /\ Inv' /\ Steady /\ [Next]_vars => Steady'
    BY SteadyStep
  <1>2. Inv /\ Steady => PromotionStands
    <2>1. agent \in {"absent", "live", "archived", "gone"} /\ Steady => PromotionStands
      BY DEF Steady, PromotionStands, Visible
    <2> QED BY <2>1 DEF Inv, TypeOK
  <1> QED BY <1>1, <1>2, Invariant, SteadyInit, PTL DEF Spec
===============================================================================
