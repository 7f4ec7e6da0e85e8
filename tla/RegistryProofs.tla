---------------------------- MODULE RegistryProofs ----------------------------
(*****************************************************************************)
(* The tenant's registry and the runs that read it, for every set of rows,   *)
(* grants, clients and jobs.                                                 *)
(*                                                                           *)
(* A run sets itself up from rows that requests change meanwhile: it reads   *)
(* the credentials of three scopes one after the other, then the rows of     *)
(* its grants. The inductive invariant splits what it must know in two.      *)
(* RowsInv is about the rows: a request between its checks and its commit    *)
(* holds a row of the right kind, a model row was valid when it was          *)
(* written, a model that a version uses is live. JobInv is about one run:    *)
(* the rows it may rely on are those that were there throughout its set-     *)
(* up, those it may have met are there or were (Window); the scopes it       *)
(* passed over had no lasting credential (Asking); what it has no tool for   *)
(* yet is still to be looked up (Looking). A change of a row then disturbs   *)
(* no run's invariant, since the two views only shrink and grow              *)
(* (StoredStep), and a step of a run disturbs no other run (Others).         *)
(*****************************************************************************)
EXTENDS Registry, SequenceTheorems, TLAPS

(* A version row: the model row and the grants it was published with. *)
Version == [model : Models, grants : Grants]

(* The types of what requests store and hold. *)
RowsOK ==
  /\ conn \in [Conns -> {"unborn", "live", "gone"}]
  /\ model \in [Models -> {"unborn", "live", "gone"}]
  /\ creds \subseteq Places
  /\ versions \in Seq(Version)
  /\ current \in 0..Len(versions) /\ alias \in 0..Len(versions)
  /\ archived \in BOOLEAN
  /\ req \in [Clients -> [at : {"idle", "publish", "delete", "register", "unregister"},
                          row : Conns \cup Models \cup {NoRow}, grants : Grants \cup {<<>>}]]
  /\ changes \in Nat

(* The positions a grant can have in a version. *)
Indices == UNION {DOMAIN gs : gs \in Grants}

(* What a job's record can be. *)
Runs ==
  [at : {"none", "queued", "key", "grants", "loop", "failed", "rejected"},
   version : 0..Len(versions), scope : 1..3, key : Places \cup {Environment},
   left : SUBSET Indices, got : SUBSET Tools]

(* The rows a set-up met, or could rely on all through it. *)
Views == [conns : SUBSET Conns, creds : SUBSET Places]

(* The types of what the runs hold. *)
JobsOK == job \in [Jobs -> Runs] /\ seen \in [Jobs -> Views] /\ kept \in [Jobs -> Views]

(* What a request holds between its checks and its commit: a row of the      *)
(* kind it asked for, a model that passed _validate_model_string, grants     *)
(* of the catalog.                                                           *)
Requested ==
  \A c \in Clients :
    /\ req[c].at = "delete" => req[c].row \in Conns
    /\ req[c].at \in {"register", "unregister", "publish"} => req[c].row \in Models
    /\ req[c].at = "register" => Valid(req[c].row)
    /\ req[c].at = "publish" => req[c].grants \in Grants

(* Every model row passed _validate_model_string when it was written. *)
ModelsValid == \A m \in Models : model[m] # "unborn" => Valid(m)

(* The invariant of the rows and the requests. *)
RowsInv == RowsOK /\ Requested /\ ModelsValid /\ ModelKept

(* Versions are only added: a job's stays what it was. *)
Grown == \A n \in DOMAIN versions : n \in DOMAIN versions' /\ versions'[n] = versions[n]

(* A committed change: the runs under way see it, versions are only added. *)
Stored == Change /\ Grown /\ UNCHANGED job

(* A request that stores nothing: it is checked and held, or refused. *)
Asks == UNCHANGED <<rows, job, seen, kept, changes>>

(* A request that has passed its checks holds what it is about to write. *)
LEMMA HoldsStep ==
  ASSUME RowsInv, NEW c \in Clients, NEW at \in {"publish", "delete", "register", "unregister"},
         NEW row, NEW grants \in Grants \cup {<<>>}, Holds(c, at, row, grants),
         at = "delete" => row \in Conns,
         at # "delete" => row \in Models,
         at = "register" => Valid(row),
         at = "publish" => grants \in Grants
  PROVE  RowsInv' /\ Asks
<1>1. Asks BY DEF Holds, Asks, Unchanged
<1>2. UNCHANGED rows BY DEF Holds
<1>3. RowsOK'
  BY <1>2 DEF Holds, Unchanged, rows, RowsInv, RowsOK
<1>4. Requested'
  BY <1>2 DEF Holds, Unchanged, rows, RowsInv, RowsOK, Requested, Valid
<1>5. ModelsValid' /\ ModelKept'
  BY <1>2 DEF rows, RowsInv, ModelsValid, ModelKept, Valid
<1> QED BY <1>1, <1>3, <1>4, <1>5 DEF RowsInv

(* A request ends or not; what is changed is not what the others hold. *)
LEMMA AnswerStep ==
  ASSUME RowsInv, req' = req \/ \E c \in Clients : req' = [req EXCEPT ![c] = NoRequest]
  PROVE  /\ req' \in [Clients -> [at : {"idle", "publish", "delete", "register", "unregister"},
                          row : Conns \cup Models \cup {NoRow}, grants : Grants \cup {<<>>}]]
         /\ Requested'
<1>1. CASE req' = req BY <1>1 DEF RowsInv, RowsOK, Requested, Valid
<1>2. ASSUME NEW c \in Clients, req' = [req EXCEPT ![c] = NoRequest]
      PROVE  /\ req' \in [Clients -> [at : {"idle", "publish", "delete", "register", "unregister"},
                          row : Conns \cup Models \cup {NoRow}, grants : Grants \cup {<<>>}]]
             /\ Requested'
  BY <1>2 DEF RowsInv, RowsOK, Requested, Valid, NoRequest
<1> QED BY <1>1, <1>2

(* At most one request ends. *)
Answered == req' = req \/ \E c \in Clients : req' = [req EXCEPT ![c] = NoRequest]

(* Creating and deleting stores and servers, and any change of               *)
(* credentials.                                                              *)
LEMMA ConnStep ==
  ASSUME RowsInv, Answered, Change, UNCHANGED <<model, versions, current, alias, archived, job>>,
         \/ \E x \in Conns, s \in {"live", "gone"} : conn' = [conn EXCEPT ![x] = s] /\ UNCHANGED creds
         \/ UNCHANGED conn /\ creds' \subseteq Places
  PROVE  RowsInv' /\ Stored
<1>1. Requested' BY AnswerStep DEF Answered
<1>2. RowsOK' BY AnswerStep DEF Answered, RowsInv, RowsOK, Change
<1>3. ModelsValid' /\ ModelKept' BY DEF RowsInv, ModelsValid, ModelKept, Valid
<1>4. Stored BY DEF Stored, Grown
<1> QED BY <1>1, <1>2, <1>3, <1>4 DEF RowsInv

(* A model row is added. *)
LEMMA AddModelStep ==
  ASSUME RowsInv, Answered, NEW m \in Models, model[m] = "unborn", Valid(m), AddModel(m)
  PROVE  RowsInv' /\ Stored
<1>1. Requested' BY AnswerStep DEF Answered
<1>2. RowsOK' BY AnswerStep DEF Answered, RowsInv, RowsOK, Change, AddModel
<1>3. ModelsValid' BY DEF RowsInv, RowsOK, ModelsValid, Valid, AddModel
<1>4. ModelKept'
  BY DEF RowsInv, RowsOK, ModelKept, AddModel
<1>5. Stored BY DEF Stored, Grown, AddModel
<1> QED BY <1>1, <1>2, <1>3, <1>4, <1>5 DEF RowsInv

(* A model row goes only if no version uses it (delete_model). *)
LEMMA DropModelStep ==
  ASSUME RowsInv, Answered, NEW m \in Models, model[m] = "live", DropModel(m), Change,
         UNCHANGED <<conn, creds, versions, current, alias, archived, job>>
  PROVE  RowsInv' /\ Stored
<1>1. Requested' BY AnswerStep DEF Answered
<1>2. RowsOK' BY AnswerStep DEF Answered, RowsInv, RowsOK, Change, DropModel
<1>3. ModelsValid' BY DEF RowsInv, RowsOK, ModelsValid, Valid, DropModel
<1>4. ModelKept'
  BY DEF RowsInv, RowsOK, ModelKept, DropModel, UsesModel
<1>5. Stored BY DEF Stored, Grown
<1> QED BY <1>1, <1>2, <1>3, <1>4, <1>5 DEF RowsInv

(* Promotion, aliases and archiving move pointers and touch no row. *)
LEMMA PointStep ==
  ASSUME RowsInv, Answered, Change, UNCHANGED <<conn, model, creds, versions, job>>,
         current' \in 0..Len(versions), alias' \in 0..Len(versions), archived' \in BOOLEAN
  PROVE  RowsInv' /\ Stored
<1>1. Requested' BY AnswerStep DEF Answered
<1>2. RowsOK' BY AnswerStep DEF Answered, RowsInv, RowsOK, Change
<1>3. ModelsValid' /\ ModelKept' BY DEF RowsInv, ModelsValid, ModelKept, Valid
<1>4. Stored BY DEF Stored, Grown
<1> QED BY <1>1, <1>2, <1>3, <1>4 DEF RowsInv

(* create_version appends a row whose model is live. *)
LEMMA InsertStep ==
  ASSUME RowsInv, NEW c \in Clients, InsertVersion(c)
  PROVE  RowsInv' /\ (Stored \/ Asks)
<1> DEFINE v == [model |-> req[c].row, grants |-> req[c].grants]
<1>1. Answered /\ req[c].at = "publish" BY DEF InsertVersion, Answer, Answered
<1>2. Requested' BY <1>1, AnswerStep DEF Answered
<1>3. CASE UNCHANGED <<rows, job>> /\ Unchanged
  BY <1>1, <1>2, <1>3, AnswerStep
     DEF Answered, rows, Unchanged, Asks, RowsInv, RowsOK, ModelsValid, ModelKept, Valid
<1>4. CASE /\ model[req[c].row] = "live"
           /\ versions' = Append(versions, v)
           /\ current' = IF current = 0 THEN Len(versions) + 1 ELSE current
           /\ UNCHANGED <<conn, model, creds, alias, archived, job>>
           /\ Change
  <2>1. v \in Version /\ v.model = req[c].row
    BY <1>1 DEF RowsInv, Requested, Version
  <2>2. versions \in Seq(Version) BY DEF RowsInv, RowsOK
  <2> HIDE DEF v
  <2>3. /\ versions' \in Seq(Version)
        /\ Len(versions') = Len(versions) + 1
        /\ \A n \in 1..Len(versions) : versions'[n] = versions[n]
        /\ versions'[Len(versions) + 1] = v
    BY <1>4, <2>1, <2>2, AppendProperties
  <2>4. Len(versions) \in Nat /\ DOMAIN versions = 1..Len(versions)
        /\ DOMAIN versions' = 1..(Len(versions) + 1)
    BY <2>2, <2>3, LenProperties
  <2>5. RowsOK'
    BY <1>1, <1>4, <2>3, <2>4, AnswerStep DEF Answered, RowsInv, RowsOK, Change
  <2>6. ModelKept' BY <1>4, <2>1, <2>3, <2>4 DEF RowsInv, ModelKept
  <2>7. ModelsValid' BY <1>4 DEF RowsInv, ModelsValid, Valid
  <2>8. Stored BY <1>4, <2>3, <2>4 DEF Stored, Grown
  <2> QED BY <1>2, <2>5, <2>6, <2>7, <2>8 DEF RowsInv
<1> QED BY <1>3, <1>4 DEF InsertVersion

(* Every request of the API, the pages or an owner keeps the rows'           *)
(* invariant, and either commits one change or changes nothing the runs      *)
(* read.                                                                     *)
LEMMA RequestStep ==
  ASSUME RegistryAssumption, RowsInv, NEW c \in Clients, Api(c) \/ Ui(c) \/ Owner(c)
  PROVE  RowsInv' /\ (Stored \/ Asks)
<1>a. req[c] \in [at : {"idle", "publish", "delete", "register", "unregister"},
                  row : Conns \cup Models \cup {NoRow}, grants : Grants \cup {<<>>}]
  BY DEF RowsInv, RowsOK
<1>b. \A x \in LiveConns : x \in Conns BY DEF LiveConns
<1>c. \A m \in LiveModels : m \in Models /\ model[m] = "live" BY DEF LiveModels
<1>d. Places \subseteq {"agent", "team", "tenant"} \X Providers
      /\ \A p \in Providers :
           <<"agent", p>> \in Places /\ <<"team", p>> \in Places /\ <<"tenant", p>> \in Places
  <2>1. Scopes[1] = "agent" /\ Scopes[2] = "team" /\ Scopes[3] = "tenant" BY DEF Scopes
  <2> QED BY <2>1 DEF Places
<1>1. CASE ApiCreateStore(c) \/ UiCreateStore(c) \/ ApiCreateServer(c) \/ UiCreateServer(c)
  <2> PICK x \in Conns : Register(c, x)
    BY <1>1 DEF ApiCreateStore, UiCreateStore, ApiCreateServer, UiCreateServer, OfKind
  <2> QED BY ConnStep DEF Register, Answered
<1>2. CASE ApiDeleteStore(c) \/ ApiDeleteServer(c)
  <2> PICK x \in Conns : ApiDelete(c, x)
    BY <1>2 DEF ApiDeleteStore, ApiDeleteServer, OfKind
  <2> QED BY ConnStep DEF ApiDelete, Remove, Answered
<1>3. CASE UiDeleteStore(c) \/ UiDeleteServer(c)
  <2> PICK x \in Conns : Holds(c, "delete", x, <<>>)
    BY <1>3 DEF UiDeleteStore, UiDeleteServer, UiDelete, OfKind
  <2> QED BY HoldsStep
<1>4. CASE UiDeleteCommit(c)
  <2>1. Answered /\ req[c].row \in Conns
    BY <1>4 DEF UiDeleteCommit, Answer, Answered, RowsInv, Requested
  <2>2. CASE Remove(req[c].row) BY <2>1, <2>2, ConnStep DEF Remove
  <2>3. CASE UNCHANGED <<rows, job>> /\ Unchanged
    BY <2>1, <2>3, AnswerStep
       DEF Answered, rows, Unchanged, Asks, RowsInv, RowsOK, ModelsValid, ModelKept, Valid
  <2> QED BY <1>4, <2>2, <2>3 DEF UiDeleteCommit
<1>5. CASE ApiCreateModel(c)
  <2> PICK m \in Models : model[m] = "unborn" /\ Valid(m) /\ AddModel(m)
    BY <1>5 DEF ApiCreateModel
  <2> QED BY <1>5, AddModelStep DEF ApiCreateModel, Answered
<1>6. CASE UiCreateModel(c)
  <2> PICK m \in Models : Valid(m) /\ Holds(c, "register", m, <<>>)
    BY <1>6 DEF UiCreateModel
  <2> QED BY HoldsStep
<1>7. CASE UiModelCommit(c)
  <2>1. Answered /\ req[c].row \in Models /\ Valid(req[c].row)
    BY <1>7 DEF UiModelCommit, Answer, Answered, RowsInv, Requested
  <2>2. CASE model[req[c].row] = "unborn" /\ AddModel(req[c].row) BY <2>1, <2>2, AddModelStep
  <2>3. CASE UNCHANGED <<rows, job>> /\ Unchanged
    BY <2>1, <2>3, AnswerStep
       DEF Answered, rows, Unchanged, Asks, RowsInv, RowsOK, ModelsValid, ModelKept, Valid
  <2> QED BY <1>7, <2>2, <2>3 DEF UiModelCommit
<1>8. CASE ApiDeleteModel(c)
  <2> PICK m \in LiveModels : DropModel(m)
    BY <1>8 DEF ApiDeleteModel
  <2> QED BY <1>8, <1>c, DropModelStep DEF ApiDeleteModel, Answered
<1>9. CASE UiDeleteModel(c)
  <2> PICK m \in LiveModels : Holds(c, "unregister", m, <<>>)
    BY <1>9 DEF UiDeleteModel
  <2> QED BY <1>c, HoldsStep
<1>10. CASE UiDeleteModelCommit(c)
  <2>1. Answered /\ req[c].row \in Models
    BY <1>10 DEF UiDeleteModelCommit, Answer, Answered, RowsInv, Requested
  <2>2. UNCHANGED <<conn, creds, versions, current, alias, archived, job>>
    BY <1>10 DEF UiDeleteModelCommit
  <2>3. CASE model[req[c].row] = "live" /\ DropModel(req[c].row) /\ Change
    BY <2>1, <2>2, <2>3, DropModelStep
  <2>4. CASE UNCHANGED model /\ Unchanged
    BY <2>1, <2>2, <2>4, AnswerStep
       DEF Answered, rows, Unchanged, Asks, RowsInv, RowsOK, ModelsValid, ModelKept, Valid
  <2> QED BY <1>10, <2>3, <2>4 DEF UiDeleteModelCommit
<1>11. CASE \/ \E pl \in Places : SetCred(pl[1], pl[2]) \/ DeleteCred(pl[1], pl[2])
            \/ \E s \in {"agent", "team", "tenant"}, p \in Providers : SetCred(s, p) \/ DeleteCred(s, p)
  <2> PICK s \in {"agent", "team", "tenant"}, p \in Providers : SetCred(s, p) \/ DeleteCred(s, p)
    BY <1>11, <1>d
  <2>a. <<s, p>> \in Places /\ creds \subseteq Places BY <1>d DEF RowsInv, RowsOK
  <2>1. creds' \subseteq Places BY <2>a DEF SetCred, DeleteCred
  <2> QED BY <2>1, ConnStep DEF SetCred, DeleteCred, Answered
<1>12. CASE ApiSetCred(c) \/ ApiDeleteCred(c)
  <2>1. \E pl \in Places : SetCred(pl[1], pl[2]) \/ DeleteCred(pl[1], pl[2])
    BY <1>12 DEF ApiSetCred, ApiDeleteCred, RowsInv, RowsOK
  <2> QED BY <2>1, <1>11
<1>13. CASE \/ UiSetTenantCred(c) \/ UiDeleteTenantCred(c) \/ UiSetTeamCred(c) \/ UiDeleteTeamCred(c)
            \/ UiSetAgentCred(c) \/ UiDeleteAgentCred(c)
  <2>1. \E s \in {"agent", "team", "tenant"}, p \in Providers : SetCred(s, p) \/ DeleteCred(s, p)
    BY <1>13 DEF UiSetTenantCred, UiDeleteTenantCred, UiSetTeamCred, UiDeleteTeamCred,
                 UiSetAgentCred, UiDeleteAgentCred, RegistryAssumption
  <2> QED BY <2>1, <1>11
<1>14. CASE ApiPublish(c) \/ UiPublish(c)
  <2> PICK m \in LiveModels, gs \in Grants : Holds(c, "publish", m, gs)
    BY <1>14 DEF ApiPublish, UiPublish
  <2> QED BY <1>c, HoldsStep
<1>15. CASE InsertVersion(c) BY <1>15, InsertStep
<1>e. Len(versions) \in Nat /\ DOMAIN versions = 1..Len(versions)
  BY LenProperties DEF RowsInv, RowsOK
<1>16. CASE Promote(c)
  <2>1. current' \in 0..Len(versions) /\ alias' \in 0..Len(versions) /\ archived' \in BOOLEAN
    BY <1>16, <1>e DEF Promote, RowsInv, RowsOK
  <2> QED BY <1>16, <2>1, PointStep DEF Promote, Answered
<1>17. CASE SetAlias(c)
  <2>1. current' \in 0..Len(versions) /\ alias' \in 0..Len(versions) /\ archived' \in BOOLEAN
    BY <1>17, <1>e DEF SetAlias, RowsInv, RowsOK
  <2> QED BY <1>17, <2>1, PointStep DEF SetAlias, Answered
<1>18. CASE Archive(c)
  <2>1. current' \in 0..Len(versions) /\ alias' \in 0..Len(versions) /\ archived' \in BOOLEAN
    BY <1>18 DEF Archive, RowsInv, RowsOK
  <2> QED BY <1>18, <2>1, PointStep DEF Archive, Answered
<1> QED
  BY <1>1, <1>2, <1>3, <1>4, <1>5, <1>6, <1>7, <1>8, <1>9, <1>10, <1>12, <1>13, <1>14, <1>15,
     <1>16, <1>17, <1>18
     DEF Api, Ui, Owner

-------------------------------------------------------------------------------

(* The provider of the version's model, by its row. *)
Provider(j) == ModelOf(j).provider

(* A tool of the name grant g gives, from a row met during the set-up. *)
Has(j, g) ==
  \E t \in job[j].got : \E x \in seen[j].conns : Named(x, g) /\ Conn[x].name = Conn[t.conn].name

(* A job's version exists from its creation on. *)
Pinned(j) == job[j].at # "none" => job[j].version \in DOMAIN versions

(* What was there all through the set-up is there now; what is there now     *)
(* was there at some moment of the set-up.                                   *)
Window(j) ==
  job[j].at \in {"key", "grants"} =>
    /\ kept[j].conns \subseteq LiveConns /\ LiveConns \subseteq seen[j].conns
    /\ kept[j].creds \subseteq creds /\ creds \subseteq seen[j].creds

(* _resolve_api_key walks the scopes in order: those passed over had no      *)
(* credential that was there throughout.                                     *)
Asking(j) ==
  /\ job[j].at \in {"queued", "key"} => job[j].got = {} /\ job[j].key = Environment
  /\ job[j].at = "queued" => job[j].scope = 1
  /\ job[j].at = "key" =>
       \A i \in 1..3 : i < job[j].scope => <<Scopes[i], Provider(j)>> \notin kept[j].creds

(* _resolve_toolsets has left to look up only grants of the version, and     *)
(* has a tool for each of the others.                                        *)
Looking(j) ==
  job[j].at = "grants" =>
    /\ job[j].left \subseteq DOMAIN GrantsOf(j)
    /\ \A i \in DOMAIN GrantsOf(j) : i \in job[j].left \/ Has(j, GrantsOf(j)[i])

(* RunFaithful's first part, for one job. *)
ToolsOK(j) ==
  InSetUp(j) => \A t \in job[j].got :
    /\ Conn[t.conn].tenant = Home /\ t.conn \in seen[j].conns
    /\ \E g \in GrantedBy(job[j].version) : Named(t.conn, g) /\ g.mode = t.mode

(* RunFaithful's second part: a run gets to its loop with all it was         *)
(* granted.                                                                  *)
AllFound(j) == job[j].at = "loop" => \A g \in GrantedBy(job[j].version) : Has(j, g)

(* RunFaithful's third part: a set-up fails for a grant whose row was not    *)
(* there throughout.                                                         *)
Missing(j) ==
  job[j].at = "failed" => \E g \in GrantedBy(job[j].version) : \A x \in kept[j].conns :
    ~(Named(x, g) /\ Conn[x].tenant = Home)

(* The scopes the key's place comes after; all of them if the                *)
(* environment's key is used.                                                *)
Before(j) ==
  IF job[j].key = Environment THEN 1..3
  ELSE {i \in 1..3 : \A k \in 1..i : Scopes[k] # job[j].key[1]}

(* KeyFaithful, for one job. *)
KeyOK(j) ==
  InSetUp(j) =>
    /\ Prefix[ModelOf(j).string] = Provider(j)
    /\ job[j].key # Environment => job[j].key[2] = Provider(j) /\ job[j].key \in seen[j].creds
    /\ \A i \in Before(j) : <<Scopes[i], Provider(j)>> \notin kept[j].creds

(* The invariant of one run. *)
JobInv(j) ==
  /\ Pinned(j) /\ Window(j) /\ Asking(j) /\ Looking(j)
  /\ ToolsOK(j) /\ AllFound(j) /\ Missing(j) /\ KeyOK(j)

(* The inductive invariant. *)
IInv == RowsInv /\ JobsOK /\ \A j \in Jobs : JobInv(j)

(* The stated invariants are parts of the inductive one. *)
LEMMA Meaning == IInv => TypeOK /\ RunFaithful /\ KeyFaithful /\ ModelKept
<1> SUFFICES ASSUME IInv PROVE TypeOK /\ RunFaithful /\ KeyFaithful /\ ModelKept
  OBVIOUS
<1>1. TypeOK BY DEF IInv, RowsInv, RowsOK, JobsOK, Runs, Indices, Views, TypeOK, Version
<1>2. RunFaithful BY DEF IInv, JobInv, RunFaithful, ToolsOK, AllFound, Missing, Has
<1>3. KeyFaithful BY DEF IInv, JobInv, KeyFaithful, KeyOK, Before, Provider
<1>4. ModelKept BY DEF IInv, RowsInv
<1> QED BY <1>1, <1>2, <1>3, <1>4

(* A committed change keeps every run's invariant: rows a set-up saw stay    *)
(* seen, and its version stays as it was.                                    *)
LEMMA StoredStep ==
  ASSUME IInv, RowsInv', Stored
  PROVE  JobsOK' /\ \A j \in Jobs : JobInv(j)'
<1>1. Len(versions) \in Nat /\ DOMAIN versions = 1..Len(versions)
      /\ Len(versions') \in Nat /\ DOMAIN versions' = 1..Len(versions')
  BY LenProperties DEF IInv, RowsInv, RowsOK
<1>2. Len(versions) <= Len(versions')
  <2>1. Len(versions) = 0 \/ Len(versions) \in DOMAIN versions' BY <1>1 DEF Stored, Grown
  <2> QED BY <1>1, <2>1
<1>3. job' = job BY DEF Stored
<1>4. creds' \subseteq Places /\ LiveConns' \subseteq Conns BY DEF RowsInv, RowsOK, LiveConns
<1>5. JobsOK'
  <2>1. seen' \in [Jobs -> Views] /\ kept' \in [Jobs -> Views]
    BY <1>4 DEF Stored, Change, IInv, JobsOK, Views
  <2>2. Runs \subseteq Runs' BY <1>1, <1>2 DEF Runs
  <2> QED BY <1>3, <2>1, <2>2 DEF IInv, JobsOK, Views
<1>6. ASSUME NEW j \in Jobs PROVE JobInv(j)'
  <2>1. JobInv(j) BY DEF IInv
  <2>2. /\ seen[j].conns \subseteq seen'[j].conns /\ seen[j].creds \subseteq seen'[j].creds
        /\ kept'[j].conns \subseteq kept[j].conns /\ kept'[j].creds \subseteq kept[j].creds
    BY DEF Stored, Change
  <2>3. Window(j)' BY <1>3, <2>1 DEF Stored, Change, JobInv, Window
  <2>4. CASE job[j].at = "none"
    BY <1>3, <2>3, <2>4
       DEF JobInv, Pinned, Asking, Looking, ToolsOK, AllFound, Missing, KeyOK, InSetUp
  <2>5. CASE job[j].at # "none"
    <3>1. job[j].version \in DOMAIN versions BY <2>1, <2>5 DEF JobInv, Pinned
    <3>2. /\ versions'[job[j].version] = versions[job[j].version]
          /\ job[j].version \in DOMAIN versions'
      BY <3>1 DEF Stored, Grown
    <3>3. /\ GrantsOf(j)' = GrantsOf(j) /\ ModelOf(j)' = ModelOf(j) /\ Provider(j)' = Provider(j)
          /\ GrantedBy(job[j].version)' = GrantedBy(job[j].version)
      BY <1>3, <3>2 DEF GrantsOf, ModelOf, Provider, GrantedBy
    <3>4. \A g : Has(j, g) => Has(j, g)' BY <1>3, <2>2 DEF Has, Named
    <3>5. Pinned(j)' BY <1>3, <3>2 DEF Pinned
    <3>6. Asking(j)' BY <1>3, <2>1, <2>2, <3>3 DEF JobInv, Asking
    <3>7. Looking(j)' BY <1>3, <2>1, <3>3, <3>4 DEF JobInv, Looking
    <3>8. ToolsOK(j)' BY <1>3, <2>1, <2>2, <3>3 DEF JobInv, ToolsOK, InSetUp, Named
    <3>9. AllFound(j)' BY <1>3, <2>1, <3>3, <3>4 DEF JobInv, AllFound
    <3>10. Missing(j)' BY <1>3, <2>1, <2>2, <3>3 DEF JobInv, Missing, Named
    <3>11. KeyOK(j)' BY <1>3, <2>1, <2>2, <3>3 DEF JobInv, KeyOK, Before, InSetUp
    <3> QED BY <2>3, <3>5, <3>6, <3>7, <3>8, <3>9, <3>10, <3>11 DEF JobInv
  <2> QED BY <2>4, <2>5
<1> QED BY <1>5, <1>6

(* A request that stores nothing keeps every run's invariant. *)
LEMMA AsksStep ==
  ASSUME IInv, Asks
  PROVE  JobsOK' /\ \A j \in Jobs : JobInv(j)'
<1>1. JobsOK' BY DEF Asks, IInv, JobsOK, Runs, Views, rows
<1>2. ASSUME NEW j \in Jobs PROVE JobInv(j)'
  <2>1. JobInv(j) BY DEF IInv
  <2>2. UNCHANGED <<conn, creds, versions, job, seen, kept>> BY DEF Asks, rows
  <2>3. Pinned(j)' BY <2>1, <2>2 DEF JobInv, Pinned
  <2>4. Window(j)' BY <2>1, <2>2 DEF JobInv, Window, LiveConns
  <2>5. Provider(j)' = Provider(j) BY <2>2 DEF Provider, ModelOf
  <2>6. Asking(j)' BY <2>1, <2>2, <2>5 DEF JobInv, Asking
  <2>7. \A g : Has(j, g)' <=> Has(j, g) BY <2>2 DEF Has, Named
  <2>8. GrantsOf(j)' = GrantsOf(j) BY <2>2 DEF GrantsOf
  <2>9. Looking(j)' BY <2>1, <2>2, <2>7, <2>8 DEF JobInv, Looking
  <2>10. GrantedBy(job[j].version)' = GrantedBy(job[j].version) BY <2>2 DEF GrantedBy
  <2>11. ToolsOK(j)' BY <2>1, <2>2, <2>10 DEF JobInv, ToolsOK, InSetUp, Named
  <2>12. AllFound(j)' BY <2>1, <2>2, <2>7, <2>10 DEF JobInv, AllFound
  <2>13. Missing(j)' BY <2>1, <2>2, <2>10 DEF JobInv, Missing, Named
  <2>14. KeyOK(j)' BY <2>1, <2>2, <2>5 DEF JobInv, KeyOK, InSetUp, ModelOf, Before
  <2> QED BY <2>3, <2>4, <2>6, <2>9, <2>11, <2>12, <2>13, <2>14 DEF JobInv
<1> QED BY <1>1, <1>2

(* A step of run j leaves rows, requests and the other runs as they are. *)
OneRun(j) ==
  /\ UNCHANGED <<rows, req, changes>>
  /\ job' = [job EXCEPT ![j] = job'[j]] /\ job'[j] \in Runs
  /\ seen' = [seen EXCEPT ![j] = seen'[j]] /\ seen'[j] \in Views
  /\ kept' = [kept EXCEPT ![j] = kept'[j]] /\ kept'[j] \in Views

(* So only its own invariant has to be shown. *)
LEMMA Others ==
  ASSUME IInv, NEW j \in Jobs, OneRun(j), JobInv(j)'
  PROVE  IInv'
<1>1. RowsInv'
  BY DEF OneRun, IInv, rows, RowsInv, RowsOK, Requested, ModelsValid, ModelKept, Valid
<1>2. ASSUME NEW k \in Jobs, k # j PROVE JobInv(k)'
  <2>1. JobInv(k) BY DEF IInv
  <2>2. job'[k] = job[k] /\ seen'[k] = seen[k] /\ kept'[k] = kept[k]
    BY <1>2 DEF OneRun, IInv, JobsOK
  <2>3. UNCHANGED <<versions, conn, creds>> BY DEF OneRun, rows
  <2>4. /\ GrantsOf(k)' = GrantsOf(k) /\ Provider(k)' = Provider(k) /\ ModelOf(k)' = ModelOf(k)
        /\ GrantedBy(job[k].version)' = GrantedBy(job[k].version) /\ LiveConns' = LiveConns
        /\ \A g : Has(k, g)' <=> Has(k, g)
    BY <2>2, <2>3 DEF GrantsOf, Provider, ModelOf, GrantedBy, LiveConns, Has, Named
  <2> QED
    BY <2>1, <2>2, <2>3, <2>4
       DEF JobInv, Pinned, Window, Asking, Looking, ToolsOK, AllFound, Missing, KeyOK,
       InSetUp, Before, Named
<1>3. JobsOK' BY DEF OneRun, rows, IInv, JobsOK, Runs, Views
<1> QED BY <1>1, <1>2, <1>3 DEF IInv

(* Where a run is not in its set-up, nothing but its version is promised. *)
LEMMA Outside ==
  ASSUME NEW j \in Jobs, Pinned(j)',
         \/ job'[j].at \in {"none", "rejected"}
         \/ job'[j].at = "queued" /\ job'[j].got = {} /\ job'[j].key = Environment /\ job'[j].scope = 1
  PROVE  JobInv(j)'
BY DEF JobInv, Window, Asking, Looking, ToolsOK, AllFound, Missing, KeyOK, InSetUp

(* Every step of a run keeps the invariant: a submission or a retry, the     *)
(* key scope by scope, the grants one by one, the end.                       *)
LEMMA RunStep ==
  ASSUME IInv, NEW j \in Jobs, Run(j)
  PROVE  IInv'
<1>a. /\ JobInv(j) /\ Len(versions) \in Nat /\ DOMAIN versions = 1..Len(versions)
      /\ job[j] \in Runs /\ seen[j] \in Views /\ kept[j] \in Views
  BY LenProperties DEF IInv, RowsInv, RowsOK, JobsOK
<1>b. \A n \in DOMAIN versions : versions[n] \in Version
  BY ElementOfSeq, <1>a DEF IInv, RowsInv, RowsOK
<1> DEFINE Queued(n) == [NoJob EXCEPT !.at = "queued", !.version = n]
<1>c. /\ NoJob.at = "none" /\ NoJob \in Runs
      /\ \A n \in 0..Len(versions) :
           /\ Queued(n) \in Runs /\ Queued(n).at = "queued" /\ Queued(n).version = n
           /\ Queued(n).got = {} /\ Queued(n).key = Environment /\ Queued(n).scope = 1
  <2>1. NoJob \in Runs /\ NoJob.at = "none" BY <1>a DEF NoJob, Runs
  <2>2. ASSUME NEW n \in 0..Len(versions)
        PROVE  /\ Queued(n) \in Runs /\ Queued(n).at = "queued" /\ Queued(n).version = n
               /\ Queued(n).got = {} /\ Queued(n).key = Environment /\ Queued(n).scope = 1
    BY <1>a, <2>1 DEF NoJob, Runs
  <2> QED BY <2>1, <2>2
<1>d. GrantedBy(job[j].version) = {GrantsOf(j)[i] : i \in DOMAIN GrantsOf(j)}
  BY DEF GrantedBy, GrantsOf
<1>1. CASE Submit(j)
  <2> PICK n \in DOMAIN versions :
         job' = [job EXCEPT ![j] = [NoJob EXCEPT !.at = "queued", !.version = n]]
    BY <1>1 DEF Submit
  <2>a. n \in 0..Len(versions) BY <1>a
  <2>b. job'[j] = Queued(n) BY DEF IInv, JobsOK
  <2>1. /\ job'[j] \in Runs /\ job'[j].at = "queued" /\ job'[j].version = n
        /\ job'[j].got = {} /\ job'[j].key = Environment /\ job'[j].scope = 1
    BY <1>c, <2>a, <2>b
  <2>2. OneRun(j) BY <1>1, <1>a, <2>1 DEF Submit, OneRun, Unchanged, IInv, JobsOK
  <2>3. Pinned(j)' BY <2>1, <2>2 DEF Pinned, OneRun, rows
  <2> QED BY <2>1, <2>2, <2>3, Outside, Others
<1>2. CASE Retry(j)
  <2>1. job'[j] = Queued(job[j].version)
    BY <1>2 DEF Retry, IInv, JobsOK
  <2>2. /\ job'[j] \in Runs /\ job'[j].at = "queued" /\ job'[j].version = job[j].version
        /\ job'[j].got = {} /\ job'[j].key = Environment /\ job'[j].scope = 1
    BY <1>a, <1>c, <2>1 DEF Runs
  <2>3. OneRun(j) BY <1>2, <1>a, <2>2 DEF Retry, OneRun, Unchanged, IInv, JobsOK
  <2>4. Pinned(j)' BY <1>2, <1>a, <2>2, <2>3 DEF Retry, JobInv, Pinned, OneRun, rows
  <2> QED BY <2>2, <2>3, <2>4, Outside, Others
<1>3. CASE RejectServer(j)
  <2>1. job'[j] = [job[j] EXCEPT !.at = "rejected"] BY <1>3 DEF RejectServer, IInv, JobsOK
  <2>2. job'[j] \in Runs /\ job'[j].at = "rejected" /\ job'[j].version = job[j].version
    BY <1>a, <2>1 DEF Runs
  <2>3. OneRun(j) BY <1>3, <1>a, <2>2 DEF RejectServer, OneRun, Unchanged, IInv, JobsOK
  <2>4. Pinned(j)' BY <1>3, <1>a, <2>2, <2>3 DEF RejectServer, JobInv, Pinned, OneRun, rows
  <2> QED BY <2>2, <2>3, <2>4, Outside, Others
<1>4. CASE End(j)
  <2>1. job'[j] = NoJob /\ seen'[j] = NoRows /\ kept'[j] = NoRows BY <1>4 DEF End, IInv, JobsOK
  <2>2. NoJob \in Runs /\ NoRows \in Views BY <1>a DEF NoJob, NoRows, Runs, Views
  <2>3. OneRun(j) BY <1>4, <2>1, <2>2 DEF End, OneRun, IInv, JobsOK
  <2>4. Pinned(j)' BY <1>c, <2>1 DEF Pinned
  <2> QED BY <1>c, <2>1, <2>3, <2>4, Outside, Others
<1>5. CASE Begin(j)
  <2>1. /\ job'[j] = [job[j] EXCEPT !.at = "key"] /\ seen'[j] = RowsNow /\ kept'[j] = RowsNow
        /\ job[j].at = "queued" /\ UNCHANGED rows
    BY <1>5 DEF Begin, IInv, JobsOK
  <2>2. RowsNow \in Views BY DEF RowsNow, Views, LiveConns, IInv, RowsInv, RowsOK
  <2>3. /\ job'[j] \in Runs /\ job'[j].at = "key" /\ job'[j].version = job[j].version
        /\ job'[j].got = job[j].got /\ job'[j].key = job[j].key /\ job'[j].scope = job[j].scope
    BY <1>a, <2>1 DEF Runs
  <2>4. OneRun(j) BY <1>5, <2>1, <2>2, <2>3 DEF Begin, OneRun, IInv, JobsOK
  <2>5. Pinned(j)' BY <1>a, <2>1, <2>3 DEF JobInv, Pinned, rows
  <2>6. Window(j)' BY <2>1 DEF Window, RowsNow, LiveConns, rows
  <2>7. Asking(j)' BY <1>a, <2>1, <2>3 DEF JobInv, Asking
  <2> QED
    BY <2>3, <2>4, <2>5, <2>6, <2>7, Others
       DEF JobInv, Looking, ToolsOK, AllFound, Missing, KeyOK, InSetUp
<1>6. CASE ReadCred(j)
  <2> DEFINE place == <<Reads(job[j].scope), ModelOf(j).provider>>
             grants == DOMAIN GrantsOf(j)
  <2>1. job[j].at = "key" /\ UNCHANGED <<rows, req, changes, seen, kept>>
    BY <1>6 DEF ReadCred, Unchanged
  <2>b. \/ /\ place \in creds
           /\ job' = [job EXCEPT ![j] = [job[j] EXCEPT !.at = "grants", !.key = place, !.left = grants]]
        \/ /\ place \notin creds /\ job[j].scope = 3
           /\ job' = [job EXCEPT ![j] = [job[j] EXCEPT !.at = "grants", !.left = grants]]
        \/ /\ place \notin creds /\ job[j].scope # 3
           /\ job' = [job EXCEPT ![j] = [job[j] EXCEPT !.scope = job[j].scope + 1]]
    BY <1>6 DEF ReadCred
  <2>a. /\ job' = [job EXCEPT ![j] = job'[j]] /\ job'[j].at \in {"key", "grants"}
        /\ job'[j].version = job[j].version /\ job'[j].got = {}
    <3> HIDE DEF place, grants
    <3>1. \/ job'[j] = [job[j] EXCEPT !.at = "grants", !.key = place, !.left = grants]
          \/ job'[j] = [job[j] EXCEPT !.at = "grants", !.left = grants]
          \/ job'[j] = [job[j] EXCEPT !.scope = job[j].scope + 1]
      BY <2>b DEF IInv, JobsOK
    <3>2. job' = [job EXCEPT ![j] = job'[j]] BY <2>b DEF IInv, JobsOK
    <3> QED BY <1>a, <2>1, <3>1, <3>2 DEF JobInv, Asking, Runs
  <2>2. /\ job[j].version \in DOMAIN versions /\ versions[job[j].version] \in Version
        /\ ModelOf(j) = Model[versions[job[j].version].model] /\ GrantsOf(j) \in Grants
    BY <1>a, <1>b, <2>1 DEF JobInv, Pinned, ModelOf, GrantsOf, Version
  <2>3. Prefix[ModelOf(j).string] = Provider(j)
    BY <2>2 DEF IInv, RowsInv, ModelKept, ModelsValid, Valid, Provider, Version
  <2>4. /\ GrantsOf(j)' = GrantsOf(j) /\ Provider(j)' = Provider(j) /\ ModelOf(j)' = ModelOf(j)
        /\ GrantedBy(job[j].version)' = GrantedBy(job[j].version)
    BY <1>a, <2>1, <2>a DEF GrantsOf, Provider, ModelOf, GrantedBy, rows
  <2>5. job[j].scope \in 1..3 /\ place = <<Scopes[job[j].scope], Provider(j)>>
    BY <1>a DEF Runs, Reads, Provider
  <2>6. /\ Environment \notin Places /\ creds \subseteq Places
        /\ Scopes[1] = "agent" /\ Scopes[2] = "team" /\ Scopes[3] = "tenant"
    BY RegistryAssumption DEF Places, Scopes, IInv, RowsInv, RowsOK
  <2>7. grants \in SUBSET Indices BY <2>2 DEF Indices
  <2>10. Pinned(j)' BY <2>1, <2>2, <2>a DEF Pinned, rows
  <2>11. Window(j)' BY <1>a, <2>1, <2>a DEF JobInv, Window, LiveConns, rows
  <2>12. CASE place \in creds
    <3>a. job'[j] = [job[j] EXCEPT !.at = "grants", !.key = place, !.left = grants]
      BY <2>b, <2>12 DEF IInv, JobsOK
    <3>1. /\ job'[j].at = "grants" /\ job'[j].key = place /\ job'[j].left = grants
          /\ place # Environment /\ place[1] = Scopes[job[j].scope] /\ place[2] = Provider(j)
      BY <1>a, <2>5, <2>6, <2>12, <3>a DEF Runs
    <3>b. job'[j] \in Runs
      <4> HIDE DEF place, grants
      <4> QED BY <1>a, <2>6, <2>7, <2>12, <3>a DEF Runs
    <3>c. OneRun(j) BY <1>a, <2>1, <2>a, <3>b DEF OneRun, IInv, JobsOK
    <3>2. place \in seen[j].creds BY <1>a, <2>1, <2>12 DEF JobInv, Window
    <3>3. \A i \in Before(j)' : <<Scopes[i], Provider(j)>> \notin kept[j].creds
      BY <1>a, <2>1, <2>5, <3>1 DEF JobInv, Asking, Before
    <3>4. KeyOK(j)' BY <2>1, <2>3, <2>4, <3>1, <3>2, <3>3 DEF KeyOK
    <3> QED
      BY <2>4, <2>a, <2>10, <2>11, <3>1, <3>4, <3>c, Others
         DEF JobInv, Asking, Looking, ToolsOK, AllFound, Missing
  <2>13. CASE place \notin creds /\ job[j].scope = 3
    <3>a. job'[j] = [job[j] EXCEPT !.at = "grants", !.left = grants]
      BY <2>b, <2>13 DEF IInv, JobsOK
    <3>1. job'[j].at = "grants" /\ job'[j].key = Environment /\ job'[j].left = grants
      BY <1>a, <2>1, <3>a DEF Runs, JobInv, Asking
    <3>b. job'[j] \in Runs
      <4> HIDE DEF grants
      <4> QED BY <1>a, <2>7, <3>a DEF Runs
    <3>c. OneRun(j) BY <1>a, <2>1, <2>a, <3>b DEF OneRun, IInv, JobsOK
    <3>2. \A i \in 1..3 : <<Scopes[i], Provider(j)>> \notin kept[j].creds
      BY <1>a, <2>1, <2>5, <2>13 DEF JobInv, Asking, Window
    <3>3. KeyOK(j)' BY <2>1, <2>3, <2>4, <3>1, <3>2 DEF KeyOK, Before
    <3> QED
      BY <2>4, <2>a, <2>10, <2>11, <3>1, <3>3, <3>c, Others
         DEF JobInv, Asking, Looking, ToolsOK, AllFound, Missing
  <2>14. CASE place \notin creds /\ job[j].scope # 3
    <3>a. job'[j] = [job[j] EXCEPT !.scope = job[j].scope + 1]
      BY <2>b, <2>14 DEF IInv, JobsOK
    <3>1. job'[j].at = "key" /\ job'[j].key = Environment /\ job'[j].scope = job[j].scope + 1
      BY <1>a, <2>1, <3>a DEF Runs, JobInv, Asking
    <3>b. job'[j] \in Runs BY <1>a, <2>5, <2>14, <3>a DEF Runs
    <3>c. OneRun(j) BY <1>a, <2>1, <2>a, <3>b DEF OneRun, IInv, JobsOK
    <3>2. \A i \in 1..3 : i < job[j].scope + 1 => <<Scopes[i], Provider(j)>> \notin kept[j].creds
      BY <1>a, <2>1, <2>5, <2>14 DEF JobInv, Asking, Window
    <3>3. Asking(j)' BY <2>1, <2>4, <2>a, <3>1, <3>2 DEF Asking
    <3> QED
      BY <2>4, <2>a, <2>10, <2>11, <3>1, <3>3, <3>c, Others
         DEF JobInv, Looking, ToolsOK, AllFound, Missing, KeyOK, InSetUp
  <2> QED BY <2>12, <2>13, <2>14
<1>7. CASE ReadGrant(j)
  <2>1. /\ job[j].at = "grants" /\ UNCHANGED <<rows, req, changes, seen, kept>>
        /\ job[j].version \in DOMAIN versions /\ versions[job[j].version] \in Version
        /\ GrantsOf(j) \in Grants
    BY <1>7, <1>a, <1>b DEF ReadGrant, Unchanged, JobInv, Pinned, GrantsOf, Version
  <2>2. PICK i \in job[j].left :
          \/ /\ Lookup(GrantsOf(j)[i]) = {}
             /\ job' = [job EXCEPT ![j].at = "failed"]
          \/ \E x \in Lookup(GrantsOf(j)[i]) :
               job' = [job EXCEPT ![j].got = Equip(@, x, GrantsOf(j)[i].mode), ![j].left = @ \ {i}]
    BY <1>7 DEF ReadGrant
  <2> DEFINE g == GrantsOf(j)[i]
  <2>3. /\ i \in DOMAIN GrantsOf(j) /\ g \in GrantedBy(job[j].version) /\ g.mode \in Modes
        /\ job[j].left \subseteq DOMAIN GrantsOf(j)
    BY <1>a, <1>d, <2>1 DEF JobInv, Looking, Modes
  <2>4. CASE Lookup(g) = {} /\ job' = [job EXCEPT ![j].at = "failed"]
    <3>1. job'[j] = [job[j] EXCEPT !.at = "failed"] BY <2>4 DEF IInv, JobsOK
    <3>2. job'[j] \in Runs /\ job'[j].at = "failed" /\ job'[j].version = job[j].version
      BY <1>a, <3>1 DEF Runs
    <3>3. OneRun(j) BY <1>a, <2>1, <2>4, <3>1, <3>2 DEF OneRun, IInv, JobsOK
    <3>4. GrantedBy(job[j].version)' = GrantedBy(job[j].version)
      BY <2>1, <3>2 DEF GrantedBy, rows
    <3>5. \A x \in kept[j].conns : ~(Named(x, g) /\ Conn[x].tenant = Home)
      BY <1>a, <2>1, <2>4 DEF JobInv, Window, Lookup
    <3>6. Missing(j)' BY <2>1, <2>3, <3>4, <3>5 DEF Missing, Named
    <3>7. Pinned(j)' BY <2>1, <3>2 DEF Pinned, rows
    <3> QED
      BY <3>2, <3>3, <3>6, <3>7, Others
         DEF JobInv, Window, Asking, Looking, ToolsOK, AllFound, KeyOK, InSetUp
  <2>5. ASSUME NEW x \in Lookup(g),
               job' = [job EXCEPT ![j].got = Equip(@, x, g.mode), ![j].left = @ \ {i}]
        PROVE  IInv'
    <3> DEFINE new == [conn |-> x, mode |-> g.mode]
    <3> HIDE DEF g
    <3>1. x \in Conns /\ x \in LiveConns /\ Named(x, g) /\ Conn[x].tenant = Home
      BY DEF Lookup, LiveConns
    <3>2. /\ new \in Equip(job[j].got, x, g.mode) /\ new \in Tools /\ new.conn = x /\ new.mode = g.mode
          /\ \A t \in Equip(job[j].got, x, g.mode) : t = new \/ t \in job[j].got
          /\ \A t \in job[j].got : t \in Equip(job[j].got, x, g.mode) \/ Conn[t.conn].name = Conn[x].name
      BY <2>3, <3>1 DEF Equip, Tools
    <3>3. job'[j] = [job[j] EXCEPT !.got = Equip(job[j].got, x, g.mode), !.left = job[j].left \ {i}]
      BY <2>5 DEF IInv, JobsOK
    <3> HIDE DEF new
    <3>4. /\ job'[j] \in Runs /\ job'[j].at = "grants" /\ job'[j].version = job[j].version
          /\ job'[j].key = job[j].key
          /\ job'[j].got = Equip(job[j].got, x, g.mode) /\ job'[j].left = job[j].left \ {i}
      BY <1>a, <2>1, <3>2, <3>3 DEF Runs
    <3>5. OneRun(j) BY <1>a, <2>1, <2>5, <3>3, <3>4 DEF OneRun, IInv, JobsOK
    <3>6. /\ GrantsOf(j)' = GrantsOf(j) /\ Provider(j)' = Provider(j) /\ ModelOf(j)' = ModelOf(j)
          /\ GrantedBy(job[j].version)' = GrantedBy(job[j].version)
      BY <2>1, <3>4 DEF GrantsOf, Provider, ModelOf, GrantedBy, rows
    <3>7. x \in seen[j].conns BY <1>a, <2>1, <3>1 DEF JobInv, Window
    <3>8. ASSUME NEW h, h = g PROVE Has(j, h)'
      BY <2>1, <3>1, <3>2, <3>4, <3>7, <3>8 DEF Has
    <3>9. \A h : Has(j, h) => Has(j, h)' BY <2>1, <3>2, <3>4 DEF Has, Named
    <3>10. Looking(j)' BY <1>a, <2>1, <2>3, <3>4, <3>6, <3>8, <3>9 DEF JobInv, Looking, g
    <3>11. ToolsOK(j)'
      BY <1>a, <2>1, <2>3, <3>1, <3>2, <3>4, <3>6, <3>7 DEF JobInv, ToolsOK, InSetUp, Named
    <3>12. KeyOK(j)' BY <1>a, <2>1, <3>4, <3>6 DEF JobInv, KeyOK, InSetUp, Before
    <3>13. Pinned(j)' /\ Window(j)'
      BY <1>a, <2>1, <3>4 DEF JobInv, Pinned, Window, LiveConns, rows
    <3> QED
      BY <3>4, <3>5, <3>10, <3>11, <3>12, <3>13, Others DEF JobInv, Asking, AllFound, Missing
  <2> QED BY <2>2, <2>4, <2>5
<1>8. CASE Equipped(j)
  <2>1. /\ job'[j] = [job[j] EXCEPT !.at = "loop"] /\ job[j].at = "grants" /\ job[j].left = {}
        /\ UNCHANGED <<rows, req, changes, seen, kept>>
    BY <1>8 DEF Equipped, IInv, JobsOK, Unchanged
  <2>3. /\ job'[j] \in Runs /\ job'[j].at = "loop" /\ job'[j].version = job[j].version
        /\ job'[j].got = job[j].got /\ job'[j].key = job[j].key
    BY <1>a, <2>1 DEF Runs
  <2>4. OneRun(j) BY <1>8, <1>a, <2>1, <2>3 DEF Equipped, OneRun, IInv, JobsOK
  <2>5. Pinned(j)' BY <1>a, <2>1, <2>3 DEF JobInv, Pinned, rows
  <2>6. /\ GrantsOf(j)' = GrantsOf(j) /\ Provider(j)' = Provider(j) /\ ModelOf(j)' = ModelOf(j)
        /\ GrantedBy(job[j].version)' = GrantedBy(job[j].version)
        /\ \A g : Has(j, g)' <=> Has(j, g)
    BY <2>1, <2>3 DEF GrantsOf, Provider, ModelOf, GrantedBy, Has, Named, rows
  <2>7. AllFound(j)' BY <1>a, <1>d, <2>1, <2>6 DEF JobInv, Looking, AllFound
  <2>8. ToolsOK(j)' BY <1>a, <2>1, <2>3, <2>6 DEF JobInv, ToolsOK, InSetUp, Named
  <2>9. KeyOK(j)' BY <1>a, <2>1, <2>3, <2>6 DEF JobInv, KeyOK, InSetUp, Before
  <2> QED
    BY <2>3, <2>4, <2>5, <2>7, <2>8, <2>9, Others DEF JobInv, Window, Asking, Looking, Missing
<1> QED BY <1>1, <1>2, <1>3, <1>4, <1>5, <1>6, <1>7, <1>8 DEF Run

(* The invariant holds when nothing is registered but the seeded models. *)
LEMMA InitInv == Init => IInv
<1> SUFFICES ASSUME Init PROVE IInv
  OBVIOUS
<1>1. Len(versions) = 0 /\ versions \in Seq(Version) /\ DOMAIN versions = {}
  BY EmptySeq DEF Init
<1>2. NoRequest \in [at : {"idle", "publish", "delete", "register", "unregister"},
                     row : Conns \cup Models \cup {NoRow}, grants : Grants \cup {<<>>}]
  BY DEF NoRequest
<1>a. current \in 0..Len(versions) /\ alias \in 0..Len(versions) BY <1>1 DEF Init
<1>b. RowsOK BY <1>1, <1>2, <1>a DEF Init, RowsOK
<1>c. Requested BY DEF Init, Requested, NoRequest
<1>3. ModelsValid /\ ModelKept BY <1>1, RegistryAssumption DEF Init, ModelsValid, ModelKept, Valid
<1>4. JobsOK BY <1>1 DEF Init, JobsOK, Runs, Views, NoJob, NoRows
<1>5. \A j \in Jobs : JobInv(j)
  BY
     DEF Init, NoJob, JobInv, Pinned, Window, Asking, Looking, ToolsOK, AllFound, Missing, KeyOK,
         InSetUp
<1> QED BY <1>b, <1>c, <1>3, <1>4, <1>5 DEF IInv, RowsInv

(* Every step keeps the invariant. *)
LEMMA NextInv == IInv /\ [Next]_vars => IInv'
<1> SUFFICES ASSUME IInv, [Next]_vars PROVE IInv'
  OBVIOUS
<1>1. ASSUME NEW c \in Clients, Api(c) \/ Ui(c) \/ Owner(c) PROVE IInv'
  <2>1. RowsInv' /\ (Stored \/ Asks) BY <1>1, RegistryAssumption, RequestStep DEF IInv
  <2> QED BY <2>1, StoredStep, AsksStep DEF IInv
<1>2. ASSUME NEW j \in Jobs, Run(j) PROVE IInv'
  BY <1>2, RunStep
<1>3. CASE UNCHANGED vars
  <2>1. RowsInv'
    BY <1>3 DEF vars, rows, IInv, RowsInv, RowsOK, Requested, ModelsValid, ModelKept, Valid
  <2>2. Asks BY <1>3 DEF vars, Asks
  <2> QED BY <2>1, <2>2, AsksStep DEF IInv
<1> QED BY <1>1, <1>2, <1>3 DEF Next

(* The inductive invariant holds for every set of rows, grants, clients      *)
(* and jobs, and any number of changes.                                      *)
THEOREM Invariant == Spec => []IInv
<1> QED BY InitInv, NextInv, PTL DEF Spec

(* The rows, requests and runs stay within their types. *)
THEOREM TypeCorrect == Spec => []TypeOK
<1>1. IInv => TypeOK BY Meaning
<1> QED BY <1>1, Invariant, PTL

(* However requests create and delete rows while a run sets up, what it is   *)
(* given by _resolve_toolsets is what its version grants, in the mode        *)
(* granted, from the agent's tenant; and a set-up fails only for a grant     *)
(* whose row was missing at some moment.                                     *)
THEOREM ToolsFaithful == Spec => []RunFaithful
<1>1. IInv => RunFaithful BY Meaning
<1> QED BY <1>1, Invariant, PTL

(* The key a run uses (_resolve_api_key) is of the provider the model        *)
(* string is sent to, and no nearer scope had a credential for it            *)
(* throughout.                                                               *)
THEOREM KeysFaithful == Spec => []KeyFaithful
<1>1. IInv => KeyFaithful BY Meaning
<1> QED BY <1>1, Invariant, PTL

(* A model a version uses keeps its row, whatever delete_model and           *)
(* create_version do side by side.                                           *)
THEOREM ModelsStay == Spec => []ModelKept
<1>1. IInv => ModelKept BY Meaning
<1> QED BY <1>1, Invariant, PTL
===============================================================================
