------------------------------- MODULE Registry --------------------------------
(***************************************************************************)
(* What an agent's versions refer to and a run resolves: the connections   *)
(* (data stores and MCP servers) a tenant registers, the models of the     *)
(* instance, the provider credentials of a tenant, a team and an agent     *)
(* (api/v1/data_stores.py, mcp_servers.py, models.py, provider_creds.py    *)
(* and their pages), and the set-up of a run that reads them one SELECT at *)
(* a time (runtime/toolsets.py, runtime/providers.py).  Nothing but a      *)
(* check when it is published ties a version's grants to the connections:  *)
(* they are names or ids inside a JSON column, looked up by every run.     *)
(*                                                                         *)
(* There is one agent, in tenant Home.  Rows are never reused, so what a   *)
(* row says is a function of the row.  Version numbers and the races for   *)
(* them are AgentCatalog's, a request's principal is Access's.             *)
(***************************************************************************)
EXTENDS Naturals, Sequences

CONSTANTS
  Clients,
  Superusers,  \* the clients who are instance superusers
  Administers, \* <<client, tenant>>: who administers which tenant
  Owners,      \* the clients who own the agent's team; the others are editors
  Home,        \* the tenant of the agent
  Conns,       \* rows of data_stores and mcp_servers
  Conn,        \* what each says: kind, tenant, name, and whose identity it uses
  Models,      \* rows of the models registry
  Model,       \* what each says: provider, name, model_string
  Seeded,      \* the models `sleeper init` registers
  Prefix,      \* the provider a model_string names
  Providers,
  Offered,     \* the providers the pages offer for a credential
  Jobs,
  Grants,      \* bound: the sequences of grants requests publish
  MaxVersions, \* bound: versions
  MaxChanges,  \* bound: changes of rows other than jobs, after which no request is sent
  NoRow,       \* no row of Conns or Models
  Environment  \* the credential of the process

ASSUME RegistryAssumption ==
  /\ Superusers \subseteq Clients /\ Owners \subseteq Clients
  /\ Conn \in [Conns -> [kind : {"store", "server"}, tenant : {t[2] : t \in Administers} \cup {Home},
                         name : STRING, platform : BOOLEAN]]
  /\ Model \in [Models -> [provider : Providers, name : STRING, string : DOMAIN Prefix]]
  /\ Seeded \subseteq Models /\ \A m \in Seeded : Prefix[Model[m].string] = Model[m].provider
  /\ Offered \subseteq Providers
  /\ Environment \notin {"agent", "team", "tenant"} \X Providers
  /\ MaxVersions \in Nat /\ MaxChanges \in Nat
  /\ NoRow \notin Conns \cup Models

Scopes == <<"agent", "team", "tenant">>
Places == {Scopes[i] : i \in 1..3} \X Providers

VARIABLES
  conn,      \* each connection: "unborn", "live" or "gone"
  model,     \* each model: the same
  creds,     \* provider_creds: the <<scope, provider>> that have a credential
  versions,  \* agent_versions of the agent: its model and its grants
  current,   \* agents.current_version_id as a number, 0 for none
  alias,     \* version_aliases: the version of the agent's alias, 0 without one
  archived,  \* agents.archived_at is set
  req,       \* each client's request: what it does next and what it loaded
  job,       \* each job: where its run is and what it has resolved
  seen,      \* history: the rows that were there at some time in a set-up
  kept,      \* history: the rows that were there all through it
  changes    \* bound: the changes made

rows == <<conn, model, creds, versions, current, alias, archived>>
vars == <<rows, req, job, seen, kept, changes>>

LiveConns == {x \in Conns : conn[x] = "live"}
LiveModels == {m \in Models : model[m] = "live"}

NoRequest == [at |-> "idle", row |-> NoRow, grants |-> <<>>]
NoJob == [at |-> "none", version |-> 0, scope |-> 1, key |-> Environment, left |-> {}, got |-> {}]
RowsNow == [conns |-> LiveConns, creds |-> creds]
NoRows == [conns |-> {}, creds |-> {}]

Modes == UNION {{gs[i].mode : i \in DOMAIN gs} : gs \in Grants}
Tools == [conn : Conns, mode : Modes]

TypeOK ==
  /\ conn \in [Conns -> {"unborn", "live", "gone"}]
  /\ model \in [Models -> {"unborn", "live", "gone"}]
  /\ creds \subseteq Places
  /\ versions \in Seq([model : Models, grants : Grants])
  /\ current \in 0..Len(versions) /\ alias \in 0..Len(versions)
  /\ archived \in BOOLEAN
  /\ req \in [Clients -> [at : {"idle", "publish", "delete", "register", "unregister"},
                          row : Conns \cup Models \cup {NoRow}, grants : Grants \cup {<<>>}]]
  /\ job \in [Jobs -> [at : {"none", "queued", "key", "grants", "loop", "failed", "rejected"},
                       version : 0..Len(versions), scope : 1..3, key : Places \cup {Environment},
                       left : SUBSET (UNION {DOMAIN gs : gs \in Grants}), got : SUBSET Tools]]
  /\ seen \in [Jobs -> [conns : SUBSET Conns, creds : SUBSET Places]]
  /\ kept \in [Jobs -> [conns : SUBSET Conns, creds : SUBSET Places]]
  /\ changes \in Nat

Init ==
  /\ conn = [x \in Conns |-> "unborn"]
  /\ model = [m \in Models |-> IF m \in Seeded THEN "live" ELSE "unborn"]
  /\ creds = {}
  /\ versions = <<>>
  /\ current = 0
  /\ alias = 0
  /\ archived = FALSE
  /\ req = [c \in Clients |-> NoRequest]
  /\ job = [j \in Jobs |-> NoJob]
  /\ seen = [j \in Jobs |-> NoRows]
  /\ kept = [j \in Jobs |-> NoRows]
  /\ changes = 0

(* A change of the rows; every set-up under way sees it or misses it. *)
Change ==
  /\ changes' = changes + 1
  /\ seen' = [j \in Jobs |-> IF job[j].at \notin {"key", "grants"} THEN seen[j]
                             ELSE [conns |-> seen[j].conns \cup LiveConns', creds |-> seen[j].creds \cup creds']]
  /\ kept' = [j \in Jobs |-> IF job[j].at \notin {"key", "grants"} THEN kept[j]
                             ELSE [conns |-> kept[j].conns \cap LiveConns', creds |-> kept[j].creds \cap creds']]

Unchanged == UNCHANGED <<seen, kept, changes>>

(* Client c may send a request: it has none under way, and the bound leaves *)
(* room for its change.                                                     *)
Open(c) == req[c].at = "idle" /\ changes < MaxChanges

(* The request goes on to `at` with what it loaded; its answer. *)
Holds(c, at, row, grants) ==
  /\ Open(c)
  /\ req' = [req EXCEPT ![c] = [at |-> at, row |-> row, grants |-> grants]]
  /\ UNCHANGED <<rows, job>> /\ Unchanged
Answer(c, at) ==
  /\ req[c].at = at
  /\ req' = [req EXCEPT ![c] = NoRequest]

-------------------------------------------------------------------------------
(* Connections.                                                            *)

Admin(c, tenant) == c \in Superusers \/ <<c, tenant>> \in Administers

(* UNIQUE (tenant_id, name) in each of the two tables. *)
NameTaken(x) ==
  \E y \in LiveConns : /\ Conn[y].kind = Conn[x].kind /\ Conn[y].tenant = Conn[x].tenant
                       /\ Conn[y].name = Conn[x].name

(* A tenant's admin registers x.  A local store, a cloud store without     *)
(* credentials and a stdio server run on the platform's identity and are   *)
(* the superusers'.  Two requests that both found the name free meet the   *)
(* constraint, so the check and the INSERT are one step.                   *)
Register(c, x) ==
  /\ Open(c)
  /\ Admin(c, Conn[x].tenant)
  /\ Conn[x].platform => c \in Superusers
  /\ conn[x] = "unborn" /\ ~NameTaken(x)
  /\ conn' = [conn EXCEPT ![x] = "live"]
  /\ UNCHANGED <<model, creds, versions, current, alias, archived, req, job>>
  /\ Change

OfKind(kind) == {x \in Conns : Conn[x].kind = kind}

ApiCreateStore(c) == \E x \in OfKind("store") : Register(c, x)
UiCreateStore(c) == \E x \in OfKind("store") : Register(c, x)
ApiCreateServer(c) == \E x \in OfKind("server") : Register(c, x)
UiCreateServer(c) == \E x \in OfKind("server") : Register(c, x)

Remove(x) ==
  /\ conn' = [conn EXCEPT ![x] = "gone"]
  /\ UNCHANGED <<model, creds, versions, current, alias, archived, job>>
  /\ Change

(* The API deletes what it finds, granted or not. *)
ApiDelete(c, x) ==
  /\ Open(c)
  /\ conn[x] = "live" /\ Admin(c, Conn[x].tenant)
  /\ Remove(x)
  /\ UNCHANGED req

ApiDeleteStore(c) == \E x \in OfKind("store") : ApiDelete(c, x)
ApiDeleteServer(c) == \E x \in OfKind("server") : ApiDelete(c, x)

(* A grant names a connection or gives its id. *)
Named(x, g) == Conn[x].kind = g.kind /\ g.ref \in {x, Conn[x].name}
GrantedBy(n) == {versions[n].grants[i] : i \in DOMAIN versions[n].grants}

(* _versions_granting: the current version of an agent that is not archived. *)
Granting(x) ==
  /\ current # 0 /\ ~archived /\ Conn[x].tenant = Home
  /\ \E g \in GrantedBy(current) : Named(x, g)

(* The page looks for holders first, and deletes in a later statement. *)
UiDelete(c, x) ==
  /\ conn[x] = "live" /\ Admin(c, Conn[x].tenant)
  /\ ~Granting(x)
  /\ Holds(c, "delete", x, <<>>)

UiDeleteStore(c) == \E x \in OfKind("store") : UiDelete(c, x)
UiDeleteServer(c) == \E x \in OfKind("server") : UiDelete(c, x)

UiDeleteCommit(c) ==
  /\ Answer(c, "delete")
  /\ IF conn[req[c].row] = "live" THEN Remove(req[c].row)
     ELSE UNCHANGED <<rows, job>> /\ Unchanged

-------------------------------------------------------------------------------
(* Models.                                                                 *)

(* Mutant: provider and model_string may disagree. *)
ValidAny(m) == TRUE

(* validate_model_registration: the credential is looked up by provider,   *)
(* the client built from model_string's prefix.                            *)
Valid(m) == Prefix[Model[m].string] = Model[m].provider

(* UNIQUE (provider, name). *)
ModelTaken(m) ==
  \E o \in LiveModels : Model[o].provider = Model[m].provider /\ Model[o].name = Model[m].name

AddModel(m) ==
  /\ model' = [model EXCEPT ![m] = "live"]
  /\ UNCHANGED <<conn, creds, versions, current, alias, archived, job>>
  /\ Change

ApiCreateModel(c) ==
  /\ Open(c) /\ c \in Superusers
  /\ \E m \in Models : model[m] = "unborn" /\ Valid(m) /\ ~ModelTaken(m) /\ AddModel(m)
  /\ UNCHANGED req

(* The page also refuses a model_string that another row has; no constraint *)
(* repeats that check.                                                      *)
UiCreateModel(c) ==
  /\ c \in Superusers
  /\ \E m \in Models :
       /\ model[m] = "unborn" /\ Valid(m) /\ ~ModelTaken(m)
       /\ \A o \in LiveModels : Model[o].string # Model[m].string
       /\ Holds(c, "register", m, <<>>)

UiModelCommit(c) ==
  LET m == req[c].row IN
  /\ Answer(c, "register")
  /\ IF model[m] = "unborn" /\ ~ModelTaken(m) THEN AddModel(m)
     ELSE UNCHANGED <<rows, job>> /\ Unchanged

UsesModel(m) == \E n \in DOMAIN versions : versions[n].model = m

(* Mutant: agent_versions.model_id may point nowhere. *)
DropModelAny(m) == model' = [model EXCEPT ![m] = "gone"]

(* The foreign key agent_versions.model_id refuses the DELETE. *)
DropModel(m) == ~UsesModel(m) /\ model' = [model EXCEPT ![m] = "gone"]

ApiDeleteModel(c) ==
  /\ Open(c) /\ c \in Superusers
  /\ \E m \in LiveModels : DropModel(m)
  /\ UNCHANGED <<conn, creds, versions, current, alias, archived, req, job>>
  /\ Change

(* The page looks for versions that use the model before it deletes. *)
UiDeleteModel(c) ==
  /\ c \in Superusers
  /\ \E m \in LiveModels : ~UsesModel(m) /\ Holds(c, "unregister", m, <<>>)

UiDeleteModelCommit(c) ==
  LET m == req[c].row IN
  /\ Answer(c, "unregister")
  /\ UNCHANGED <<conn, creds, versions, current, alias, archived, job>>
  /\ \/ model[m] = "live" /\ DropModel(m) /\ Change
     \/ (model[m] # "live" \/ UsesModel(m)) /\ UNCHANGED model /\ Unchanged

-------------------------------------------------------------------------------
(* Provider credentials.                                                   *)

(* _gate: a tenant's admin, or an owner of the agent's team. *)
MayCred(c, scope) ==
  /\ Open(c)
  /\ IF scope = "tenant" THEN Admin(c, Home) ELSE c \in Superusers \cup Owners

(* UNIQUE (scope, scope_id, provider): an upsert that lost a race fails. *)
SetCred(scope, p) ==
  /\ creds' = creds \cup {<<scope, p>>}
  /\ UNCHANGED <<conn, model, versions, current, alias, archived, req, job>>
  /\ Change

DeleteCred(scope, p) ==
  /\ <<scope, p>> \in creds
  /\ creds' = creds \ {<<scope, p>>}
  /\ UNCHANGED <<conn, model, versions, current, alias, archived, req, job>>
  /\ Change

ApiSetCred(c) == \E pl \in Places \ creds : MayCred(c, pl[1]) /\ SetCred(pl[1], pl[2])
ApiDeleteCred(c) == \E pl \in creds : MayCred(c, pl[1]) /\ DeleteCred(pl[1], pl[2])

(* The pages of a tenant, a team and an agent; they delete any provider's. *)
UiSetTenantCred(c) == MayCred(c, "tenant") /\ \E p \in Offered : SetCred("tenant", p)
UiDeleteTenantCred(c) == MayCred(c, "tenant") /\ \E p \in Providers : DeleteCred("tenant", p)
UiSetTeamCred(c) == MayCred(c, "team") /\ \E p \in Offered : SetCred("team", p)
UiDeleteTeamCred(c) == MayCred(c, "team") /\ \E p \in Providers : DeleteCred("team", p)
UiSetAgentCred(c) == MayCred(c, "agent") /\ \E p \in Offered : SetCred("agent", p)
UiDeleteAgentCred(c) == MayCred(c, "agent") /\ \E p \in Providers : DeleteCred("agent", p)

-------------------------------------------------------------------------------
(* Versions, and what is dispatched.                                       *)

(* resolve_model: a row with this model_string, whichever comes first. *)
ApiPublish(c) ==
  /\ Len(versions) < MaxVersions
  /\ \E m \in LiveModels, gs \in Grants : Holds(c, "publish", m, gs)

(* _check_grants: every name is a connection of the tenant, none is twice.  *)
Checked(gs) ==
  /\ \A i \in DOMAIN gs : \E x \in LiveConns :
       Conn[x].kind = gs[i].kind /\ Conn[x].tenant = Home /\ Conn[x].name = gs[i].ref
  /\ \A i, k \in DOMAIN gs : gs[i].kind = gs[k].kind /\ gs[i].ref = gs[k].ref => i = k

UiPublish(c) ==
  /\ Len(versions) < MaxVersions /\ ~archived
  /\ \E m \in LiveModels, gs \in Grants : Checked(gs) /\ Holds(c, "publish", m, gs)

(* The INSERT; the first version becomes the current one. *)
InsertVersion(c) ==
  LET m == req[c].row IN
  /\ Answer(c, "publish")
  /\ IF model[m] = "live" /\ Len(versions) < MaxVersions
     THEN /\ versions' = Append(versions, [model |-> m, grants |-> req[c].grants])
          /\ current' = IF current = 0 THEN Len(versions) + 1 ELSE current
          /\ UNCHANGED <<conn, model, creds, alias, archived, job>>
          /\ Change
     ELSE UNCHANGED <<rows, job>> /\ Unchanged

(* An owner promotes a version, sets the alias, archives, restores: none of *)
(* them looks at the grants.                                                *)
Promote(c) ==
  /\ Open(c) /\ c \in Owners
  /\ \E n \in DOMAIN versions \ {current} : current' = n
  /\ UNCHANGED <<conn, model, creds, versions, alias, archived, req, job>>
  /\ Change

SetAlias(c) ==
  /\ Open(c) /\ c \in Owners
  /\ \E n \in DOMAIN versions \ {alias} : alias' = n
  /\ UNCHANGED <<conn, model, creds, versions, current, archived, req, job>>
  /\ Change

Archive(c) ==
  /\ Open(c) /\ c \in Owners
  /\ archived' = ~archived
  /\ UNCHANGED <<conn, model, creds, versions, current, alias, req, job>>
  /\ Change

(* A submission pins the current version, the alias's, or one it names. *)
Submit(j) ==
  /\ job[j].at = "none" /\ ~archived
  /\ \E n \in DOMAIN versions :
       job' = [job EXCEPT ![j] = [NoJob EXCEPT !.at = "queued", !.version = n]]
  /\ UNCHANGED <<rows, req>> /\ Unchanged

Retry(j) ==
  /\ job[j].at \in {"failed", "rejected"} /\ ~archived
  /\ job' = [job EXCEPT ![j] = [NoJob EXCEPT !.at = "queued", !.version = job[j].version]]
  /\ UNCHANGED <<rows, req>> /\ Unchanged

-------------------------------------------------------------------------------
(* The set-up of a run.                                                    *)

ModelOf(j) == Model[versions[job[j].version].model]

(* The attempt is committed as running, its version and model in hand. *)
Begin(j) ==
  /\ job[j].at = "queued"
  /\ job' = [job EXCEPT ![j].at = "key"]
  /\ seen' = [seen EXCEPT ![j] = RowsNow]
  /\ kept' = [kept EXCEPT ![j] = RowsNow]
  /\ UNCHANGED <<rows, req, changes>>

GrantsOf(j) == versions[job[j].version].grants

(* The grant looked up next: servers first, each kind in the order granted. *)
ServersFirst(gs, left, i) ==
  /\ i \in left
  /\ \A k \in left : gs[k].kind = gs[i].kind => i <= k
  /\ \A k \in left : gs[k].kind = "server" => gs[i].kind = "server"

(* Mutant: a broader credential overrides a narrower one. *)
ReadsWidest(i) == Scopes[4 - i]

(* The order in which resolve_api_key asks. *)
Reads(i) == Scopes[i]

(* resolve_api_key: one SELECT per scope, then the environment. *)
ReadCred(j) ==
  LET place == <<Reads(job[j].scope), ModelOf(j).provider>>
      grants == DOMAIN GrantsOf(j) IN
  /\ job[j].at = "key"
  /\ job' = [job EXCEPT ![j] =
       IF place \in creds THEN [@ EXCEPT !.at = "grants", !.key = place, !.left = grants]
       ELSE IF @.scope = 3 THEN [@ EXCEPT !.at = "grants", !.left = grants]
       ELSE [@ EXCEPT !.scope = job[j].scope + 1]]
  /\ UNCHANGED <<rows, req>> /\ Unchanged

(* Mutant: connections of any tenant. *)
LookupAnywhere(g) == {x \in LiveConns : Named(x, g)}

(* _lookup: by id when the reference is one, else by name, in the tenant. *)
Lookup(g) == {x \in LiveConns : Named(x, g) /\ Conn[x].tenant = Home}

(* A store grant replaces one for a store of the same name. *)
Equip(got, x, mode) ==
  [conn : {x}, mode : {mode}]
    \cup {t \in got : ~(Conn[x].kind = "store" /\ Conn[t.conn].kind = "store"
                        /\ Conn[t.conn].name = Conn[x].name)}

ReadGrant(j) ==
  /\ job[j].at = "grants"
  /\ \E i \in job[j].left :
       LET g == GrantsOf(j)[i] IN
       /\ ServersFirst(GrantsOf(j), job[j].left, i)
       /\ \/ /\ Lookup(g) = {}
             /\ job' = [job EXCEPT ![j].at = "failed"]
          \/ \E x \in Lookup(g) :
               job' = [job EXCEPT ![j].got = Equip(@, x, g.mode), ![j].left = @ \ {i}]
  /\ UNCHANGED <<rows, req>> /\ Unchanged

(* A server's address is refused on a fresh resolution, or it has no secret *)
(* to sign the caller's context with.                                       *)
RejectServer(j) ==
  /\ job[j].at = "grants"
  /\ \E i \in job[j].left :
       LET g == GrantsOf(j)[i] IN
       ServersFirst(GrantsOf(j), job[j].left, i) /\ g.kind = "server" /\ Lookup(g) # {}
  /\ job' = [job EXCEPT ![j].at = "rejected"]
  /\ UNCHANGED <<rows, req>> /\ Unchanged

(* The run goes into its loop with these tools and this credential. *)
Equipped(j) ==
  /\ job[j].at = "grants" /\ job[j].left = {}
  /\ job' = [job EXCEPT ![j].at = "loop"]
  /\ UNCHANGED <<rows, req>> /\ Unchanged

End(j) ==
  /\ job[j].at \in {"loop", "failed", "rejected"}
  /\ job' = [job EXCEPT ![j] = NoJob]
  /\ seen' = [seen EXCEPT ![j] = NoRows]
  /\ kept' = [kept EXCEPT ![j] = NoRows]
  /\ UNCHANGED <<rows, req, changes>>

-------------------------------------------------------------------------------
Api(c) ==
  \/ ApiCreateStore(c) \/ ApiCreateServer(c) \/ ApiDeleteStore(c) \/ ApiDeleteServer(c)
  \/ ApiCreateModel(c) \/ ApiDeleteModel(c) \/ ApiSetCred(c) \/ ApiDeleteCred(c)
  \/ ApiPublish(c)

Ui(c) ==
  \/ UiCreateStore(c) \/ UiCreateServer(c) \/ UiDeleteStore(c) \/ UiDeleteServer(c)
  \/ UiDeleteCommit(c) \/ UiCreateModel(c) \/ UiModelCommit(c) \/ UiDeleteModel(c)
  \/ UiDeleteModelCommit(c) \/ UiPublish(c)
  \/ UiSetTenantCred(c) \/ UiDeleteTenantCred(c) \/ UiSetTeamCred(c) \/ UiDeleteTeamCred(c)
  \/ UiSetAgentCred(c) \/ UiDeleteAgentCred(c)

Run(j) ==
  \/ Submit(j) \/ Retry(j) \/ Begin(j) \/ ReadCred(j) \/ ReadGrant(j) \/ RejectServer(j)
  \/ Equipped(j) \/ End(j)

Owner(c) == Promote(c) \/ SetAlias(c) \/ Archive(c) \/ InsertVersion(c)

Next ==
  \/ \E c \in Clients : Api(c) \/ Ui(c) \/ Owner(c)
  \/ \E j \in Jobs : Run(j)

Spec == Init /\ [][Next]_vars

(* Without the API's requests. *)
PagesNext ==
  \/ \E c \in Clients : Ui(c) \/ Owner(c)
  \/ \E j \in Jobs : Run(j)

PagesSpec == Init /\ [][PagesNext]_vars

-------------------------------------------------------------------------------
(* Properties.                                                             *)

InSetUp(j) == job[j].at \in {"grants", "loop"}

(* A run that gets through its set-up has a tool for every grant of its     *)
(* version and no other: each is a connection of the agent's own tenant     *)
(* that was registered at some time during the set-up, with the mode a      *)
(* grant of it gives.  A run fails for a missing connection only when some   *)
(* grant had none that stayed registered throughout (toolsets._lookup,      *)
(* build_mcp_toolsets, build_store_toolset).                                *)
RunFaithful ==
  \A j \in Jobs :
    LET granted == GrantedBy(job[j].version) IN
    /\ InSetUp(j) => \A t \in job[j].got :
         /\ Conn[t.conn].tenant = Home /\ t.conn \in seen[j].conns
         /\ \E g \in granted : Named(t.conn, g) /\ g.mode = t.mode
    /\ job[j].at = "loop" => \A g \in granted : \E t \in job[j].got :
         \E x \in seen[j].conns : Named(x, g) /\ Conn[x].name = Conn[t.conn].name
    /\ job[j].at = "failed" => \E g \in granted : \A x \in kept[j].conns :
         ~(Named(x, g) /\ Conn[x].tenant = Home)

(* The credential of a run is of its model's provider, the one its client   *)
(* is built for, from a scope that had it during the set-up; no narrower    *)
(* scope, and for the environment no scope at all, had one all along        *)
(* (providers.resolve_api_key, validate_model_registration).                *)
KeyFaithful ==
  \A j \in Jobs : InSetUp(j) =>
    LET p == ModelOf(j).provider
        before == IF job[j].key = Environment THEN 1..3
                  ELSE {i \in 1..3 : \A k \in 1..i : Scopes[k] # job[j].key[1]} IN
    /\ Prefix[ModelOf(j).string] = p
    /\ job[j].key # Environment => job[j].key[2] = p /\ job[j].key \in seen[j].creds
    /\ \A i \in before : <<Scopes[i], p>> \notin kept[j].creds

(* The model of every version stays registered, whatever requests to        *)
(* publish and to delete it cross (models.delete_model, ui_delete_model).   *)
ModelKept == \A n \in DOMAIN versions : model[versions[n].model] = "live"

(* The versions a job runs or can be submitted for.                         *)
Dispatched ==
  ((IF archived THEN {} ELSE {current, alias})
     \cup {job[j].version : j \in {j \in Jobs : job[j].at = "queued"}}) \ {0}

(* ui/routes.py 2589: a dangling grant on a version nothing dispatches to   *)
(* cannot break a run.  So the page deletes no connection that a version    *)
(* grants to which something dispatches.                                    *)
PageDeletesSpare ==
  [][\A c \in Clients : req[c].at = "delete" /\ req'[c].at = "idle" =>
       \A n \in Dispatched : \A g \in GrantedBy(n) :
         ~(conn[req[c].row] = "live" /\ Conn[req[c].row].tenant = Home /\ Named(req[c].row, g))]_vars

===============================================================================
