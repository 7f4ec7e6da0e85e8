-------------------------------- MODULE Access ---------------------------------
(***************************************************************************)
(* Who may do what.  Users, tenants, teams and the roles of team members   *)
(* are rows; a request is made with an API key (auth/principal.py) or in a *)
(* browser session (ui/routes.py), which a password login or a tenant's    *)
(* own identity provider opens (ui/oidc.py).  A request first resolves its *)
(* principal, a snapshot of the caller's roles, and then runs one handler  *)
(* of the API (api/v1) or of the pages, which mirror each other.           *)
(*                                                                         *)
(* Names are left out (a team is its identity), every team is taken to     *)
(* have one agent, and a user's address is one of Cases of Address[user].  *)
(***************************************************************************)
EXTENDS Naturals, FiniteSets

CONSTANTS
  Users,
  Supers,      \* the users created with is_superuser; nothing changes the flag
  Founder,     \* the superuser `sleeper init` creates
  Address,     \* the mailbox of each user, whatever its capitals
  Cases,       \* how clients of the API write an address; the pages lower it
  Teams,
  Tenants,
  TenantOf,    \* the tenant of each team
  OrgTeams,    \* the org-wide team of each tenant
  FirstTeam,   \* the org-wide team `sleeper init` creates
  KeyIds,
  FirstKey,    \* the key `sleeper init` prints
  Browsers,
  Requests,
  Providers,   \* bound: the tenants that configure an identity provider
  Given,       \* bound: the memberships <<team, user, role>> that requests give
  Issued,      \* bound: the <<scope, team>> of the invoke keys that requests issue
  NoUser, NoKey, Everywhere

ASSUME AccessAssumption ==
  /\ Founder \in Supers /\ Supers \subseteq Users /\ NoUser \notin Users
  /\ Cases \subseteq {"lower", "mixed"}
  /\ TenantOf \in [Teams -> Tenants]
  /\ FirstTeam \in OrgTeams /\ OrgTeams \subseteq Teams
  /\ \A s, t \in OrgTeams : TenantOf[s] = TenantOf[t] => s = t
  /\ FirstKey \in KeyIds /\ NoKey \notin KeyIds
  /\ Everywhere \notin Tenants
  /\ Given \subseteq Teams \X Users \X {"viewer", "editor", "owner"}
  /\ Issued \subseteq {"tenant", "team", "agent"} \X Teams
  /\ Providers \subseteq Tenants

VARIABLES
  users,     \* "absent", or how the address of the user is written
  teams,     \* the teams that exist; a tenant exists with its org-wide team
  role,      \* team_members: the role of each user in each team
  keys,      \* api_keys
  idp,       \* the tenants that have an identity provider configured
  session,   \* each browser: who is signed in, and within which tenant
  req        \* each request: where it is, its principal, and what it has read

vars == <<users, teams, role, keys, idp, session, req>>

Roles == {"viewer", "editor", "owner"}
Scopes == {"tenant", "team", "agent"}

NoRoles == [t \in Teams |-> "none"]
Nobody == [by |-> "none", user |-> NoUser, via |-> Everywhere, roles |-> NoRoles, key |-> NoKey]
Idle == [at |-> "idle", who |-> Nobody, team |-> FirstTeam, user |-> Founder,
         new |-> "none", had |-> "none", seen |-> {}, listed |-> {}]
FreeKey == [kind |-> "none", user |-> NoUser, scope |-> "team", team |-> FirstTeam]
RevokedKey == [FreeKey EXCEPT !.kind = "revoked"]
UserKey(u) == [FreeKey EXCEPT !.kind = "user", !.user = u]
InvokeKey(s, t) == [FreeKey EXCEPT !.kind = "invoke", !.scope = s, !.team = t]

Principals ==
  [by : {"none", "session", "key", "invoke"}, user : Users \cup {NoUser},
   via : Tenants \cup {Everywhere}, roles : [Teams -> Roles \cup {"none"}], key : KeyIds \cup {NoKey}]

TypeOK ==
  /\ users \in [Users -> {"absent", "lower", "mixed"}]
  /\ teams \subseteq Teams
  /\ role \in [Teams -> [Users -> Roles \cup {"none"}]]
  /\ keys \in [KeyIds -> [kind : {"none", "user", "invoke", "revoked"}, user : Users \cup {NoUser},
                          scope : Scopes, team : Teams]]
  /\ idp \subseteq Tenants
  /\ session \in [Browsers -> [user : Users \cup {NoUser}, via : Tenants \cup {Everywhere}]]
  /\ req \in [Requests -> [at : {"idle", "handle", "count", "commit", "put", "cut", "shown"},
                           who : Principals, team : Teams, user : Users,
                           new : Roles \cup {"none"}, had : Roles \cup {"none"},
                           seen : SUBSET Users, listed : SUBSET KeyIds]]

(* `sleeper init`: one tenant with its org-wide team, one superuser who    *)
(* owns it, one key.                                                       *)
Init ==
  /\ users = [u \in Users |-> IF u = Founder THEN "lower" ELSE "absent"]
  /\ teams = {FirstTeam}
  /\ role = [t \in Teams |-> [u \in Users |->
               IF t = FirstTeam /\ u = Founder THEN "owner" ELSE "none"]]
  /\ keys = [k \in KeyIds |-> IF k = FirstKey THEN UserKey(Founder) ELSE FreeKey]
  /\ idp = {}
  /\ session = [b \in Browsers |-> [user |-> NoUser, via |-> Everywhere]]
  /\ req = [q \in Requests |-> Idle]

Registered == {u \in Users : users[u] # "absent"}
Owners(t) == {u \in Users : role[t][u] = "owner"}

-------------------------------------------------------------------------------
(* Sessions.                                                               *)

(* A password is checked against the row with exactly this address.        *)
Login(b) ==
  /\ \E u \in Registered : session' = [session EXCEPT ![b] = [user |-> u, via |-> Everywhere]]
  /\ UNCHANGED <<users, teams, role, keys, idp, req>>

(* The provider of tn vouches for a mailbox: a user who has it, is no      *)
(* superuser and belongs to the tenant gets a session within the tenant.   *)
OidcCallback(b) ==
  /\ \E tn \in idp, u \in Registered \ Supers :
       /\ \E t \in teams : TenantOf[t] = tn /\ role[t][u] # "none"
       /\ session' = [session EXCEPT ![b] = [user |-> u, via |-> tn]]
  /\ UNCHANGED <<users, teams, role, keys, idp, req>>

Logout(b) ==
  /\ session[b].user # NoUser
  /\ session' = [session EXCEPT ![b] = [user |-> NoUser, via |-> Everywhere]]
  /\ UNCHANGED <<users, teams, role, keys, idp, req>>

-------------------------------------------------------------------------------
(* Principals.                                                             *)

(* Mutant: the roles of an SSO session are not narrowed.                   *)
RolesOfEverywhere(u, via) == [t \in Teams |-> role[t][u]]

(* A user's roles, those of one tenant for a session that tenant's own     *)
(* provider opened.                                                        *)
RolesOf(u, via) ==
  [t \in Teams |-> IF via \in {Everywhere, TenantOf[t]} THEN role[t][u] ELSE "none"]

(* Nothing asks a superuser's roles. *)
UserPrincipal(by, u, via) ==
  [by |-> by, user |-> u, via |-> via, key |-> NoKey,
   roles |-> IF u \in Supers THEN NoRoles ELSE RolesOf(u, via)]

(* An invoke key is nobody's: it has no role. *)
InvokePrincipal(k) ==
  [by |-> "invoke", user |-> NoUser, via |-> Everywhere, roles |-> NoRoles, key |-> k]

Resolve(q, who) ==
  /\ req[q].at \in {"idle", "shown"}
  /\ req' = [req EXCEPT ![q] = [Idle EXCEPT !.at = "handle", !.who = who]]
  /\ UNCHANGED <<users, teams, role, keys, idp, session>>

(* ui_user: the session's user and the roles of this very request. *)
ArriveUi(q) ==
  \E b \in Browsers :
    /\ session[b].user # NoUser
    /\ Resolve(q, UserPrincipal("session", session[b].user, session[b].via))

(* get_principal: a key that is not revoked. *)
ArriveApi(q) ==
  \E k \in KeyIds :
    \/ /\ keys[k].kind = "user"
       /\ Resolve(q, UserPrincipal("key", keys[k].user, Everywhere))
    \/ /\ keys[k].kind = "invoke"
       /\ Resolve(q, InvokePrincipal(k))

(* The handler refuses, or redirects to a page of another request. *)
Refuse(q) ==
  /\ req[q].at = "handle"
  /\ req' = [req EXCEPT ![q] = Idle]
  /\ UNCHANGED <<users, teams, role, keys, idp, session>>

Super(w) == w.user \in Supers
HasRole(w, t, ranks) == Super(w) \/ w.roles[t] \in ranks
Owns(w, t) == HasRole(w, t, {"owner"})
MemberOf(w, t) == HasRole(w, t, Roles)

(* rbac.is_tenant_admin. *)
TenantAdmin(w, tn) == \E t \in OrgTeams \cap teams : TenantOf[t] = tn /\ Owns(w, t)

(* rbac.visible_team_ids, by which a tenant is visible. *)
Sees(w, tn) == \E t \in teams : TenantOf[t] = tn /\ MemberOf(w, t)

(* _visible_tenants of the pages. *)
VisibleTenants(w) == {tn \in Tenants : Sees(w, tn)}

(* _tenant_admin_or_redirect of the pages. *)
AdminPage(w, tn) == tn \in VisibleTenants(w) /\ TenantAdmin(w, tn)

(* _team_owner_or_redirect of the pages. *)
OwnerPage(w, t) == t \in teams /\ Owns(w, t)

Api(q) == req[q].at = "handle" /\ req[q].who.by = "key"
Ui(q) == req[q].at = "handle" /\ req[q].who.by = "session"
Done(q) == req' = [req EXCEPT ![q] = Idle]

(* Once its rights are checked a request needs no principal. *)
Allowed(w) == [Nobody EXCEPT !.via = w.via]

-------------------------------------------------------------------------------
(* Users and their keys.                                                   *)

NewKey(q, key) ==
  /\ \E k \in KeyIds : keys[k] = FreeKey /\ keys' = [keys EXCEPT ![k] = key]
  /\ Done(q)
  /\ UNCHANGED <<users, teams, role, idp, session>>

Revoke(q, ks) ==
  /\ keys' = [k \in KeyIds |-> IF k \in ks THEN RevokedKey ELSE keys[k]]
  /\ Done(q)
  /\ UNCHANGED <<users, teams, role, idp, session>>

(* The keys of a user that are not revoked. *)
KeysOf(u) == {k \in KeyIds : keys[k].kind = "user" /\ keys[k].user = u}

(* A user is born with a key; an address in use, written the same, is refused. *)
NewUser(q, u, c) ==
  /\ users[u] = "absent"
  /\ \A v \in Registered : ~(Address[v] = Address[u] /\ users[v] = c)
  /\ users' = [users EXCEPT ![u] = c]
  /\ \E k \in KeyIds : keys[k] = FreeKey /\ keys' = [keys EXCEPT ![k] = UserKey(u)]
  /\ Done(q)
  /\ UNCHANGED <<teams, role, idp, session>>

ApiCreateUser(q) ==
  /\ Api(q) /\ Super(req[q].who)
  /\ \E u \in Users, c \in Cases : NewUser(q, u, c)

UiCreateUser(q) ==
  /\ Ui(q) /\ Super(req[q].who)
  /\ \E u \in Users : NewUser(q, u, "lower")

ApiIssueKey(q) ==
  /\ Api(q)
  /\ \E u \in Registered :
       /\ u = req[q].who.user \/ Super(req[q].who)
       /\ NewKey(q, UserKey(u))

ApiRevokeUserKey(q) ==
  /\ Api(q)
  /\ \E u \in Users : \E k \in KeysOf(u) :
       /\ u = req[q].who.user \/ Super(req[q].who)
       /\ Revoke(q, {k})

UiIssueOwnKey(q) == Ui(q) /\ NewKey(q, UserKey(req[q].who.user))

UiRevokeOwnKey(q) == Ui(q) /\ \E k \in KeysOf(req[q].who.user) : Revoke(q, {k})

UiIssueUserKey(q) ==
  /\ Ui(q) /\ Super(req[q].who)
  /\ \E u \in Registered : NewKey(q, UserKey(u))

UiRevokeUserKey(q) ==
  /\ Ui(q) /\ Super(req[q].who)
  /\ \E u \in Users : \E k \in KeysOf(u) : Revoke(q, {k})

(* "Cut this person off": the keys are listed ... *)
UiRevokeAll(q) ==
  /\ Ui(q) /\ Super(req[q].who)
  /\ \E u \in Registered :
       req' = [req EXCEPT ![q] = [Idle EXCEPT !.at = "cut", !.user = u, !.listed = KeysOf(u)]]
  /\ UNCHANGED <<users, teams, role, keys, idp, session>>

(* ... and revoked in one commit, those issued in between left alone. *)
UiRevokeListed(q) == req[q].at = "cut" /\ Revoke(q, req[q].listed)

-------------------------------------------------------------------------------
(* Invoke keys.                                                            *)

(* api_keys._require_scope_admin. *)
ScopeAdmin(w, s, t) ==
  /\ t \in teams
  /\ IF s = "tenant" THEN t \in OrgTeams /\ TenantAdmin(w, TenantOf[t]) ELSE Owns(w, t)

InvokeKeys == {k \in KeyIds : keys[k].kind = "invoke"}

ApiIssueInvokeKey(q) ==
  /\ Api(q)
  /\ \E s \in Scopes, t \in Teams :
       /\ ScopeAdmin(req[q].who, s, t) /\ <<s, t>> \in Issued
       /\ NewKey(q, InvokeKey(s, t))

ApiRevokeInvokeKey(q) ==
  /\ Api(q)
  /\ \E k \in InvokeKeys : ScopeAdmin(req[q].who, keys[k].scope, keys[k].team) /\ Revoke(q, {k})

(* The pages of an agent, a team and a tenant each handle keys of their scope. *)
UiIssue(q, s, t) == Ui(q) /\ <<s, t>> \in Issued /\ NewKey(q, InvokeKey(s, t))
UiRevoke(q, s, t) ==
  /\ Ui(q)
  /\ \E k \in InvokeKeys : keys[k].scope = s /\ keys[k].team = t /\ Revoke(q, {k})

UiIssueAgentKey(q) == \E t \in teams : Owns(req[q].who, t) /\ UiIssue(q, "agent", t)
UiRevokeAgentKey(q) == \E t \in teams : Owns(req[q].who, t) /\ UiRevoke(q, "agent", t)
UiIssueTenantKey(q) ==
  \E t \in OrgTeams : AdminPage(req[q].who, TenantOf[t]) /\ UiIssue(q, "tenant", t)
UiRevokeTenantKey(q) ==
  \E t \in OrgTeams : AdminPage(req[q].who, TenantOf[t]) /\ UiRevoke(q, "tenant", t)
UiIssueTeamKey(q) == \E t \in Teams : OwnerPage(req[q].who, t) /\ UiIssue(q, "team", t)
UiRevokeTeamKey(q) == \E t \in Teams : OwnerPage(req[q].who, t) /\ UiRevoke(q, "team", t)

-------------------------------------------------------------------------------
(* Tenants and teams.                                                      *)

(* A tenant is born with its org-wide team, which has no member. *)
NewTenant(q) ==
  /\ Super(req[q].who)
  /\ \E t \in OrgTeams \ teams : teams' = teams \cup {t}
  /\ Done(q)
  /\ UNCHANGED <<users, role, keys, idp, session>>

ApiCreateTenant(q) == Api(q) /\ NewTenant(q)
UiCreateTenant(q) == Ui(q) /\ NewTenant(q)

TenantUsers(w, tn) ==
  {w.user} \cup {u \in Users : \E t \in teams : TenantOf[t] = tn /\ role[t][u] # "none"}

(* A team has an owner from birth. *)
NewTeam(q, t, owner) ==
  /\ t \in Teams \ (OrgTeams \cup teams) /\ <<t, owner, "owner">> \in Given
  /\ teams' = teams \cup {t}
  /\ role' = [role EXCEPT ![t][owner] = "owner"]
  /\ Done(q)
  /\ UNCHANGED <<users, keys, idp, session>>

ApiCreateTeam(q) ==
  /\ Api(q)
  /\ \E t \in Teams, u \in Registered : TenantAdmin(req[q].who, TenantOf[t]) /\ NewTeam(q, t, u)

UiCreateTeam(q) ==
  /\ Ui(q)
  /\ \E t \in Teams : \E u \in TenantUsers(req[q].who, TenantOf[t]) :
       AdminPage(req[q].who, TenantOf[t]) /\ NewTeam(q, t, u)

-------------------------------------------------------------------------------
(* Members.                                                                *)

(* The row is loaded.  A role that stays is no write; an owner who would   *)
(* go is counted first.                                                    *)
Load(q, t, u, new) ==
  /\ req' = [req EXCEPT ![q] =
       IF role[t][u] = new THEN Idle
       ELSE [Idle EXCEPT !.at = IF role[t][u] = "owner" THEN "count" ELSE "commit",
                         !.who = Allowed(req[q].who),
                         !.team = t, !.user = u, !.new = new, !.had = role[t][u]]]
  /\ UNCHANGED <<users, teams, role, keys, idp, session>>

ApiSetMember(q) ==
  /\ Api(q)
  /\ \E t \in teams, u \in Registered, new \in Roles :
       Owns(req[q].who, t) /\ <<t, u, new>> \in Given /\ Load(q, t, u, new)

ApiRemoveMember(q) ==
  /\ Api(q)
  /\ \E t \in teams, u \in Registered :
       Owns(req[q].who, t) /\ role[t][u] # "none" /\ Load(q, t, u, "none")

UiSetMemberRole(q) ==
  /\ Ui(q)
  /\ \E t \in Teams, u \in Registered, new \in Roles :
       /\ OwnerPage(req[q].who, t) /\ role[t][u] # "none"
       /\ <<t, u, new>> \in Given /\ Load(q, t, u, new)

UiRemoveMember(q) ==
  /\ Ui(q)
  /\ \E t \in Teams, u \in Registered :
       OwnerPage(req[q].who, t) /\ role[t][u] # "none" /\ Load(q, t, u, "none")

(* The add form looks a mailbox up and sets the role, without the count. *)
UiAddMember(q) ==
  /\ Ui(q)
  /\ \E t \in Teams, u \in Registered, new \in Roles :
       /\ OwnerPage(req[q].who, t) /\ <<t, u, new>> \in Given
       /\ req' = [req EXCEPT ![q] =
            IF role[t][u] = new THEN Idle
            ELSE [Idle EXCEPT !.at = "put", !.who = Allowed(req[q].who),
                              !.team = t, !.user = u, !.new = new, !.had = role[t][u]]]
  /\ UNCHANGED <<users, teams, role, keys, idp, session>>

OthersCounted(r) == Owners(r.team) \ {r.user}

(* Mutant: the owner about to go is not counted out. *)
CountLoose(q) ==
  /\ req[q].at = "count"
  /\ req' = [req EXCEPT ![q] = IF Cardinality(Owners(req[q].team)) < 1 THEN Idle
                               ELSE [@ EXCEPT !.at = "commit", !.seen = OthersCounted(req[q])]]
  /\ UNCHANGED <<users, teams, role, keys, idp, session>>

(* _forbid_removing_last_owner, _is_last_owner: refuse, or go on.          *)
Count(q) ==
  /\ req[q].at = "count"
  /\ req' = [req EXCEPT ![q] = IF Cardinality(Owners(req[q].team)) <= 1 THEN Idle
                               ELSE [@ EXCEPT !.at = "commit", !.seen = OthersCounted(req[q])]]
  /\ UNCHANGED <<users, teams, role, keys, idp, session>>

(* INSERT, UPDATE or DELETE of the one row: a row that another request     *)
(* removed or inserted meanwhile fails the statement.                      *)
Commit(q) ==
  LET r == req[q] IN
  /\ r.at \in {"commit", "put"}
  /\ role' = IF (role[r.team][r.user] = "none") = (r.had = "none")
             THEN [role EXCEPT ![r.team][r.user] = r.new] ELSE role
  /\ Done(q)
  /\ UNCHANGED <<users, teams, keys, idp, session>>

-------------------------------------------------------------------------------
(* Identity providers of a tenant, and pages that only read.               *)

ApiOidc(q) ==
  /\ Api(q)
  /\ \E tn \in Providers :
       /\ Sees(req[q].who, tn) /\ TenantAdmin(req[q].who, tn)
       /\ idp' \in {idp \cup {tn}, idp \ {tn}}
  /\ Done(q)
  /\ UNCHANGED <<users, teams, role, keys, session>>

UiOidc(q) ==
  /\ Ui(q)
  /\ \E tn \in Providers : AdminPage(req[q].who, tn) /\ idp' \in {idp \cup {tn}, idp \ {tn}}
  /\ Done(q)
  /\ UNCHANGED <<users, teams, role, keys, session>>

(* What a response shows is of team t, or of its tenant when t is its org team. *)
Show(q, t) ==
  /\ req' = [req EXCEPT ![q] = [Idle EXCEPT !.at = "shown", !.team = t]]
  /\ UNCHANGED <<users, teams, role, keys, idp, session>>

ApiRead(q) ==
  /\ Api(q)
  /\ \E t \in teams : (MemberOf(req[q].who, t) \/ (t \in OrgTeams /\ Sees(req[q].who, TenantOf[t])))
                      /\ Show(q, t)

UiRead(q) ==
  /\ Ui(q)
  /\ \E t \in teams : (MemberOf(req[q].who, t) \/ (t \in OrgTeams /\ TenantOf[t] \in VisibleTenants(req[q].who)))
                      /\ Show(q, t)

(* jobs._invoke_covers: the agents an invoke key reaches. *)
Covers(k, t) ==
  IF keys[k].scope = "tenant" THEN TenantOf[keys[k].team] = TenantOf[t] ELSE keys[k].team = t

Invoke(q) ==
  /\ req[q].at = "handle" /\ req[q].who.by = "invoke"
  /\ \E t \in teams : Covers(req[q].who.key, t) /\ Show(q, t)

-------------------------------------------------------------------------------
HandleUsers(q) ==
  \/ ApiCreateUser(q) \/ UiCreateUser(q) \/ ApiIssueKey(q) \/ ApiRevokeUserKey(q)
  \/ UiIssueOwnKey(q) \/ UiRevokeOwnKey(q) \/ UiIssueUserKey(q) \/ UiRevokeUserKey(q)
  \/ UiRevokeAll(q) \/ UiRevokeListed(q)

HandleInvokeKeys(q) ==
  \/ ApiIssueInvokeKey(q) \/ ApiRevokeInvokeKey(q) \/ UiIssueAgentKey(q) \/ UiRevokeAgentKey(q)
  \/ UiIssueTenantKey(q) \/ UiRevokeTenantKey(q) \/ UiIssueTeamKey(q) \/ UiRevokeTeamKey(q)

HandleTeams(q) ==
  \/ ApiCreateTenant(q) \/ UiCreateTenant(q) \/ ApiCreateTeam(q) \/ UiCreateTeam(q)
  \/ ApiSetMember(q) \/ ApiRemoveMember(q) \/ UiSetMemberRole(q) \/ UiRemoveMember(q)
  \/ UiAddMember(q) \/ Count(q) \/ Commit(q)

HandleRest(q) == ApiOidc(q) \/ UiOidc(q) \/ ApiRead(q) \/ UiRead(q) \/ Invoke(q) \/ Refuse(q)

Next ==
  \/ \E b \in Browsers : Login(b) \/ OidcCallback(b) \/ Logout(b)
  \/ \E q \in Requests : ArriveUi(q) \/ ArriveApi(q)
  \/ \E q \in Requests : HandleUsers(q) \/ HandleInvokeKeys(q) \/ HandleTeams(q) \/ HandleRest(q)

Spec == Init /\ [][Next]_vars

-------------------------------------------------------------------------------
(* "Every team must keep at least one owner" (api/v1/teams.py:172): a team *)
(* loses its last owner only to the page's add-member form, which does not *)
(* count, or to a request whose reading is out of date: the member became  *)
(* an owner after its role was read, or another owner that was counted has *)
(* gone since.  No row is locked between the reading and the write.        *)
OwnerKept ==
  [][\A t \in Teams : Owners(t) # {} /\ Owners(t)' = {} =>
       \E q \in Requests :
         /\ req[q].at \in {"commit", "put"} /\ req[q].team = t
         /\ \/ req[q].at = "put"
            \/ role[t][req[q].user] # req[q].had
            \/ \E u \in req[q].seen : role[t][u] # "owner"]_vars

(* The same without those two cases, which the code does not ensure        *)
(* (AccessRace.cfg).                                                       *)
OwnerAlways == [][\A t \in Teams : Owners(t) # {} => Owners(t)' # {}]_vars

(* The keys a step issues or revokes, as they were and as they are. *)
KeysTouched == UNION {{keys[k], keys'[k]} : k \in {l \in KeyIds : keys'[l] # keys[l]}}

(* The tenants whose rows a step changes, or shows ... *)
Touched(q) ==
  {TenantOf[t] : t \in {s \in Teams : role'[s] # role[s] \/ (s \in teams') # (s \in teams)}}
  \cup {tn \in Tenants : (tn \in idp') # (tn \in idp)}
  \cup {TenantOf[key.team] : key \in {l \in KeysTouched : l.kind = "invoke"}}
  \cup {TenantOf[t] : t \in {s \in Teams : req'[q].at = "shown" /\ s = req'[q].team}}

(* ... and the users of whom it changes the row or a key. *)
UsersTouched ==
  {u \in Users : users'[u] # users[u]} \cup {key.user : key \in {l \in KeysTouched : l.kind = "user"}}

(* A tenant's identity provider "must not be able to mint a session        *)
(* carrying the user's roles in other tenants" (ui/routes.py:206): what a  *)
(* request of such a session changes or shows lies in its tenant, however  *)
(* the user's roles change between the login and the request, or is a key  *)
(* of its own user.  That key is not narrowed: the account page issues it  *)
(* to every session, and it has the user's roles in all tenants.           *)
Confined ==
  [][\A q \in Requests :
       req[q].at # "idle" /\ req'[q] # req[q] /\ req[q].who.via # Everywhere
         => /\ Touched(q) \subseteq {req[q].who.via}
            /\ UsersTouched \subseteq {req[q].who.user}]_vars

===============================================================================
