----------------------------- MODULE AccessProofs -----------------------------
(***************************************************************************)
(* The confinement of sessions, and that a team keeps an owner but to a    *)
(* request whose reading is out of date, proved for every set of users,    *)
(* tenants, teams, keys, browsers and concurrent requests.                 *)
(*                                                                         *)
(* Confined speaks of one step.  That a step respects it needs to know how *)
(* its request got its principal: Narrow says that a session which a       *)
(* tenant's provider opened is no superuser's, that the roles a request of *)
(* such a session took with it are those of the tenant, and that the team  *)
(* whose membership it is about to write lies there.                       *)
(*                                                                         *)
(* OwnerKept needs that a request which takes an owner counted another     *)
(* (Loaded); what became of that one since is left open, as no row is      *)
(* locked between the count and the write.                                 *)
(***************************************************************************)
EXTENDS Access, FiniteSetTheorems, TLAPS

NarrowSession ==
  \A b \in Browsers : session[b].via # Everywhere => session[b].user \notin Supers

NarrowRequest ==
  \A q \in Requests : req[q].who.via # Everywhere =>
    /\ req[q].who.by \in {"session", "none"}
    /\ req[q].who.user \notin Supers
    /\ \A t \in Teams : req[q].who.roles[t] # "none" => TenantOf[t] = req[q].who.via

NarrowWrite ==
  \A q \in Requests : req[q].who.via # Everywhere =>
    /\ req[q].at # "cut"
    /\ req[q].at \in {"count", "commit", "put"} => TenantOf[req[q].team] = req[q].who.via

Narrow == NarrowSession /\ NarrowRequest /\ NarrowWrite

(* A user's key and a session's request have a user. *)
Signed ==
  /\ \A k \in KeyIds : keys[k].kind = "user" => keys[k].user \in Users
  /\ \A q \in Requests : req[q].who.by = "session" => req[q].who.user \in Users

IInv == TypeOK /\ Narrow /\ Signed

KeyType ==
  [kind : {"none", "user", "invoke", "revoked"}, user : Users \cup {NoUser}, scope : Scopes,
   team : Teams]
ReqType ==
  [at : {"idle", "handle", "count", "commit", "put", "cut", "shown"}, who : Principals,
   team : Teams, user : Users, new : Roles \cup {"none"}, had : Roles \cup {"none"},
   seen : SUBSET Users, listed : SUBSET KeyIds]

(* What a step of request q shows and changes lies in its tenant, or is a  *)
(* key of its user, if its principal is narrowed.                          *)
Within(q) ==
  req[q].who.via # Everywhere =>
    /\ Touched(q) \subseteq {req[q].who.via}
    /\ UsersTouched \subseteq {req[q].who.user}

(* A request idles with nobody's principal, which is not narrowed. *)
LEMMA IdleTyped ==
  ASSUME AccessAssumption
  PROVE  /\ Nobody \in Principals
         /\ Idle.who.via = Everywhere
         /\ Idle \in ReqType
<1>1. FirstTeam \in Teams /\ Founder \in Users BY DEF AccessAssumption
<1>2. NoRoles \in [Teams -> Roles \cup {"none"}] BY DEF NoRoles
<1>3. Nobody \in Principals BY <1>2 DEF Nobody, Principals
<1> QED BY <1>1, <1>3 DEF Idle, Nobody, ReqType

LEMMA KeyTyped ==
  ASSUME AccessAssumption
  PROVE  /\ FreeKey \in KeyType
         /\ RevokedKey \in KeyType /\ RevokedKey.kind = "revoked"
         /\ \A u \in Users :
              /\ UserKey(u) \in KeyType
              /\ UserKey(u).kind = "user" /\ UserKey(u).user = u
         /\ \A s \in Scopes, t \in Teams :
              /\ InvokeKey(s, t) \in KeyType
              /\ InvokeKey(s, t).kind = "invoke" /\ InvokeKey(s, t).team = t
<1>1. FreeKey \in KeyType BY DEF AccessAssumption, FreeKey, KeyType, Scopes
<1>2. ASSUME NEW u \in Users
      PROVE  /\ UserKey(u) \in KeyType
             /\ UserKey(u).kind = "user" /\ UserKey(u).user = u
  BY <1>1 DEF UserKey, KeyType
<1>3. ASSUME NEW s \in Scopes, NEW t \in Teams
      PROVE  /\ InvokeKey(s, t) \in KeyType
             /\ InvokeKey(s, t).kind = "invoke" /\ InvokeKey(s, t).team = t
  BY <1>1 DEF InvokeKey, KeyType
<1>4. RevokedKey \in KeyType /\ RevokedKey.kind = "revoked" BY <1>1 DEF RevokedKey, KeyType
<1> QED BY <1>1, <1>2, <1>3, <1>4

LEMMA InitInv == ASSUME AccessAssumption, Init PROVE IInv
<1>1. \A q \in Requests : req[q] = Idle BY DEF Init
<1>2. \A b \in Browsers : session[b].via = Everywhere BY DEF Init
<1>3. Narrow
  BY <1>1, <1>2, IdleTyped DEF Narrow, NarrowSession, NarrowRequest, NarrowWrite
<1>4. FirstTeam \in Teams /\ Founder \in Users BY DEF AccessAssumption
<1>5. users \in [Users -> {"absent", "lower", "mixed"}] BY DEF Init
<1>6. teams \subseteq Teams BY <1>4 DEF Init
<1>7. role \in [Teams -> [Users -> Roles \cup {"none"}]] BY DEF Init, Roles
<1>8. keys \in [KeyIds -> KeyType] BY <1>4, KeyTyped DEF Init
<1>9. idp \subseteq Tenants BY DEF Init
<1>10. session \in [Browsers -> [user : Users \cup {NoUser}, via : Tenants \cup {Everywhere}]]
  BY DEF Init
<1>11. req \in [Requests -> ReqType] BY IdleTyped DEF Init
<1>12. Signed
  <2>1. \A k \in KeyIds : keys[k].kind = "user" => keys[k].user = Founder
    BY DEF Init, FreeKey, UserKey
  <2> QED BY <1>1, <1>4, <2>1 DEF Signed, Idle, Nobody
<1> QED
  BY <1>3, <1>5, <1>6, <1>7, <1>8, <1>9, <1>10, <1>11, <1>12 DEF IInv, TypeOK, KeyType, ReqType

(* What a narrowed principal may do is of its tenant. *)
LEMMA NarrowRights ==
  ASSUME NEW w, w.user \notin Supers, NEW tn,
         \A t \in Teams : w.roles[t] # "none" => TenantOf[t] = tn
  PROVE  /\ ~Super(w)
         /\ \A t \in Teams : Owns(w, t) \/ MemberOf(w, t) => TenantOf[t] = tn
         /\ teams \subseteq Teams =>
              \A o \in Tenants : TenantAdmin(w, o) \/ Sees(w, o) \/ AdminPage(w, o) => o = tn
<1>1. ~Super(w) BY DEF Super
<1>2. ASSUME NEW t \in Teams, Owns(w, t) \/ MemberOf(w, t) PROVE TenantOf[t] = tn
  BY <1>1, <1>2 DEF Owns, MemberOf, HasRole, Roles
<1>3. ASSUME teams \subseteq Teams, NEW o \in Tenants,
             TenantAdmin(w, o) \/ Sees(w, o) \/ AdminPage(w, o)
      PROVE  o = tn
  BY <1>2, <1>3 DEF TenantAdmin, Sees, AdminPage
<1> QED BY <1>1, <1>2, <1>3

(* Where a request goes: to a record that keeps the invariant.             *)
LEMMA GoTyped ==
  ASSUME IInv, NEW q \in Requests, NEW r \in ReqType, req' = [req EXCEPT ![q] = r],
         UNCHANGED session,
         r.who.via # Everywhere =>
           /\ r.who.by \in {"session", "none"}
           /\ r.who.user \notin Supers
           /\ \A t \in Teams : r.who.roles[t] # "none" => TenantOf[t] = r.who.via
           /\ r.at # "cut"
           /\ r.at \in {"count", "commit", "put"} => TenantOf[r.team] = r.who.via,
         r.who.by = "session" => r.who.user \in Users
  PROVE  /\ Narrow'
         /\ \A p \in Requests : req'[p].who.by = "session" => req'[p].who.user \in Users
         /\ req' \in [Requests -> ReqType]
         /\ req'[q] = r
<1>1. req \in [Requests -> ReqType] BY DEF IInv, TypeOK, ReqType
<1>2. req' \in [Requests -> ReqType] /\ req'[q] = r BY <1>1
<1>3. \A p \in Requests : p # q => req'[p] = req[p] BY <1>1
<1>4. NarrowSession' BY DEF IInv, Narrow, NarrowSession
<1>5. NarrowRequest' BY <1>2, <1>3 DEF IInv, Narrow, NarrowRequest
<1>6. NarrowWrite' BY <1>2, <1>3 DEF IInv, Narrow, NarrowWrite
<1>7. \A p \in Requests : req'[p].who.by = "session" => req'[p].who.user \in Users
  BY <1>2, <1>3 DEF IInv, Signed
<1> QED BY <1>2, <1>4, <1>5, <1>6, <1>7 DEF Narrow

LEMMA DoneTyped ==
  ASSUME AccessAssumption, IInv, NEW q \in Requests, Done(q), UNCHANGED session
  PROVE  /\ Narrow'
         /\ \A p \in Requests : req'[p].who.by = "session" => req'[p].who.user \in Users
         /\ req' \in [Requests -> ReqType]
         /\ req'[q].at = "idle"
<1>1. Idle \in ReqType /\ Idle.who.via = Everywhere BY IdleTyped
<1>2. req' = [req EXCEPT ![q] = Idle] BY DEF Done
<1>3. Idle.who.by # "session" BY DEF Idle, Nobody
<1>4. /\ Narrow'
      /\ \A p \in Requests : req'[p].who.by = "session" => req'[p].who.user \in Users
      /\ req' \in [Requests -> ReqType] /\ req'[q] = Idle
  BY <1>1, <1>2, <1>3, GoTyped
<1> QED BY <1>4 DEF Idle

(* The types of a request and of its principal. *)
LEMMA ReqTyped ==
  ASSUME IInv, NEW q \in Requests
  PROVE  /\ req[q] \in ReqType
         /\ req[q].who \in Principals
         /\ teams \subseteq Teams
         /\ role \in [Teams -> [Users -> Roles \cup {"none"}]]
         /\ keys \in [KeyIds -> KeyType]
BY DEF IInv, TypeOK, ReqType, KeyType

-------------------------------------------------------------------------------
LEMMA SessionSet ==
  ASSUME IInv, NEW b \in Browsers,
         NEW s \in [user : Users \cup {NoUser}, via : Tenants \cup {Everywhere}],
         session' = [session EXCEPT ![b] = s], s.via # Everywhere => s.user \notin Supers,
         UNCHANGED <<users, teams, role, keys, idp, req>>
  PROVE  IInv'
<1>1. session \in [Browsers -> [user : Users \cup {NoUser}, via : Tenants \cup {Everywhere}]]
  BY DEF IInv, TypeOK
<1>2. session' \in [Browsers -> [user : Users \cup {NoUser}, via : Tenants \cup {Everywhere}]]
  BY <1>1
<1>3. \A a \in Browsers : session'[a] = IF a = b THEN s ELSE session[a] BY <1>1
<1>4. NarrowSession' BY <1>3 DEF IInv, Narrow, NarrowSession
<1>5. NarrowRequest' /\ NarrowWrite' BY DEF IInv, Narrow, NarrowRequest, NarrowWrite
<1>6. Signed' BY DEF IInv, Signed
<1>7. TypeOK' BY <1>2 DEF IInv, TypeOK
<1> QED BY <1>4, <1>5, <1>6, <1>7 DEF IInv, Narrow

LEMMA SessionStep ==
  ASSUME AccessAssumption, IInv, NEW b \in Browsers, Login(b) \/ OidcCallback(b) \/ Logout(b)
  PROVE  IInv' /\ UNCHANGED req
<1>1. UNCHANGED <<users, teams, role, keys, idp, req>> BY DEF Login, OidcCallback, Logout
<1>2. CASE Login(b)
  <2>1. PICK u \in Registered : session' = [session EXCEPT ![b] = [user |-> u, via |-> Everywhere]]
    BY <1>2 DEF Login
  <2>2. u \in Users BY DEF Registered
  <2> QED BY <1>1, <2>1, <2>2, SessionSet
<1>3. CASE OidcCallback(b)
  <2>1. PICK tn \in idp, u \in Registered \ Supers :
          session' = [session EXCEPT ![b] = [user |-> u, via |-> tn]]
    BY <1>3 DEF OidcCallback
  <2>2. u \in Users /\ tn \in Tenants BY DEF Registered, IInv, TypeOK
  <2> QED BY <1>1, <2>1, <2>2, SessionSet
<1>4. CASE Logout(b)
  <2>1. session' = [session EXCEPT ![b] = [user |-> NoUser, via |-> Everywhere]]
    BY <1>4 DEF Logout
  <2> QED BY <1>1, <2>1, SessionSet
<1> QED BY <1>1, <1>2, <1>3, <1>4

-------------------------------------------------------------------------------
(* Requests made with a key and those of superusers are not narrowed. *)
LEMMA Wide ==
  ASSUME IInv, NEW q \in Requests, Api(q) \/ Super(req[q].who) \/ req[q].at = "cut"
  PROVE  req[q].who.via = Everywhere
BY DEF IInv, Narrow, NarrowRequest, NarrowWrite, Api, Super

(* A step that changes no row and shows nothing touches nothing. *)
LEMMA Quiet ==
  ASSUME NEW q \in Requests, UNCHANGED <<users, teams, role, keys, idp>>, req'[q].at # "shown"
  PROVE  Within(q)
<1>1. KeysTouched = {} BY DEF KeysTouched
<1> QED BY <1>1 DEF Within, Touched, UsersTouched

(* Its rights checked, a request keeps of its principal only the tenant.   *)
LEMMA AllowedTyped ==
  ASSUME AccessAssumption, NEW w \in Principals
  PROVE  LET a == Allowed(w) IN
         /\ a \in Principals /\ a.via = w.via /\ a.by = "none" /\ a.user \notin Supers
         /\ \A t \in Teams : a.roles[t] = "none"
<1>1. NoRoles \in [Teams -> Roles \cup {"none"}] BY DEF NoRoles
<1>2. NoUser \notin Supers BY DEF AccessAssumption
<1> QED BY <1>1, <1>2 DEF Allowed, Nobody, Principals, NoRoles

(* A principal is the caller's, with the roles of the tenant it is narrowed to. *)
LEMMA PrincipalTyped ==
  ASSUME AccessAssumption, IInv, NEW by \in {"session", "key"}, NEW u \in Users,
         NEW via \in Tenants \cup {Everywhere}
  PROVE  /\ UserPrincipal(by, u, via) \in Principals
         /\ UserPrincipal(by, u, via).by = by
         /\ UserPrincipal(by, u, via).user = u
         /\ UserPrincipal(by, u, via).via = via
         /\ via # Everywhere =>
              \A t \in Teams : UserPrincipal(by, u, via).roles[t] # "none" => TenantOf[t] = via
<1>1. role \in [Teams -> [Users -> Roles \cup {"none"}]] BY DEF IInv, TypeOK
<1>2. RolesOf(u, via) \in [Teams -> Roles \cup {"none"}] BY <1>1 DEF RolesOf
<1>3. via # Everywhere => \A t \in Teams : RolesOf(u, via)[t] # "none" => TenantOf[t] = via
  BY DEF RolesOf
<1>4. NoRoles \in [Teams -> Roles \cup {"none"}] /\ \A t \in Teams : NoRoles[t] = "none"
  BY DEF NoRoles
<1> QED BY <1>2, <1>3, <1>4 DEF UserPrincipal, Principals

(* Resolving a principal: its request has it, and no more. *)
LEMMA ResolveStep ==
  ASSUME AccessAssumption, IInv, NEW q \in Requests, NEW w \in Principals, Resolve(q, w),
         w.via # Everywhere =>
           /\ w.by = "session" /\ w.user \notin Supers
           /\ \A t \in Teams : w.roles[t] # "none" => TenantOf[t] = w.via,
         w.by = "session" => w.user \in Users
  PROVE  IInv' /\ Within(q)
<1> DEFINE r == [Idle EXCEPT !.at = "handle", !.who = w]
<1>1. r \in ReqType BY IdleTyped DEF ReqType
<1>2. r.at = "handle" /\ r.who = w BY DEF Idle
<1>3. req' = [req EXCEPT ![q] = r] BY DEF Resolve
<1>4. UNCHANGED <<users, teams, role, keys, idp, session>> BY DEF Resolve
<1> HIDE DEF r
<1>5. /\ Narrow' /\ req' \in [Requests -> ReqType] /\ req'[q] = r
      /\ \A p \in Requests : req'[p].who.by = "session" => req'[p].who.user \in Users
  BY <1>1, <1>2, <1>3, <1>4, GoTyped
<1>6. Within(q) BY <1>2, <1>4, <1>5, Quiet
<1>7. Signed' BY <1>4, <1>5 DEF IInv, Signed
<1> QED BY <1>4, <1>5, <1>6, <1>7 DEF IInv, TypeOK, ReqType

LEMMA ArriveStep ==
  ASSUME AccessAssumption, IInv, NEW q \in Requests, ArriveUi(q) \/ ArriveApi(q)
  PROVE  IInv' /\ Within(q)
<1>1. CASE ArriveUi(q)
  <2>1. PICK b \in Browsers :
          /\ session[b].user # NoUser
          /\ Resolve(q, UserPrincipal("session", session[b].user, session[b].via))
    BY <1>1 DEF ArriveUi
  <2>2. session[b] \in [user : Users \cup {NoUser}, via : Tenants \cup {Everywhere}]
    BY DEF IInv, TypeOK
  <2>3. session[b].user \in Users BY <2>1, <2>2
  <2>4. session[b].via \in Tenants \cup {Everywhere} BY <2>2
  <2>5. session[b].via # Everywhere => session[b].user \notin Supers
    BY DEF IInv, Narrow, NarrowSession
  <2> DEFINE w == UserPrincipal("session", session[b].user, session[b].via)
  <2>6. /\ w \in Principals /\ w.by = "session"
        /\ w.user = session[b].user /\ w.via = session[b].via
        /\ w.via # Everywhere => \A t \in Teams : w.roles[t] # "none" => TenantOf[t] = w.via
    BY <2>3, <2>4, PrincipalTyped
  <2>7. Resolve(q, w) BY <2>1
  <2> HIDE DEF w
  <2>8. w \in Principals BY <2>6
  <2>9. w.via # Everywhere =>
           /\ w.by = "session" /\ w.user \notin Supers
           /\ \A t \in Teams : w.roles[t] # "none" => TenantOf[t] = w.via
    BY <2>5, <2>6
  <2> QED BY <2>3, <2>6, <2>7, <2>8, <2>9, ResolveStep
<1>2. CASE ArriveApi(q)
  <2>1. PICK k \in KeyIds :
          \/ keys[k].kind = "user" /\ Resolve(q, UserPrincipal("key", keys[k].user, Everywhere))
          \/ Resolve(q, InvokePrincipal(k))
    BY <1>2 DEF ArriveApi
  <2>2. CASE keys[k].kind = "user" /\ Resolve(q, UserPrincipal("key", keys[k].user, Everywhere))
    <3> DEFINE w == UserPrincipal("key", keys[k].user, Everywhere)
    <3>1. keys[k].user \in Users BY <2>2 DEF IInv, Signed
    <3>2. w \in Principals /\ w.via = Everywhere /\ w.by = "key" BY <3>1, PrincipalTyped
    <3>3. Resolve(q, w) BY <2>2
    <3> HIDE DEF w
    <3> QED BY <3>2, <3>3, ResolveStep
  <2>3. CASE Resolve(q, InvokePrincipal(k))
    <3> DEFINE w == InvokePrincipal(k)
    <3>1. NoRoles \in [Teams -> Roles \cup {"none"}] BY DEF NoRoles
    <3>2. w \in Principals /\ w.via = Everywhere /\ w.by = "invoke"
      BY <3>1 DEF InvokePrincipal, Principals
    <3>3. Resolve(q, w) BY <2>3
    <3> HIDE DEF w
    <3> QED BY <3>2, <3>3, ResolveStep
  <2> QED BY <2>1, <2>2, <2>3
<1> QED BY <1>1, <1>2

-------------------------------------------------------------------------------
(* The requests that end.  Each changes one kind of row. *)

LEMMA KeyStep ==
  ASSUME AccessAssumption, IInv, NEW q \in Requests, Done(q),
         UNCHANGED <<users, teams, role, idp, session>>,
         keys' \in [KeyIds -> KeyType],
         \A k \in KeyIds : keys'[k].kind = "user" => keys'[k].user \in Users,
         req[q].who.via # Everywhere =>
           \A key \in KeysTouched :
             /\ key.kind = "invoke" => TenantOf[key.team] = req[q].who.via
             /\ key.kind = "user" => key.user = req[q].who.user
  PROVE  IInv' /\ Within(q)
<1>1. /\ Narrow' /\ req' \in [Requests -> ReqType] /\ req'[q].at = "idle"
      /\ \A p \in Requests : req'[p].who.by = "session" => req'[p].who.user \in Users
  BY DoneTyped
<1>2. TypeOK' BY <1>1 DEF IInv, TypeOK, ReqType, KeyType
<1>3. Signed' BY <1>1 DEF Signed
<1>4. Within(q) BY <1>1 DEF Within, Touched, UsersTouched
<1> QED BY <1>1, <1>2, <1>3, <1>4 DEF IInv

LEMMA NewKeyStep ==
  ASSUME AccessAssumption, IInv, NEW q \in Requests, NEW key \in KeyType, NewKey(q, key),
         key.kind = "user" => key.user \in Users,
         req[q].who.via # Everywhere =>
           /\ key.kind = "invoke" => TenantOf[key.team] = req[q].who.via
           /\ key.kind = "user" => key.user = req[q].who.user
  PROVE  IInv' /\ Within(q)
<1>1. PICK k \in KeyIds : keys[k] = FreeKey /\ keys' = [keys EXCEPT ![k] = key] BY DEF NewKey
<1>2. keys \in [KeyIds -> KeyType] BY ReqTyped
<1>3. keys' \in [KeyIds -> KeyType] BY <1>1, <1>2
<1>4. \A l \in KeyIds : keys'[l] = IF l = k THEN key ELSE keys[l] BY <1>1, <1>2
<1>5. \A l \in KeyIds : keys'[l].kind = "user" => keys'[l].user \in Users
  BY <1>4 DEF IInv, Signed
<1>6. Done(q) /\ UNCHANGED <<users, teams, role, idp, session>> BY DEF NewKey
<1>7. \A l \in KeysTouched : l = key \/ l = FreeKey BY <1>1, <1>4 DEF KeysTouched
<1>8. FreeKey.kind = "none" BY DEF FreeKey
<1>9. req[q].who.via # Everywhere =>
        \A l \in KeysTouched :
          /\ l.kind = "invoke" => TenantOf[l.team] = req[q].who.via
          /\ l.kind = "user" => l.user = req[q].who.user
  BY <1>7, <1>8
<1> QED BY <1>3, <1>5, <1>6, <1>9, KeyStep

LEMMA RevokeStep ==
  ASSUME AccessAssumption, IInv, NEW q \in Requests, NEW ks, Revoke(q, ks),
         req[q].who.via # Everywhere =>
           \A k \in ks \cap KeyIds :
             /\ keys[k].kind = "invoke" => TenantOf[keys[k].team] = req[q].who.via
             /\ keys[k].kind = "user" => keys[k].user = req[q].who.user
  PROVE  IInv' /\ Within(q)
<1>1. keys \in [KeyIds -> KeyType] BY ReqTyped
<1>2. \A k \in KeyIds : keys'[k] = IF k \in ks THEN RevokedKey ELSE keys[k] BY DEF Revoke
<1>3. RevokedKey \in KeyType /\ RevokedKey.kind = "revoked" BY KeyTyped
<1>4. keys' \in [KeyIds -> KeyType] BY <1>1, <1>3 DEF Revoke
<1>5. \A k \in KeyIds : keys'[k].kind = "user" => keys'[k].user \in Users
  BY <1>2, <1>3 DEF IInv, Signed
<1>6. Done(q) /\ UNCHANGED <<users, teams, role, idp, session>> BY DEF Revoke
<1>7. \A l \in KeysTouched : l = RevokedKey \/ \E k \in ks \cap KeyIds : l = keys[k]
  BY <1>2 DEF KeysTouched
<1>8. req[q].who.via # Everywhere =>
        \A l \in KeysTouched :
          /\ l.kind = "invoke" => TenantOf[l.team] = req[q].who.via
          /\ l.kind = "user" => l.user = req[q].who.user
  BY <1>3, <1>7
<1> QED BY <1>4, <1>5, <1>6, <1>8, KeyStep

(* Requests on users and teams that only a wide principal reaches, and     *)
(* those on members and providers, whose tenant is the principal's.        *)
LEMMA RowStep ==
  ASSUME AccessAssumption, IInv, NEW q \in Requests, Done(q), UNCHANGED <<session, keys>>,
         users' \in [Users -> {"absent", "lower", "mixed"}],
         teams' \subseteq Teams,
         role' \in [Teams -> [Users -> Roles \cup {"none"}]],
         idp' \subseteq Tenants,
         req[q].who.via # Everywhere =>
           /\ UNCHANGED users
           /\ \A t \in Teams : role'[t] # role[t] \/ (t \in teams') # (t \in teams) =>
                                 TenantOf[t] = req[q].who.via
           /\ \A tn \in Tenants : (tn \in idp') # (tn \in idp) => tn = req[q].who.via
  PROVE  IInv' /\ Within(q)
<1>1. /\ Narrow' /\ req' \in [Requests -> ReqType] /\ req'[q].at = "idle"
      /\ \A p \in Requests : req'[p].who.by = "session" => req'[p].who.user \in Users
  BY DoneTyped
<1>2. TypeOK' BY <1>1 DEF IInv, TypeOK, ReqType
<1>3. Signed' BY <1>1 DEF IInv, Signed
<1>4. KeysTouched = {} BY DEF KeysTouched
<1>5. Within(q) BY <1>1, <1>4 DEF Within, Touched, UsersTouched
<1> QED BY <1>1, <1>2, <1>3, <1>5 DEF IInv

(* The rights of the principal of a request, when it is narrowed. *)
LEMMA ReqRights ==
  ASSUME IInv, NEW q \in Requests, req[q].who.via # Everywhere
  PROVE  /\ ~Super(req[q].who)
         /\ \A t \in Teams : Owns(req[q].who, t) \/ MemberOf(req[q].who, t) =>
                               TenantOf[t] = req[q].who.via
         /\ \A o \in Tenants : TenantAdmin(req[q].who, o) \/ Sees(req[q].who, o)
                                 \/ AdminPage(req[q].who, o) => o = req[q].who.via
<1>1. /\ req[q].who.user \notin Supers
      /\ \A t \in Teams : req[q].who.roles[t] # "none" => TenantOf[t] = req[q].who.via
  BY DEF IInv, Narrow, NarrowRequest
<1>2. teams \subseteq Teams BY ReqTyped
<1> QED BY <1>1, <1>2, NarrowRights

-------------------------------------------------------------------------------
LEMMA UsersStep ==
  ASSUME AccessAssumption, IInv, NEW q \in Requests, HandleUsers(q)
  PROVE  IInv' /\ Within(q)
<1>1. ASSUME Super(req[q].who), NEW u \in Users, NEW c \in {"lower", "mixed"}, NewUser(q, u, c)
      PROVE  IInv' /\ Within(q)
  <2>1. req[q].who.via = Everywhere BY <1>1, Wide
  <2>2. /\ Narrow' /\ req' \in [Requests -> ReqType] /\ req'[q].at = "idle"
        /\ \A p \in Requests : req'[p].who.by = "session" => req'[p].who.user \in Users
    BY <1>1, DoneTyped DEF NewUser
  <2>3. PICK k \in KeyIds : keys' = [keys EXCEPT ![k] = UserKey(u)] BY <1>1 DEF NewUser
  <2>4. UserKey(u) \in KeyType /\ UserKey(u).user = u BY KeyTyped
  <2>5. keys \in [KeyIds -> KeyType] BY ReqTyped
  <2>6. keys' \in [KeyIds -> KeyType] BY <2>3, <2>4, <2>5
  <2>7. \A l \in KeyIds : keys'[l] = IF l = k THEN UserKey(u) ELSE keys[l] BY <2>3, <2>5
  <2>8. users' \in [Users -> {"absent", "lower", "mixed"}]
    BY <1>1 DEF NewUser, IInv, TypeOK, AccessAssumption
  <2>9. UNCHANGED <<teams, role, idp, session>> BY <1>1 DEF NewUser
  <2>10. TypeOK' BY <2>2, <2>6, <2>8, <2>9 DEF IInv, TypeOK, KeyType, ReqType
  <2>11. Signed' BY <2>2, <2>4, <2>7 DEF IInv, Signed
  <2> QED BY <2>1, <2>2, <2>10, <2>11 DEF IInv, Within
<1>2. ASSUME NEW u \in Users, NewKey(q, UserKey(u)),
             req[q].who.via # Everywhere => u = req[q].who.user
      PROVE  IInv' /\ Within(q)
  <2>1. UserKey(u) \in KeyType /\ UserKey(u).kind = "user" /\ UserKey(u).user = u BY KeyTyped
  <2> QED BY <1>2, <2>1, NewKeyStep
<1>3. ASSUME NEW u \in Users, NEW k \in KeysOf(u), Revoke(q, {k}),
             req[q].who.via # Everywhere => u = req[q].who.user
      PROVE  IInv' /\ Within(q)
  <2>1. k \in KeyIds /\ keys[k].kind = "user" /\ keys[k].user = u BY DEF KeysOf
  <2> QED BY <1>3, <2>1, RevokeStep
<1>4. req[q].who.by = "session" => req[q].who.user \in Users BY DEF IInv, Signed
<1>5. Registered \subseteq Users BY DEF Registered
<1>6. CASE ApiCreateUser(q)
  BY <1>1, <1>6 DEF ApiCreateUser, AccessAssumption
<1>7. CASE UiCreateUser(q) BY <1>1, <1>7 DEF UiCreateUser
<1>8. CASE ApiIssueKey(q)
  <2>1. req[q].who.via = Everywhere BY <1>8, Wide DEF ApiIssueKey
  <2> QED BY <1>2, <1>5, <1>8, <2>1 DEF ApiIssueKey
<1>9. CASE ApiRevokeUserKey(q)
  <2>1. req[q].who.via = Everywhere BY <1>9, Wide DEF ApiRevokeUserKey
  <2> QED BY <1>3, <1>9, <2>1 DEF ApiRevokeUserKey
<1>10. CASE UiIssueOwnKey(q) BY <1>2, <1>4, <1>10 DEF UiIssueOwnKey, Ui
<1>11. CASE UiRevokeOwnKey(q) BY <1>3, <1>4, <1>11 DEF UiRevokeOwnKey, Ui
<1>12. CASE UiIssueUserKey(q)
  <2>1. req[q].who.via = Everywhere BY <1>12, Wide DEF UiIssueUserKey
  <2> QED BY <1>2, <1>5, <1>12, <2>1 DEF UiIssueUserKey
<1>13. CASE UiRevokeUserKey(q)
  <2>1. req[q].who.via = Everywhere BY <1>13, Wide DEF UiRevokeUserKey
  <2> QED BY <1>3, <1>13, <2>1 DEF UiRevokeUserKey
<1>14. CASE UiRevokeAll(q)
  <2>1. PICK u \in Registered :
          req' = [req EXCEPT ![q] = [Idle EXCEPT !.at = "cut", !.user = u, !.listed = KeysOf(u)]]
    BY <1>14 DEF UiRevokeAll
  <2> DEFINE r == [Idle EXCEPT !.at = "cut", !.user = u, !.listed = KeysOf(u)]
  <2>2. req[q].who.via = Everywhere BY <1>14, Wide DEF UiRevokeAll
  <2>3. r \in ReqType /\ r.who = Idle.who
    <3>1. KeysOf(u) \in SUBSET KeyIds BY DEF KeysOf
    <3> QED BY <1>5, <3>1, IdleTyped DEF ReqType
  <2>4. UNCHANGED <<users, teams, role, keys, idp, session>> BY <1>14 DEF UiRevokeAll
  <2>5. req' = [req EXCEPT ![q] = r] BY <2>1
  <2>6. Idle.who.via = Everywhere /\ Idle.who.by = "none" BY DEF Idle, Nobody
  <2> HIDE DEF r
  <2>7. /\ Narrow' /\ req' \in [Requests -> ReqType]
        /\ \A p \in Requests : req'[p].who.by = "session" => req'[p].who.user \in Users
    BY <2>3, <2>4, <2>5, <2>6, GoTyped
  <2>8. TypeOK' BY <2>4, <2>7 DEF IInv, TypeOK, ReqType
  <2>9. Signed' BY <2>4, <2>7 DEF IInv, Signed
  <2> QED BY <2>2, <2>7, <2>8, <2>9 DEF IInv, Within
<1>15. CASE UiRevokeListed(q)
  <2>1. req[q].who.via = Everywhere BY <1>15, Wide DEF UiRevokeListed
  <2> QED BY <1>15, <2>1, RevokeStep DEF UiRevokeListed
<1> QED
  BY <1>6, <1>7, <1>8, <1>9, <1>10, <1>11, <1>12, <1>13, <1>14, <1>15 DEF HandleUsers

LEMMA InvokeKeysStep ==
  ASSUME AccessAssumption, IInv, NEW q \in Requests, HandleInvokeKeys(q)
  PROVE  IInv' /\ Within(q)
<1> DEFINE via == req[q].who.via
<1>1. ASSUME NEW s \in Scopes, NEW t \in Teams, via # Everywhere => TenantOf[t] = via,
             NewKey(q, InvokeKey(s, t))
      PROVE  IInv' /\ Within(q)
  <2>1. /\ InvokeKey(s, t) \in KeyType
        /\ InvokeKey(s, t).kind = "invoke" /\ InvokeKey(s, t).team = t
    BY KeyTyped
  <2> QED BY <1>1, <2>1, NewKeyStep
<1>2. ASSUME NEW s \in Scopes, NEW t \in Teams, via # Everywhere => TenantOf[t] = via,
             UiRevoke(q, s, t)
      PROVE  IInv' /\ Within(q)
  <2>1. PICK k \in InvokeKeys : keys[k].team = t /\ Revoke(q, {k}) BY <1>2 DEF UiRevoke
  <2>2. keys[k].kind = "invoke" BY DEF InvokeKeys
  <2> QED BY <1>2, <2>1, <2>2, RevokeStep
<1>3. teams \subseteq Teams BY ReqTyped
<1>4. OrgTeams \subseteq Teams /\ \A t \in Teams : TenantOf[t] \in Tenants BY DEF AccessAssumption
<1>5. via # Everywhere => \A t \in Teams : Owns(req[q].who, t) => TenantOf[t] = via
  BY ReqRights
<1>6. via # Everywhere => \A t \in Teams : AdminPage(req[q].who, TenantOf[t]) => TenantOf[t] = via
  BY <1>4, ReqRights
<1>7. CASE ApiIssueInvokeKey(q)
  <2>1. via = Everywhere BY <1>7, Wide DEF ApiIssueInvokeKey
  <2> QED BY <1>1, <1>7, <2>1 DEF ApiIssueInvokeKey
<1>8. CASE ApiRevokeInvokeKey(q)
  <2>1. via = Everywhere BY <1>8, Wide DEF ApiRevokeInvokeKey
  <2>2. PICK k \in InvokeKeys : Revoke(q, {k}) BY <1>8 DEF ApiRevokeInvokeKey
  <2> QED BY <2>1, <2>2, RevokeStep
<1>9. CASE UiIssueAgentKey(q)
  BY <1>1, <1>3, <1>5, <1>9 DEF UiIssueAgentKey, UiIssue, Scopes
<1>10. CASE UiRevokeAgentKey(q)
  BY <1>2, <1>3, <1>5, <1>10 DEF UiRevokeAgentKey, Scopes
<1>11. CASE UiIssueTenantKey(q)
  BY <1>1, <1>4, <1>6, <1>11 DEF UiIssueTenantKey, UiIssue, Scopes
<1>12. CASE UiRevokeTenantKey(q)
  BY <1>2, <1>4, <1>6, <1>12 DEF UiRevokeTenantKey, Scopes
<1>13. CASE UiIssueTeamKey(q)
  BY <1>1, <1>5, <1>13 DEF UiIssueTeamKey, UiIssue, OwnerPage, Scopes
<1>14. CASE UiRevokeTeamKey(q)
  BY <1>2, <1>5, <1>14 DEF UiRevokeTeamKey, OwnerPage, Scopes
<1> QED
  BY <1>7, <1>8, <1>9, <1>10, <1>11, <1>12, <1>13, <1>14 DEF HandleInvokeKeys

-------------------------------------------------------------------------------
(* A request that goes on: it reads rows and changes none. *)
LEMMA MoveStep ==
  ASSUME AccessAssumption, IInv, NEW q \in Requests, NEW r \in ReqType,
         req' = [req EXCEPT ![q] = r], UNCHANGED <<users, teams, role, keys, idp, session>>,
         r.who \in {Idle.who, req[q].who, Allowed(req[q].who)}, r.at # "cut",
         req[q].who.via # Everywhere /\ r.at # "idle" => TenantOf[r.team] = req[q].who.via
  PROVE  IInv' /\ Within(q)
<1>1. req[q].who \in Principals BY ReqTyped
<1>2. Idle.who.via = Everywhere /\ Idle.who.by = "none" BY DEF Idle, Nobody
<1>3. /\ Narrow' /\ req' \in [Requests -> ReqType] /\ req'[q] = r
      /\ \A p \in Requests : req'[p].who.by = "session" => req'[p].who.user \in Users
  <2>1. r.who.by = "session" => r.who.user \in Users
    BY <1>1, <1>2, AllowedTyped DEF IInv, Signed
  <2>2. r.who.via # Everywhere =>
           /\ r.who.by \in {"session", "none"}
           /\ r.who.user \notin Supers
           /\ \A t \in Teams : r.who.roles[t] # "none" => TenantOf[t] = r.who.via
    BY <1>1, <1>2, AllowedTyped DEF IInv, Narrow, NarrowRequest
  <2>3. r.who.via # Everywhere => r.who.via = req[q].who.via BY <1>1, <1>2, AllowedTyped
  <2>4. r.who.via # Everywhere /\ r.at \in {"count", "commit", "put"} => TenantOf[r.team] = r.who.via
    BY <2>3
  <2> QED BY <2>1, <2>2, <2>4, GoTyped
<1>4. TypeOK' BY <1>3 DEF IInv, TypeOK, ReqType
<1>5. Signed' BY <1>3 DEF IInv, Signed
<1>6. KeysTouched = {} BY DEF KeysTouched
<1>7. Within(q) BY <1>3, <1>6 DEF Within, Touched, UsersTouched
<1> QED BY <1>3, <1>4, <1>5, <1>7 DEF IInv

LEMMA LoadStep ==
  ASSUME AccessAssumption, IInv, NEW q \in Requests, NEW t \in Teams, NEW u \in Users,
         NEW new \in Roles \cup {"none"}, Owns(req[q].who, t),
         NEW at \in {"count", "commit", "put"},
         req' = [req EXCEPT ![q] = [Idle EXCEPT !.at = at, !.who = Allowed(req[q].who),
                                                !.team = t, !.user = u, !.new = new,
                                                !.had = role[t][u]]],
         UNCHANGED <<users, teams, role, keys, idp, session>>
  PROVE  IInv' /\ Within(q)
<1> DEFINE r == [Idle EXCEPT !.at = at, !.who = Allowed(req[q].who), !.team = t, !.user = u,
                             !.new = new, !.had = role[t][u]]
<1>1. req[q] \in ReqType /\ role[t][u] \in Roles \cup {"none"} BY ReqTyped
<1>2. Allowed(req[q].who) \in Principals BY ReqTyped, AllowedTyped
<1>3. r \in ReqType /\ r.who = Allowed(req[q].who) /\ r.at = at /\ r.team = t
  BY <1>1, <1>2, IdleTyped DEF ReqType
<1>4. req' = [req EXCEPT ![q] = r] OBVIOUS
<1>5. req[q].who.via # Everywhere => TenantOf[t] = req[q].who.via BY ReqRights
<1> HIDE DEF r
<1> QED BY <1>3, <1>4, <1>5, MoveStep

LEMMA TeamStep ==
  ASSUME AccessAssumption, IInv, NEW q \in Requests, NEW t \in Teams, NEW u \in Users,
         NEW r \in Roles \cup {"none"},
         teams' \in {teams, teams \cup {t}}, role' \in {role, [role EXCEPT ![t][u] = r]},
         Done(q), UNCHANGED <<users, keys, idp, session>>,
         req[q].who.via # Everywhere => TenantOf[t] = req[q].who.via
  PROVE  IInv' /\ Within(q)
<1>1. teams \subseteq Teams /\ role \in [Teams -> [Users -> Roles \cup {"none"}]] BY ReqTyped
<1>2. teams' \subseteq Teams BY <1>1
<1>3. role' \in [Teams -> [Users -> Roles \cup {"none"}]] BY <1>1
<1>4. \A s \in Teams : role'[s] # role[s] \/ (s \in teams') # (s \in teams) => s = t BY <1>1
<1>5. users' \in [Users -> {"absent", "lower", "mixed"}] /\ idp' \subseteq Tenants
  BY DEF IInv, TypeOK
<1> QED BY <1>2, <1>3, <1>4, <1>5, RowStep

(* A request that ends and changes nothing. *)
LEMMA EndStep ==
  ASSUME AccessAssumption, IInv, NEW q \in Requests, Done(q),
         UNCHANGED <<users, teams, role, keys, idp, session>>
  PROVE  IInv' /\ Within(q)
<1>1. /\ users' \in [Users -> {"absent", "lower", "mixed"}]
      /\ teams' \subseteq Teams
      /\ role' \in [Teams -> [Users -> Roles \cup {"none"}]]
      /\ idp' \subseteq Tenants
  BY DEF IInv, TypeOK
<1> QED BY <1>1, RowStep

LEMMA TeamsStep ==
  ASSUME AccessAssumption, IInv, NEW q \in Requests, HandleTeams(q)
  PROVE  IInv' /\ Within(q)
<1> DEFINE via == req[q].who.via
<1>1. teams \subseteq Teams /\ OrgTeams \subseteq Teams BY ReqTyped DEF AccessAssumption
<1>2. Registered \subseteq Users /\ Founder \in Users BY DEF Registered, AccessAssumption
<1>3. ASSUME NewTenant(q) PROVE IInv' /\ Within(q)
  <2>1. via = Everywhere BY <1>3, Wide DEF NewTenant
  <2>2. PICK t \in OrgTeams : teams' = teams \cup {t} BY <1>3 DEF NewTenant
  <2>3. Done(q) /\ UNCHANGED <<users, role, keys, idp, session>> BY <1>3 DEF NewTenant
  <2> QED BY <1>1, <1>2, <2>1, <2>2, <2>3, TeamStep
<1>4. ASSUME NEW t \in Teams, NEW u \in Users, NewTeam(q, t, u), via # Everywhere => TenantOf[t] = via
      PROVE  IInv' /\ Within(q)
  <2>1. /\ teams' = teams \cup {t} /\ role' = [role EXCEPT ![t][u] = "owner"]
        /\ Done(q) /\ UNCHANGED <<users, keys, idp, session>>
    BY <1>4 DEF NewTeam
  <2> QED BY <1>4, <2>1, TeamStep DEF Roles
<1>5. ASSUME NEW t \in Teams, NEW u \in Users, NEW new \in Roles \cup {"none"},
             Owns(req[q].who, t), Load(q, t, u, new)
      PROVE  IInv' /\ Within(q)
  <2> DEFINE at == IF role[t][u] = "owner" THEN "count" ELSE "commit"
  <2>1. UNCHANGED <<users, teams, role, keys, idp, session>> BY <1>5 DEF Load
  <2>2. CASE role[t][u] = new
    <3>1. Done(q) BY <1>5, <2>2 DEF Load, Done
    <3> QED BY <2>1, <3>1, EndStep
  <2>3. CASE role[t][u] # new
    <3>1. req' = [req EXCEPT ![q] = [Idle EXCEPT !.at = at, !.who = Allowed(req[q].who),
                                                 !.team = t, !.user = u, !.new = new,
                                                 !.had = role[t][u]]]
      BY <1>5, <2>3 DEF Load
    <3>2. at \in {"count", "commit", "put"} OBVIOUS
    <3> HIDE DEF at
    <3> QED BY <1>5, <2>1, <3>1, <3>2, LoadStep
  <2> QED BY <2>2, <2>3
<1>6. CASE ApiCreateTenant(q) BY <1>3, <1>6 DEF ApiCreateTenant
<1>7. CASE UiCreateTenant(q) BY <1>3, <1>7 DEF UiCreateTenant
<1>8. CASE ApiCreateTeam(q)
  <2>1. via = Everywhere BY <1>8, Wide DEF ApiCreateTeam
  <2> QED BY <1>2, <1>4, <1>8, <2>1 DEF ApiCreateTeam
<1>9. CASE UiCreateTeam(q)
  <2>1. PICK t \in Teams : \E u \in TenantUsers(req[q].who, TenantOf[t]) :
          AdminPage(req[q].who, TenantOf[t]) /\ NewTeam(q, t, u)
    BY <1>9 DEF UiCreateTeam
  <2>2. PICK u \in TenantUsers(req[q].who, TenantOf[t]) :
          AdminPage(req[q].who, TenantOf[t]) /\ NewTeam(q, t, u)
    BY <2>1
  <2>3. u \in Users BY <1>9, <2>2 DEF TenantUsers, UiCreateTeam, Ui, IInv, Signed
  <2>4. TenantOf[t] \in Tenants BY DEF AccessAssumption
  <2>5. via # Everywhere => TenantOf[t] = via BY <2>2, <2>4, ReqRights
  <2> QED BY <1>4, <2>2, <2>3, <2>5
<1>10. CASE ApiSetMember(q) BY <1>1, <1>2, <1>5, <1>10 DEF ApiSetMember
<1>11. CASE ApiRemoveMember(q) BY <1>1, <1>2, <1>5, <1>11 DEF ApiRemoveMember
<1>12. CASE UiSetMemberRole(q) BY <1>2, <1>5, <1>12 DEF UiSetMemberRole, OwnerPage
<1>13. CASE UiRemoveMember(q) BY <1>2, <1>5, <1>13 DEF UiRemoveMember, OwnerPage
<1>14. CASE UiAddMember(q)
  <2>1. PICK t \in Teams, u \in Registered, new \in Roles :
          /\ OwnerPage(req[q].who, t)
          /\ req' = [req EXCEPT ![q] =
               IF role[t][u] = new THEN Idle
               ELSE [Idle EXCEPT !.at = "put", !.who = Allowed(req[q].who),
                                 !.team = t, !.user = u, !.new = new, !.had = role[t][u]]]
    BY <1>14 DEF UiAddMember
  <2>2. u \in Users /\ new \in Roles \cup {"none"} /\ Owns(req[q].who, t)
    BY <1>2, <2>1 DEF OwnerPage
  <2>3. UNCHANGED <<users, teams, role, keys, idp, session>> BY <1>14 DEF UiAddMember
  <2>4. CASE role[t][u] = new
    <3>1. Done(q) BY <2>1, <2>4 DEF Done
    <3> QED BY <2>3, <3>1, EndStep
  <2>5. CASE role[t][u] # new
    <3>1. req' = [req EXCEPT ![q] = [Idle EXCEPT !.at = "put", !.who = Allowed(req[q].who),
                                                 !.team = t, !.user = u, !.new = new,
                                                 !.had = role[t][u]]]
      BY <2>1, <2>5
    <3> QED BY <2>2, <2>3, <3>1, LoadStep
  <2> QED BY <2>4, <2>5
<1>15. CASE Count(q)
  <2>1. UNCHANGED <<users, teams, role, keys, idp, session>> BY <1>15 DEF Count
  <2>2. CASE req' = [req EXCEPT ![q] = Idle] BY <2>1, <2>2, EndStep DEF Done
  <2>3. CASE req' = [req EXCEPT ![q] = [@ EXCEPT !.at = "commit", !.seen = OthersCounted(req[q])]]
    <3> DEFINE r == [req[q] EXCEPT !.at = "commit", !.seen = OthersCounted(req[q])]
    <3>1. OthersCounted(req[q]) \in SUBSET Users BY DEF OthersCounted, Owners
    <3>2. r \in ReqType /\ r.who = req[q].who /\ r.at = "commit" /\ r.team = req[q].team
      BY <3>1, ReqTyped DEF ReqType
    <3>3. via # Everywhere => TenantOf[req[q].team] = via
      BY <1>15 DEF Count, IInv, Narrow, NarrowWrite
    <3>4. req' = [req EXCEPT ![q] = r] BY <2>3
    <3> HIDE DEF r
    <3> QED BY <2>1, <3>2, <3>3, <3>4, MoveStep
  <2> QED BY <1>15, <2>2, <2>3 DEF Count
<1>16. CASE Commit(q)
  <2>1. req[q] \in ReqType BY ReqTyped
  <2>2. req[q].team \in Teams /\ req[q].user \in Users /\ req[q].new \in Roles \cup {"none"}
    BY <2>1 DEF ReqType
  <2>3. /\ role' \in {role, [role EXCEPT ![req[q].team][req[q].user] = req[q].new]}
        /\ Done(q) /\ UNCHANGED <<users, teams, keys, idp, session>>
    BY <1>16 DEF Commit
  <2>4. via # Everywhere => TenantOf[req[q].team] = via
    BY <1>16 DEF Commit, IInv, Narrow, NarrowWrite
  <2> QED BY <2>2, <2>3, <2>4, TeamStep
<1> QED
  BY <1>6, <1>7, <1>8, <1>9, <1>10, <1>11, <1>12, <1>13, <1>14, <1>15, <1>16 DEF HandleTeams

LEMMA RestStep ==
  ASSUME AccessAssumption, IInv, NEW q \in Requests, HandleRest(q)
  PROVE  IInv' /\ Within(q)
<1> DEFINE via == req[q].who.via
<1>1. ASSUME NEW tn \in Tenants, idp' \in {idp \cup {tn}, idp \ {tn}}, via # Everywhere => tn = via,
             Done(q), UNCHANGED <<users, teams, role, keys, session>>
      PROVE  IInv' /\ Within(q)
  <2>1. /\ users' \in [Users -> {"absent", "lower", "mixed"}]
        /\ teams' \subseteq Teams
        /\ role' \in [Teams -> [Users -> Roles \cup {"none"}]]
        /\ idp' \subseteq Tenants
    BY <1>1 DEF IInv, TypeOK
  <2> QED BY <1>1, <2>1, RowStep
<1>2. ASSUME NEW t \in Teams, Show(q, t), via # Everywhere => TenantOf[t] = via
      PROVE  IInv' /\ Within(q)
  <2> DEFINE r == [Idle EXCEPT !.at = "shown", !.team = t]
  <2>1. r \in ReqType /\ r.who = Idle.who /\ r.at = "shown" /\ r.team = t
    BY IdleTyped DEF ReqType
  <2>2. req' = [req EXCEPT ![q] = r] /\ UNCHANGED <<users, teams, role, keys, idp, session>>
    BY <1>2 DEF Show
  <2> HIDE DEF r
  <2> QED BY <1>2, <2>1, <2>2, MoveStep
<1>3. teams \subseteq Teams /\ \A t \in Teams : TenantOf[t] \in Tenants
  BY ReqTyped DEF AccessAssumption
<1>4. CASE ApiOidc(q)
  <2>1. via = Everywhere BY <1>4, Wide DEF ApiOidc
  <2> QED BY <1>1, <1>4, <2>1 DEF ApiOidc, AccessAssumption
<1>5. CASE UiOidc(q)
  <2>1. PICK tn \in Providers : AdminPage(req[q].who, tn) /\ idp' \in {idp \cup {tn}, idp \ {tn}}
    BY <1>5 DEF UiOidc
  <2>2. tn \in Tenants BY DEF AccessAssumption
  <2>3. via # Everywhere => tn = via BY <2>1, <2>2, ReqRights
  <2> QED BY <1>1, <1>5, <2>1, <2>2, <2>3 DEF UiOidc
<1>6. CASE ApiRead(q)
  <2>1. via = Everywhere BY <1>6, Wide DEF ApiRead
  <2> QED BY <1>2, <1>3, <1>6, <2>1 DEF ApiRead
<1>7. CASE UiRead(q)
  <2>1. PICK t \in teams :
          /\ MemberOf(req[q].who, t) \/ (t \in OrgTeams /\ TenantOf[t] \in VisibleTenants(req[q].who))
          /\ Show(q, t)
    BY <1>7 DEF UiRead
  <2>2. via # Everywhere => TenantOf[t] = via BY <1>3, <2>1, ReqRights DEF VisibleTenants
  <2> QED BY <1>2, <1>3, <2>1, <2>2
<1>8. CASE Invoke(q)
  <2>1. via = Everywhere BY <1>8 DEF Invoke, IInv, Narrow, NarrowRequest
  <2> QED BY <1>2, <1>3, <1>8, <2>1 DEF Invoke
<1>9. CASE Refuse(q) BY <1>9, EndStep DEF Refuse, Done
<1> QED BY <1>4, <1>5, <1>6, <1>7, <1>8, <1>9 DEF HandleRest

-------------------------------------------------------------------------------
(* Every step leaves the other requests alone. *)
LEMMA OneRequest ==
  ASSUME IInv, NEW q \in Requests,
         \/ HandleUsers(q) \/ HandleInvokeKeys(q) \/ HandleTeams(q) \/ HandleRest(q)
         \/ ArriveUi(q) \/ ArriveApi(q)
  PROVE  \A p \in Requests : p # q => req'[p] = req[p]
<1> USE DEF Done
<1>0. req \in [Requests -> ReqType] BY DEF IInv, TypeOK, ReqType
<1>1. CASE HandleUsers(q)
  BY <1>0, <1>1
  DEF HandleUsers, ApiCreateUser, UiCreateUser, ApiIssueKey, ApiRevokeUserKey, UiIssueOwnKey,
      UiRevokeOwnKey, UiIssueUserKey, UiRevokeUserKey, UiRevokeAll, UiRevokeListed,
      NewUser, NewKey, Revoke
<1>2. CASE HandleInvokeKeys(q)
  BY <1>0, <1>2
  DEF HandleInvokeKeys, ApiIssueInvokeKey, ApiRevokeInvokeKey, UiIssueAgentKey,
      UiRevokeAgentKey, UiIssueTenantKey, UiRevokeTenantKey, UiIssueTeamKey, UiRevokeTeamKey,
      UiIssue, UiRevoke, NewKey, Revoke
<1>3. CASE HandleTeams(q)
  BY <1>0, <1>3
  DEF HandleTeams, ApiCreateTenant, UiCreateTenant, ApiCreateTeam, UiCreateTeam, ApiSetMember,
      ApiRemoveMember, UiSetMemberRole, UiRemoveMember, UiAddMember, Count, Commit, NewTenant,
      NewTeam, Load
<1>4. CASE HandleRest(q)
  BY <1>0, <1>4 DEF HandleRest, ApiOidc, UiOidc, ApiRead, UiRead, Invoke, Refuse, Show
<1>5. CASE ArriveUi(q) \/ ArriveApi(q)
  BY <1>0, <1>5 DEF ArriveUi, ArriveApi, Resolve
<1> QED BY <1>1, <1>2, <1>3, <1>4, <1>5

LEMMA NextInv ==
  ASSUME AccessAssumption, IInv, [Next]_vars
  PROVE  /\ IInv'
         /\ \A q \in Requests : req'[q] # req[q] => Within(q)
<1>1. CASE UNCHANGED vars
  <2>1. UNCHANGED <<users, teams, role, keys, idp, session, req>> BY <1>1 DEF vars
  <2> QED
    BY <2>1 DEF IInv, TypeOK, Narrow, NarrowSession, NarrowRequest, NarrowWrite, Signed
<1>2. ASSUME NEW b \in Browsers, Login(b) \/ OidcCallback(b) \/ Logout(b)
      PROVE  IInv' /\ UNCHANGED req
  BY <1>2, SessionStep
<1>3. ASSUME NEW q \in Requests, ArriveUi(q) \/ ArriveApi(q) \/ HandleUsers(q) \/ HandleInvokeKeys(q)
                                 \/ HandleTeams(q) \/ HandleRest(q)
      PROVE  /\ IInv'
             /\ \A p \in Requests : req'[p] # req[p] => Within(p)
  <2>1. IInv' /\ Within(q)
    BY <1>3, ArriveStep, UsersStep, InvokeKeysStep, TeamsStep, RestStep
  <2>2. \A p \in Requests : p # q => req'[p] = req[p] BY <1>3, OneRequest
  <2> QED BY <2>1, <2>2
<1> QED BY <1>1, <1>2, <1>3 DEF Next

(* The types hold, and with them Narrow and Signed, in every state. *)
THEOREM Invariance == Spec => []IInv
<1>1. Init => IInv BY InitInv, AccessAssumption
<1>2. IInv /\ [Next]_vars => IInv' BY NextInv, AccessAssumption
<1> QED BY <1>1, <1>2, PTL DEF Spec

(* Every variable keeps its type, for all constants. *)
THEOREM TypeCorrect == Spec => []TypeOK
<1>1. IInv => TypeOK BY DEF IInv
<1> QED BY <1>1, Invariance, PTL

(* What a request of a session that a tenant's provider opened changes or  *)
(* shows lies in that tenant, or is a key of its own user (ui/oidc.py,     *)
(* ui/routes.py:206), for every number of users, tenants, teams, keys and  *)
(* concurrent requests.                                                    *)
THEOREM SessionsConfined == Spec => Confined
<1>1. IInv /\ [Next]_vars =>
        [\A q \in Requests :
           req[q].at # "idle" /\ req'[q] # req[q] /\ req[q].who.via # Everywhere
             => /\ Touched(q) \subseteq {req[q].who.via}
                /\ UsersTouched \subseteq {req[q].who.user}]_vars
  BY NextInv, AccessAssumption DEF Within
<1> QED BY <1>1, Invariance, PTL DEF Spec, Confined

-------------------------------------------------------------------------------
(* A step of request q. *)
Handles(q) ==
  \/ ArriveUi(q) \/ ArriveApi(q)
  \/ HandleUsers(q) \/ HandleInvokeKeys(q) \/ HandleTeams(q) \/ HandleRest(q)

(* What a request that writes a membership is about: an owner who goes was *)
(* counted, and so was another.                                            *)
LoadedBy(r) ==
  /\ r.at = "count" => r.had = "owner" /\ r.new # "owner"
  /\ r.at = "commit" /\ r.had = "owner" /\ r.new # "owner" =>
       \E v \in r.seen : v # r.user

Loaded == \A q \in Requests : LoadedBy(req[q])

(* Of more than one member one is not u. *)
LEMMA Another ==
  ASSUME NEW S, NEW u, ~(Cardinality(S) <= 1)
  PROVE  \E v \in S : v # u
<1>1. SUFFICES ASSUME \A v \in S : v = u PROVE FALSE OBVIOUS
<1>2. CASE u \in S
  <2>1. S = {u} BY <1>1, <1>2
  <2>2. Cardinality({u}) = 1 BY FS_Singleton
  <2>3. Cardinality(S) = 1 BY <2>1, <2>2
  <2> QED BY <2>3
<1>3. CASE u \notin S
  <2>1. S = {} BY <1>1, <1>3
  <2>2. Cardinality(S) = 0 BY <2>1, FS_EmptySet
  <2> QED BY <2>2
<1> QED BY <1>2, <1>3

(* Request q reads the membership it is about to write. *)
Loads(q) == \E t \in Teams, u \in Users, new \in Roles \cup {"none"} : Load(q, t, u, new)

(* What a step of a request leaves of the request: nothing it read, but    *)
(* when it reads a membership or counts owners.                            *)
LEMMA Paths ==
  ASSUME AccessAssumption, IInv, NEW q \in Requests, Handles(q)
  PROVE  \/ req'[q].at \in {"idle", "handle", "shown", "put", "cut"}
         \/ Loads(q) \/ Count(q)
<1>1. req \in [Requests -> ReqType] /\ teams \subseteq Teams BY DEF IInv, TypeOK, ReqType
<1>2. Idle.at = "idle" BY DEF Idle
<1>3. ASSUME Done(q) PROVE req'[q].at = "idle" BY <1>1, <1>2, <1>3 DEF Done
<1>4. Registered \subseteq Users BY DEF Registered
<1>5. CASE HandleUsers(q)
  <2>1. CASE UiRevokeAll(q) BY <1>1, <2>1 DEF UiRevokeAll, Idle
  <2> QED
    BY <1>3, <1>5, <2>1
    DEF HandleUsers, ApiCreateUser, UiCreateUser, ApiIssueKey, ApiRevokeUserKey, UiIssueOwnKey,
        UiRevokeOwnKey, UiIssueUserKey, UiRevokeUserKey, UiRevokeListed, NewUser, NewKey, Revoke
<1>6. CASE HandleInvokeKeys(q)
  BY <1>3, <1>6
  DEF HandleInvokeKeys, ApiIssueInvokeKey, ApiRevokeInvokeKey, UiIssueAgentKey,
      UiRevokeAgentKey, UiIssueTenantKey, UiRevokeTenantKey, UiIssueTeamKey, UiRevokeTeamKey,
      UiIssue, UiRevoke, NewKey, Revoke
<1>7. CASE HandleTeams(q)
  <2>1. CASE ApiSetMember(q) \/ ApiRemoveMember(q) \/ UiSetMemberRole(q) \/ UiRemoveMember(q)
    BY <1>1, <1>4, <2>1
    DEF ApiSetMember, ApiRemoveMember, UiSetMemberRole, UiRemoveMember, Loads
  <2>2. CASE UiAddMember(q) BY <1>1, <1>2, <2>2 DEF UiAddMember, Idle
  <2>3. CASE Commit(q) BY <1>3, <2>3 DEF Commit
  <2>4. CASE ApiCreateTenant(q) \/ UiCreateTenant(q) \/ ApiCreateTeam(q) \/ UiCreateTeam(q)
    BY <1>3, <2>4 DEF ApiCreateTenant, UiCreateTenant, ApiCreateTeam, UiCreateTeam, NewTenant, NewTeam
  <2> QED BY <1>7, <2>1, <2>2, <2>3, <2>4 DEF HandleTeams
<1>8. CASE HandleRest(q)
  <2>1. CASE ApiRead(q) \/ UiRead(q) \/ Invoke(q)
    <3>1. PICK t \in teams : Show(q, t) BY <2>1 DEF ApiRead, UiRead, Invoke
    <3> QED BY <1>1, <3>1 DEF Show, Idle
  <2> QED BY <1>3, <1>8, <2>1 DEF HandleRest, ApiOidc, UiOidc, Refuse, Done
<1>9. CASE ArriveUi(q) \/ ArriveApi(q)
  <2>1. PICK w : Resolve(q, w) BY <1>9 DEF ArriveUi, ArriveApi
  <2>2. [Idle EXCEPT !.at = "handle", !.who = w].at = "handle" BY DEF Idle
  <2> QED BY <1>1, <2>1, <2>2 DEF Resolve
<1> QED BY <1>5, <1>6, <1>7, <1>8, <1>9 DEF Handles

(* Every step keeps what requests read. *)
LEMMA LoadedNext ==
  ASSUME AccessAssumption, IInv, Loaded, [Next]_vars
  PROVE  Loaded'
<1>1. CASE UNCHANGED req BY <1>1 DEF Loaded, LoadedBy
<1>2. ASSUME NEW q \in Requests, Handles(q) PROVE Loaded'
  <2>1. \A p \in Requests : p # q => req'[p] = req[p] BY <1>2, OneRequest DEF Handles
  <2>2. SUFFICES LoadedBy(req'[q]) BY <2>1 DEF Loaded, LoadedBy
  <2>3. req \in [Requests -> ReqType] BY DEF IInv, TypeOK, ReqType
  <2>4. Idle.at = "idle" BY DEF Idle
  <2>5. CASE req'[q].at \in {"idle", "handle", "shown", "put", "cut"} BY <2>5 DEF LoadedBy
  <2>6. CASE Loads(q)
    <3>1. PICK t \in Teams, u \in Users, new \in Roles \cup {"none"} : Load(q, t, u, new)
      BY <2>6 DEF Loads
    <3>2. CASE role[t][u] = new
      <4>1. req'[q] = Idle BY <2>3, <3>1, <3>2 DEF Load
      <4> QED BY <2>4, <4>1 DEF LoadedBy
    <3>3. CASE role[t][u] # new
      <4> DEFINE r == [Idle EXCEPT !.at = IF role[t][u] = "owner" THEN "count" ELSE "commit",
                                   !.who = Allowed(req[q].who),
                                   !.team = t, !.user = u, !.new = new, !.had = role[t][u]]
      <4>1. req'[q] = r BY <2>3, <3>1, <3>3 DEF Load
      <4>2. /\ r.at = IF role[t][u] = "owner" THEN "count" ELSE "commit"
            /\ r.new = new /\ r.had = role[t][u]
        BY DEF Idle
      <4> HIDE DEF r
      <4> QED BY <3>3, <4>1, <4>2 DEF LoadedBy
    <3> QED BY <3>2, <3>3
  <2>7. CASE Count(q)
    <3> DEFINE r == req[q]
    <3>1. CASE Cardinality(Owners(r.team)) <= 1
      <4>1. req'[q] = Idle BY <2>3, <2>7, <3>1 DEF Count
      <4> QED BY <2>4, <4>1 DEF LoadedBy
    <3>2. CASE ~(Cardinality(Owners(r.team)) <= 1)
      <4>1. /\ req'[q].at = "commit" /\ req'[q].user = r.user
            /\ req'[q].seen = OthersCounted(r)
        BY <2>3, <2>7, <3>2 DEF Count, ReqType
      <4> DEFINE S == Owners(r.team)
      <4>2. ~(Cardinality(S) <= 1) BY <3>2
      <4> HIDE DEF S
      <4>3. \A u : \E v \in S : v # u BY ONLY <4>2, Another
      <4> QED BY <4>1, <4>3 DEF LoadedBy, OthersCounted, S
    <3> QED BY <3>1, <3>2
  <2> QED BY <1>2, <2>5, <2>6, <2>7, Paths
<1> QED BY <1>1, <1>2 DEF Next, Handles, vars, Login, OidcCallback, Logout

(* The steps that write memberships. *)
LEMMA RoleWrites ==
  ASSUME NEW q \in Requests, Handles(q)
  PROVE  UNCHANGED role \/ Commit(q) \/ \E t \in Teams : \E u : NewTeam(q, t, u)
<1>1. CASE HandleUsers(q)
  BY <1>1
  DEF HandleUsers, ApiCreateUser, UiCreateUser, ApiIssueKey, ApiRevokeUserKey, UiIssueOwnKey,
      UiRevokeOwnKey, UiIssueUserKey, UiRevokeUserKey, UiRevokeAll, UiRevokeListed, NewUser,
      NewKey, Revoke
<1>2. CASE HandleInvokeKeys(q)
  BY <1>2
  DEF HandleInvokeKeys, ApiIssueInvokeKey, ApiRevokeInvokeKey, UiIssueAgentKey,
      UiRevokeAgentKey, UiIssueTenantKey, UiRevokeTenantKey, UiIssueTeamKey, UiRevokeTeamKey,
      UiIssue, UiRevoke, NewKey, Revoke
<1>3. CASE HandleTeams(q)
  BY <1>3
  DEF HandleTeams, ApiCreateTenant, UiCreateTenant, ApiCreateTeam, UiCreateTeam, ApiSetMember,
      ApiRemoveMember, UiSetMemberRole, UiRemoveMember, UiAddMember, Count, NewTenant, Load
<1>4. CASE HandleRest(q) \/ ArriveUi(q) \/ ArriveApi(q)
  BY <1>4
  DEF HandleRest, ApiOidc, UiOidc, ApiRead, UiRead, Invoke, Refuse, Show, ArriveUi, ArriveApi,
      Resolve
<1> QED BY <1>1, <1>2, <1>3, <1>4 DEF Handles

(* A step after which a team has no owner left is one of the form that     *)
(* does not count, or of a request whose reading is out of date.           *)
LEMMA OwnerStep ==
  ASSUME IInv, Loaded, NEW q \in Requests, Handles(q), NEW t \in Teams,
         Owners(t) # {}, Owners(t)' = {}
  PROVE  /\ req[q].at \in {"commit", "put"} /\ req[q].team = t
         /\ \/ req[q].at = "put"
            \/ role[t][req[q].user] # req[q].had
            \/ \E u \in req[q].seen : role[t][u] # "owner"
<1>1. req[q] \in ReqType /\ role \in [Teams -> [Users -> Roles \cup {"none"}]] BY ReqTyped
<1>2. role' # role BY DEF Owners
<1>3. \A v \in Users : role'[t][v] # "owner" BY DEF Owners
<1>4. PICK v \in Users : role[t][v] = "owner" BY DEF Owners
<1>5. ASSUME NEW s \in Teams, NEW u, NewTeam(q, s, u) PROVE FALSE
  <2>1. role' = [role EXCEPT ![s][u] = "owner"] BY <1>5 DEF NewTeam
  <2>2. role'[t][v] = "owner" BY <1>1, <1>4, <2>1
  <2> QED BY <1>3, <2>2
<1>6. Commit(q) BY <1>2, <1>5, RoleWrites
<1> DEFINE r == req[q]
<1>7. r.at \in {"commit", "put"} /\ role' = [role EXCEPT ![r.team][r.user] = r.new]
  BY <1>2, <1>6 DEF Commit
<1>8. r.team \in Teams /\ r.user \in Users /\ r.seen \subseteq Users BY <1>1 DEF ReqType
<1>9. t = r.team /\ v = r.user /\ r.new # "owner" BY <1>1, <1>3, <1>4, <1>7, <1>8
<1>10. CASE r.at = "commit" /\ role[t][r.user] = r.had
  <2>1. PICK w \in r.seen : w # r.user BY <1>4, <1>9, <1>10 DEF Loaded, LoadedBy
  <2>2. role'[t][w] = role[t][w] BY <1>1, <1>7, <1>8, <1>9, <2>1
  <2> QED BY <1>3, <1>7, <1>8, <1>9, <2>1, <2>2
<1> QED BY <1>7, <1>9, <1>10

(* The last owner of a team goes only to a request whose reading is out of *)
(* date, or to the form that adds a member (api/v1/teams.py,               *)
(* _forbid_removing_last_owner; ui/routes.py), whatever the number of      *)
(* users, teams and concurrent requests.                                   *)
THEOREM OwnersStay == Spec => OwnerKept
<1>1. Init => IInv /\ Loaded
  BY InitInv, AccessAssumption DEF Init, Loaded, LoadedBy, Idle
<1>2. IInv /\ Loaded /\ [Next]_vars => (IInv /\ Loaded)'
  BY NextInv, LoadedNext, AccessAssumption
<1>3. IInv /\ Loaded /\ [Next]_vars =>
        [\A t \in Teams : Owners(t) # {} /\ Owners(t)' = {} =>
           \E q \in Requests :
             /\ req[q].at \in {"commit", "put"} /\ req[q].team = t
             /\ \/ req[q].at = "put"
                \/ role[t][req[q].user] # req[q].had
                \/ \E u \in req[q].seen : role[t][u] # "owner"]_vars
  <2>1. SUFFICES ASSUME IInv, Loaded, Next, NEW t \in Teams, Owners(t) # {}, Owners(t)' = {}
                 PROVE  \E q \in Requests :
                          /\ req[q].at \in {"commit", "put"} /\ req[q].team = t
                          /\ \/ req[q].at = "put"
                             \/ role[t][req[q].user] # req[q].had
                             \/ \E u \in req[q].seen : role[t][u] # "owner"
    OBVIOUS
  <2>2. ~UNCHANGED role BY <2>1 DEF Owners
  <2>3. \E q \in Requests : Handles(q)
    BY <2>1, <2>2 DEF Next, Handles, Login, OidcCallback, Logout
  <2> QED BY <2>1, <2>3, OwnerStep
<1> QED BY <1>1, <1>2, <1>3, PTL DEF Spec, OwnerKept
===============================================================================
