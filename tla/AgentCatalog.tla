---------------------------- MODULE AgentCatalog ------------------------------
(***************************************************************************)
(* One agent, its immutable versions, the pointers to them (current and    *)
(* the aliases), its options, its event source and the job rows that pin a *)
(* version: api/v1/agents.py, api/v1/versions.py, the submission half of   *)
(* api/v1/jobs.py, api/v1/events.py, and the forms of ui/routes.py that do *)
(* the same.  A request loads what it needs, decides on what it loaded and *)
(* commits; each read and each commit is a step, and an UPDATE carries     *)
(* only the columns the request changed from what it had loaded.           *)
(***************************************************************************)
EXTENDS Integers

CONSTANTS
  Clients,   \* requests under way, one per client at a time
  Owners,    \* the clients whose role is owner; the others are editors
  Aliases,   \* alias names
  Jobs,      \* job rows
  MaxNo,     \* version numbers, bounded for the model checker
  NoOne      \* the author of a version that does not exist, and no alias

ASSUME CatalogAssumption ==
  /\ Owners \subseteq Clients
  /\ MaxNo \in Nat \ {0}
  /\ NoOne \notin Clients \cup Aliases

VARIABLES
  agent,     \* "absent", "live", "archived" or "gone" (deleted)
  options,   \* Agent.options: the owner-governed keys and the free ones
  current,   \* Agent.current_version_id as a version number, 0 for null
  author,    \* agent_versions: who wrote version n (its content)
  alias,     \* version_aliases: the version of each alias, 0 without a row
  wired,     \* an event source targets the agent
  pinned,    \* jobs: the version each row pins, 0 without a row
  pc,        \* where each request is
  held,      \* what each request loaded
  born,      \* history: the agent was created with its first version
  chosen,    \* history: the version the last promotion left current, 0 for none
  stale      \* history: versions since then whose request took its own for the first, and was late

request == <<pc, held>>
rows == <<agent, options, current, author, alias, wired, pinned>>
history == <<born, chosen, stale>>
vars == <<rows, request, history>>

Nos == 1..MaxNo
Options == [governed : BOOLEAN, free : BOOLEAN]
Written == {n \in Nos : author[n] # NoOne}

Stages == {"idle", "number", "insert", "promote", "settings", "alias",
           "delete", "resolve", "submit"}
Blank == [current |-> 0, no |-> 0, row |-> 0, on |-> NoOne,
          options |-> [governed |-> FALSE, free |-> FALSE],
          wish |-> [governed |-> FALSE, free |-> FALSE]]

TypeOK ==
  /\ agent \in {"absent", "live", "archived", "gone"}
  /\ options \in Options
  /\ current \in 0..MaxNo
  /\ author \in [Nos -> Clients \cup {NoOne}]
  /\ alias \in [Aliases -> 0..MaxNo]
  /\ wired \in BOOLEAN
  /\ pinned \in [Jobs -> 0..MaxNo]
  /\ pc \in [Clients -> Stages]
  /\ held \in [Clients -> [current : 0..MaxNo, no : 0..MaxNo, row : 0..MaxNo,
                           on : Aliases \cup {NoOne}, options : Options, wish : Options]]
  /\ born \in BOOLEAN
  /\ chosen \in 0..MaxNo
  /\ stale \subseteq Nos

Init ==
  /\ agent = "absent"
  /\ options = Blank.options
  /\ current = 0
  /\ author = [n \in Nos |-> NoOne]
  /\ alias = [a \in Aliases |-> 0]
  /\ wired = FALSE
  /\ pinned = [j \in Jobs |-> 0]
  /\ pc = [c \in Clients |-> "idle"]
  /\ held = [c \in Clients |-> Blank]
  /\ born = FALSE
  /\ chosen = 0
  /\ stale = {}

(* _get_visible_agent: the API finds the agent, archived or not. *)
Visible == agent \in {"live", "archived"}

(* _agent_form_page: the forms stay closed on an archived agent. *)
FormOpen == agent = "live"

(* Client c's request goes on to stage s with h in hand. *)
Begin(c, s, h) ==
  /\ pc[c] = "idle"
  /\ pc' = [pc EXCEPT ![c] = s]
  /\ held' = [held EXCEPT ![c] = h]

(* The request at stage s is answered, whatever the answer. *)
Answer(c, s) ==
  /\ pc[c] = s
  /\ pc' = [pc EXCEPT ![c] = "idle"]
  /\ held' = [held EXCEPT ![c] = Blank]

(* An UPDATE of a column that still holds what the request loaded is not sent. *)
Sent(old, new, now) == IF new = old THEN now ELSE new

-------------------------------------------------------------------------------
(* Agents: created, archived, restored, deleted. *)

MayGovern(c, o) == o.governed => c \in Owners

(* POST /agents: an agent without a version. *)
CreateAgent(c) ==
  /\ agent = "absent"
  /\ agent' = "live"
  /\ \E o \in Options : MayGovern(c, o) /\ options' = o
  /\ UNCHANGED <<current, author, alias, wired, pinned, request, history>>

(* The form creates the agent and its first version in one transaction. *)
CreateAgentForm(c) ==
  /\ agent = "absent"
  /\ agent' = "live"
  /\ \E o \in Options : MayGovern(c, o) /\ options' = o
  /\ author' = [author EXCEPT ![1] = c]
  /\ current' = 1
  /\ born' = TRUE
  /\ UNCHANGED <<alias, wired, pinned, request, chosen, stale>>

Archive(c) ==
  /\ c \in Owners
  /\ agent = "live"
  /\ agent' = "archived"
  /\ UNCHANGED <<options, current, author, alias, wired, pinned, request, history>>

Restore(c) ==
  /\ c \in Owners
  /\ agent = "archived"
  /\ agent' = "live"
  /\ UNCHANGED <<options, current, author, alias, wired, pinned, request, history>>

(* delete_agent counts the jobs; with any it answers 409. *)
OpenDelete(c) ==
  /\ c \in Owners
  /\ Visible
  /\ \A j \in Jobs : pinned[j] = 0
  /\ Begin(c, "delete", Blank)
  /\ UNCHANGED <<rows, history>>

(* Versions, aliases and eval rows go with the agent. *)
Erase ==
  /\ agent' = "gone"
  /\ current' = 0
  /\ author' = [n \in Nos |-> NoOne]
  /\ alias' = [a \in Aliases |-> 0]

(* Mutant: the DELETE trusts the count, as if jobs.agent_id cascaded to null. *)
DeleteTrusting(c) ==
  /\ Answer(c, "delete")
  /\ IF Visible /\ ~wired THEN Erase ELSE UNCHANGED <<agent, current, author, alias>>
  /\ UNCHANGED <<options, wired, pinned, history>>

(* The DELETE fails on the rows that do not cascade: jobs.agent_id and     *)
(* event_sources.target_agent_id.  A deleted row is no row to delete.      *)
Delete(c) ==
  /\ Answer(c, "delete")
  /\ IF Visible /\ ~wired /\ \A j \in Jobs : pinned[j] = 0
     THEN Erase ELSE UNCHANGED <<agent, current, author, alias>>
  /\ UNCHANGED <<options, wired, pinned, history>>

-------------------------------------------------------------------------------
(* Settings. *)

(* Owners alone flip a governed key, compared with the options just loaded. *)
Admits(c, o) == o.governed = options.governed \/ c \in Owners

OpenSettings(c) ==
  /\ Visible
  /\ \E o \in Options :
       /\ Admits(c, o)
       /\ Begin(c, "settings", [Blank EXCEPT !.options = options, !.wish = o])
  /\ UNCHANGED <<rows, history>>

OpenSettingsForm(c) == FormOpen /\ OpenSettings(c)

(* The whole options document is written, when it differs from the loaded one. *)
Settings(c) ==
  /\ Answer(c, "settings")
  /\ options' = IF Visible THEN Sent(held[c].options, held[c].wish, options) ELSE options
  /\ UNCHANGED <<agent, current, author, alias, wired, pinned, history>>

-------------------------------------------------------------------------------
(* Versions and the current one. *)

(* create_version loads the agent, its current pointer with it. *)
OpenVersion(c) ==
  /\ Visible
  /\ Begin(c, "number", [Blank EXCEPT !.current = current])
  /\ UNCHANGED <<rows, history>>

OpenVersionForm(c) == FormOpen /\ OpenVersion(c)

(* Mutant: any number past the largest will do. *)
NextNoAny(n) == \A m \in Written : m < n

(* n is coalesce(max(version_no), 0) + 1. *)
NextNo(n) == (\A m \in Written : m < n) /\ (n > 1 => n - 1 \in Written)

Number(c) ==
  /\ pc[c] = "number"
  /\ pc' = [pc EXCEPT ![c] = "insert"]
  /\ \E n \in Nos : NextNo(n) /\ held' = [held EXCEPT ![c].no = n]
  /\ UNCHANGED <<rows, history>>

(* Mutant: no unique constraint on (agent_id, version_no). *)
NumberTaken(n) == FALSE

(* UNIQUE (agent_id, version_no). *)
Taken(n) == author[n] # NoOne

(* Mutant: the newest version becomes the current one. *)
PromotesAlways(c) == TRUE

(* The first version is promoted: the request loaded no current one. *)
Promotes(c) == held[c].current = 0

(* The INSERT, and with it the first promotion. *)
InsertVersion(c) ==
  /\ Answer(c, "insert")
  /\ ~Taken(held[c].no)
  /\ Visible
  /\ author' = [author EXCEPT ![held[c].no] = c]
  /\ current' = IF Promotes(c) THEN held[c].no ELSE current
  /\ stale' = IF held[c].current = 0 /\ Written # {} THEN stale \cup {held[c].no} ELSE stale
  /\ UNCHANGED <<agent, options, alias, wired, pinned, born, chosen>>

(* Another request took the number, or the agent is gone: the INSERT fails. *)
InsertVersionFails(c) ==
  /\ pc[c] = "insert"
  /\ Taken(held[c].no) \/ ~Visible
  /\ Answer(c, "insert")
  /\ UNCHANGED <<rows, history>>

(* promote_version: an owner's request loads the agent and finds the version. *)
OpenPromote(c) ==
  /\ c \in Owners
  /\ Visible
  /\ \E n \in Written : Begin(c, "promote", [Blank EXCEPT !.current = current, !.no = n])
  /\ UNCHANGED <<rows, history>>

Promote(c) ==
  LET n == held[c].no IN
  /\ Answer(c, "promote")
  /\ IF Visible
     THEN current' = Sent(held[c].current, n, current) /\ chosen' = current' /\ stale' = {}
     ELSE UNCHANGED <<current, chosen, stale>>
  /\ UNCHANGED <<agent, options, author, alias, wired, pinned, born>>

-------------------------------------------------------------------------------
(* Aliases. *)

(* set_alias finds the version and the alias's row. *)
OpenAlias(c) ==
  /\ c \in Owners
  /\ Visible
  /\ \E n \in Written, a \in Aliases :
       Begin(c, "alias", [Blank EXCEPT !.no = n, !.row = alias[a], !.on = a])
  /\ UNCHANGED <<rows, history>>

(* The INSERT meets no row of another request, the UPDATE the row it loaded. *)
SetAlias(c) ==
  LET h == held[c] IN
  /\ Answer(c, "alias")
  /\ alias' = IF Visible /\ (h.row = 0) = (alias[h.on] = 0)
              THEN [alias EXCEPT ![h.on] = Sent(h.row, h.no, @)] ELSE alias
  /\ UNCHANGED <<agent, options, current, author, wired, pinned, history>>

DeleteAlias(c, a) ==
  /\ c \in Owners
  /\ Visible
  /\ alias[a] # 0
  /\ alias' = [alias EXCEPT ![a] = 0]
  /\ UNCHANGED <<agent, options, current, author, wired, pinned, request, history>>

(* ui_delete_alias: an alias without a row is no error. *)
DeleteAliasForm(c, a) ==
  /\ c \in Owners
  /\ Visible
  /\ alias' = [alias EXCEPT ![a] = 0]
  /\ UNCHANGED <<agent, options, current, author, wired, pinned, request, history>>

-------------------------------------------------------------------------------
(* Event sources and submissions. *)

(* create_event_source: the API wires an archived agent too. *)
Wire(c) ==
  /\ c \in Owners
  /\ Visible
  /\ wired' = TRUE
  /\ UNCHANGED <<agent, options, current, author, alias, pinned, request, history>>

(* ui_create_event_source: an archived agent is to be restored first. *)
WireForm(c) == FormOpen /\ Wire(c)

Unwire(c) ==
  /\ c \in Owners
  /\ wired
  /\ wired' = FALSE
  /\ UNCHANGED <<agent, options, current, author, alias, pinned, request, history>>

(* ui_delete_event_source: a key page, open on an archived agent too. *)
UnwireForm(c) == Visible /\ Unwire(c)

(* submit_job loads the agent; create_job will refuse an archived one.     *)
OpenSubmit(c) ==
  /\ agent = "live"
  /\ Begin(c, "resolve", [Blank EXCEPT !.current = current])
  /\ UNCHANGED <<rows, history>>

(* _resolve_version: a version named by id or number, an alias, or the     *)
(* current one as loaded.                                                  *)
Pins(c) == Written \cup {alias[a] : a \in Aliases} \cup {held[c].current}

Resolve(c) ==
  /\ pc[c] = "resolve"
  /\ \E n \in Pins(c) \ {0} :
       /\ pc' = [pc EXCEPT ![c] = "submit"]
       /\ held' = [held EXCEPT ![c].no = n]
  /\ UNCHANGED <<rows, history>>

(* No such version or alias, or no current version: 422 or 409. *)
ResolveFails(c) ==
  /\ Answer(c, "resolve")
  /\ UNCHANGED <<rows, history>>

(* An event with the source's secret runs the agent's current version. *)
Ingest(c) ==
  /\ wired
  /\ agent = "live"
  /\ current # 0
  /\ Begin(c, "submit", [Blank EXCEPT !.no = current])
  /\ UNCHANGED <<rows, history>>

(* create_job inserts the row; the agent may be archived by now, and the   *)
(* foreign keys refuse the row of an agent that is gone.                   *)
Submit(c) ==
  /\ Answer(c, "submit")
  /\ IF Visible
     THEN \E j \in Jobs : pinned[j] = 0 /\ pinned' = [pinned EXCEPT ![j] = held[c].no]
     ELSE UNCHANGED pinned
  /\ UNCHANGED <<agent, options, current, author, alias, wired, history>>

-------------------------------------------------------------------------------
Next ==
  \E c \in Clients :
    \/ CreateAgent(c) \/ CreateAgentForm(c) \/ Archive(c) \/ Restore(c)
    \/ OpenDelete(c) \/ Delete(c)
    \/ OpenSettings(c) \/ OpenSettingsForm(c) \/ Settings(c)
    \/ OpenVersion(c) \/ OpenVersionForm(c) \/ Number(c)
    \/ InsertVersion(c) \/ InsertVersionFails(c)
    \/ OpenPromote(c) \/ Promote(c)
    \/ OpenAlias(c) \/ SetAlias(c)
    \/ \E a \in Aliases : DeleteAlias(c, a) \/ DeleteAliasForm(c, a)
    \/ Wire(c) \/ WireForm(c) \/ Unwire(c) \/ UnwireForm(c)
    \/ OpenSubmit(c) \/ Resolve(c) \/ ResolveFails(c) \/ Ingest(c) \/ Submit(c)

Spec == Init /\ [][Next]_vars

-------------------------------------------------------------------------------
(* Every pointer, current, alias or job row, names a version that exists,  *)
(* whatever was deleted, numbered or promoted between a request's read and *)
(* its commit: no job outlives its agent.                                  *)
PointersResolve ==
  {current} \cup {alias[a] : a \in Aliases} \cup {pinned[j] : j \in Jobs}
    \subseteq Written \cup {0}

(* "Version rows are never mutated": once written, a number names the same *)
(* content until the agent is deleted, also when two requests computed the *)
(* same number.                                                            *)
VersionsImmutable ==
  [][agent' # "gone" => \A n \in Written : author'[n] = author[n]]_vars

(* "The first version of an agent auto-promotes so a freshly configured    *)
(* agent is runnable": with a version there is a current one, and numbers  *)
(* have no gap.                                                            *)
Runnable ==
  /\ Written # {} => current # 0
  /\ \A n \in Written, m \in Nos : m < n => m \in Written

(* "Owners promote": what an owner's promotion left current stays until the *)
(* next promotion, however many owners promote and editors create versions  *)
(* at once.  One thing alone displaces it: a version whose request loaded   *)
(* the agent before it had any, and so took itself for the first; on an     *)
(* agent born with its first version there is none.                         *)
PromotionStands ==
  chosen # 0 /\ agent # "gone" => current = chosen \/ (~born /\ current \in stale)

(* The same without that exception.                                         *)
PromotionKept == chosen # 0 /\ agent # "gone" => current = chosen

===============================================================================
