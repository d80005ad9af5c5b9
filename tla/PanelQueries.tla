------------------------------ MODULE PanelQueries -----------------------------
(***************************************************************************)
(* What the dashboard's pages show of the server: each page mounts queries  *)
(* of a shared cache (hooks/queries.ts, omega/pages), its buttons call the  *)
(* API, and a call that succeeded invalidates the queries it changed.  The  *)
(* cache is TanStack's, modelled from how the pages use it: a query that    *)
(* has no data or is stale is fetched when it is mounted, an invalidated    *)
(* one at once if it is mounted.  Of data only its age is told: it is what  *)
(* the server has, or older.  The server also changes without the panel -   *)
(* sessions drop, events are counted, others call the API - and no page     *)
(* here listens to it.  Entries of the cache do not touch each other,  *)
(* so a behaviour follows one of them through all pages.  Sessions and      *)
(* chats have states of their own and are in SessionsPage and ChatPage.     *)
(***************************************************************************)
EXTENDS Naturals, FiniteSets

CONSTANTS
  Calls,          \* slots for calls in flight
  MaxOpens,       \* bound: pages opened
  MaxCalls        \* bound: calls made

VARIABLES
  query,          \* the query that is followed
  page,           \* the page that is open
  cache,          \* what the query's data is
  invalidated,    \* the cache knows that it is stale
  fetch,          \* the fetch under way
  call,           \* the calls in flight
  missed,         \* history: it grew old in a way that is excepted below
  opens, calls

panelVars == <<query, page, cache, invalidated, fetch, call, missed, opens, calls>>

-----------------------------------------------------------------------------
(* The queries each page mounts.                                            *)
DashboardShows  == {"sessions", "stats", "webhooks"}
WebhooksShows   == {"webhooks", "sessions"}
TemplatesShows  == {"sessions", "templates"}
ApiKeysShows    == {"apiKeys"}
LogsShows       == {"logs"}
PluginsShows    == {"plugins", "engines", "currentEngine", "infra"}
InfraShows      == {"infra", "config"}
BulkShows       == {"sessions", "groups"}
ClientsShows    == {"omega-clients"}
ClientShows     == {"omega-client", "omega-client-sessions", "omega-client-usage"}
ClientFormShows == {"omega-plans", "omega-client"}
PlansShows      == {"omega-plans"}
StaffShows      == {"omega-users", "omega-clients"}
UsageShows      == {"omega-usage"}

Shows(p) ==
  CASE p = "dashboard" -> DashboardShows   [] p = "webhooks" -> WebhooksShows
    [] p = "templates" -> TemplatesShows   [] p = "apiKeys" -> ApiKeysShows
    [] p = "logs" -> LogsShows             [] p = "plugins" -> PluginsShows
    [] p = "infrastructure" -> InfraShows  [] p = "bulk" -> BulkShows
    [] p = "clients" -> ClientsShows       [] p = "client" -> ClientShows
    [] p = "clientForm" -> ClientFormShows [] p = "plans" -> PlansShows
    [] p = "staff" -> StaffShows           [] p = "usage" -> UsageShows
    [] OTHER -> {}

Pages == {"dashboard", "webhooks", "templates", "apiKeys", "logs", "plugins", "infrastructure",
          "bulk", "clients", "client", "clientForm", "plans", "staff", "usage", "sessions"}

Queries == UNION {Shows(p) : p \in Pages}

(* The calls each page makes: what they change on the server, and what they *)
(* invalidate once they succeeded.  Keys are prefixes: `sessions` is one of *)
(* the statistics', the groups' and the templates'.                         *)
Does(on, changes, tells) == [on |-> on, changes |-> changes, tells |-> tells]

UnderSessions == {"sessions", "stats", "groups", "templates"}

StopSession      == Does("dashboard", {"sessions", "stats", "logs"}, UnderSessions)
ChangesWebhook   == Does("webhooks", {"webhooks"}, {"webhooks"})
ChangesTemplate  == Does("templates", {"templates"}, {"templates"})
ChangesApiKey    == Does("apiKeys", {"apiKeys"}, {"apiKeys"})
MutantOwnListOnly == Does("plugins", {"plugins", "engines"}, {"plugins"})

TogglePlugin     == Does("plugins", {"plugins", "engines"}, {"plugins", "engines", "currentEngine"})

SavePluginConfig == Does("plugins", {"plugins"}, {"plugins"})
SaveEngineConfig == Does("plugins", {"config"}, {})
SaveInfraConfig  == Does("infrastructure", {"config"}, {})
ChangesClient    == Does("clientForm",
                         {"omega-clients", "omega-client", "omega-client-usage", "omega-usage"},
                         {"omega-clients", "omega-dashboard"})
CreatesPlan      == Does("plans", {"omega-plans"}, {"omega-plans"})
CreatesUser      == Does("staff", {"omega-users"}, {"omega-users"})
OnSessionsPage   == Does("sessions", {"sessions", "stats", "webhooks", "templates", "logs"}, {})

AllCalls ==
  {StopSession, ChangesWebhook, ChangesTemplate, ChangesApiKey, TogglePlugin, SavePluginConfig,
   SaveEngineConfig, SaveInfraConfig, ChangesClient, CreatesPlan, CreatesUser,
   OnSessionsPage}

-----------------------------------------------------------------------------
Data == {"none", "old", "new"}
NoCall == [pc |-> "idle"]
Call == [pc : {"sent", "done"}, does : AllCalls]

(* The type invariant. *)
TypeOK ==
  /\ query \in Queries /\ page \in Pages \cup {"login"}
  /\ cache \in Data /\ fetch \in {"no", "asked", "old", "new"}
  /\ invalidated \in BOOLEAN /\ missed \in BOOLEAN
  /\ call \in [Calls -> Call \cup {NoCall}]
  /\ opens \in 0..MaxOpens /\ calls \in 0..MaxCalls

Forgets ==
  /\ page' = "login" /\ cache' = "none" /\ fetch' = "no"
  /\ invalidated' = FALSE /\ missed' = FALSE
  /\ call' = [c \in Calls |-> NoCall]

Init ==
  /\ query \in Queries
  /\ page = "login" /\ cache = "none" /\ fetch = "no"
  /\ invalidated = FALSE /\ missed = FALSE
  /\ call = [c \in Calls |-> NoCall]
  /\ opens = 0 /\ calls = 0

Quiet        == fetch = "no"
ShownOn(p)   == query \in Shows(p)
Changes(c)   == query \in call[c].does.changes
Invalidates(c) == query \in call[c].does.tells
Running(c, pc) == call[c] # NoCall /\ call[c].pc = pc
Returns(c)   == call' = [call EXCEPT ![c] = NoCall]

-----------------------------------------------------------------------------
(* The query.  Mounting, or a window that gets the focus again, fetches     *)
(* what has no data, was invalidated, or is older than its staleTime.       *)
Fetches(p, aged) ==
  IF ShownOn(p) /\ Quiet /\ (cache = "none" \/ invalidated \/ aged)
  THEN fetch' = "asked" /\ missed' = FALSE
  ELSE UNCHANGED <<fetch, missed>>

Opens(p, aged) ==
  /\ aged => ShownOn(p) /\ Quiet
  /\ page' = p /\ opens' = opens + 1
  /\ Fetches(p, aged)
  /\ UNCHANGED <<query, cache, invalidated, call, calls>>

Reads ==
  /\ fetch = "asked" /\ fetch' = "new"
  /\ UNCHANGED <<query, page, cache, invalidated, call, missed, opens, calls>>

Lands ==
  /\ fetch \in {"old", "new"}
  /\ cache' = fetch /\ fetch' = "no" /\ invalidated' = FALSE
  /\ UNCHANGED <<query, page, call, missed, opens, calls>>

(* Both tries failed: the page shows the error over the data it has.        *)
FetchFails ==
  /\ ~Quiet
  /\ fetch' = "no" /\ invalidated' = TRUE /\ missed' = TRUE
  /\ UNCHANGED <<query, page, cache, call, opens, calls>>

-----------------------------------------------------------------------------
(* Calls: those that touch the query, each in the first free slot.          *)
NextFree(c) == call[c] = NoCall /\ \A k \in Calls : k < c => call[k] # NoCall

CallBegins(c, does) ==
  /\ does.on = page /\ query \in does.changes \cup does.tells
  /\ call' = [call EXCEPT ![c] = [pc |-> "sent", does |-> does]]
  /\ calls' = calls + 1
  /\ UNCHANGED <<query, page, cache, invalidated, fetch, missed, opens>>

Older(data) == IF data = "new" THEN "old" ELSE data

(* The server is changed: what was read of it is old.                       *)
ServerChanges(c) ==
  /\ Running(c, "sent")
  /\ cache' = IF Changes(c) THEN Older(cache) ELSE cache
  /\ fetch' = IF Changes(c) THEN Older(fetch) ELSE fetch
  /\ missed' = (missed \/ (Changes(c) /\ call[c].does = OnSessionsPage))
  /\ call' = [call EXCEPT ![c].pc = "done"]
  /\ UNCHANGED <<query, page, invalidated, opens, calls>>

(* The server changes without a call of the panel: nothing tells the pages, *)
(* and what was read before stays until it is read again.                   *)
OthersChange ==
  /\ cache' = Older(cache) /\ fetch' = Older(fetch)
  /\ missed' = (missed \/ fetch # "asked")
  /\ UNCHANGED <<query, page, invalidated, call, opens, calls>>

MutantLetsItLand(c) ==
  IF ~Invalidates(c) THEN UNCHANGED <<invalidated, fetch, missed>>
  ELSE /\ invalidated' = TRUE
       /\ IF ShownOn(page) /\ Quiet THEN fetch' = "asked" /\ missed' = FALSE
          ELSE missed' = (missed \/ (~Quiet /\ ~ShownOn(page))) /\ UNCHANGED fetch

(* Invalidating a mounted query fetches it anew, whatever fetch was under   *)
(* way.  A fetch for a page that is gone goes on, and what it read before   *)
(* the change counts as fresh when it lands.                                *)
Invalidated(c) ==
  IF ~Invalidates(c) THEN UNCHANGED <<invalidated, fetch, missed>>
  ELSE /\ invalidated' = TRUE
       /\ IF ShownOn(page) THEN fetch' = "asked" /\ missed' = FALSE
          ELSE missed' = (missed \/ ~Quiet) /\ UNCHANGED fetch

Answered(c) ==
  /\ Running(c, "done")
  /\ Invalidated(c)
  /\ Returns(c)
  /\ UNCHANGED <<query, page, cache, opens, calls>>

(* The call is refused, or its answer is lost: the page says that it failed *)
(* and invalidates nothing.                                                 *)
CallFails(c) ==
  /\ call[c] # NoCall
  /\ missed' = (missed \/ (Running(c, "done") /\ Changes(c)))
  /\ Returns(c)
  /\ UNCHANGED <<query, page, cache, invalidated, fetch, opens, calls>>

(* The key is not valid any more: the page is loaded anew, without it.      *)
Unauthorized ==
  /\ page # "login"
  /\ Forgets
  /\ UNCHANGED <<query, opens, calls>>

Next ==
  \/ opens < MaxOpens /\ \E p \in Pages, aged \in BOOLEAN : Opens(p, aged)
  \/ Reads \/ Lands \/ FetchFails
  \/ \E c \in Calls :
       \/ NextFree(c) /\ calls < MaxCalls /\ \E does \in AllCalls : CallBegins(c, does)
       \/ ServerChanges(c) \/ Answered(c) \/ CallFails(c)
  \/ OthersChange
  \/ Unauthorized

-----------------------------------------------------------------------------
(* Properties.                                                             *)

(* What calls change without telling: the audit log, the saved              *)
(* configuration, which two pages write, and what the client's own pages    *)
(* and the usage show.                                                      *)
Untold == {"logs", "config", "omega-client", "omega-client-usage", "omega-usage"}

(* Once a page is quiet, what it shows of the server is what the panel's    *)
(* calls left there, however fetches and calls overlapped and whichever     *)
(* page was opened meanwhile, except what Untold lists, and what missed     *)
(* counts since the query was last read: a change that the server or        *)
(* another caller made, what the sessions page did, a call that failed      *)
(* after it was done, and a fetch under way for a page that was left.       *)
ShownIsCurrent ==
  ShownOn(page) /\ Quiet /\ query \notin Untold /\ ~missed
    /\ (\A c \in Calls : call[c] # NoCall => ~Changes(c))
    => cache # "old"

-----------------------------------------------------------------------------
(* What makes it hold of every step: data that is old is being fetched, is  *)
(* known to be old and not shown, or a call is about to tell.               *)
Telling(c) == Running(c, "done") /\ Changes(c) /\ Invalidates(c)

OldIsKnown ==
  query \notin Untold /\ ~missed /\ (\A c \in Calls : ~Telling(c)) =>
    /\ fetch # "old"
    /\ cache = "old" => fetch \in {"asked", "new"} \/ (invalidated /\ Quiet /\ ~ShownOn(page))

PanelInv == TypeOK /\ OldIsKnown
===============================================================================
