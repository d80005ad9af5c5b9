------------------------------ MODULE RouteAccess ------------------------------
(***************************************************************************)
(* Who may call what: every route of the API with the guard and the role    *)
(* its decorators ask for, and one caller's requests through the guards     *)
(* (api-key.guard.ts, omega-auth.guard.ts), the handler and the audit log,  *)
(* while an administrator changes the caller's key.  The guard awaits the   *)
(* key's row and decides on that copy.  Addresses, rates and bodies are     *)
(* left out; what handlers do is in the modules of their services.          *)
(***************************************************************************)
EXTENDS Naturals, FiniteSets

CONSTANTS
  WaSessions,     \* sessions that paths name
  Restrictions,   \* sets of sessions an administrator may restrict a key to
  MaxRequests,    \* bound: requests of the caller
  MaxChanges      \* bound: changes of the caller's key

VARIABLES
  key,            \* the row of the caller's key
  request,        \* the request in flight
  seen,           \* history: what the row was since the request arrived
  log,            \* audit_logs
  happened,       \* history: audited calls that succeeded
  unlogged,       \* history: those whose row the database refused
  requests, changes

routeVars == <<key, request, seen, log, happened, unlogged, requests, changes>>

-----------------------------------------------------------------------------
(* The routes.  A route reads or writes (what is no GET), asks the global   *)
(* guard for a role or for any valid key, is open, or has the Omega guard;  *)
(* its path names a session, another thing by `:id`, or nothing.            *)
Route(of, names, does, guard, role, path) ==
  [of : {of}, name : names, does : {does}, guard : {guard}, role : {role}, path : {path}]

Reads(of, names, path)      == Route(of, names, "reads", "key", "any", path)
For(role, of, names, path)  == Route(of, names, "writes", "key", role, path)
Shows(role, of, names, path) == Route(of, names, "reads", "key", role, path)
Open(of, names)             == Route(of, names, "reads", "open", "any", "nothing")
Staff(roles, of, names, does) == Route(of, names, does, "omega", roles, "nothing")

MessageReads   == Reads("messages", {"getMessages"}, "session")
MessageSends   == For("operator", "messages",
  {"sendText", "sendTemplate", "sendImage", "sendVideo", "sendAudio", "sendDocument",
   "sendLocation", "sendContact"}, "session")
MessageActions ==
  For("operator", "messages", {"sendSticker", "reply", "forward", "react", "deleteMessage"}, "session")
    \cup Reads("messages", {"getChatHistory", "getReactions"}, "session")
MessageBatches ==
  For("operator", "messages", {"sendBulk", "cancelBatch"}, "session")
    \cup Reads("messages", {"getBatchStatus"}, "session")

SessionRoutes ==
  For("operator", "sessions", {"create"}, "nothing")
    \cup Reads("sessions", {"findAll"}, "nothing")
    \cup Reads("sessions", {"findOne"}, "session")
    \cup For("operator", "sessions", {"delete", "start", "stop"}, "session")
    \cup Shows("operator", "sessions", {"getQRCode"}, "session")
SessionChatRoutes ==
  For("operator", "sessions",
      {"requestPairingCode", "markChatRead", "deleteChat", "sendChatState"}, "session")
    \cup Reads("sessions", {"getGroups", "getChats"}, "session")
    \cup Reads("sessions", {"getStats"}, "nothing")

GroupRoutes ==
  Reads("groups", {"findAll", "findOne", "getInviteCode"}, "session")
    \cup For("operator", "groups",
       {"create", "addParticipants", "removeParticipants", "promoteParticipants",
        "demoteParticipants", "setSubject", "setDescription", "leave", "revokeInviteCode"}, "session")

MutantAnyoneBlocks ==
  Reads("contacts", {"listSaved", "findAll"}, "session")
    \cup For("operator", "contacts", {"saveContacts", "clearSaved", "deleteSaved"}, "session")
    \cup For("any", "contacts", {"blockContact", "unblockContact"}, "session")

ContactRoutes ==
  Reads("contacts", {"listSaved", "findAll", "findOne", "checkNumber", "getProfilePicture",
                     "resolvePhone"}, "session")
    \cup For("operator", "contacts",
       {"saveContacts", "clearSaved", "deleteSaved", "blockContact", "unblockContact"}, "session")

ChannelRoutes  ==
  Reads("channels", {"findAll", "findOne", "getMessages"}, "session")
    \cup For("operator", "channels", {"subscribe", "unsubscribe"}, "session")

LabelRoutes    ==
  Reads("labels", {"findAll", "findOne", "getChatLabels"}, "session")
    \cup For("operator", "labels", {"addLabelToChat", "removeLabelFromChat"}, "session")

CatalogRoutes  ==
  Reads("catalog", {"getCatalog", "getProducts", "getProduct"}, "session")
    \cup For("operator", "catalog", {"sendProduct", "sendCatalog"}, "session")

StatusRoutes   ==
  Reads("status", {"getStatuses", "getContactStatus"}, "session")
    \cup For("operator", "status",
       {"sendTextStatus", "sendImageStatus", "sendVideoStatus", "deleteStatus"}, "session")

TemplateRoutes ==
  Shows("operator", "templates", {"findBySession", "findOne"}, "session")
    \cup For("operator", "templates", {"create", "update", "delete"}, "session")

WebhookRoutes  ==
  Shows("operator", "webhooks", {"findBySession", "findOne"}, "session")
    \cup For("operator", "webhooks", {"create", "update", "test", "delete"}, "session")
WebhookList    == Shows("operator", "webhooks", {"findAll"}, "nothing")

KeyRoutes      ==
  For("admin", "keys", {"create"}, "nothing")
    \cup Shows("admin", "keys", {"findAll"}, "nothing")
    \cup Shows("admin", "keys", {"findOne"}, "another")
    \cup For("admin", "keys", {"update", "delete", "revoke"}, "another")
KeyCheck       == For("any", "keys", {"validate"}, "nothing")

PluginRoutes   ==
  Reads("plugins", {"findAll"}, "nothing") \cup Reads("plugins", {"findOne", "healthCheck"}, "another")
    \cup For("admin", "plugins", {"enable", "disable", "updateConfig"}, "another")
SettingsRoutes == Reads("settings", {"get"}, "nothing") \cup For("admin", "settings", {"update"}, "nothing")
AuditRoutes    == Reads("audit", {"findAll"}, "nothing")
StatsRoutes    ==
  Reads("stats", {"getOverview", "getMessageStats"}, "nothing")
    \cup Reads("stats", {"getSessionStats"}, "session")
HealthRoutes   == Open("health", {"check", "liveness", "readiness"})
MetricsRoutes  == Open("metrics", {"scrape"})
InfraRoutes    ==
  Shows("admin", "infra", {"getStatus", "getEngines", "getCurrentEngine", "getConfig", "exportData",
                           "getStorageFileCount", "exportStorage"}, "nothing")
    \cup For("admin", "infra", {"saveConfig", "requestRestart", "importData", "importStorage"}, "nothing")
    \cup Open("infra", {"healthCheck"})

OmegaAuthRoutes ==
  Open("omega", {"login"})
    \cup Staff("everyone", "omega", {"me"}, "reads") \cup Staff("everyone", "omega", {"logout"}, "writes")
OmegaAdminRoutes ==
  Staff("staff", "omega",
        {"getDashboard", "getUsage", "getSettings", "listClients", "getClient", "getClientSessions",
         "getClientUsage", "listPlans", "listSessions", "listUsers"}, "reads")
    \cup Staff("staff", "omega",
        {"createClient", "updateClient", "syncSessions", "assignSession", "unassignSession",
         "updateReplacement"}, "writes")
    \cup Staff("super", "omega", {"createPlan", "updatePlan", "createUser", "updateUser"}, "writes")

Routes == UNION {
  MessageReads, MessageSends, MessageActions, MessageBatches, SessionRoutes, SessionChatRoutes,
  GroupRoutes, ContactRoutes, ChannelRoutes, LabelRoutes, CatalogRoutes, StatusRoutes,
  TemplateRoutes, WebhookRoutes, WebhookList, KeyRoutes, KeyCheck, PluginRoutes, SettingsRoutes,
  AuditRoutes, StatsRoutes, HealthRoutes, MetricsRoutes, InfraRoutes, OmegaAuthRoutes, OmegaAdminRoutes}

(* The routes whose handler writes an audit row once the call succeeded.    *)
Audited == {r \in SessionRoutes : r.name \in {"create", "delete", "start", "stop", "getQRCode"}}

-----------------------------------------------------------------------------
Rank == [any |-> 0, viewer |-> 1, operator |-> 2, admin |-> 3]
KeyRoles == {"viewer", "operator", "admin"}
OmegaUserRoles == {"super_admin", "support_admin", "client_admin", "client_agent"}
OmegaRoles == [everyone |-> OmegaUserRoles, staff |-> {"super_admin", "support_admin"},
               super |-> {"super_admin"}]

(* `allowedSessions` is empty for a key of all sessions; an inactive key is *)
(* revoked, expired or deleted.                                             *)
Key == [role : KeyRoles, allowedSessions : {{}} \cup Restrictions, active : BOOLEAN]

(* The path's parameter: a session, the id of another thing, or none.       *)
Params == WaSessions \cup {"another", "nothing"}

(* `user` is the role of the Omega user whose token the request carries;    *)
(* without a token the request carries the key.                             *)
Pc == {"idle", "key", "read", "roles", "handler", "audit"}
NoRequest == [pc |-> "idle"]
Request ==
  [pc : Pc \ {"idle"}, route : Routes, param : Params, copy : Key, user : OmegaUserRoles \cup {"none"}]

(* The type invariant. *)
TypeOK ==
  /\ key \in Key
  /\ request = NoRequest \/ request \in Request
  /\ seen \subseteq Key
  /\ log \cup happened \cup unlogged \subseteq Audited
  /\ requests \in 0..MaxRequests /\ changes \in 0..MaxChanges

Init ==
  /\ key \in {k \in Key : k.active}
  /\ request = NoRequest
  /\ seen = {} /\ log = {} /\ happened = {} /\ unlogged = {}
  /\ requests = 0 /\ changes = 0

Goes(pc) == request' = [request EXCEPT !.pc = pc]
Ends     == request' = NoRequest /\ seen' = {}
Records  == <<log, happened, unlogged>>

-----------------------------------------------------------------------------
(* The guards.  A route that is open, or has its own guard, is past the     *)
(* global one at once.                                                      *)
ParamsOf(r) ==
  IF r.path = "session" THEN WaSessions ELSE {r.path}

Arrives(r, p, u) ==
  /\ requests < MaxRequests
  /\ u # "none" => r.guard = "omega"
  /\ request' = [pc |-> IF r.guard = "open" THEN "handler" ELSE IF u # "none" THEN "roles" ELSE "key",
                 route |-> r, param |-> p, copy |-> key, user |-> u]
  /\ seen' = {key}
  /\ requests' = requests + 1
  /\ UNCHANGED <<key, log, happened, unlogged, changes>>

KeyRead ==
  /\ request # NoRequest /\ request.pc = "key"
  /\ request' = [request EXCEPT !.pc = "read", !.copy = key]
  /\ UNCHANGED <<key, seen, Records, requests, changes>>

MutantAnySession(k, q) == k.active

(* validateApiKey; OmegaAuthGuard gives it no session.                      *)
Valid(k, q) ==
  /\ k.active
  /\ \/ k.allowedSessions = {} \/ q.route.guard = "omega" \/ q.param = "nothing"
     \/ q.param \in k.allowedSessions

MutantNextBest(k, role) == Rank[k.role] + 1 >= Rank[role]

hasPermission(k, role) == Rank[k.role] >= Rank[role]

Needed(r) == IF r.guard = "omega" THEN "admin" ELSE r.role

Passes(q) == Valid(q.copy, q) /\ hasPermission(q.copy, Needed(q.route))

(* An admin key acts as a super admin in the Omega layer, so the next guard *)
(* lets it through.                                                         *)
canActivate ==
  /\ request # NoRequest /\ request.pc = "read"
  /\ \/ Passes(request) /\ Goes("handler") /\ UNCHANGED seen
     \/ ~Passes(request) /\ Ends
  /\ UNCHANGED <<key, Records, requests, changes>>

(* OmegaRolesGuard, for a user whose token was valid.                       *)
HasRole(q) == q.user \in OmegaRoles[q.route.role]

RolesChecked ==
  /\ request # NoRequest /\ request.pc = "roles"
  /\ \/ HasRole(request) /\ Goes("handler") /\ UNCHANGED seen
     \/ ~HasRole(request) /\ Ends
  /\ UNCHANGED <<key, Records, requests, changes>>

-----------------------------------------------------------------------------
MutantLogsAttempts ==
  /\ request # NoRequest /\ request.pc = "handler"
  /\ Ends
  /\ log' = log \cup ({request.route} \cap Audited)
  /\ UNCHANGED <<key, happened, unlogged, requests, changes>>

(* The handler throws, or succeeds and then awaits the audit log, whose     *)
(* failure is swallowed.                                                    *)
Throws ==
  /\ request # NoRequest /\ request.pc = "handler"
  /\ Ends
  /\ UNCHANGED <<key, Records, requests, changes>>

Succeeds ==
  /\ request # NoRequest /\ request.pc = "handler"
  /\ IF request.route \in Audited
     THEN /\ Goes("audit") /\ happened' = happened \cup {request.route} /\ UNCHANGED seen
     ELSE Ends /\ UNCHANGED happened
  /\ UNCHANGED <<key, log, unlogged, requests, changes>>

LogEnds ==
  /\ request # NoRequest /\ request.pc = "audit"
  /\ \/ log' = log \cup {request.route} /\ UNCHANGED unlogged
     \/ unlogged' = unlogged \cup {request.route} /\ UNCHANGED log
  /\ Ends
  /\ UNCHANGED <<key, happened, requests, changes>>

(* While a request is in flight, an administrator gives the key another     *)
(* role or other sessions, revokes or deletes it, or it expires.            *)
KeyChanges(k) ==
  /\ k # key
  /\ k.active \/ k = [key EXCEPT !.active = FALSE]
  /\ key' = k /\ seen' = seen \cup {k}
  /\ changes' = changes + 1
  /\ UNCHANGED <<request, Records, requests>>

(* The nightly cleanup, and the one at boot, drop what is past its time.    *)
cleanup ==
  /\ request = NoRequest /\ log # {}
  /\ \E old \in SUBSET log :
       /\ old # {}
       /\ log' = log \ old /\ happened' = happened \ old /\ unlogged' = unlogged \ old
  /\ UNCHANGED <<key, request, seen, requests, changes>>

Next ==
  \/ /\ request = NoRequest
     /\ \E r \in Routes, u \in OmegaUserRoles \cup {"none"} : \E p \in ParamsOf(r) : Arrives(r, p, u)
  \/ KeyRead \/ canActivate \/ RolesChecked
  \/ Throws \/ Succeeds \/ LogEnds \/ cleanup
  \/ /\ request # NoRequest /\ key.active /\ changes < MaxChanges
     /\ \E k \in Key : KeyChanges(k)

-----------------------------------------------------------------------------
(* Properties.                                                             *)

Handling == request # NoRequest /\ request.pc \in {"handler", "audit"}
Insiders == {"super_admin", "support_admin"}

(* A handler runs for a request that carries the key only if the key, as it *)
(* was at some moment since the request arrived, was active, of that        *)
(* session, and of the role its route asks for, however the key changed.    *)
GrantedAsRead ==
  Handling /\ request.route.guard # "open" /\ request.user = "none" =>
    \E k \in seen :
      /\ k.active
      /\ request.param \in WaSessions => k.allowedSessions = {} \/ request.param \in k.allowedSessions
      /\ request.route.role = "operator" => k.role # "viewer"
      /\ request.route.role \in {"admin", "everyone", "staff", "super"} => k.role = "admin"

(* What is no GET is done for an operator, an administrator or the staff of *)
(* the panel: a viewer's key reads only (docs/07-api-collection.md:991).    *)
(* The check of a key, a POST, changes nothing, and a logout ends only the   *)
(* caller's own token.                                                      *)
ViewersOnlyRead ==
  Handling /\ request.route.does = "writes" /\ request.route.name \notin {"validate", "logout"} =>
    \/ request.user \in Insiders
    \/ request.user = "none" /\ \E k \in seen : k.role # "viewer"

(* What the audit log tells happened, and what happened is told unless the  *)
(* database refused the row.                                                *)
LogTellsTrue ==
  /\ log \subseteq happened
  /\ request = NoRequest => happened \subseteq log \cup unlogged

(* Why: the copy a request carries is one of the states its key was in, and  *)
(* past the guards it is one that passed them.                              *)
Guarded(q) ==
  CASE q.pc \in {"key", "read"} -> q.route.guard # "open" /\ q.user = "none"
    [] q.pc = "roles"           -> q.user # "none"
    [] OTHER -> \/ q.route.guard = "open" /\ q.user = "none"
                \/ q.user = "none" /\ Passes(q)
                \/ q.user # "none" /\ HasRole(q)

GuardInv ==
  /\ key \in Key
  /\ request # NoRequest =>
       /\ request \in Request
       /\ key \in seen /\ request.copy \in seen
       /\ request.param \in ParamsOf(request.route)
       /\ request.user # "none" => request.route.guard = "omega"
       /\ Guarded(request)
  /\ log \cup unlogged \subseteq happened
  /\ happened \subseteq log \cup unlogged \cup {r \in Routes : request # NoRequest /\ request.pc = "audit" /\ request.route = r}
  /\ request # NoRequest /\ request.pc = "audit" => request.route \in happened
===============================================================================
