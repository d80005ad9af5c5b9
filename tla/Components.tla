------------------------------ MODULE Components ------------------------------
(***************************************************************************)
(* The components that share no state with each other: the plugins and      *)
(* their hooks, the translation extension, the two engine adapters, the     *)
(* rows of incoming messages, the message store, the Omega layer, a guarded *)
(* route, the statistics, the dashboard's pages, the restart of the         *)
(* infrastructure, the transfer of its data and its files.                  *)
(* A behaviour is one of theirs: `part` says whose.  As only one of them   *)
(* runs, they share the variables: v1 is the first variable of that         *)
(* component, v2 its second, and so on.                                    *)
(***************************************************************************)
EXTENDS Naturals, FiniteSets

(* The constants of each component, described there.                        *)
CONSTANTS
  Plugins, Priority, Admins, Firings, MaxOps,               \* PluginHooks
  Users, GroupAdmins, UserPart, Langs, TalkCalls, MaxMessages, \* Translation
  MaxReconnects, MaxOpens,                                  \* BaileysConnection
  WaMessages, Limit, Puts, MaxPuts, MaxMillis,              \* MessageStore
  WaSessions, Clients, NoOne, Limits, Requests, MaxOperations, \* OmegaTenants
  Tokens, Callers,                                          \* OmegaLogin
  Messages, Chats, Own, ChatOf, HistoryFetches, MaxReceipts, \* ChatPage
  Services, Dashboards, Given, MaxSaves, MaxFailures,       \* Infrastructure
  Senders, Disturbed, Reactors, May, CacheMax, MaxReactions, \* InboundMessages
  Restrictions, MaxRequests, MaxKeyChanges,                 \* RouteAccess
  Calls, MaxPageOpens, MaxCalls,                            \* PanelQueries
  Payers, MaxCounted,                                       \* UsageStats
  MaxRowChanges,                                            \* DataTransfer
  Files, MaxFileFailures,                                   \* FileStorage
  MaxMoves                                                  \* SessionsPage

(* Plain facts of the constants: identifiers are not confused with each     *)
(* other or with the absence of one, and limits and bounds are numbers.     *)
ASSUME AdaptersAssumption == MaxReconnects \in Nat /\ MaxOpens \in Nat
ASSUME HooksAssumption ==
  /\ Plugins # {} /\ Priority \in [Plugins -> Nat] /\ MaxOps \in Nat
ASSUME TalkAssumption ==
  /\ Users # {} /\ NoOne \notin Users \cup Langs /\ MaxMessages \in Nat \ {0}
ASSUME TenantsAssumption ==
  /\ IsFiniteSet(WaSessions) /\ NoOne \notin WaSessions \cup Clients
  /\ Limits \subseteq Nat /\ MaxOperations \in Nat
ASSUME LoginAssumption == Tokens # {}
ASSUME RouteAssumption ==
  WaSessions \cap {"another", "nothing"} = {} /\ MaxRequests \in Nat /\ MaxKeyChanges \in Nat
ASSUME StoreAssumption ==
  /\ WaMessages # {} /\ Limit \in Nat /\ MaxPuts \in Nat /\ MaxMillis \in Nat \ {0}
ASSUME InboundAssumption ==
  /\ May \in [Messages -> SUBSET [kind : {"text", "own", "status"}, from : Senders \cup {NoOne}]]
  /\ NoOne \notin Senders /\ CacheMax \in Nat \ {0} /\ MaxReactions \in Nat

ASSUME PageAssumption == MaxReceipts \in Nat
ASSUME InfraAssumption ==
  /\ DOMAIN Services \subseteq Nat /\ 0 \notin Dashboards /\ MaxSaves \in Nat
  /\ \A fixed \in DOMAIN Given : Given[fixed] \in BOOLEAN
ASSUME PanelAssumption == MaxPageOpens \in Nat /\ MaxCalls \in Nat
ASSUME TransferAssumption == MaxRowChanges \in Nat /\ MaxFailures \in Nat
ASSUME StatsAssumption == MaxCounted \in Nat \ {0}
ASSUME MediaAssumption == IsFiniteSet(Files) /\ MaxFileFailures \in Nat

VARIABLES part, v1, v2, v3, v4, v5, v6, v7, v8, v9, v10, v11, v12, v13

componentVars == <<part, v1, v2, v3, v4, v5, v6, v7, v8, v9, v10, v11, v12, v13>>

Hooks == INSTANCE PluginHooks WITH
  pluginStatus <- v1, arrays <- v2, admin <- v3, chain <- v4, ops <- v5

Talk == INSTANCE Translation WITH
  Handlers <- TalkCalls,
  saved <- v1, handler <- v2, messages <- v3, confirmed <- v4, granted <- v5,
  overtaken <- v6

Baileys == INSTANCE BaileysConnection WITH
  engineStatus <- v1, sock <- v2, sockets <- v3, rendering <- v4, connecting <- v5,
  reconnectTimer <- v6, reconnectAttempts <- v7, intentionalClose <- v8, opens <- v9,
  stop <- v10, operation <- v11, late <- v12, sentLate <- v13

Wwebjs == INSTANCE WwebjsClient WITH
  clientStatus <- v1, client <- v2, browser <- v3, initializing <- v4, qrRendering <- v5,
  ending <- v6, using <- v7, early <- v8, late <- v9, usedLate <- v10

Store == INSTANCE MessageStore WITH
  stored <- v1, put <- v2, millis <- v3, putCount <- v4, landed <- v5, lost <- v6,
  crossed <- v7

Tenants == INSTANCE OmegaTenants WITH
  gateway <- v1, rows <- v2, limits <- v3, subscriptions <- v4, op <- v5, operations <- v6,
  agreed <- v7, overtaken <- v8, excused <- v9

Login == INSTANCE OmegaLogin WITH
  userStatus <- v1, tokens <- v2, caller <- v3, dead <- v4, ordered <- v5, undone <- v6

Page == INSTANCE ChatPage WITH
  NoChat <- NoOne, Fetches <- HistoryFetches,
  view <- v1, bubbles <- v2, fetch <- v3, landed <- v4, post <- v5, stored <- v6,
  events <- v7, receipts <- v8

Infra == INSTANCE Infrastructure WITH
  Pages <- Dashboards,
  file <- v1, env <- v2, box <- v3, proc <- v4, timers <- v5, page <- v6, work <- v7,
  failures <- v8, saves <- v9, readied <- v10, intact <- v11

Inbound == INSTANCE InboundMessages WITH
  Busy <- Disturbed,
  engine <- v1, inbound <- v2, insert <- v3, row <- v4, revoke <- v5, reactor <- v6,
  reactionCount <- v7, lidPhoneCache <- v8, told <- v9, last <- v10, excused <- v11

Access == INSTANCE RouteAccess WITH
  MaxChanges <- MaxKeyChanges,
  key <- v1, request <- v2, seen <- v3, log <- v4, happened <- v5, unlogged <- v6,
  requests <- v7, changes <- v8

Panel == INSTANCE PanelQueries WITH
  MaxOpens <- MaxPageOpens,
  query <- v1, page <- v2, cache <- v3, invalidated <- v4, fetch <- v5, call <- v6,
  missed <- v7, opens <- v8, calls <- v9

Stats == INSTANCE UsageStats WITH
  Clients <- Payers, MaxMessages <- MaxCounted,
  messages <- v1, rows <- v2, report <- v3, arrivals <- v4

Transfer == INSTANCE DataTransfer WITH
  MaxChanges <- MaxRowChanges,
  database <- v1, stored <- v2, export <- v3, file <- v4, import <- v5, answer <- v6,
  newcomers <- v7, changes <- v8, failures <- v9

Media == INSTANCE FileStorage WITH
  MaxFailures <- MaxFileFailures,
  storageType <- v1, bucketState <- v2, local <- v3, bucket <- v4, archive <- v5, job <- v6,
  result <- v7, moved <- v8, failures <- v9

SessionList == INSTANCE SessionsPage WITH
  server <- v1, sessions <- v2, loading <- v3, socket <- v4, events <- v5, qrData <- v6,
  currentName <- v7, request <- v8, overtaken <- v9, missed <- v10, mixed <- v11,
  moves <- v12

Init ==
  \/ /\ part = "hooks" /\ Hooks!Init
     /\ v6 = 0 /\ v7 = 0 /\ v8 = 0 /\ v9 = 0 /\ v10 = 0 /\ v11 = 0 /\ v12 = 0 /\ v13 = 0
  \/ /\ part = "talk" /\ Talk!Init
     /\ v7 = 0 /\ v8 = 0 /\ v9 = 0 /\ v10 = 0 /\ v11 = 0 /\ v12 = 0 /\ v13 = 0
  \/ /\ part = "baileys" /\ Baileys!Init
  \/ /\ part = "wwebjs" /\ Wwebjs!Init
     /\ v11 = 0 /\ v12 = 0 /\ v13 = 0
  \/ /\ part = "store" /\ Store!Init
     /\ v8 = 0 /\ v9 = 0 /\ v10 = 0 /\ v11 = 0 /\ v12 = 0 /\ v13 = 0
  \/ /\ part = "tenants" /\ Tenants!Init
     /\ v10 = 0 /\ v11 = 0 /\ v12 = 0 /\ v13 = 0
  \/ /\ part = "login" /\ Login!Init
     /\ v7 = 0 /\ v8 = 0 /\ v9 = 0 /\ v10 = 0 /\ v11 = 0 /\ v12 = 0 /\ v13 = 0
  \/ /\ part = "page" /\ Page!Init
     /\ v9 = 0 /\ v10 = 0 /\ v11 = 0 /\ v12 = 0 /\ v13 = 0
  \/ /\ part = "infra" /\ Infra!Init
     /\ v12 = 0 /\ v13 = 0
  \/ /\ part = "inbound" /\ Inbound!Init
     /\ v12 = 0 /\ v13 = 0
  \/ /\ part = "route" /\ Access!Init
     /\ v9 = 0 /\ v10 = 0 /\ v11 = 0 /\ v12 = 0 /\ v13 = 0
  \/ /\ part = "panel" /\ Panel!Init
     /\ v10 = 0 /\ v11 = 0 /\ v12 = 0 /\ v13 = 0
  \/ /\ part = "stats" /\ Stats!Init
     /\ v5 = 0 /\ v6 = 0 /\ v7 = 0 /\ v8 = 0 /\ v9 = 0 /\ v10 = 0 /\ v11 = 0 /\ v12 = 0 /\ v13 = 0
  \/ /\ part = "transfer" /\ Transfer!Init
     /\ v10 = 0 /\ v11 = 0 /\ v12 = 0 /\ v13 = 0
  \/ /\ part = "media" /\ Media!Init
     /\ v10 = 0 /\ v11 = 0 /\ v12 = 0 /\ v13 = 0
  \/ /\ part = "list" /\ SessionList!Init
     /\ v13 = 0

Next ==
  /\ UNCHANGED part
  /\ \/ part = "hooks" /\ Hooks!Next /\ UNCHANGED <<v6, v7, v8, v9, v10, v11, v12, v13>>
     \/ part = "talk" /\ Talk!Next /\ UNCHANGED <<v7, v8, v9, v10, v11, v12, v13>>
     \/ part = "baileys" /\ Baileys!Next
     \/ part = "wwebjs" /\ Wwebjs!Next /\ UNCHANGED <<v11, v12, v13>>
     \/ part = "store" /\ Store!Next /\ UNCHANGED <<v8, v9, v10, v11, v12, v13>>
     \/ part = "tenants" /\ Tenants!Next /\ UNCHANGED <<v10, v11, v12, v13>>
     \/ part = "login" /\ Login!Next /\ UNCHANGED <<v7, v8, v9, v10, v11, v12, v13>>
     \/ part = "page" /\ Page!Next /\ UNCHANGED <<v9, v10, v11, v12, v13>>
     \/ part = "infra" /\ Infra!Next /\ UNCHANGED <<v12, v13>>
     \/ part = "inbound" /\ Inbound!Next /\ UNCHANGED <<v12, v13>>
     \/ part = "route" /\ Access!Next /\ UNCHANGED <<v9, v10, v11, v12, v13>>
     \/ part = "panel" /\ Panel!Next /\ UNCHANGED <<v10, v11, v12, v13>>
     \/ part = "stats" /\ Stats!Next /\ UNCHANGED <<v5, v6, v7, v8, v9, v10, v11, v12, v13>>
     \/ part = "transfer" /\ Transfer!Next /\ UNCHANGED <<v10, v11, v12, v13>>
     \/ part = "media" /\ Media!Next /\ UNCHANGED <<v10, v11, v12, v13>>
     \/ part = "list" /\ SessionList!Next /\ UNCHANGED v13

Spec ==
  /\ Init /\ [][Next]_componentVars
  /\ WF_componentVars(part = "baileys" /\ (Baileys!SocketMade \/ Baileys!ConnectFails) /\ UNCHANGED part)
  /\ WF_componentVars(part = "baileys" /\ Baileys!TimerFires /\ UNCHANGED part)
  /\ WF_componentVars(part = "baileys" /\ Baileys!OpeningSettles /\ UNCHANGED part)
  /\ WF_componentVars(part = "baileys" /\ Baileys!logoutEnds /\ UNCHANGED part)

-----------------------------------------------------------------------------
(* Properties.                                                             *)

(* The type invariants of the components.                                   *)
PartsTypeOK ==
  /\ part = "hooks"   => Hooks!TypeOK
  /\ part = "talk"    => Talk!TypeOK
  /\ part = "baileys" => Baileys!TypeOK
  /\ part = "wwebjs"  => Wwebjs!TypeOK
  /\ part = "store"   => Store!TypeOK
  /\ part = "tenants" => Tenants!TypeOK
  /\ part = "login"   => Login!TypeOK
  /\ part = "page"    => Page!TypeOK
  /\ part = "infra"   => Infra!TypeOK
  /\ part = "list"    => SessionList!TypeOK
  /\ part = "media"   => Media!TypeOK
  /\ part = "transfer" => Transfer!TypeOK
  /\ part = "stats"   => Stats!TypeOK
  /\ part = "panel"   => Panel!TypeOK
  /\ part = "route"   => Access!TypeOK
  /\ part = "inbound" => Inbound!TypeOK

(* A disabled plugin is reached by no event, and a chain of handlers that   *)
(* was under way when plugins came and went skips none it found.            *)
HandlersFollowPlugins == part = "hooks" => Hooks!DisabledIsSilent /\ Hooks!ChainServesAll

(* No message changes the translation settings a confirmed command made,    *)
(* and nobody has control of them whom no admin gave it.                    *)
SettingsHold == part = "talk" => Talk!SettingsHold

(* An engine that was stopped has no socket, browser or timer, and sends    *)
(* nothing that was under way; one that reports READY is connected.         *)
StoppedEnginesStayDown ==
  /\ part = "baileys" => Baileys!StopIsFinal /\ Baileys!ReadyIsOpen
  /\ part = "wwebjs"  => Wwebjs!StopIsFinal

(* A dropped connection of Baileys comes back, is given up or was ended.    *)
DropIsSettled ==
  (part = "baileys" /\ Baileys!Dropped) ~> (part = "baileys" /\ Baileys!Settled)

(* However puts overlap, the message store keeps exactly its limit; and what *)
(* is stored of a message that came in follows what happened to it.         *)
MessagesKept ==
  /\ part = "store"   => Store!StoreKeepsLimit
  /\ part = "inbound" => /\ Inbound!LateEventsHold
                         /\ Inbound!OnlyToldIsStored
                         /\ Inbound!CacheBounded

(* Assignments, account limits and subscriptions of the Omega layer agree,  *)
(* a suspended user is not let in, and a handler runs only for a key that   *)
(* its route lets in, read-only for viewers, with the audit log telling of  *)
(* what was done.                                                          *)
TenantsHold ==
  /\ part = "tenants" => /\ Tenants!AssignmentsHold
                         /\ Tenants!LimitsHold
                         /\ Tenants!SubscriptionsFollow
  /\ part = "login" => Login!SuspendedStayOut
  /\ part = "route" => Access!GrantedAsRead /\ Access!ViewersOnlyRead /\ Access!LogTellsTrue

(* The chat page shows a message once, and only messages of the chat it     *)
(* loaded; a page shows what the panel's calls changed, unless no           *)
(* invalidation named it; the sessions page ends up with the gateway's list, and its     *)
(* dialog has the name of the session whose QR it shows; and the statistics *)
(* add up over the sessions and clients they divide.                        *)
PagesHold ==
  /\ part = "page" => Page!OneBubblePerId /\ Page!OwnChatShown
  /\ part = "panel" => Panel!ShownIsCurrent
  /\ part = "list" => SessionList!QuietListIsTrue /\ SessionList!DialogIsNamed
  /\ part = "stats" => Stats!ReportsAddUp /\ Stats!UsageIsShared

(* A restart that did all the saved configuration asks for leaves a server  *)
(* that can boot, and a boot without a failure starts every built-in; an    *)
(* import that met no failure leaves the rows of its file, and its answer   *)
(* tells what it did; a file that is counted is listed and exported.        *)
InfraHolds ==
  /\ part = "infra" => Infra!RestartBoots /\ Infra!BuiltInsRun
  /\ part = "transfer" => /\ Transfer!CleanImportIsExact
                          /\ Transfer!AnswerTellsTrue
                          /\ Transfer!ThrownChangesNothing
                          /\ Transfer!ExportFitsTogether
  /\ part = "media" => Media!CountedIsListed /\ Media!ExportIsWhole
===============================================================================
