# A verification project for WP-Open-Omega

WP-Open-Omega is a NestJS gateway that runs WhatsApp sessions behind a REST and
WebSocket API, with a dashboard and a SaaS layer ("Omega") over it. This directory
holds TLA+ modules that model the parts of it in which several things happen at
once, the TLC configurations that check them on small instances, and TLAPS proofs
of the most important safety properties for every value of the constants.
`PROJECT.json` lists the components, the runs, the mutants that show that each
property can fail, the source lines each definition stands for, the findings, the
hazards and the theorems.

Run a check with `tlc -config <Run>.cfg <MCModule>.tla` and a proof with
`tlapm <Module>Proofs.tla`.

## 1. Inventory

Sources are under `src/src/` unless they begin with `dashboard/` (`src/dashboard/src/`).

| Component | State it keeps | Operations | Interacts with | Modelled by |
|---|---|---|---|---|
| Session lifecycle, `modules/session/session.service.ts` | the maps `engines`, `reconnectStates`, `stoppingSessions`, `sessionErrors`; the row's `status` | create, start, stop, delete, the engine's callbacks, `scheduleReconnect`/`executeReconnect`, boot, shutdown | the engine (calls and callbacks), hooks, webhooks, WebSocket, database | SessionLifecycle |
| Baileys adapter, `engine/adapters/baileys.adapter.ts` | the socket, a status, its own reconnect timer and attempt counter | initialize, connect, disconnect, logout, destroy, operations | callbacks into the session service | BaileysConnection |
| whatsapp-web.js adapter, `engine/adapters/whatsapp-web-js.adapter.ts` | the client and its browser, a status | the same | the same | WwebjsClient |
| Baileys message store, `engine/adapters/baileys-message-store.service.ts` | a capped table of messages | put, get, clear | the Baileys adapter | MessageStore |
| Incoming messages, callbacks of the session service and the adapters' mappers | the message's row, `lidPhoneCache` | onMessage, onMessageCreate, onMessageRevoked, onMessageReaction, resolveSenderPhone | the engine, hooks, webhooks, WebSocket, database | InboundMessages |
| Messages, `modules/message/message.service.ts` and the receipt, revocation and reaction callbacks | the message's row | the sends, receipts, revocations, reactions | the engine, database, hooks | MessageDelivery |
| Bulk sending, `modules/message/bulk-message.service.ts` | `processingBatches`, the batch's row | createBatch, processBatch, cancelBatch, the sweep at boot | the engine, database | BulkBatch, BatchContract |
| Webhooks, `modules/webhook/webhook.service.ts`, `modules/queue/processors/webhook.processor.ts` | the webhook's row, BullMQ's jobs | dispatch, direct delivery with retries, the job processor | hooks, the consumer's endpoint, Redis | WebhookDelivery |
| API keys, `modules/auth/auth.service.ts` | the key's row, `pendingUsage` | validateApiKey, create, update, revoke, delete | every request, WebSocket subscriptions | ApiKeyUsage |
| WebSocket gateway, `modules/events/events.gateway.ts` | the rooms of each client | connect, subscribe, unsubscribe, disconnect | API keys, the session service | EventsGateway |
| Guards, controllers, audit log, `modules/auth/guards`, `modules/*/…controller.ts`, `modules/audit` | `audit_logs` | a request through guard, handler and log | API keys, every service | RouteAccess |
| Hook manager and plugin loader, `core/hooks`, `core/plugins` | `hooks`, `plugins` | register, execute, enable, disable | every service that runs a hook | PluginHooks |
| Translation plugin, `plugins/extensions/translation` | a group's settings, in the plugin's storage | commands, learning, translating | hooks, the engine, the translator's HTTP API | Translation |
| Omega layer, `modules/omega` | clients, subscriptions, mirrored sessions, users, tokens | assign, unassign, sync, update, login, guard, suspend | the gateway's own HTTP API | OmegaTenants, OmegaLogin |
| Statistics and usage, `modules/stats`, `modules/omega/omega-usage.service.ts` | none: several queries per report | the reports | messages, sessions, clients | UsageStats |
| Infrastructure, `modules/infra`, `modules/docker`, `common/services/shutdown.service.ts`, `dashboard/pages/Infrastructure.tsx` | the saved configuration, the containers, a shutdown timer | save, restart, boot; the page's pending profiles | the Docker daemon, the supervisor | Infrastructure |
| Data transfer, `modules/infra/infra.controller.ts` | the data database | export, import | sessions, webhooks, messages | DataTransfer |
| File storage, `common/storage/storage.service.ts` | which backend answers; directory and bucket | list, count, export, import | S3, the file system | FileStorage |
| Chat page, `dashboard/pages/Chats.tsx` | the bubbles | history, send, live events | REST and WebSocket | ChatPage |
| Sessions page, `dashboard/pages/Sessions.tsx` | the list, the QR dialog | fetch, create, start, stop, delete, poll, live events | REST and WebSocket | SessionsPage |
| The other pages, `dashboard/hooks/queries.ts` and `dashboard/pages` | a shared query cache | queries, mutations, invalidations | REST | PanelQueries |
| Engine factory, auto-reply plugin, stores of contacts, cache, settings, contacts to templates, backfill, wiring, SDKs | at most a row or an object per call | one engine call or one query each | | no (see 7) |

What is hard in them, and what correct means:

* **Sessions.** Every method of the service runs to its next `await` and is then
  overtaken: by other API calls, by the reconnect timer, by callbacks of an engine
  it is about to destroy. Correct means: a stopped or deleted session stays
  stopped, one session has one engine, a lost connection is retried until the
  budget is spent and then reported, and the row tells the truth after the
  writes have landed, also after a crash.
* **Adapters.** Each has a connection that comes and goes under its operations, and a QR
  code that takes an await to render. Correct means: after an end there is no socket,
  browser or timer and nothing that was being prepared is sent; a dropped connection
  comes back or is given up; READY means connected.
* **Batches.** A worker and any number of cancels each hold their own copy of the
  entity and save it whole. Correct means: nothing is sent twice, a cancel that
  returned stops the sending and is what the row says, the counters add up.
* **Messages.** Receipts, revocations and the inserts of incoming messages are written
  without being awaited and may overtake each other. Correct means: the stored state
  only advances, ends at the highest receipt, shows a revocation, and never crosses to
  another account; the store of the newest messages keeps its limit.
* **Webhooks.** Retries, a bookkeeping update inside the try of the request, a
  queue that runs a job again when its worker vanished, also when that worker had told
  the outcome already. Correct means: bounded attempts, one outcome told of a delivery
  whose worker stayed, and no webhook costs another its event.
* **Keys, rooms, routes.** The usage counter is accumulated in memory and flushed by saving
  a row that was read earlier; guards and subscriptions act on a copy of the key. Correct
  means: no use counted twice, a revoke that holds, rooms and handlers only for what the
  key allowed at some moment since the request arrived, a log that tells what happened.
* **Plugins and translation.** Chains of handlers go on through an array that changes under
  them; settings are loaded and saved around awaits. Correct means: a disabled plugin is
  silent, no handler is skipped, and no message changes what a command set.
* **Omega.** Whole rows saved around awaits. Correct means: limits, assignments and
  subscriptions agree, and a suspended user stays out.
* **Operations on the whole system.** A restart starts and removes containers one call at a
  time while another dashboard saves; an import replaces tables while messages are saved;
  the bucket answers during a transfer of files. Correct means: the server can boot
  afterwards, and each answer tells what is there.
* **Pages.** Answers, live events and polls land in any order, in closures of an older
  render. Correct means: a message is shown once and in its chat, a quiet page shows what
  its own calls left on the server.

## 2. Plan

Order: what the program is for came first.

1. `SessionLifecycle`, `BulkBatch`, `MessageDelivery`, `WebhookDelivery`,
   `ApiKeyUsage`, each with proofs. *Done.*
2. `BatchContract`, the abstract batch, which `BulkBatch` implements; `EventsGateway`, which
   composes the gateway with `ApiKeyUsage`. *Done.*
3. `BaileysConnection`, `WwebjsClient`, `InboundMessages`, `MessageStore`. *Done.*
4. `PluginHooks`, `Translation`. *Done.*
5. `OmegaTenants`, `OmegaLogin`, `RouteAccess`, `UsageStats`. *Done.*
6. `Infrastructure`, `DataTransfer`, `FileStorage`. *Done.*
7. `ChatPage`, `SessionsPage`, `PanelQueries`. *Done.*
8. Proofs: types and the safety properties of every run that is to pass, and the
   refinement of `BatchContract`. *Done*; section 6 says what stays with TLC.

Further abstract specifications worth stating: *a session contract* (down, coming up,
up, given up) that `SessionLifecycle` refines between stops; *a delivery contract*
(undecided, then delivered or failed, once) that `WebhookDelivery` refines in both modes.

## 3. The modules

In all of them an action is the code between two awaits, so that interleavings
are those of one Node.js process, and a TypeORM `save` makes the writer's whole
copy the row (inserting it again when the row is gone). The query that opens a
call is taken with the code that follows it or starts at once, as each module
says. Histories (variables marked `history:`) only record; no action reads them,
apart from bounding how often something is raised. Slots (calls, puts, handlers,
requests) are names for what is in flight; a call takes the first free one where the
slots are numbers. The same holds of dashboards (the lowest number saves first) and of
the store's messages (a new one has the lowest number no row or put has): what differs
in its name only is one case.

### SessionLifecycle

One session; every map of the service is keyed by the session's id. `task` holds
the async functions in flight, each suspended at a named await; `est` holds what
each engine incarnation is doing, so that an engine which is no longer in the map
can still be connected. `rs` and `leaked` distinguish the timer the service can
cancel from those `scheduleReconnect` overwrote. `writes` are the status UPDATEs
that were issued and not awaited; with `OrderedWrites = FALSE` they would land in any
order, as through a pool of connections (no run uses it: the row then tells the
truth of no moment in particular).

A close may fail where the adapter's does (`DestroyMayReject`, whatsapp-web.js;
`WontClose`): a delete rejects, a reconnect ends and is scheduled again, a stop swallows
the failure and a shutdown waits it out, and both go on without the engine, which is
then `stuck`: registered nowhere and perhaps connected.

Assumed: an engine that was closed raises no more callbacks (what the adapters make of that is in `BaileysConnection` and
`WwebjsClient`); API calls arrive only while the process is up; the status
updates themselves do not fail. Abstracted: QR_READY and AUTHENTICATING are one
status; adjacent writes of the same status are one.

### BulkBatch and BatchContract

One batch. `row`, the worker's `mem` and each cancel's `snap` are three kinds of
copy of the entity, `flag` is `processingBatches`. The engine's call for any kind
of message is one call that is accepted or refused. `met` records where a cancel's
signal met the worker; the properties need it, because the code treats a cancel
before the worker's mark, during it, while it sends and after its last look
differently.

`BatchContract` is what a batch promises: messages in their order and once each, as long
as it runs and nobody halted it; one run; COMPLETED only of a run that handed over
everything; nothing sent after it ended. `BulkBatch!MeetsContract` is the refinement: the
mapping takes `status` from the row, `running` from whether a worker exists that may still
send, `halted` from whether a cancel met it, and `handed` from the sends.

### MessageDelivery and InboundMessages

`MessageDelivery` has the outgoing messages of two accounts under one id. The send saves
twice; receipts and revocations are UPDATEs in flight that find the row by session and
id; a reaction reads the entity and saves it whole. Taken as true: the engine's answer to
a send, but for the id that whatsapp-web.js makes up for a forward (`known` is FALSE).

`InboundMessages` has the messages that come: the event of the library, the mapping with its
lookup of the sender, the hook that may stop a message, the insert that is sent off, the
announcement; and revocations and reactions, which nothing serialises with them. The cache
of resolved senders is a sequence, oldest first, as the code's `Map` is used.

### WebhookDelivery

One event and several webhooks. `disp` is the loop of `dispatch` with the direct
retries inside it; `job` is BullMQ's view of each queued delivery. BullMQ, Redis
and the consumer are external; a job whose worker vanished is run again
`maxStalledCount` times (1 by default). A job tells its hook, which is awaited
(`telling`, `failing`), and BullMQ learns of it in a later step (`JobCompletes`,
`JobFailureCounted`): the process may end in between, and `retold` remembers the jobs
that it happened to. The list of events of a webhook is taken
as matching. `queueEnabled` is fixed at boot and any of `QueueModes`.

### ApiKeyUsage, EventsGateway, RouteAccess

`ApiKeyUsage` has one key's row. Each call in flight holds the copy of the row it read; a
save makes that copy the row. `grants` stands for everything an update may change; the
checks on address, session and expiry are one refusal. `EventsGateway` EXTENDS it: a
connection and every subscription runs a call of `validateApiKey` of the same key, next to HTTP
requests and changes; one that brings no key is turned away. An update that narrows the
key leaves it the sessions in `Kept`. `RouteAccess` has the table of all routes with what their
decorators ask for (`Routes`), and takes a request through the guard (which awaits the row
and decides on the copy), the handler and the audit log while the key is changed.

### BaileysConnection, WwebjsClient, MessageStore

One adapter from `initialize` to the end of its session, with the library external: a
socket opens, closes, asks for a QR code; a browser is launched and dies. An operation is
a check, a preparation and a use, whatever it sends. `MessageStore` has puts of three
queries each that overlap, on a clock whose milliseconds may tie.

### PluginHooks, Translation

`arrays` is a heap of registration arrays, since running chains keep the array they took
while a disable replaces it and a register sorts it in place. `Translation` has one group,
all commands, and each call of `handleMessage` with the copy of the document it loaded.
Authors are compared by the user's part of their ids, as `widEquals` does (`UserPart`);
in the instance the group lists its administrator under another form of the id than the
messages carry.

### OmegaTenants, OmegaLogin, UsageStats

Operations hold the rows they read until they save them. The gateway's list of sessions
is external. `UsageStats` has each report as a row of queries between which messages are
saved, fail, and sessions are assigned; `arrivals` counts what came in meanwhile.

### Infrastructure, DataTransfer, FileStorage

`Infrastructure` has what the file says and what the running process read of it, the
containers, the process and its exit timers, and what each dashboard holds. What the host's
environment or `.env` fixes (`Given`) wins over the file. A container that was not seen is
looked for again, its image pulled, then created and started, with other requests between
these steps; a server that boots without Docker is `alone`. `DataTransfer`
has the export table by table and the import statement by statement, on SQLite (one
connection, so that others' inserts are a part of the transaction) or PostgreSQL (the first
failing statement spoils the transaction). `FileStorage` has the choice of a backend at
each call, and the bucket's answer as an event.

### ChatPage, SessionsPage, PanelQueries

The pages against a server of the fewest states that tells them apart. `PanelQueries`
follows one entry of TanStack's cache (external, modelled from how the pages use it)
through all pages; `Untold` lists the entries that some call changes without
invalidating them, each with the call. What changes without the panel (a session that
drops, statistics, other callers) is `OthersChange`, at any moment: no page is told, so
`missed` excepts it until the query is read again.

## 4. The runs

| Run | Instance | What it shows |
|---|---|---|
| SessionReconnect | 3 engines, 1 caller, 2 reconnect runs, budget 2, a leaked timer | never silently stuck DISCONNECTED, one engine unless calls overlap, FAILED has a reason, no reconnect after a stop |
| SessionRestart | 2 engines, 2 callers, 1 reconnect run, budget 1, one engine at a time may not close, a crash or shutdown | types; READY in the row has an engine behind it once the writes landed; a stop wins and holds under overlapping calls |
| SessionStopOrphan | 3 engines, 1 caller, 1 reconnect run | *violation*: a stop during a reconnect leaves an engine connected that nobody owns |
| BatchRuns | 4 messages, progress saved every 2, 2 cancels, 1 rejected query, 1 crash | counters balance in every copy, cancels hold, the batch implements its contract, a batch being processed ends |
| BatchCancelLost | 4 messages, 2 cancels | *violation*: a cancel that returned is undone, the batch ends COMPLETED |
| MessageReceipts | 2 accounts, 1 id, 3 receipts, 1 reaction, 1 rejected query | statuses only advance and converge, unless a reaction saved an overtaken copy; no cross-talk |
| MessageReaction | the same, no rejected query | *violation*: a reaction takes the delivery state back |
| WebhookRuns | 2 webhooks, retryCount 0 and 3, both modes, 2 crashes, 1 rejected update, 1 toggle | attempts bounded, one outcome unless the worker vanished after telling one, none forgotten, everything settled |
| WebhookErrorLies | 2 webhooks, queue | *violation*: `webhook:error` for a delivery the endpoint accepted |
| ApiKeyRaces | 3 calls in flight, 1 socket, 3 topics of which the narrowed key keeps 1, 3 uses, 2 changes, window 2, 1 rejected save, 1 crash | no use counted twice; changes hold and counts are exact unless a save landed under another call's copy; rooms were granted |
| ApiKeyRevoke | one key, fewer calls | *violation*: a revoked key validates again |
| ComponentRuns | the sixteen instances below, one per behaviour | the properties below |

`Components` holds one instance of each component that shares no state with the others;
a behaviour is one of theirs (`part` says whose), so one run checks them all, and its
properties are conjunctions of `part = ... => <property of the module>`. Its constants are
those of the modules, with an assumption named for each; `MCComponents` and
`ComponentRuns.cfg` give them the values of the table.

| Part | Instance | Property of the run, and its parts |
|---|---|---|
| hooks | 2 plugins, 2 administrators, 1 firing, 3 operations | `HandlersFollowPlugins`: `DisabledIsSilent`, `ChainServesAll` |
| talk | an admin, under two forms of its id, and a member, 2 languages, 2 handlers, 3 messages (2 in a group that is new) | `SettingsHold` |
| baileys | 2 reconnects allowed, 2 openings | `StoppedEnginesStayDown`: `StopIsFinal`, `ReadyIsOpen`; `DropIsSettled` (liveness) |
| wwebjs | one client | `StoppedEnginesStayDown`: `StopIsFinal` |
| store | 3 messages, limit 2, 2 puts in flight, 3 puts, 2 milliseconds | `MessagesKept`: `StoreKeepsLimit` |
| inbound | 2 messages, 2 senders, a cache of 1, 2 reactions | `MessagesKept`: `LateEventsHold`, `OnlyToldIsStored`, `CacheBounded` |
| tenants | 2 sessions, 1 client, limits 1 and 2, 2 requests, 3 operations | `TenantsHold`: `AssignmentsHold`, `LimitsHold`, `SubscriptionsFollow` |
| login | 2 tokens, 2 callers | `TenantsHold`: `SuspendedStayOut` |
| route | every route, 2 sessions, 1 request, 1 change of the key | `TenantsHold`: `GrantedAsRead`, `ViewersOnlyRead`, `LogTellsTrue` |
| stats | 2 sessions, 2 clients, 2 messages | `PagesHold`: `ReportsAddUp`, `UsageIsShared` |
| page | 2 messages, 2 chats, 2 history requests, 1 receipt | `PagesHold`: `OneBubblePerId`, `OwnChatShown` |
| panel | every query, 2 calls, 2 pages opened, changes by others | `PagesHold`: `ShownIsCurrent` |
| list | 2 sessions, 2 requests at a time, 3 moves | `PagesHold`: `QuietListIsTrue`, `DialogIsNamed` |
| infra | 2 services, of which the environment fixes one's setting, 2 dashboards, 2 saves, 1 failed call | `InfraHolds`: `RestartBoots`, `BuiltInsRun` |
| transfer | 2 sessions, 2 changes, 1 failed statement, one import, either database | `InfraHolds`: `CleanImportIsExact`, `AnswerTellsTrue`, `ThrownChangesNothing`, `ExportFitsTogether` |
| media | 2 files, 2 failures | `InfraHolds`: `CountedIsListed`, `ExportIsWhole` |

**Bounds.** Three engines are what a stop, a start and a reconnect can have alive
at once; two are enough with a budget of 1. Two reconnect runs and one leaked
timer are what a double `scheduleReconnect` takes. Two cancels are the fewest of which
one can copy what the other wrote; four messages with a save every two let a batch
end on, and between, progress saves. Two messages are two accounts; three receipts
let all of one message's, or two of one and one of the other, race. Two webhooks
let one fail before another; `retryCount` 3 separates first, middle and last
attempt, 0 is the queue's other case; two crashes stall one job too often. Three calls let two hold copies under which the third writes. In the components
two things in flight are the fewest that overtake each other, and three operations let
one prepare what the other two race for: a grant before a delegated command under a
message (talk), an assignment before two that race for the limit (tenants), a put before two that
overlap at the limit (store), a dialog, its poll and another dialog (list), a page that is
left for another under a fetch (panel). Counters of crashes, rejected queries, saves and moves are
bounds on the environment. Three bounds of `SessionLifecycle` are guards on steps of the
code: `MaxWrites` (`Room`) holds back a step that would issue one more write than the bound,
until one has landed; `MaxLeaked` holds back a reconnect that would overwrite one more timer;
`MaxStuck` keeps a further engine from failing to close. The theorems hold for every value of
them.

**Symmetry.** Engines and the slots of each kind of call (sessions), calls (API keys),
and cancels (`BatchCancelLost`) are interchangeable; the runs with liveness use no
symmetry.

**Deadlock** is not checked: a session that is stopped, a batch that is over, and an
exhausted environment are states in which the system really may stop.

**Fairness.** `BulkBatch`: the worker's step and the restart of a process that
ended are weakly fair: the engine answers, timers fire, the database applies what
it does not reject, and a supervisor restarts the process. Cancels are not.
`WebhookDelivery`: each dispatch and each job is weakly fair, since every await is of a
query, a hook, a request with a timeout or a timer, and BullMQ hands out waiting
jobs and records what became of them; new events, toggles and crashes are not. `BaileysConnection`: making a socket ends,
in success or not; the adapter's timer fires; a socket that is opening opens or closes
(the library's connect timeout); a logout ends. Drops, scans of a QR code and ends are not fair.
The rest is safety only.

**Conditions in the properties**, each a limit of the code and not of the check:
`CountersBalance` leaves out cancels that came before the worker's mark (the worker
then counts a zeroed `pending` down); `ProcessingEnds` leaves out rejected queries
(a failed progress save leaves PROCESSING until a restart); `ReceiptsConverge` is about the
receipts whose UPDATE found the row; `OneOutcome` excepts a job whose worker ended between
the hook and BullMQ's record of it, and `QueuedIsSettled` counts a job that stalled too
often as settled, untold; `StopWins` excepts an engine whose `initialize()` threw or that
would not close; `OneEngineUnlessOverlap` leaves out overlapping calls and engines that
would not close.
`overtaken`, `crossed`, `excused`, `undone`, `mixed`, `moved`, `missed` and `late` are the
histories by which the properties of the components except what the code does not guard
against; section 5 says what each is.

## 5. What the code does beyond its comments

The violation runs each quote a line of the repository that denies what they find (see
`findings`). Besides them, and shown by the conditions above rather than by a run of
their own:

*Sessions and engines.*
* An `initialize()` that throws while the session is torn down leaves its engine
  registered, and the next `start()` is refused.
* A `delete()` whose `destroy()` rejects leaves the session running without a
  reconnect state: its next drop is final. `stop()` swallows the same failure: it returns, and
  the browser may stay connected, registered nowhere, beside the next one.
* A QR code's image that is ready after the end, or after the connection opened, sets the
  status to QR_READY over it (`late`).
* whatsapp-web.js: an end asked for while the browser is being launched leaves the browser
  that then comes up to nobody (`early`).

*Messages and batches.*
* A cancel whose save lands after the worker's last one leaves counters that
  disown messages the engine accepted since the last progress save.
* A receipt that lands before the send has stored the id is lost: a delivered
  message stays SENT. Every receipt of a message that whatsapp-web.js forwarded is, since its
  row holds the id `fwd_...` (`whatsapp-web-js.adapter.ts:697`).
* A revocation that overtakes the insert of its message leaves it readable, and
  `message.received` is told after `message.revoked`; a reaction's whole-row save undoes a
  revocation (`excused`).
* A lookup of a sender that failed is cached as unknown for as long as the process lives; a
  full cache evicts its oldest entry even when the key is there already.
* A put of the message store under a `clearSession` may delete up to a row of the cleared
  store, and two puts of one message may leave the earlier time (`crossed`).
* A worker that ends after it told `webhook:delivered` and before BullMQ recorded it leaves a
  job that is run again, and may tell `webhook:error`; or the other way round (`retold`).
* Retries of a webhook carry one `deliveryId`; the API documentation calls it
  unique for each attempt.

*Keys, rooms, plugins, Omega.*
* Two due requests that overlap each save their own usage count: one use is lost.
* A client that subscribes as soon as it is connected, as `docs/README.md:150` shows, is
  disconnected when its message overtakes the handshake's validation; a subscribe that
  is in flight undoes an unsubscribe that came after it.
* A translation command confirmed while a message awaits the translator is undone by the
  message's save (`overtaken`).
* `syncSessions` saves rows over an assignment made meanwhile, and two that overlap can
  insert one session twice, which the unique index refuses; an assignment by a stale copy
  skips the limit. `login` saves the user it read, and with it lifts a suspension made
  meanwhile (`undone`).
* `omega-usage.service.ts:158` and `:175` count six months under the name
  `messagesThisMonth`.

*The whole system.*
* The page's `pendingProfiles` is empty after a load, so a built-in service that is
  switched off there is not removed (`Infrastructure.tsx:137`, `:283`). A restart goes on when
  the containers could not be started, to a server that cannot boot without its database;
  a service that is off but marked as built in is started at boot; the health check answers
  during the shutdown; a listing of containers that fails counts as nothing to remove.
* `importData` names columns that the tables lack (`infra.controller.ts:725` and `:754`
  against `database/migrations/1770108659848-AddMessageStatus.ts`): no message and no batch
  is ever imported, though `docs/14-migration-guide.md:97` recommends it for them. On
  PostgreSQL the first such row spoils the transaction, its COMMIT rolls back, and the answer
  says `imported: true`. On SQLite a message saved during the import is lost by its
  rollback. The import empties templates, stored messages and saved contacts by cascade, which
  no export reads. A swallowed DELETE leaves old rows without a warning. An export is no
  snapshot.
* Files stored before the bucket answered stay in the directory, where nobody looks from
  then on (`moved`).

*The pages.*
* A late history answer for one chat is shown under another until that one's own lands; a
  row that was still PENDING and its echo are two bubbles until a reload; a receipt that
  comes before the answer of the send is lost on the page.
* The handlers of the sessions page write the list of their closure and undo events
  since (`overtaken`); statuses missed while the socket was down are not fetched after it
  reconnected, and after a disconnect by the server it does not reconnect (`missed`); a poll
  that answers late shows its QR under another session's name (`mixed`), or opens a dialog
  that was closed; AUTHENTICATING is unknown to the page; two branches of it are unreachable
  (`qr.status === 'ready'`, and the clearing of the dialog in `handleStop`).
* After an edit of an Omega client its page opens with the old values
  (`OmegaClientForm.tsx:58` does not invalidate `['omega-client', id]`); the configuration
  saved on the plugins page is not invalidated for the infrastructure page, which saves its
  copy back; logging out keeps the cache.
* The panel's pages but the sessions page hear nothing of what happens on the server: the
  dashboard shows READY for a session that dropped until its query, fresh for 30 s
  (`queries.ts:33-47`), is read again (`OthersChange`).

## 6. What is proved

With TLAPS, no unproved step, for every value of the constants that satisfies the
assumption named in the module (`ConstantsAssumption`; `Components` has one for each of
its parts): bounds are naturals, sets that are counted are finite, and sets of different
things do not overlap. Every type invariant and every safety property of the passing runs
is a theorem. A property is seldom inductive, so each proof has an invariant that is:
`…Inv`, stated in the module of the proofs or, where TLC checked it first as it stands, at
the end of the component's module.

**`SessionLifecycleProofs`**, for any number of engines, calls, reconnects and crashes.
* `TypeCorrect`, `StopHoldsAlways` and `NeverReconnectsAfterStop` by `Inv`: a stop or delete
  that nothing overlapped still holds the teardown mark and there is no reconnect state
  (`CleanTeardown`), and a timer that could fire for a session that is torn down meets
  the mark (`TimersGuarded`). `StopHolds` speaks of the moment the call has returned;
  what makes it true is what the call has kept true since it began.
* `StopAlwaysWins` (of `StopWins`) by `StopInv`: which states a task can be in at all, and
  that from the moment a clean stop has dropped its engine, no registered engine goes
  without a reconnect that will take it down again (`Settled`).
* `NoGhostWhenOrdered` (of `NoGhostReady`), `FailureExplained` (of `FailedExplained`) and
  `DropsFollowedUp` (of `NeverStuckDown`) are about the row, by what it will say once the
  writes on their way have landed. They are stated for `OrderedWrites`, one connection that
  takes statements in their order, as the SQLite default has: through a pool the row is
  true of no moment in particular.
* `OneEngineAtATime` (of `OneEngineUnlessOverlap`) by `OneInv`: while nothing overlapped and
  no engine was let go unclosed, one task runs, the connected engine is the registered one, and a timer is pending only
  with no engine connected.

**`BulkBatchProofs`**, for any number of messages and cancels.
* `TypeCorrect`; `SentAtMostOnce` by `OnceInv` (no message past the loop's position was
  begun, and a worker that has not read the row yet finds index 0 in it and in every copy
  that could overwrite it); `CountersAlwaysBalance` by `BooksInv` (each copy balances, and
  `cancelled` is zero in every copy that may still be reconciled).
* `BatchMeetsContract`: the refinement of `BatchContract`. Under `ContractInv` every step
  of the worker, a cancel, a crash or the sweep maps to a step of the contract or to none.
* `CancelStays` (of `CancelSticks`) by `StickInv`, `CompletedMeansComplete` (of
  `CompletedIsComplete`) by `TallyInv`: what the row counts as sent is the number of
  messages the engine accepted up to the loop's position.

**`ApiKeyProofs`**, for any number of calls, sockets and topics.
* `TypeCorrect`; `NoUseCountedTwice` by `CountInv` (every copy in flight plus what is
  accumulated now is within the requests let in: the copy is all that a save can write);
  `ChangesAlwaysHold` by `HoldInv` (while no save landed under another call's copy, every
  copy is the row, or the row with its call's change); `NoUseLost` (of
  `ExactUnlessOvertaken`) by `ExactInv`, which follows the one call that may still save.
* `GatewayUsesKey`: the gateway implements the key's specification, so all of these hold of
  the composition. `GatewayTypeCorrect`, and `RoomsAreGranted` (of `RoomsWereGranted`) by
  `GrantInv`: a subscription that is in flight holds what its key granted when it asked.

**`MessageDeliveryProofs`**: `TypeCorrect`; `ReceiptsStayHome` (of `NoCrossTalk`) and
`StatusesOnlyAdvance` (of `AdvancesUnlessUndone`) by `DeliveryInv`: where a send is decides
what its row holds, a row with an id is past its send, and an update in flight carries a
receipt raised for the message that its session and id name. Ids are unique within an
account only, so the theorem rests on the session in the update's condition.
`ReceiptsAlwaysConverge` (of `ReceiptsConverge`) and `RefusalAlwaysShown` (of
`RefusalShown`) by `ShownInv`: the row of an accepted message shows the highest receipt
that found it, if any did.

**`WebhookDeliveryProofs`**: `TypeCorrect`, `ToldOnce` (of `OneOutcome`), `RetriesAreBounded`
(of `AttemptsBounded`), `DispatchForgetsNone` (of `NoneForgotten`), `OnlyMatchedGetIt`. The
invariant speaks of one event and one webhook at a time: nothing has happened to a pair
still ahead in the dispatch's line; one that the dispatch delivers has no job, no outcome,
and as many POSTs as attempts; a job that can still run has no outcome, and as many POSTs as
attempts plus stalls, unless an outcome was told and its worker vanished. `ToldOnce` rests on
what a job's state says was told (a job that is completed told `delivered`, one that failed told
`error`), and on the line holding each webhook once (`LineInOrder`).

**`ComponentProofs`, `OperationsProofs`, `PagesProofs`**: the parts of `Components`. A step
of the composition is one of the part that is checked, so an invariant of each part is
one of the composition.

| Theorem | Property | Inductive invariants |
|---|---|---|
| `EnginesStayDown` | `StoppedEnginesStayDown` | `Baileys!StopInv` (a timer or a connect under way only without a live socket), `Wwebjs!EndInv` |
| `OmegaKeepsItsRules` | `TenantsHold` | `Tenants!TenantInv` (the rows an operation holds are sound, and fresh unless marked), `Login!BarInv`, `Access!GuardInv` |
| `CommandsStay` | `SettingsHold` | `Talk!CopyInv` (the copy a call holds has the confirmed settings) |
| `StoredIsTrue` | `MessagesKept` | `Store!StoreInv` (a put that still has to delete finds the limit without what it deletes), `Inbound!InboundInv` |
| `HooksFollowPlugins` | `HandlersFollowPlugins` | `Hooks!HooksInv` (what a chain has still to call is in its array) |
| `OperationsDoWhatTheySay` | `InfraHolds` | `Infra!InfraInv`, `Transfer!TransferInv`, `Media!MediaInv` |
| `PagesTellTheTruth` | `PagesHold` | `Page!PageInv`, `Panel!PanelInv`, `SessionList!ListInv`, `Stats!StatsInv` |
| `PartsAreTyped` | `PartsTypeOK` | all of them |

Three of these have an argument of their own:
* *The sessions page.* `ListsSettle` is the heart of `ListInv`: each session of a list that
  missed nothing is as the gateway has it, or what will correct it is on its way (an event,
  or a handler that created or deleted it). A fetch may replace the list only by one that
  knows as much, which is why overlapping fetches are ordered by what they missed
  (`FetchesAreOrdered`), and why the last event about a session tells what it is
  (`EventsEndTrue`). With nothing under way, nothing is left that could correct it.
* *The statistics.* The queries of a report see different moments. `StatsInv` says by how
  much each answer may differ from a count made now (`arrivals`); that the parts add up is
  a lemma about sums over sessions as sizes of disjoint sets, proved by a bijection
  (`PartsAddUp`).
* *Orders and arrays.* The prover takes no induction over data. Where one is due (the array
  a filter leaves, the order in which containers are started) the proofs take a least
  counterexample, which the well-foundedness of the naturals gives (`LeastOf`).

**Only model-checked**: liveness (`ProcessingEnds`, `DispatchEnds`, `QueuedIsSettled`,
`DropIsSettled`), because fairness and ENABLED are outside the prover's reach; and what the
five violation runs find, each a behaviour.

Some proofs changed the model where it said less, or other, than the code. `NeverStuckDown`
leaves out a session that a teardown has marked, which nothing is to reconnect; the
property of a route is about the states its key had while the request was in flight
(`GrantedAsRead`); a subscribe is judged by when it was heard; in `ChatPage` a history answer
replaces the list, as it does on the page (`Chats.tsx:344`); a disable filters, and a register
inserts, in the array itself.

## 7. What is not modelled

`PROJECT.json` gives the reason for each component, and for those that are modelled in
part what is missing: the engine factory and the auto-reply plugin (no state), the
adapters' maps of contacts (overwritten by each event), the cache (nothing decides by it;
`cache.service.ts:47` gives up on Redis after five attempts for good), settings, contacts,
groups, labels, channels, catalog, status and templates (one engine call or one query
each), the backfill (one idempotent UPDATE), wiring, configuration, logging, metrics and
throttling, pure functions over strings and addresses, the layout of the dashboard, and the
SDKs. The text of messages, signatures, formatting, logging, media and the payloads of hooks
and events are left out everywhere.
