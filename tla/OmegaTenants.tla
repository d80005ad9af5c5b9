------------------------------ MODULE OmegaTenants ------------------------------
(***************************************************************************)
(* The Omega layer's clients and the WhatsApp sessions assigned to them     *)
(* (modules/omega/omega-admin.service.ts).  Every operation reads whole     *)
(* rows, awaits, and saves them whole; the requests of several              *)
(* administrators, and the synchronisation that every listing of the        *)
(* sessions runs, are in flight together.  A query that opens an operation  *)
(* is taken with the operation's start.                                     *)
(*                                                                         *)
(* The gateway's list of sessions is external.  Plans, names, phone numbers *)
(* and dates are left out; users and logins are in OmegaLogin.              *)
(***************************************************************************)
EXTENDS Naturals, FiniteSets

CONSTANTS
  WaSessions,     \* ids of sessions of the gateway
  Clients, NoOne,
  Limits,         \* account limits a client may be given
  Requests,       \* slots for operations in flight
  MaxOperations   \* bound: operations, and changes of the gateway's list

VARIABLES
  gateway,        \* the sessions the gateway lists, each with its status
  rows,           \* omega_whatsapp_sessions, by openwaSessionId
  limits,         \* whatsappAccountLimit of each client's row
  subscriptions,  \* and of its subscription's row
  op,             \* the operations in flight
  operations,
  agreed,         \* history: the client the last finished operation gave a session
  overtaken,      \* history: rows saved while another operation held a copy
  excused         \* history: clients whose limit was overridden, lowered, or raced for

tenantVars == <<gateway, rows, limits, subscriptions, op, operations, agreed, overtaken, excused>>

OmegaStatuses == {"connected", "starting", "disconnected", "needs_reconnect"}
WaRow  == [here : BOOLEAN, status : OmegaStatuses, clientId : Clients \cup {NoOne},
           assignedToClient : BOOLEAN, replacementRequested : BOOLEAN]
OpPc   == {"idle", "client", "count", "row", "listed", "sync", "limit", "subscribe"}

NoRow  == [here |-> FALSE, status |-> "disconnected", clientId |-> NoOne,
           assignedToClient |-> FALSE, replacementRequested |-> FALSE]
Op     == [pc : OpPc, session : WaSessions \cup {NoOne}, client : Clients \cup {NoOne},
           override : BOOLEAN, limit : Limits \cup {0}, copies : [WaSessions -> WaRow],
           list : SUBSET (WaSessions \X OmegaStatuses), todo : SUBSET WaSessions]
NoOp   == [pc |-> "idle", session |-> NoOne, client |-> NoOne, override |-> FALSE, limit |-> 0,
           copies |-> [s \in WaSessions |-> NoRow], list |-> {}, todo |-> {}]

(* The type invariant. *)
TypeOK ==
  /\ gateway \in SUBSET (WaSessions \X OmegaStatuses)
  /\ rows \in [WaSessions -> WaRow]
  /\ limits \in [Clients -> Limits] /\ subscriptions \in [Clients -> Limits]
  /\ op \in [Requests -> Op]
  /\ operations \in 0..MaxOperations
  /\ agreed \in [WaSessions -> Clients \cup {NoOne}]
  /\ overtaken \subseteq WaSessions \cup Clients /\ excused \subseteq Clients

(* Plans and clients were seeded; the first synchronisation is to come, or  *)
(* has come.                                                               *)
Init ==
  /\ gateway = {<<s, "connected">> : s \in WaSessions}
  /\ \E synced \in BOOLEAN :
       rows = [s \in WaSessions |-> IF synced THEN [NoRow EXCEPT !.here = TRUE, !.status = "connected"]
                                    ELSE NoRow]
  /\ \E n \in Limits : limits = [c \in Clients |-> n] /\ subscriptions = limits
  /\ op = [r \in Requests |-> NoOp]
  /\ operations = 0
  /\ agreed = [s \in WaSessions |-> NoOne]
  /\ overtaken = {} /\ excused = {}

Begins(r, o)      == /\ op[r].pc = "idle" /\ operations < MaxOperations
                     /\ operations' = operations + 1
                     /\ op' = [op EXCEPT ![r] = o]
Goes(r, o)        == op' = [op EXCEPT ![r] = o] /\ UNCHANGED operations
Ends(r)           == op' = [op EXCEPT ![r] = NoOp] /\ UNCHANGED operations
Others(r)         == {q \in Requests \ {r} : op[q].pc # "idle"}
SessionsOf(c)     == {s \in WaSessions : rows[s].clientId = c}

(* Another operation will save the copy of the row that it read earlier.    *)
HoldsRow(q, s) == \/ op[q].session = s
                  \/ op[q].pc = "sync" /\ s \in op[q].todo

(* A stale copy may give a client a session that nobody counted.            *)
saveRow(r, s, row) ==
  /\ rows' = [rows EXCEPT ![s] = row]
  /\ excused' = LET counted == IF s \in overtaken THEN {} ELSE {op[r].client}
                IN  excused \cup ({row.clientId} \ ({rows[s].clientId, NoOne} \cup counted))
  /\ overtaken' = overtaken \cup (IF \E q \in Others(r) : HoldsRow(q, s) THEN {s} ELSE {})

RowsKept    == UNCHANGED <<rows, overtaken, agreed, excused>>
ClientsKept == UNCHANGED <<gateway, limits, subscriptions>>

-----------------------------------------------------------------------------
(* assignSession: the row, the client, how many sessions the client has.    *)
Copied(s)  == [NoOp.copies EXCEPT ![s] = rows[s]]

AssignBegins(r, s, c, override) ==
  /\ rows[s].here
  /\ Begins(r, [NoOp EXCEPT !.pc = "client", !.session = s, !.client = c, !.override = override,
                            !.copies = Copied(s)])
  /\ RowsKept /\ ClientsKept

ClientRead(r) ==
  /\ op[r].pc = "client"
  /\ Goes(r, [op[r] EXCEPT !.pc = "count", !.limit = limits[op[r].client]])
  /\ RowsKept /\ ClientsKept

(* Another assignment to the same client is past its count, or the client's *)
(* limit has changed since it was read.                                     *)
Races(r) == \/ \E q \in Others(r) : op[q].pc = "row" /\ op[q].client = op[r].client
            \/ op[r].limit # limits[op[r].client]

Assigned(o) == [o.copies[o.session] EXCEPT !.clientId = o.client, !.assignedToClient = TRUE,
                                           !.replacementRequested = FALSE]

MutantCountsWrong(r) ==
  LET o == op[r]
  IN  /\ o.pc = "count"
      /\ IF /\ Cardinality(SessionsOf(o.client)) > o.limit
            /\ o.copies[o.session].clientId # o.client
            /\ ~o.override
         THEN Ends(r) /\ UNCHANGED excused
         ELSE /\ Goes(r, [o EXCEPT !.pc = "row", !.copies[o.session] = Assigned(o)])
              /\ excused' = excused \cup (IF o.override \/ Races(r) THEN {o.client} ELSE {})
      /\ UNCHANGED <<rows, overtaken, agreed>> /\ ClientsKept

(* Refused at the limit, unless it is the client's already or a             *)
(* super_admin overrides it.                                                *)
Counted(r) ==
  LET o == op[r]
  IN  /\ o.pc = "count"
      /\ IF /\ Cardinality(SessionsOf(o.client)) >= o.limit
            /\ o.copies[o.session].clientId # o.client
            /\ ~o.override
         THEN Ends(r) /\ UNCHANGED excused
         ELSE /\ Goes(r, [o EXCEPT !.pc = "row", !.copies[o.session] = Assigned(o)])
              /\ excused' = excused \cup (IF o.override \/ Races(r) THEN {o.client} ELSE {})
      /\ UNCHANGED <<rows, overtaken, agreed>> /\ ClientsKept

(* unassignSession and updateReplacementFlag, to the save.                  *)
UnassignBegins(r, s) ==
  /\ rows[s].here
  /\ Begins(r, [NoOp EXCEPT !.pc = "row", !.session = s,
                  !.copies[s] = [rows[s] EXCEPT !.clientId = NoOne, !.assignedToClient = FALSE]])
  /\ RowsKept /\ ClientsKept

FlagBegins(r, s) ==
  /\ rows[s].here
  /\ Begins(r, [NoOp EXCEPT !.pc = "row", !.session = s,
                  !.copies[s] = [rows[s] EXCEPT !.replacementRequested = ~@]])
  /\ RowsKept /\ ClientsKept

RowSaved(r) ==
  LET s == op[r].session
  IN  /\ op[r].pc = "row"
      /\ saveRow(r, s, op[r].copies[s])
      /\ agreed' = [agreed EXCEPT ![s] = op[r].copies[s].clientId]
      /\ Ends(r) /\ ClientsKept

-----------------------------------------------------------------------------
(* syncSessions: what the gateway lists, then all rows, then a save of each. *)
SyncBegins(r) ==
  /\ Begins(r, [NoOp EXCEPT !.pc = "listed", !.list = gateway])
  /\ RowsKept /\ ClientsKept

Listed(o) == {e[1] : e \in o.list}

RowsRead(r) ==
  /\ op[r].pc = "listed"
  /\ Goes(r, [op[r] EXCEPT !.pc = "sync", !.copies = rows,
                !.todo = Listed(op[r]) \cup {s \in WaSessions : rows[s].here}])
  /\ RowsKept /\ ClientsKept

Done(r, s) ==
  LET left == op[r].todo \ {s}
  IN  IF left = {} THEN Ends(r) ELSE Goes(r, [op[r] EXCEPT !.todo = left])

Seen(o, s) == [o.copies[s] EXCEPT !.here = TRUE, !.status = (CHOOSE e \in o.list : e[1] = s)[2],
                                  !.assignedToClient = o.copies[s].clientId # NoOne]

MutantForgetsClient(r) ==
  \E s \in op[r].todo \cap Listed(op[r]) :
    /\ op[r].pc = "sync"
    /\ saveRow(r, s, [Seen(op[r], s) EXCEPT !.clientId = NoOne, !.assignedToClient = FALSE])
    /\ Done(r, s)
    /\ UNCHANGED agreed /\ ClientsKept

(* A row that it did not read is inserted; when another synchronisation has *)
(* inserted it first, the index rejects this one and the call ends there.   *)
SyncSaves(r) ==
  \E s \in op[r].todo \cap Listed(op[r]) :
    /\ op[r].pc = "sync"
    /\ IF ~op[r].copies[s].here /\ rows[s].here
       THEN Ends(r) /\ UNCHANGED <<rows, overtaken, excused>>
       ELSE saveRow(r, s, Seen(op[r], s)) /\ Done(r, s)
    /\ UNCHANGED agreed /\ ClientsKept

(* The rows the gateway no longer lists, after all the others.              *)
Gone(o, s) == [o.copies[s] EXCEPT
                 !.status = IF o.copies[s].clientId # NoOne THEN "needs_reconnect" ELSE "disconnected"]

SyncMarksStale(r) ==
  \E s \in op[r].todo :
    /\ op[r].pc = "sync" /\ op[r].todo \cap Listed(op[r]) = {}
    /\ saveRow(r, s, Gone(op[r], s))
    /\ Done(r, s)
    /\ UNCHANGED agreed /\ ClientsKept

GatewayChanges(s) ==
  /\ operations < MaxOperations /\ operations' = operations + 1
  /\ \/ s \in {e[1] : e \in gateway} /\ gateway' = {e \in gateway : e[1] # s}
     \/ \E status \in {"connected", "starting"} :
          gateway' = {e \in gateway : e[1] # s} \cup {<<s, status>>}
  /\ RowsKept /\ UNCHANGED <<limits, subscriptions, op>>

-----------------------------------------------------------------------------
(* updateClient, and upsertSubscription at its end.                         *)
Updating(c) == {r \in Requests : op[r].client = c /\ op[r].pc \in {"limit", "subscribe"}}

UpdateBegins(r, c, n) ==
  /\ Begins(r, [NoOp EXCEPT !.pc = "limit", !.client = c, !.limit = n])
  /\ RowsKept /\ ClientsKept

ClientSaved(r) ==
  LET c == op[r].client
      n == op[r].limit
  IN  /\ op[r].pc = "limit"
      /\ limits' = [limits EXCEPT ![c] = n]
      /\ excused' = excused \cup
           (IF \/ n < Cardinality(SessionsOf(c))
               \/ \E q \in Others(r) : op[q].pc = "row" /\ op[q].client = c
            THEN {c} ELSE {})
      /\ overtaken' = overtaken \cup (IF Updating(c) = {r} THEN {} ELSE {c})
      /\ Goes(r, [op[r] EXCEPT !.pc = "subscribe"])
      /\ UNCHANGED <<gateway, rows, subscriptions, agreed>>

MutantKeepsSubscription(r) ==
  /\ op[r].pc = "subscribe"
  /\ Ends(r)
  /\ RowsKept /\ UNCHANGED <<gateway, limits, subscriptions>>

SubscriptionSaved(r) ==
  /\ op[r].pc = "subscribe"
  /\ subscriptions' = [subscriptions EXCEPT ![op[r].client] = op[r].limit]
  /\ Ends(r)
  /\ RowsKept /\ UNCHANGED <<gateway, limits>>

(* A query is rejected, or the gateway does not answer: what was saved by   *)
(* then stays.                                                             *)
Rejected(r) ==
  /\ op[r].pc # "idle"
  /\ overtaken' = overtaken \cup (IF op[r].pc = "subscribe" THEN {op[r].client} ELSE {})
  /\ Ends(r)
  /\ UNCHANGED <<rows, agreed, excused>> /\ ClientsKept

Next ==
  \/ \E r \in Requests :
       \/ \E s \in WaSessions :
            \/ \E c \in Clients, override \in BOOLEAN : AssignBegins(r, s, c, override)
            \/ UnassignBegins(r, s) \/ FlagBegins(r, s)
       \/ ClientRead(r) \/ Counted(r) \/ RowSaved(r)
       \/ SyncBegins(r) \/ RowsRead(r) \/ SyncSaves(r) \/ SyncMarksStale(r)
       \/ \E c \in Clients, n \in Limits : UpdateBegins(r, c, n)
       \/ ClientSaved(r) \/ SubscriptionSaved(r) \/ Rejected(r)
  \/ \E s \in WaSessions : GatewayChanges(s)

Spec == Init /\ [][Next]_tenantVars

-----------------------------------------------------------------------------
(* Properties.                                                             *)

(* What an operation gave a session stays until the next one for the same   *)
(* session, whatever is synchronised meanwhile, unless the row was saved    *)
(* under a copy that another operation held.                                *)
AssignmentsHold ==
  \A s \in WaSessions : rows[s].here /\ s \notin overtaken => rows[s].clientId = agreed[s]

(* And even then a session is marked as assigned exactly when it has a      *)
(* client; no client has more sessions than its limit unless it was         *)
(* overridden or lowered, or two operations raced for the client.           *)
LimitsHold ==
  /\ \A s \in WaSessions : rows[s].assignedToClient <=> rows[s].clientId # NoOne
  /\ \A c \in Clients \ excused : Cardinality(SessionsOf(c)) <= limits[c]

(* The subscription follows its client's limit unless two updates overlap   *)
(* or the second save fails.                                               *)
SubscriptionsFollow ==
  \A c \in Clients \ overtaken : Updating(c) = {} => subscriptions[c] = limits[c]

(* Why: every operation knows what it is about; a copy is the row until     *)
(* somebody saves under it, and then the row is overtaken; an assignment    *)
(* that was counted is the only one of its client, and there is room for    *)
(* it; a subscription that is not up to date is about to be.                *)
Sound(o) ==
  /\ o.pc \in {"client", "count", "row"} => o.session \in WaSessions
  /\ o.pc \in {"client", "count", "limit", "subscribe"} => o.client \in Clients
  /\ o.pc \in {"idle", "listed", "sync"} => o.client = NoOne /\ o.session = NoOne
  /\ o.pc \in {"limit", "subscribe"} => o.limit \in Limits /\ o.session = NoOne
  /\ o.pc = "row" /\ o.client # NoOne => o.copies[o.session].clientId = o.client

Fresh(o) ==
  \A s \in WaSessions \ overtaken :
    /\ o.pc \in {"client", "count"} /\ o.session = s => o.copies[s] = rows[s]
    /\ o.pc = "row" /\ o.session = s /\ o.client = NoOne =>
         o.copies[s].clientId \in {rows[s].clientId, NoOne}
    /\ o.pc = "sync" /\ s \in o.todo => o.copies[s] = rows[s]

Marked(row) == row.assignedToClient <=> row.clientId # NoOne

Assigning(r, c) == op[r].pc = "row" /\ op[r].client = c

RoomFor(o) ==
  o.session \in SessionsOf(o.client) \cup overtaken
    \/ Cardinality(SessionsOf(o.client)) < limits[o.client]

RoomLeft ==
  \A c \in Clients \ excused :
    /\ Cardinality(SessionsOf(c)) <= limits[c]
    /\ \A r \in Requests : Assigning(r, c) =>
         RoomFor(op[r]) /\ \A q \in Requests \ {r} : ~Assigning(q, c)

Subscribing(r, c) == op[r].pc = "subscribe" /\ op[r].client = c

SubscriptionsKept ==
  \A c \in Clients \ overtaken :
    /\ \A r \in Requests : Subscribing(r, c) => op[r].limit = limits[c]
    /\ (\A r \in Requests : ~Subscribing(r, c)) => subscriptions[c] = limits[c]

TenantInv ==
  /\ TypeOK
  /\ \A r \in Requests :
       Sound(op[r]) /\ Fresh(op[r]) /\ \A s \in WaSessions : Marked(op[r].copies[s])
  /\ RoomLeft /\ SubscriptionsKept
  /\ \A s \in WaSessions : Marked(rows[s])
  /\ \A s \in WaSessions \ overtaken : rows[s].clientId = agreed[s]
===============================================================================
