-------------------------- MODULE MessageDelivery --------------------------
(***************************************************************************)
(* The stored outgoing messages: MessageService's sends (one shape for     *)
(* text, media, location, contact, sticker, reply and forward), and what   *)
(* the engine reports of them to SessionService afterwards: delivery       *)
(* receipts, revocations and reactions.                                    *)
(*                                                                         *)
(* A send saves the row twice: PENDING before the engine is called, then   *)
(* SENT with the id WhatsApp gave the message.  Receipts and revocations   *)
(* are fire-and-forget UPDATEs that find the row by that id; a reaction    *)
(* reads the whole entity and saves it back.  Statements in flight reach   *)
(* the database in any order.  The engine's answer to a send is taken to   *)
(* be true.  Restarts add no state of interest: nothing is repaired at     *)
(* startup, so they cut a behaviour short.                                 *)
(***************************************************************************)
EXTENDS Naturals, FiniteSets

CONSTANTS
  Messages,        \* the outgoing messages
  Sessions,
  Ids,             \* WhatsApp's message ids: unique per account, not globally
  SessionOf,       \* the session that sends a message
  IdOf,            \* the id WhatsApp gives it
  Hands,           \* reaction events
  MaxReceipts,     \* bound: receipts raised
  MaxSaveFailures  \* bound: queries the database rejects

ASSUME ConstantsAssumption ==
  /\ SessionOf \in [Messages -> Sessions] /\ IdOf \in [Messages -> Ids]
  /\ \A m, n \in Messages : SessionOf[m] = SessionOf[n] /\ IdOf[m] = IdOf[n] => m = n
  /\ MaxReceipts \in Nat /\ MaxSaveFailures \in Nat

VARIABLES
  row,          \* each message's row
  pc,           \* the await its send is suspended at
  updates,      \* status UPDATEs in flight
  revokes,      \* revocation UPDATEs in flight
  hand,         \* each reaction event's handler
  saveFailures, \* queries the database rejected so far
  accepted,     \* history: messages the engine accepted
  ticks,        \* history: the receipts raised for each message
  missed,       \* history: the receipts whose UPDATE found no row
  undone        \* history: the rows a reaction saved an overtaken copy over

vars == <<row, pc, updates, revokes, hand, saveFailures, accepted, ticks, missed,
          undone>>

Statuses == {"none", "pending", "sent", "delivered", "read", "failed"}
Upgrades == {"delivered", "read", "failed"}
(* id: the row holds the id by which receipts find it.                      *)
Row      == [status : Statuses, id : BOOLEAN, revoked : BOOLEAN]
NoRow    == [status |-> "none", id |-> FALSE, revoked |-> FALSE]
Update   == [session : Sessions, id : Ids, status : Upgrades]
Handler  == [pc : {"idle", "read", "save", "done"}, of : Messages, snap : Row]

(* The type invariant. *)
TypeOK ==
  /\ row \in [Messages -> Row]
  /\ pc \in [Messages -> {"idle", "create", "engine", "accepted", "save", "fail", "fail_known",
                          "done"}]
  /\ updates \in SUBSET Update
  /\ revokes \in SUBSET [session : Sessions, id : Ids]
  /\ hand \in [Hands -> Handler]
  /\ saveFailures \in 0..MaxSaveFailures
  /\ accepted \in SUBSET Messages
  /\ ticks \in [Messages -> SUBSET Upgrades]
  /\ missed \in [Messages -> SUBSET Upgrades]
  /\ undone \in SUBSET Messages

Init ==
  /\ row = [m \in Messages |-> NoRow]
  /\ pc = [m \in Messages |-> "idle"]
  /\ updates = {} /\ revokes = {}
  /\ hand \in [Hands -> [pc : {"idle"}, of : Messages, snap : {NoRow}]]
  /\ saveFailures = 0 /\ accepted = {}
  /\ ticks = [m \in Messages |-> {}] /\ missed = [m \in Messages |-> {}]
  /\ undone = {}

At(m, from, to) == pc[m] = from /\ pc' = [pc EXCEPT ![m] = to]

QueryFails == saveFailures < MaxSaveFailures /\ saveFailures' = saveFailures + 1

-----------------------------------------------------------------------------
(* A send.                                                                 *)

(* The call is refused (a hook blocks it, no engine, no media), or goes on  *)
(* to save the PENDING row.                                                 *)
Send(m) ==
  /\ At(m, "idle", "create") \/ At(m, "idle", "done")
  /\ UNCHANGED <<row, updates, revokes, hand, saveFailures, accepted, ticks, missed, undone>>

Created(m) ==
  /\ At(m, "create", "engine")
  /\ row' = [row EXCEPT ![m] = [@ EXCEPT !.status = "pending"]]
  /\ UNCHANGED <<updates, revokes, hand, saveFailures, accepted, ticks, missed, undone>>

CreateFails(m) ==
  /\ QueryFails
  /\ At(m, "create", "done")
  /\ UNCHANGED <<row, updates, revokes, hand, accepted, ticks, missed, undone>>

(* WhatsApp has the message; the engine's promise is still to resolve.      *)
EngineAccepts(m) ==
  /\ At(m, "engine", "accepted")
  /\ accepted' = accepted \cup {m}
  /\ UNCHANGED <<row, updates, revokes, hand, saveFailures, ticks, missed, undone>>

EngineReturns(m) ==
  /\ At(m, "accepted", "save")
  /\ UNCHANGED <<row, updates, revokes, hand, saveFailures, accepted, ticks, missed, undone>>

EngineRefuses(m) ==
  /\ At(m, "engine", "fail")
  /\ UNCHANGED <<row, updates, revokes, hand, saveFailures, accepted, ticks, missed, undone>>

(* whatsapp-web.js's forward answers with an id of its own making, which    *)
(* WhatsApp does not know; every other answer carries the message's id.     *)
SentSaved(m, known) ==
  /\ At(m, "save", "done")
  /\ row' = [row EXCEPT ![m] = [@ EXCEPT !.status = "sent", !.id = known]]
  /\ UNCHANGED <<updates, revokes, hand, saveFailures, accepted, ticks, missed, undone>>

(* The catch around the engine call also covers this save: a message that   *)
(* was sent is then saved FAILED.                                           *)
SentSaveFails(m) ==
  /\ QueryFails
  /\ At(m, "save", "fail_known")
  /\ UNCHANGED <<row, updates, revokes, hand, accepted, ticks, missed, undone>>

MutantSilentFailure(m, known) ==
  /\ At(m, "fail", "done") \/ At(m, "fail_known", "done")
  /\ UNCHANGED <<row, updates, revokes, hand, saveFailures, accepted, ticks, missed, undone>>

FailedSaved(m, known) ==
  /\ At(m, "fail", "done") \/ At(m, "fail_known", "done")
  /\ known => pc[m] = "fail_known"
  /\ row' = [row EXCEPT ![m] = [@ EXCEPT !.status = "failed", !.id = known]]
  /\ UNCHANGED <<updates, revokes, hand, saveFailures, accepted, ticks, missed, undone>>

FailedSaveFails(m) ==
  /\ QueryFails
  /\ At(m, "fail", "done") \/ At(m, "fail_known", "done")
  /\ UNCHANGED <<row, updates, revokes, hand, accepted, ticks, missed, undone>>

-----------------------------------------------------------------------------
(* Receipts.  "sent" and "pending" receipts issue no UPDATE.               *)

MutantReadSkipsDelivered(s) ==
  CASE s = "delivered" -> {"pending", "sent"}
    [] s = "read"      -> {"pending", "sent"}
    [] s = "failed"    -> {"pending", "sent"}

MutantDeliveredAlways(s) ==
  CASE s = "delivered" -> {"pending", "sent", "read"}
    [] s = "read"      -> {"pending", "sent", "delivered"}
    [] s = "failed"    -> {"pending", "sent"}

(* ackStatusTransitionFrom: the statuses an UPDATE to s may start from.     *)
TransitionFrom(s) ==
  CASE s = "delivered" -> {"pending", "sent"}
    [] s = "read"      -> {"pending", "sent", "delivered"}
    [] s = "failed"    -> {"pending", "sent"}

Receipts == Cardinality({t \in Messages \X Upgrades : t[2] \in ticks[t[1]]})

MutantAckSent(m, s) ==
  /\ m \in accepted /\ s \notin ticks[m] /\ Receipts < MaxReceipts
  /\ ticks' = [ticks EXCEPT ![m] = @ \cup {s}]
  /\ updates' = updates \cup {[session |-> SessionOf[m], id |-> IdOf[m],
                              status |-> IF s = "delivered" THEN "sent" ELSE s]}
  /\ UNCHANGED <<row, pc, revokes, hand, saveFailures, accepted, missed, undone>>

(* onMessageAck. *)
Ack(m, s) ==
  /\ m \in accepted /\ s \notin ticks[m] /\ Receipts < MaxReceipts
  /\ ticks' = [ticks EXCEPT ![m] = @ \cup {s}]
  /\ updates' = updates \cup {[session |-> SessionOf[m], id |-> IdOf[m], status |-> s]}
  /\ UNCHANGED <<row, pc, revokes, hand, saveFailures, accepted, missed, undone>>

MutantUnscoped(m, q) == row[m].id /\ IdOf[m] = q.id

(* The rows a statement scoped by session and id selects.                   *)
Selects(m, q) == row[m].id /\ SessionOf[m] = q.session /\ IdOf[m] = q.id

UpdateLands(u) ==
  /\ updates' = updates \ {u}
  /\ row' = [m \in Messages |->
               IF Selects(m, u) /\ row[m].status \in TransitionFrom(u.status)
               THEN [row[m] EXCEPT !.status = u.status] ELSE row[m]]
  /\ missed' = [m \in Messages |->
                  IF ~row[m].id /\ SessionOf[m] = u.session /\ IdOf[m] = u.id
                  THEN missed[m] \cup {u.status} ELSE missed[m]]
  /\ UNCHANGED <<pc, revokes, hand, saveFailures, accepted, ticks, undone>>

UpdateFails(u) ==
  /\ QueryFails
  /\ updates' = updates \ {u}
  /\ UNCHANGED <<row, pc, revokes, hand, accepted, ticks, missed, undone>>

(* A revocation: onMessageRevoked, and deleteMessage once the engine did it.*)
Revoke(m) ==
  /\ m \in accepted
  /\ revokes' = revokes \cup {[session |-> SessionOf[m], id |-> IdOf[m]]}
  /\ UNCHANGED <<row, pc, updates, hand, saveFailures, accepted, ticks, missed, undone>>

RevokeLands(q) ==
  /\ revokes' = revokes \ {q}
  /\ row' = [m \in Messages |-> IF Selects(m, q) THEN [row[m] EXCEPT !.revoked = TRUE] ELSE row[m]]
  /\ UNCHANGED <<pc, updates, hand, saveFailures, accepted, ticks, missed, undone>>

-----------------------------------------------------------------------------
(* onMessageReaction: find the entity, edit its reactions, save it whole.   *)
(* The reactions are left out: what matters is the rest of the copy.        *)
React(h) ==
  /\ hand[h].pc = "idle" /\ hand[h].of \in accepted
  /\ hand' = [hand EXCEPT ![h] = [@ EXCEPT !.pc = "read"]]
  /\ UNCHANGED <<row, pc, updates, revokes, saveFailures, accepted, ticks, missed, undone>>

ReactReads(h) ==
  /\ hand[h].pc = "read"
  /\ hand' = [hand EXCEPT ![h] =
       IF row[@.of].id
       THEN [@ EXCEPT !.pc = "save", !.snap = row[hand[h].of]]
       ELSE [@ EXCEPT !.pc = "done"]]
  /\ UNCHANGED <<row, pc, updates, revokes, saveFailures, accepted, ticks, missed, undone>>

ReactSaved(h) ==
  /\ hand[h].pc = "save"
  /\ hand' = [hand EXCEPT ![h] = [@ EXCEPT !.pc = "done"]]
  /\ row' = [row EXCEPT ![hand[h].of] = hand[h].snap]
  /\ undone' = IF hand[h].snap = row[hand[h].of] THEN undone
               ELSE undone \cup {hand[h].of}
  /\ UNCHANGED <<pc, updates, revokes, saveFailures, accepted, ticks, missed>>

-----------------------------------------------------------------------------
SendStep(m) ==
  \/ Send(m) \/ Created(m) \/ CreateFails(m) \/ EngineAccepts(m) \/ EngineReturns(m)
  \/ EngineRefuses(m) \/ SentSaveFails(m) \/ FailedSaveFails(m)
  \/ \E known \in BOOLEAN : SentSaved(m, known) \/ FailedSaved(m, known)

Next ==
  \/ \E m \in Messages : SendStep(m) \/ Revoke(m) \/ \E s \in Upgrades : Ack(m, s)
  \/ \E u \in updates : UpdateLands(u) \/ UpdateFails(u)
  \/ \E q \in revokes : RevokeLands(q)
  \/ \E h \in Hands : React(h) \/ ReactReads(h) \/ ReactSaved(h)

Spec == Init /\ [][Next]_vars

-----------------------------------------------------------------------------
(* Properties.                                                             *)

(* The order the delivery state of a message advances in.                   *)
Forward == {<<"none", "pending">>, <<"pending", "sent">>, <<"pending", "failed">>}
             \cup ({"sent"} \X {"delivered", "read", "failed"}) \cup {<<"delivered", "read">>}

Advances(m) ==
  row'[m].status # row[m].status => <<row[m].status, row'[m].status>> \in Forward

(* Receipts may come in any order and their writes land in any order, one   *)
(* of them while the send is still being saved: the stored status only      *)
(* advances, and FAILED and READ are final, as long as no reaction saved an *)
(* overtaken copy of the row.                                               *)
AdvancesUnlessUndone == [][\A m \in Messages \ undone' : Advances(m)]_vars

(* Two accounts may hold a message under the same id: a receipt on one      *)
(* session never advances the row of another.                               *)
NoCrossTalk ==
  \A m \in Messages :
    /\ row[m].status \in {"delivered", "read"} => row[m].status \in ticks[m]
    /\ row[m].status \in {"sent", "delivered", "read"} => m \in accepted

(* Once everything in flight has landed, the row of an accepted message     *)
(* shows the highest receipt that found it, whatever their order, as long   *)
(* as no reaction saved an overtaken copy.                                  *)
Settled(m) ==
  /\ pc[m] = "done" /\ saveFailures = 0
  /\ \A u \in updates : ~(u.session = SessionOf[m] /\ u.id = IdOf[m])

Highest(seen) ==
  IF "read" \in seen THEN "read" ELSE IF "delivered" \in seen THEN "delivered" ELSE "sent"

ReceiptsConverge ==
  \A m \in accepted :
    Settled(m) /\ m \notin undone /\ "failed" \notin ticks[m]
      => row[m].status = Highest(ticks[m] \ missed[m])

(* A send the engine refused ends FAILED, and no receipt ever revives it.   *)
RefusalShown ==
  \A m \in Messages \ accepted :
    Settled(m) => row[m].status \in {"none", "failed"} /\ ~row[m].id

(* What the comment on the receipts' UPDATE says: delivery state only       *)
(* ever advances.                                                           *)
AdvancesOnly == [][\A m \in Messages : Advances(m)]_vars
=============================================================================
