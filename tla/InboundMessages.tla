--------------------------- MODULE InboundMessages ---------------------------
(***************************************************************************)
(* Messages that come from WhatsApp: the two adapters' mapping of them, the *)
(* session's callbacks (onMessage, onMessageCreate, onMessageRevoked,       *)
(* onMessageReaction) and the rows they write.  None of the callbacks is    *)
(* serialised with another: a message may still be downloading its media    *)
(* while it is revoked, and every write is sent off and forgotten.          *)
(*                                                                         *)
(* A sender stands for a contact behind a privacy id, whose number a lookup *)
(* tells; texts, media and the bodies of events are left out.  The lookup   *)
(* is taken to be switched on (RESOLVE_LID_TO_PHONE).                       *)
(***************************************************************************)
EXTENDS Naturals, Sequences, SequencesExt, FiniteSets

CONSTANTS
  Messages, Senders, NoOne,
  May,             \* what each message may be: a kind, and a sender to look up
  Busy,            \* the messages that are revoked and reacted to
  Reactors,        \* slots for reactions being stored
  CacheMax,        \* LID_PHONE_CACHE_MAX
  MaxReactions     \* bound: reactions

VARIABLES
  engine,          \* the adapter in use
  inbound,         \* each message: its kind, its sender, where its handling is
  insert,          \* the write of its row
  row,             \* its row in `messages`
  revoke,          \* the UPDATE of its revocation
  reactor,         \* the reactions being stored
  reactionCount,
  lidPhoneCache,   \* the contacts it has an answer for, oldest first
  told,            \* the messages that webhooks and sockets were told of
  last,            \* history: each sender's last reaction
  excused          \* history: messages whose revocation no row was there for, or
                   \* was undone by an older copy; and those whose reactions crossed

inboundVars == <<engine, inbound, insert, row, revoke, reactor, reactionCount, lidPhoneCache,
                 told, last, excused>>

Someone == Senders \cup {NoOne}
Kind    == {"text", "own", "status"}
Stored  == [there : BOOLEAN, revoked : BOOLEAN, reactions : SUBSET Senders]
Write   == {"none", "flight", "landed", "failed"}
Inbound == [pc : {"none", "mapping", "hook", "lookup", "done"}, kind : Kind, from : Someone]
Reactor == [pc : {"idle", "reading", "saving"}, msg : Messages \cup {0}, from : Someone,
            adds : BOOLEAN, copy : Stored]

NoRow   == [there |-> FALSE, revoked |-> FALSE, reactions |-> {}]
Unseen  == [pc |-> "none", kind |-> "text", from |-> NoOne]
Resting == [pc |-> "idle", msg |-> 0, from |-> NoOne, adds |-> FALSE, copy |-> NoRow]

(* The type invariant. *)
TypeOK ==
  /\ engine \in {"wwebjs", "baileys"}
  /\ inbound \in [Messages -> Inbound]
  /\ insert \in [Messages -> Write] /\ revoke \in [Messages -> Write]
  /\ row \in [Messages -> Stored] /\ last \in [Messages -> SUBSET Senders]
  /\ reactor \in [Reactors -> Reactor]
  /\ reactionCount \in 0..MaxReactions
  /\ lidPhoneCache \in Seq(Senders)
  /\ told \subseteq Messages
  /\ excused \subseteq [msg : Messages, of : {"revoke", "reaction"}]

Init ==
  /\ engine \in {"wwebjs", "baileys"}
  /\ inbound = [m \in Messages |-> Unseen]
  /\ insert = [m \in Messages |-> "none"] /\ revoke = insert
  /\ row = [m \in Messages |-> NoRow]
  /\ reactor = [r \in Reactors |-> Resting] /\ reactionCount = 0
  /\ lidPhoneCache = <<>> /\ told = {}
  /\ last = [m \in Messages |-> {}] /\ excused = {}

Moves(m, pc) ==
  inbound' = [inbound EXCEPT ![m].pc = pc, ![m].from = IF pc = "done" THEN NoOne ELSE @]

RowsKept    == UNCHANGED <<insert, row, told, lidPhoneCache>>
OthersKept  == UNCHANGED <<revoke, reactor, reactionCount, last, excused>>
WritesKept  == UNCHANGED <<engine, inbound, lidPhoneCache, told>>

-----------------------------------------------------------------------------
(* The adapters.  Both flag status posts and privacy ids while they map.    *)

(* whatsapp-web.js has a message: the contact, the media and the quoted     *)
(* message are awaited.  What the account itself sent comes by              *)
(* message_create, which awaits nothing.                                    *)
WwebjsMessage(m, kind, from) ==
  /\ engine = "wwebjs" /\ inbound[m].pc = "none" /\ kind # "own"
  /\ inbound' = [inbound EXCEPT ![m] = [pc |-> "mapping", kind |-> kind, from |-> from]]
  /\ UNCHANGED engine /\ RowsKept /\ OthersKept

MessageCreated(m) ==
  /\ engine = "wwebjs" /\ inbound[m].pc = "none"
  /\ inbound' = [inbound EXCEPT ![m] = [pc |-> "hook", kind |-> "own", from |-> NoOne]]
  /\ UNCHANGED engine /\ RowsKept /\ OthersKept

(* messages.upsert: every message of the batch is processed on its own.     *)
BaileysMessage(m, kind, from) ==
  /\ engine = "baileys" /\ inbound[m].pc = "none"
  /\ inbound' = [inbound EXCEPT ![m] = [pc |-> "mapping", kind |-> kind, from |-> from]]
  /\ UNCHANGED engine /\ RowsKept /\ OthersKept

MutantStoresStatus(m) ==
  /\ Moves(m, IF inbound[m].kind = "own" THEN "done" ELSE "hook")
  /\ UNCHANGED engine /\ RowsKept /\ OthersKept

(* onMessage, onMessageCreate: a status post is dropped, anything else goes *)
(* through the hooks.                                                       *)
Delivered(m) ==
  /\ Moves(m, IF inbound[m].kind = "status" THEN "done" ELSE "hook")
  /\ UNCHANGED engine /\ RowsKept /\ OthersKept

(* Whatever of the contact, media or quoted message failed is left out.     *)
WwebjsMaps(m) ==
  /\ engine = "wwebjs" /\ inbound[m].pc = "mapping"
  /\ Delivered(m)

(* mapMessage: media that cannot be downloaded is left out.                 *)
BaileysMaps(m) ==
  /\ engine = "baileys" /\ inbound[m].pc = "mapping"
  /\ Delivered(m)

-----------------------------------------------------------------------------
(* The hooks have answered.                                                *)
Insert(m) ==
  /\ insert' = [insert EXCEPT ![m] = "flight"]
  /\ told' = told \cup {m}
  /\ Moves(m, "done")

(* A plugin stopped the message: it is neither stored nor told of.          *)
HookStops(m) ==
  /\ inbound[m].pc = "hook" /\ Moves(m, "done")
  /\ UNCHANGED engine /\ RowsKept /\ OthersKept

(* The account's own message is told of; a send has stored it already.      *)
OwnGoesOn(m) ==
  /\ inbound[m].pc = "hook" /\ inbound[m].kind = "own"
  /\ told' = told \cup {m} /\ Moves(m, "done")
  /\ UNCHANGED <<engine, insert, row, lidPhoneCache>> /\ OthersKept

(* resolveSenderPhone finds a contact behind a privacy id in the cache, or  *)
(* asks the engine; a plain number needs no lookup.                         *)
HookGoesOn(m) ==
  /\ inbound[m].pc = "hook" /\ inbound[m].kind # "own"
  /\ IF inbound[m].from = NoOne \/ Contains(lidPhoneCache, inbound[m].from)
     THEN Insert(m)
     ELSE Moves(m, "lookup") /\ UNCHANGED <<insert, told>>
  /\ UNCHANGED <<engine, row, lidPhoneCache>> /\ OthersKept

MutantUnbounded(m) ==
  /\ inbound[m].pc = "lookup"
  /\ lidPhoneCache' = IF Contains(lidPhoneCache, inbound[m].from) THEN lidPhoneCache
                      ELSE Append(lidPhoneCache, inbound[m].from)
  /\ Insert(m)
  /\ UNCHANGED <<engine, row>> /\ OthersKept

(* The engine tells the number, or there is none, or no engine: the answer   *)
(* is kept, and a full cache drops its oldest.                              *)
LookupAnswered(m) ==
  LET kept == IF Len(lidPhoneCache) >= CacheMax THEN Tail(lidPhoneCache) ELSE lidPhoneCache
  IN  /\ inbound[m].pc = "lookup"
      /\ lidPhoneCache' = IF Contains(kept, inbound[m].from) THEN kept
                          ELSE Append(kept, inbound[m].from)
      /\ Insert(m)
      /\ UNCHANGED <<engine, row>> /\ OthersKept

InsertLands(m) ==
  /\ insert[m] = "flight"
  /\ \/ /\ insert' = [insert EXCEPT ![m] = "landed"]
        /\ row' = [row EXCEPT ![m].there = TRUE]
     \/ insert' = [insert EXCEPT ![m] = "failed"] /\ UNCHANGED row
  /\ UNCHANGED <<revoke, reactor, reactionCount, last, excused>> /\ WritesKept

-----------------------------------------------------------------------------
(* Revocations and reactions.  Both adapters call back at once.             *)
MutantOnlyIfStored(m) ==
  /\ m \in Busy /\ inbound[m].pc # "none" /\ revoke[m] = "none"
  /\ revoke' = [revoke EXCEPT ![m] = IF insert[m] = "flight" THEN "landed" ELSE "flight"]
  /\ UNCHANGED <<insert, row, reactor, reactionCount, last, excused>> /\ WritesKept

RevokeArrives(m) ==
  /\ m \in Busy /\ inbound[m].pc # "none" /\ revoke[m] = "none"
  /\ revoke' = [revoke EXCEPT ![m] = "flight"]
  /\ UNCHANGED <<insert, row, reactor, reactionCount, last, excused>> /\ WritesKept

(* The UPDATE clears the body of the row that is there by now; or it is     *)
(* rejected, which is only logged.                                          *)
RevokeLands(m) ==
  /\ revoke[m] = "flight"
  /\ \/ /\ revoke' = [revoke EXCEPT ![m] = "landed"]
        /\ row' = [row EXCEPT ![m].revoked = @ \/ row[m].there]
        /\ excused' = IF row[m].there THEN excused ELSE excused \cup {[msg |-> m, of |-> "revoke"]}
     \/ revoke' = [revoke EXCEPT ![m] = "failed"] /\ UNCHANGED <<row, excused>>
  /\ UNCHANGED <<insert, reactor, reactionCount, last>> /\ WritesKept

NextFree(r) ==
  /\ reactionCount < MaxReactions
  /\ reactor[r].pc = "idle" /\ \A k \in Reactors : k < r => reactor[k].pc # "idle"

(* The row is looked for.  Reactions that overlap may undo one another.     *)
ReactionArrives(r, m, s, adds) ==
  /\ m \in Busy /\ inbound[m].pc # "none"
  /\ reactionCount' = reactionCount + 1
  /\ reactor' = [reactor EXCEPT ![r] = [pc |-> "reading", msg |-> m, from |-> s, adds |-> adds,
                                        copy |-> NoRow]]
  /\ last' = [last EXCEPT ![m] = IF adds THEN @ \cup {s} ELSE @ \ {s}]
  /\ excused' = IF \E k \in Reactors : reactor[k].pc # "idle" /\ reactor[k].msg = m
                THEN excused \cup {[msg |-> m, of |-> "reaction"]}
                ELSE excused
  /\ UNCHANGED <<insert, row, revoke>> /\ WritesKept

MutantOneReaction(x) == [x.copy EXCEPT !.reactions = IF x.adds THEN {x.from} ELSE {}]

Reacted(x) == [x.copy EXCEPT !.reactions = IF x.adds THEN @ \cup {x.from} ELSE @ \ {x.from}]

ReactionReads(r) ==
  LET m == reactor[r].msg
  IN  /\ reactor[r].pc = "reading"
      /\ IF row[m].there
         THEN /\ reactor' = [reactor EXCEPT ![r].pc = "saving",
                                            ![r].copy = Reacted([reactor[r] EXCEPT !.copy = row[m]])]
              /\ UNCHANGED excused
         ELSE /\ reactor' = [reactor EXCEPT ![r] = Resting]
              /\ excused' = excused \cup {[msg |-> m, of |-> "reaction"]}
      /\ UNCHANGED <<insert, row, revoke, reactionCount, last>> /\ WritesKept

(* The whole entity is saved, as it was read; or the save is rejected.      *)
ReactionSaved(r) ==
  LET m    == reactor[r].msg
      copy == reactor[r].copy
  IN  /\ reactor[r].pc = "saving"
      /\ reactor' = [reactor EXCEPT ![r] = Resting]
      /\ \/ /\ row' = [row EXCEPT ![m] = copy]
            /\ excused' = IF row[m].revoked /\ ~copy.revoked
                          THEN excused \cup {[msg |-> m, of |-> "revoke"]}
                          ELSE excused
         \/ UNCHANGED row /\ excused' = excused \cup {[msg |-> m, of |-> "reaction"]}
      /\ UNCHANGED <<insert, revoke, reactionCount, last>> /\ WritesKept

Next ==
  \/ \E m \in Messages :
       \/ \E x \in May[m] : WwebjsMessage(m, x.kind, x.from) \/ BaileysMessage(m, x.kind, x.from)
       \/ (\E x \in May[m] : x.kind = "own") /\ MessageCreated(m)
       \/ WwebjsMaps(m) \/ BaileysMaps(m)
       \/ HookStops(m) \/ OwnGoesOn(m) \/ HookGoesOn(m) \/ LookupAnswered(m) \/ InsertLands(m)
       \/ RevokeArrives(m) \/ RevokeLands(m)
  \/ \E r \in Reactors :
       \/ /\ NextFree(r)
          /\ \E m \in Messages, s \in Senders, adds \in BOOLEAN : ReactionArrives(r, m, s, adds)
       \/ ReactionReads(r) \/ ReactionSaved(r)

Spec == Init /\ [][Next]_inboundVars

-----------------------------------------------------------------------------
(* Properties.                                                             *)
Quiet(m) ==
  /\ insert[m] # "flight" /\ revoke[m] # "flight"
  /\ \A r \in Reactors : reactor[r].msg # m

(* Once everything under way for a message has landed, its revocation shows *)
(* in its row and each sender's last reaction is there, unless the UPDATE    *)
(* was rejected or came before the row, or an older copy was saved over it. *)
LateEventsHold ==
  \A m \in Messages :
    Quiet(m) /\ row[m].there =>
      /\ revoke[m] = "landed" /\ ~row[m].revoked => [msg |-> m, of |-> "revoke"] \in excused
      /\ row[m].reactions # last[m] => [msg |-> m, of |-> "reaction"] \in excused

(* What plugins stopped, and status posts, leave neither a row nor an event; *)
(* a row is of a message that somebody else sent and that was told of.      *)
OnlyToldIsStored ==
  \A m \in Messages :
    /\ row[m].there => m \in told /\ inbound[m].kind = "text"
    /\ inbound[m].kind = "status" => m \notin told

(* However lookups overlap, the cache keeps its bound and no contact twice.  *)
CacheBounded == Len(lidPhoneCache) <= CacheMax /\ IsInjective(lidPhoneCache)

(* Why: what goes past the hooks is no status post, and what is looked up or *)
(* stored was not sent from the account; a row that a late revocation missed *)
(* is excused; and while no reactions of a message crossed, the one under    *)
(* way will make its row what the last ones left.                           *)
Stages ==
  \A m \in Messages :
    /\ inbound[m].pc \in {"hook", "lookup"} => inbound[m].kind # "status"
    /\ inbound[m].pc = "lookup" => inbound[m].kind = "text" /\ inbound[m].from # NoOne
    /\ m \in told => inbound[m].pc = "done" /\ inbound[m].kind # "status"
    /\ insert[m] # "none" \/ row[m].there => m \in told /\ inbound[m].kind = "text"

Copies ==
  \A r \in Reactors :
    /\ reactor[r].pc # "idle" => reactor[r].msg \in Messages /\ reactor[r].from \in Senders
    /\ reactor[r].pc = "saving" /\ reactor[r].copy.there =>
         reactor[r].msg \in told /\ inbound[reactor[r].msg].kind = "text"

Revoked(m) ==
  revoke[m] = "landed" /\ ~row[m].revoked => [msg |-> m, of |-> "revoke"] \in excused

On(r, m) == reactor[r].pc # "idle" /\ reactor[r].msg = m

ReactionsSettle(m) ==
  [msg |-> m, of |-> "reaction"] \notin excused =>
    /\ (\A r \in Reactors : ~On(r, m)) => row[m].reactions = last[m]
    /\ \A r \in Reactors : On(r, m) =>
         /\ \A k \in Reactors \ {r} : ~On(k, m)
         /\ reactor[r].pc = "reading" =>
              last[m] = IF reactor[r].adds THEN row[m].reactions \cup {reactor[r].from}
                        ELSE row[m].reactions \ {reactor[r].from}
         /\ reactor[r].pc = "saving" => reactor[r].copy.reactions = last[m]

InboundInv ==
  /\ TypeOK /\ Stages /\ Copies /\ CacheBounded
  /\ \A m \in Messages : Revoked(m) /\ ReactionsSettle(m)
=============================================================================
