------------------------------ MODULE MessageStore ------------------------------
(***************************************************************************)
(* One session's part of the Baileys message store                          *)
(* (engine/adapters/baileys-message-store.service.ts), which keeps the      *)
(* newest messages for replies, forwards and deletions.  Every message sent *)
(* or received is put fire-and-forget, often twice: by the send's return    *)
(* and by its echo.  A put is three queries, and puts overlap: the upsert,  *)
(* the search for the row behind the newest ones, the deletion up to it.    *)
(***************************************************************************)
EXTENDS Naturals, FiniteSets, FiniteSetsExt

CONSTANTS
  WaMessages,     \* ids of messages: numbers from 1, of which no order matters
  Limit,          \* BAILEYS_MESSAGE_STORE_LIMIT
  Puts,           \* slots for puts in flight
  MaxPuts, MaxMillis  \* bounds: puts, the clock

VARIABLES
  stored,         \* the rows
  put,            \* the puts in flight
  millis,         \* the clock, in milliseconds
  putCount,
  landed,         \* history: messages that had a row since the last clear
  lost,           \* history: a query of a put was rejected
  crossed         \* history: the store was cleared under a put, or a message's
                  \* older put landed after its newer one

storeVars == <<stored, put, millis, putCount, landed, lost, crossed>>

(* The id is a uuid: it orders rows of one millisecond as it likes.         *)
StoredRow == [id : 1..MaxPuts, waMessageId : WaMessages, createdAt : 1..MaxMillis]
Put == [pc : {"idle", "upsert", "find", "delete"}, waMessageId : WaMessages,
        createdAt : 1..MaxMillis, cutoff : SUBSET StoredRow]

(* The type invariant.                                                     *)
TypeOK ==
  /\ stored \subseteq StoredRow
  /\ put \in [Puts -> Put]
  /\ \A r, s \in stored : r # s => r.waMessageId # s.waMessageId /\ r.id # s.id
  /\ millis \in 1..MaxMillis /\ putCount \in 0..MaxPuts
  /\ landed \subseteq WaMessages /\ lost \in BOOLEAN /\ crossed \in BOOLEAN

NoPut == [pc |-> "idle", waMessageId |-> CHOOSE m \in WaMessages : TRUE, createdAt |-> 1,
          cutoff |-> {}]

Init ==
  /\ stored = {} /\ put = [p \in Puts |-> NoPut]
  /\ millis = 1 /\ putCount = 0 /\ landed = {} /\ lost = FALSE /\ crossed = FALSE

Quiet == \A p \in Puts : put[p].pc = "idle"

(* ORDER BY createdAt DESC, id DESC, read from the end.                     *)
Older(r, s) == r.createdAt < s.createdAt \/ (r.createdAt = s.createdAt /\ r.id < s.id)

-----------------------------------------------------------------------------
(* A call runs in the first free slot, and a message that is new is the     *)
(* first of those: slots and ids are only names.                            *)
NextFree(p) ==
  /\ put[p].pc = "idle" /\ putCount < MaxPuts
  /\ \A q \in Puts : q < p => put[q].pc # "idle"

Known(m)   == m \in landed \/ \E p \in Puts : put[p].pc # "idle" /\ put[p].waMessageId = m
NextNew(m) == \A k \in WaMessages : k < m => Known(k)

(* put: createdAt is taken before the query is sent.                        *)
PutBegins(p, m) ==
  /\ Known(m) \/ NextNew(m)
  /\ putCount' = putCount + 1
  /\ put' = [put EXCEPT ![p] = [NoPut EXCEPT !.pc = "upsert", !.waMessageId = m,
                                             !.createdAt = millis]]
  /\ UNCHANGED <<stored, millis, landed, lost, crossed>>

(* A row that is there keeps its id.                                        *)
Upserts(p) ==
  LET m == put[p].waMessageId
      old == {r \in stored : r.waMessageId = m}
  IN  /\ put[p].pc = "upsert"
      /\ \E id \in IF old # {} THEN {r.id : r \in old}
                   ELSE 1..MaxPuts \ {r.id : r \in stored} :
           stored' = (stored \ old) \cup
                       {[id |-> id, waMessageId |-> m, createdAt |-> put[p].createdAt]}
      /\ landed' = landed \cup {m}
      /\ crossed' = (crossed \/ \E r \in old : r.createdAt > put[p].createdAt)
      /\ put' = [put EXCEPT ![p].pc = "find"]
      /\ UNCHANGED <<millis, putCount, lost>>

MutantKeepsOneLess(p) ==
  LET behind == {r \in stored : Cardinality({s \in stored : Older(r, s)}) = Limit - 1}
  IN  /\ put[p].pc = "find"
      /\ put' = [put EXCEPT ![p] = IF behind = {} THEN NoPut
                                   ELSE [@ EXCEPT !.pc = "delete", !.cutoff = behind]]
      /\ UNCHANGED <<stored, millis, putCount, landed, lost, crossed>>

(* enforceLimit: the newest row that is one too many, if there is one.      *)
FindsCutoff(p) ==
  LET behind == {r \in stored : Cardinality({s \in stored : Older(r, s)}) = Limit}
  IN  /\ put[p].pc = "find"
      /\ put' = [put EXCEPT ![p] = IF behind = {} THEN NoPut
                                   ELSE [@ EXCEPT !.pc = "delete", !.cutoff = behind]]
      /\ UNCHANGED <<stored, millis, putCount, landed, lost, crossed>>

MutantIgnoresIds(p) ==
  /\ put[p].pc = "delete"
  /\ stored' = {r \in stored : \A c \in put[p].cutoff : r.createdAt > c.createdAt}
  /\ put' = [put EXCEPT ![p] = NoPut]
  /\ UNCHANGED <<millis, putCount, landed, lost, crossed>>

Deletes(p) ==
  /\ put[p].pc = "delete"
  /\ stored' = {r \in stored : \A c \in put[p].cutoff : Older(c, r)}
  /\ put' = [put EXCEPT ![p] = NoPut]
  /\ UNCHANGED <<millis, putCount, landed, lost, crossed>>

(* The query of a put is rejected: the message's sender never hears of it.  *)
PutFails(p) ==
  /\ put[p].pc # "idle"
  /\ put' = [put EXCEPT ![p] = NoPut]
  /\ lost' = TRUE
  /\ UNCHANGED <<stored, millis, putCount, landed, crossed>>

(* clearSession, at the end of a logout.                                    *)
clearSession ==
  /\ stored # {}
  /\ stored' = {} /\ landed' = {}
  /\ crossed' = (crossed \/ ~Quiet)
  /\ UNCHANGED <<put, millis, putCount, lost>>

Tick ==
  /\ millis < MaxMillis
  /\ millis' = millis + 1
  /\ UNCHANGED <<stored, put, putCount, landed, lost, crossed>>

Next ==
  \/ \E p \in Puts :
       \/ NextFree(p) /\ \E m \in WaMessages : PutBegins(p, m)
       \/ Upserts(p) \/ FindsCutoff(p) \/ Deletes(p) \/ PutFails(p)
  \/ clearSession \/ Tick

Spec == Init /\ [][Next]_storeVars

-----------------------------------------------------------------------------
(* Properties.                                                             *)

(* However puts overlap, and whichever rows share a millisecond, no put     *)
(* evicts more than is too much: the store never falls below the limit, or  *)
(* below all there was, unless it was cleared under a put or a message's    *)
(* two puts landed in the wrong order; and without a rejected query it      *)
(* never stays above.                                                       *)
StoreKeepsLimit ==
  /\ ~crossed => Cardinality(stored) >= Min({Limit, Cardinality(landed)})
  /\ Quiet /\ ~lost => Cardinality(stored) <= Limit

(* Why: as the rows are ordered, the newest ones a deletion will leave are   *)
(* still as many when other deletions have left theirs; and a put that made *)
(* the rows too many has yet to search, or will delete enough.              *)
Kept(p) == {r \in stored : \A c \in put[p].cutoff : Older(c, r)}

StoreInv ==
  /\ TypeOK
  /\ IsFiniteSet(stored) /\ IsFiniteSet(landed) /\ \A r \in stored : r.waMessageId \in landed
  /\ ~crossed => /\ Cardinality(stored) >= Limit \/ Cardinality(stored) >= Cardinality(landed)
                 /\ \A p \in Puts : put[p].pc = "delete" => Cardinality(Kept(p)) >= Limit
  /\ ~lost => \/ Cardinality(stored) <= Limit
              \/ \E p \in Puts : \/ put[p].pc = "find"
                                 \/ put[p].pc = "delete" /\ Cardinality(Kept(p)) <= Limit
=============================================================================
