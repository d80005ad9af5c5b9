------------------------------ MODULE ChatPage ------------------------------
(***************************************************************************)
(* The dashboard's chat page (Chats.tsx over useWebSocket.ts): the bubbles *)
(* it shows of one chat, which four sources write in turns: the answers of *)
(* history requests, the optimistic bubble of a message being sent, the    *)
(* answer of that send, and the live events of the socket.  Nothing orders *)
(* them: an event may overtake the answer of the request that caused it,   *)
(* and an answer may land after the user opened another chat.              *)
(*                                                                         *)
(* The server is what MessageDelivery models in full: here a row, PENDING  *)
(* without WhatsApp's id until the engine has answered.  Reactions,        *)
(* deletions, the list of chats and the layout are left out.               *)
(***************************************************************************)
EXTENDS Naturals

CONSTANTS
  Messages, Chats, NoChat,
  Own,         \* the messages sent from the page; the others come from the contact
  ChatOf,      \* the chat of a message
  Fetches,     \* bound: the history requests of a visit
  MaxReceipts  \* bound: receipts raised

VARIABLES
  view,      \* activeChat
  bubbles,   \* messages: what the page holds, in no particular order
  fetch,     \* loadMessages: each history request
  landed,    \* history: the chat of the last answer put on the page
  post,      \* where the send of a message is, page and server together
  stored,    \* the server's row of a message
  events,    \* live events under way to the page: one may never arrive (the socket is down)
  receipts   \* history: receipts raised so far

pageVars == <<view, bubbles, fetch, landed, post, stored, events, receipts>>

Statuses == {"pending", "sent", "delivered", "read", "failed"}
Receipts == {"delivered", "read", "failed"}
Bubble   == [of : Messages, by : {"send", "event", "fetch"}, known : BOOLEAN, status : Statuses]
Event    == [of : Messages, status : {"created"} \cup Receipts]
Absent   == [known |-> FALSE, status |-> "absent"]
Fetch    == [pc : {"free", "asked", "read", "done"}, chat : Chats \cup {NoChat}, answer : SUBSET Bubble]

(* The type invariant. *)
TypeOK ==
  /\ view \in Chats \cup {NoChat} /\ landed \in Chats \cup {NoChat}
  /\ bubbles \in SUBSET Bubble
  /\ fetch \in [Fetches -> Fetch]
  /\ post \in [Messages -> {"no", "asked", "created", "accepted", "saved", "refused", "done"}]
  /\ stored \in [Messages -> [known : BOOLEAN, status : Statuses] \cup {Absent}]
  /\ events \in SUBSET Event
  /\ receipts \in 0..MaxReceipts

Init ==
  /\ view = NoChat /\ bubbles = {} /\ landed = NoChat
  /\ fetch = [f \in Fetches |-> [pc |-> "free", chat |-> NoChat, answer |-> {}]]
  /\ post = [m \in Messages |-> "no"]
  /\ stored = [m \in Messages |-> Absent]
  /\ events = {} /\ receipts = 0

Rank == [pending |-> 0, sent |-> 1, delivered |-> 2, read |-> 3]

(* mergeDeliveryStatus; the server's ackStatusTransitionFrom is the same    *)
(* rule.                                                                    *)
Merge(current, incoming) ==
  IF current = "failed" THEN "failed"
  ELSE IF incoming = "failed"
  THEN IF Rank[current] < 2 THEN "failed" ELSE current
  ELSE IF Rank[incoming] >= Rank[current] THEN incoming ELSE current

Shows(m) == \E b \in bubbles : b.of = m /\ b.known

Temporary(m) == {b \in bubbles : b.of = m /\ b.by = "send" /\ ~b.known}

-----------------------------------------------------------------------------
(* The user.                                                               *)

(* A chat is opened (again): the list stays until an answer lands.          *)
Open(c) ==
  /\ \E f \in Fetches :
       /\ fetch[f].pc = "free" /\ \A g \in Fetches : fetch[g].pc = "free" => f <= g
       /\ fetch' = [fetch EXCEPT ![f] = [pc |-> "asked", chat |-> c, answer |-> {}]]
  /\ view' = c
  /\ UNCHANGED <<bubbles, landed, post, stored, events, receipts>>

(* Another session is selected: no chat is open, and nothing is shown.      *)
SelectSession ==
  /\ view # NoChat
  /\ view' = NoChat /\ bubbles' = {} /\ landed' = NoChat
  /\ UNCHANGED <<fetch, post, stored, events, receipts>>

(* handleSend up to the request: one at a time, whichever chat is open.     *)
Send(m) ==
  /\ m \in Own /\ view = ChatOf[m] /\ post[m] = "no"
  /\ \A n \in Messages : post[n] \in {"no", "done"}
  /\ post' = [post EXCEPT ![m] = "asked"]
  /\ bubbles' = bubbles \cup {[of |-> m, by |-> "send", known |-> FALSE, status |-> "pending"]}
  /\ UNCHANGED <<view, fetch, landed, stored, events, receipts>>

-----------------------------------------------------------------------------
(* The server.                                                             *)

RowCreated(m) ==
  /\ post[m] = "asked"
  /\ post' = [post EXCEPT ![m] = "created"]
  /\ stored' = [stored EXCEPT ![m] = [known |-> FALSE, status |-> "pending"]]
  /\ UNCHANGED <<view, bubbles, fetch, landed, events, receipts>>

(* WhatsApp has the message: the engine raises message_create for it.       *)
Accepted(m) ==
  /\ post[m] = "created"
  /\ post' = [post EXCEPT ![m] = "accepted"]
  /\ events' = events \cup {[of |-> m, status |-> "created"]}
  /\ UNCHANGED <<view, bubbles, fetch, landed, stored, receipts>>

RowSaved(m) ==
  /\ post[m] \in {"created", "accepted"}
  /\ \/ /\ post[m] = "accepted"
        /\ post' = [post EXCEPT ![m] = "saved"]
        /\ stored' = [stored EXCEPT ![m] = [known |-> TRUE, status |-> "sent"]]
     \/ /\ post' = [post EXCEPT ![m] = "refused"]
        /\ stored' = [stored EXCEPT ![m] = [known |-> FALSE, status |-> "failed"]]
  /\ UNCHANGED <<view, bubbles, fetch, landed, events, receipts>>

(* onMessage: the event does not wait for the row, whose save may fail.     *)
Arrives(m) ==
  /\ m \notin Own /\ post[m] = "no"
  /\ post' = [post EXCEPT ![m] = "done"]
  /\ events' = events \cup {[of |-> m, status |-> "created"]}
  /\ UNCHANGED <<view, bubbles, fetch, landed, stored, receipts>>

ArrivalSaved(m) ==
  /\ m \notin Own /\ post[m] = "done" /\ stored[m] = Absent
  /\ stored' = [stored EXCEPT ![m] = [known |-> TRUE, status |-> "sent"]]
  /\ UNCHANGED <<view, bubbles, fetch, landed, post, events, receipts>>

(* onMessageAck: the row advances if it is known by then, the event goes    *)
(* out in any case.                                                         *)
Receipt(m, s) ==
  /\ m \in Own /\ receipts < MaxReceipts /\ receipts' = receipts + 1
  /\ post[m] \in {"accepted", "saved", "done"}
  /\ events' = events \cup {[of |-> m, status |-> s]}
  /\ stored' = [stored EXCEPT ![m].status = IF stored[m].known THEN Merge(@, s) ELSE @]
  /\ UNCHANGED <<view, bubbles, fetch, landed, post>>

-----------------------------------------------------------------------------
(* What reaches the page.                                                  *)

(* The server reads the chat's rows; the answer is under way.               *)
HistoryRead(f) ==
  /\ fetch[f].pc = "asked"
  /\ fetch' = [fetch EXCEPT ![f] =
       [pc |-> "read", chat |-> fetch[f].chat,
        answer |-> {[of |-> m, by |-> "fetch", known |-> stored[m].known, status |-> stored[m].status] :
                      m \in {n \in Messages : ChatOf[n] = fetch[f].chat /\ stored[n] # Absent}}]]
  /\ UNCHANGED <<view, bubbles, landed, post, stored, events, receipts>>

(* loadMessages goes on, whichever chat is open by now; a request that      *)
(* fails empties the list.                                                  *)
HistoryLands(f) ==
  /\ \/ fetch[f].pc = "read" /\ bubbles' = fetch[f].answer
     \/ fetch[f].pc \in {"asked", "read"} /\ bubbles' = {}
  /\ landed' = fetch[f].chat
  /\ fetch' = [fetch EXCEPT ![f] = [pc |-> "done", chat |-> NoChat, answer |-> {}]]
  /\ UNCHANGED <<view, post, stored, events, receipts>>

(* handleSend goes on: the event of the message may have come first.        *)
MutantRenames(m) ==
  /\ post[m] = "saved"
  /\ post' = [post EXCEPT ![m] = "done"]
  /\ bubbles' = {IF b \in Temporary(m) THEN [b EXCEPT !.known = TRUE, !.status = "sent"] ELSE b :
                   b \in bubbles}
  /\ UNCHANGED <<view, fetch, landed, stored, events, receipts>>

SendAnswered(m) ==
  /\ post[m] = "saved"
  /\ post' = [post EXCEPT ![m] = "done"]
  /\ bubbles' = IF Shows(m) THEN bubbles \ Temporary(m)
                ELSE {IF b \in Temporary(m) THEN [b EXCEPT !.known = TRUE, !.status = "sent"] ELSE b :
                        b \in bubbles}
  /\ UNCHANGED <<view, fetch, landed, stored, events, receipts>>

(* The send was refused, or its answer is lost: the bubble is marked.       *)
SendFails(m) ==
  /\ post[m] \in {"saved", "refused"}
  /\ post' = [post EXCEPT ![m] = "done"]
  /\ bubbles' = {IF b \in Temporary(m) THEN [b EXCEPT !.status = "failed"] ELSE b : b \in bubbles}
  /\ UNCHANGED <<view, fetch, landed, stored, events, receipts>>

(* handleIncomingMessage: message.sent and message.received.                *)
MutantAnyChat(m) ==
  /\ [of |-> m, status |-> "created"] \in events
  /\ events' = events \ {[of |-> m, status |-> "created"]}
  /\ bubbles' = IF view # NoChat /\ ~Shows(m)
                THEN bubbles \cup {[of |-> m, by |-> "event", known |-> TRUE, status |-> "sent"]}
                ELSE bubbles
  /\ UNCHANGED <<view, fetch, landed, post, stored, receipts>>

MessageEvent(m) ==
  /\ [of |-> m, status |-> "created"] \in events
  /\ events' = events \ {[of |-> m, status |-> "created"]}
  /\ bubbles' = IF view = ChatOf[m] /\ ~Shows(m)
                THEN bubbles \cup {[of |-> m, by |-> "event", known |-> TRUE, status |-> "sent"]}
                ELSE bubbles
  /\ UNCHANGED <<view, fetch, landed, post, stored, receipts>>

(* handleIncomingMessageAck.                                                *)
ReceiptEvent(m, s) ==
  /\ [of |-> m, status |-> s] \in events
  /\ events' = events \ {[of |-> m, status |-> s]}
  /\ bubbles' = {IF b.of = m /\ b.known THEN [b EXCEPT !.status = Merge(@, s)] ELSE b : b \in bubbles}
  /\ UNCHANGED <<view, fetch, landed, post, stored, receipts>>

Next ==
  \/ \E c \in Chats : Open(c)
  \/ SelectSession
  \/ \E f \in Fetches : HistoryRead(f) \/ HistoryLands(f)
  \/ \E m \in Messages :
       \/ Send(m) \/ RowCreated(m) \/ Accepted(m) \/ RowSaved(m) \/ Arrives(m)
       \/ ArrivalSaved(m)
       \/ SendAnswered(m) \/ SendFails(m) \/ MessageEvent(m)
       \/ \E s \in Receipts : Receipt(m, s) \/ ReceiptEvent(m, s)

Spec == Init /\ [][Next]_pageVars

-----------------------------------------------------------------------------
(* Properties.                                                             *)

(* "Otherwise both the echo and the renamed temp render as duplicate        *)
(* bubbles": a WhatsApp message is on the page once, in whatever order its  *)
(* event, the answer of its send and the history land.                      *)
OneBubblePerId ==
  \A b, c \in bubbles : b.of = c.of /\ b.known /\ c.known => b = c

(* Once every history request has landed, and the last to land was that of  *)
(* the open chat, the page shows messages of no other chat.                 *)
OwnChatShown ==
  (view = landed /\ \A f \in Fetches : fetch[f].pc \notin {"asked", "read"})
    => \A b \in bubbles : ChatOf[b.of] = view

-----------------------------------------------------------------------------
(* What makes them hold of every step: an answer that is under way has each *)
(* message of its chat once, and no other.                                 *)
AnswersOf(f) ==
  \A b \in fetch[f].answer :
     /\ ChatOf[b.of] = fetch[f].chat
     /\ \A c \in fetch[f].answer : b.of = c.of => b = c

PageInv ==
  /\ TypeOK /\ OneBubblePerId /\ OwnChatShown
  /\ \A f \in Fetches : AnswersOf(f)
=============================================================================
