------------------------------ MODULE PagesProofs ------------------------------
(***************************************************************************)
(* What Components promises of the dashboard's pages, for every value of    *)
(* the constants: a section for each of the chat page, the panel's queries  *)
(* and the sessions page, each with an inductive invariant.  The last       *)
(* section has what follows of all the components together.                 *)
(***************************************************************************)
EXTENDS ComponentProofs, OperationsProofs

-----------------------------------------------------------------------------
(* The chat page.                                                          *)

(* Delivery states merge into delivery states.                              *)
LEMMA MergeTyped ==
  ASSUME NEW c \in Page!Statuses, NEW s \in Page!Receipts
  PROVE  Page!Merge(c, s) \in Page!Statuses
BY DEF Page!Statuses, Page!Receipts, Page!Merge, Page!Rank


LEMMA PageStep == Page!PageInv /\ [Page!Next]_(Page!pageVars) => Page!PageInv'
<1> SUFFICES ASSUME Page!PageInv, [Page!Next]_(Page!pageVars)
             PROVE  Page!PageInv'
  OBVIOUS
<1>1. /\ Page!TypeOK /\ Page!OneBubblePerId /\ Page!OwnChatShown
      /\ \A f \in HistoryFetches : Page!AnswersOf(f)
  BY DEF Page!PageInv
<1>2. /\ v1 \in Chats \cup {NoOne} /\ v4 \in Chats \cup {NoOne} /\ v2 \subseteq Page!Bubble
      /\ v3 \in [HistoryFetches -> Page!Fetch]
      /\ \A f \in HistoryFetches : /\ v3[f].pc \in {"free", "asked", "read", "done"}
                                   /\ v3[f].chat \in Chats \cup {NoOne}
                                   /\ v3[f].answer \subseteq Page!Bubble
      /\ v5 \in [Messages -> {"no", "asked", "created", "accepted", "saved", "refused", "done"}]
      /\ v6 \in [Messages -> [known : BOOLEAN, status : Page!Statuses] \cup {Page!Absent}]
      /\ v7 \subseteq Page!Event /\ v8 \in 0..MaxReceipts
  BY <1>1 DEF Page!TypeOK, Page!Fetch
<1>3. /\ \A b, c \in v2 : b.of = c.of /\ b.known /\ c.known => b = c
      /\ (v1 = v4 /\ \A f \in HistoryFetches : v3[f].pc \notin {"asked", "read"})
            => \A b \in v2 : ChatOf[b.of] = v1
  BY <1>1 DEF Page!OneBubblePerId, Page!OwnChatShown
<1>4. ASSUME NEW c \in Chats, Page!Open(c)
      PROVE  Page!PageInv'
  <2>1. PICK f \in HistoryFetches :
          v3' = [v3 EXCEPT ![f] = [pc |-> "asked", chat |-> c, answer |-> {}]]
    BY <1>4 DEF Page!Open
  <2>2. /\ v1' = c /\ v2' = v2 /\ v4' = v4 /\ v5' = v5 /\ v6' = v6 /\ v7' = v7 /\ v8' = v8
    BY <1>4 DEF Page!Open
  <2>3. v3' \in [HistoryFetches -> Page!Fetch] /\ v3'[f].pc = "asked" /\ v3'[f].answer = {}
        /\ \A g \in HistoryFetches : g # f => v3'[g] = v3[g]
    BY <1>2, <2>1 DEF Page!Fetch
  <2>4. \A g \in HistoryFetches : Page!AnswersOf(g)'
    BY <1>1, <2>3 DEF Page!AnswersOf
  <2>5. Page!TypeOK'
    BY <1>2, <2>2, <2>3 DEF Page!TypeOK
  <2> QED
    BY <1>3, <2>2, <2>3, <2>4, <2>5 DEF Page!PageInv, Page!OneBubblePerId, Page!OwnChatShown
<1>5. ASSUME Page!SelectSession
      PROVE  Page!PageInv'
  BY <1>1, <1>2, <1>5 DEF Page!SelectSession, Page!PageInv, Page!TypeOK, Page!OneBubblePerId,
     Page!OwnChatShown, Page!AnswersOf
<1>6. ASSUME NEW f \in HistoryFetches, Page!HistoryRead(f)
      PROVE  Page!PageInv'
  <2> DEFINE rows == {n \in Messages : ChatOf[n] = v3[f].chat /\ v6[n] # Page!Absent}
             answer == {[of |-> m, by |-> "fetch", known |-> v6[m].known, status |-> v6[m].status] : m \in rows}
  <2>1. /\ v3[f].pc = "asked"
        /\ v3' = [v3 EXCEPT ![f] = [pc |-> "read", chat |-> v3[f].chat, answer |-> answer]]
    BY <1>6 DEF Page!HistoryRead
  <2>2. /\ v1' = v1 /\ v2' = v2 /\ v4' = v4 /\ v5' = v5 /\ v6' = v6 /\ v7' = v7 /\ v8' = v8
    BY <1>6 DEF Page!HistoryRead
  <2>3. answer \subseteq Page!Bubble
    BY <1>2 DEF Page!Bubble
  <2>4. /\ \A b \in answer : ChatOf[b.of] = v3[f].chat
        /\ \A b, c \in answer : b.of = c.of => b = c
    OBVIOUS
  <2> HIDE DEF answer
  <2>5. v3' \in [HistoryFetches -> Page!Fetch]
    BY <1>2, <2>1, <2>3 DEF Page!Fetch
  <2>6. /\ v3'[f].pc = "read" /\ v3'[f].answer = answer /\ v3'[f].chat = v3[f].chat
        /\ \A g \in HistoryFetches : g # f => v3'[g] = v3[g]
    BY <1>2, <2>1
  <2>7. \A g \in HistoryFetches : Page!AnswersOf(g)'
    BY <1>1, <2>4, <2>6 DEF Page!AnswersOf
  <2>8. Page!TypeOK'
    BY <1>2, <2>2, <2>5 DEF Page!TypeOK
  <2> QED
    BY <1>3, <2>1, <2>2, <2>6, <2>7, <2>8 DEF Page!PageInv, Page!OneBubblePerId, Page!OwnChatShown
<1>7. ASSUME NEW f \in HistoryFetches, Page!HistoryLands(f)
      PROVE  Page!PageInv'
  <2>1. /\ v2' = v3[f].answer \/ v2' = {}
        /\ v4' = v3[f].chat
        /\ v3' = [v3 EXCEPT ![f] = [pc |-> "done", chat |-> NoOne, answer |-> {}]]
        /\ v1' = v1 /\ v5' = v5 /\ v6' = v6 /\ v7' = v7 /\ v8' = v8
    BY <1>7 DEF Page!HistoryLands
  <2>2. v3' \in [HistoryFetches -> Page!Fetch]
    BY <1>2, <2>1 DEF Page!Fetch
  <2>3. v3'[f].answer = {} /\ \A g \in HistoryFetches : g # f => v3'[g] = v3[g]
    BY <1>2, <2>1
  <2>4. \A g \in HistoryFetches : Page!AnswersOf(g)'
    BY <1>1, <2>3 DEF Page!AnswersOf
  <2>5. Page!TypeOK'
    BY <1>2, <2>1, <2>2 DEF Page!TypeOK
  <2>6. Page!OneBubblePerId' /\ Page!OwnChatShown'
    BY <1>1, <2>1 DEF Page!OneBubblePerId, Page!OwnChatShown, Page!AnswersOf
  <2> QED
    BY <2>4, <2>5, <2>6 DEF Page!PageInv
<1>8. ASSUME v3' = v3, v4' = v4, v1' = v1, Page!TypeOK',
             Page!OneBubblePerId', \A b \in v2' : ChatOf[b.of] = v1 \/ \E c \in v2 : c.of = b.of
      PROVE  Page!PageInv'
  <2>1. \A g \in HistoryFetches : Page!AnswersOf(g)'
    BY <1>1, <1>8 DEF Page!AnswersOf
  <2>2. Page!OwnChatShown'
    BY <1>3, <1>8 DEF Page!OwnChatShown
  <2> QED
    BY <1>8, <2>1, <2>2 DEF Page!PageInv
<1>9. ASSUME NEW m \in Messages, Page!Send(m)
      PROVE  Page!PageInv'
  <2> DEFINE new == [of |-> m, by |-> "send", known |-> FALSE, status |-> "pending"]
  <2>1. /\ v1 = ChatOf[m] /\ v2' = v2 \cup {new} /\ v5' = [v5 EXCEPT ![m] = "asked"]
        /\ v1' = v1 /\ v3' = v3 /\ v4' = v4 /\ v6' = v6 /\ v7' = v7 /\ v8' = v8
    BY <1>9 DEF Page!Send
  <2>2. new \in Page!Bubble /\ ~new.known /\ new.of = m
    BY DEF Page!Bubble, Page!Statuses
  <2> HIDE DEF new
  <2>3. Page!TypeOK'
    BY <1>2, <2>1, <2>2 DEF Page!TypeOK
  <2>4. Page!OneBubblePerId'
    BY <1>3, <2>1, <2>2 DEF Page!OneBubblePerId
  <2> QED
    BY <1>8, <2>1, <2>2, <2>3, <2>4
<1>10. ASSUME NEW m \in Messages,
              Page!RowCreated(m) \/ Page!Accepted(m) \/ Page!RowSaved(m) \/ Page!Arrives(m)
                \/ Page!ArrivalSaved(m)
       PROVE  Page!PageInv'
  <2>1. /\ v1' = v1 /\ v2' = v2 /\ v3' = v3 /\ v4' = v4 /\ v8' = v8
    BY <1>10 DEF Page!RowCreated, Page!Accepted, Page!RowSaved, Page!Arrives, Page!ArrivalSaved
  <2>2. [of |-> m, status |-> "created"] \in Page!Event
    BY DEF Page!Event
  <2>3. v5' \in [Messages -> {"no", "asked", "created", "accepted", "saved", "refused", "done"}]
        /\ v7' \subseteq Page!Event
    BY <1>2, <1>10, <2>2 DEF Page!RowCreated, Page!Accepted, Page!RowSaved, Page!Arrives, Page!ArrivalSaved
  <2>4. v6' \in [Messages -> [known : BOOLEAN, status : Page!Statuses] \cup {Page!Absent}]
    <3> DEFINE Rec == [known : BOOLEAN, status : Page!Statuses]
    <3>1. /\ [known |-> FALSE, status |-> "pending"] \in Rec
          /\ [known |-> TRUE, status |-> "sent"] \in Rec
          /\ [known |-> FALSE, status |-> "failed"] \in Rec
      BY DEF Page!Statuses
    <3>2. v6' = v6 \/ \E r \in Rec : v6' = [v6 EXCEPT ![m] = r]
      BY <1>10, <3>1 DEF Page!RowCreated, Page!Accepted, Page!RowSaved, Page!Arrives, Page!ArrivalSaved
    <3> HIDE DEF Rec
    <3>3. v6' \in [Messages -> Rec \cup {Page!Absent}]
      BY <1>2, <3>2 DEF Rec
    <3> QED
      BY <3>3 DEF Rec
  <2>5. Page!TypeOK'
    BY <1>2, <2>1, <2>3, <2>4 DEF Page!TypeOK
  <2>6. Page!OneBubblePerId'
    BY <1>3, <2>1 DEF Page!OneBubblePerId
  <2> QED
    BY <1>8, <2>1, <2>5, <2>6
<1>11. ASSUME NEW m \in Messages, Page!SendAnswered(m)
       PROVE  Page!PageInv'
  <2> DEFINE Renamed(b) == IF b \in Page!Temporary(m) THEN [b EXCEPT !.known = TRUE, !.status = "sent"] ELSE b
  <2>1. /\ v2' = IF Page!Shows(m) THEN v2 \ Page!Temporary(m) ELSE {Renamed(b) : b \in v2}
        /\ v5' = [v5 EXCEPT ![m] = "done"]
        /\ v1' = v1 /\ v3' = v3 /\ v4' = v4 /\ v6' = v6 /\ v7' = v7 /\ v8' = v8
    BY <1>11 DEF Page!SendAnswered
  <2>2. \A b \in v2 : /\ Renamed(b) \in Page!Bubble /\ Renamed(b).of = b.of
                      /\ b \notin Page!Temporary(m) => Renamed(b) = b
                      /\ b \in Page!Temporary(m) =>
                           /\ b.of = m
                           /\ Renamed(b) = [of |-> m, by |-> "send", known |-> TRUE, status |-> "sent"]
    BY <1>2 DEF Page!Bubble, Page!Temporary, Page!Statuses
  <2> HIDE DEF Renamed
  <2>3. Page!TypeOK'
    BY <1>2, <2>1, <2>2 DEF Page!TypeOK
  <2>4. Page!OneBubblePerId'
    <3>1. CASE Page!Shows(m)
      BY <1>3, <2>1, <3>1 DEF Page!OneBubblePerId
    <3>2. CASE ~Page!Shows(m)
      <4> SUFFICES ASSUME NEW b \in v2, NEW c \in v2, Renamed(b).of = Renamed(c).of,
                          Renamed(b).known, Renamed(c).known
                   PROVE  Renamed(b) = Renamed(c)
        BY <2>1, <3>2 DEF Page!OneBubblePerId
      <4> QED
        BY <1>3, <2>2, <3>2 DEF Page!Shows
    <3> QED
      BY <3>1, <3>2
  <2>5. \A b \in v2' : \E c \in v2 : c.of = b.of
    BY <2>1, <2>2
  <2> QED
    BY <1>8, <2>1, <2>3, <2>4, <2>5
<1>12. ASSUME NEW m \in Messages, Page!SendFails(m)
       PROVE  Page!PageInv'
  <2> DEFINE Marked(b) == IF b \in Page!Temporary(m) THEN [b EXCEPT !.status = "failed"] ELSE b
  <2>1. /\ v2' = {Marked(b) : b \in v2} /\ v5' = [v5 EXCEPT ![m] = "done"]
        /\ v1' = v1 /\ v3' = v3 /\ v4' = v4 /\ v6' = v6 /\ v7' = v7 /\ v8' = v8
    BY <1>12 DEF Page!SendFails
  <2>2. \A b \in v2 : /\ Marked(b) \in Page!Bubble /\ Marked(b).of = b.of
                      /\ b \notin Page!Temporary(m) => Marked(b) = b
                      /\ b \in Page!Temporary(m) => ~Marked(b).known
    BY <1>2 DEF Page!Bubble, Page!Temporary, Page!Statuses
  <2> HIDE DEF Marked
  <2>3. Page!TypeOK'
    BY <1>2, <2>1, <2>2 DEF Page!TypeOK
  <2>4. Page!OneBubblePerId'
    BY <1>3, <2>1, <2>2 DEF Page!OneBubblePerId
  <2> QED
    BY <1>8, <2>1, <2>2, <2>3, <2>4
<1>13. ASSUME NEW m \in Messages, Page!MessageEvent(m)
       PROVE  Page!PageInv'
  <2> DEFINE new == [of |-> m, by |-> "event", known |-> TRUE, status |-> "sent"]
  <2>1. /\ v2' = IF v1 = ChatOf[m] /\ ~Page!Shows(m) THEN v2 \cup {new} ELSE v2
        /\ v7' \subseteq v7
        /\ v1' = v1 /\ v3' = v3 /\ v4' = v4 /\ v5' = v5 /\ v6' = v6 /\ v8' = v8
    BY <1>13 DEF Page!MessageEvent
  <2>2. new \in Page!Bubble /\ new.of = m
    BY DEF Page!Bubble, Page!Statuses
  <2> HIDE DEF new
  <2>3. Page!TypeOK'
    BY <1>2, <2>1, <2>2 DEF Page!TypeOK
  <2>4. Page!OneBubblePerId'
    BY <1>3, <2>1, <2>2 DEF Page!OneBubblePerId, Page!Shows
  <2> QED
    BY <1>8, <2>1, <2>2, <2>3, <2>4
<1>14. ASSUME NEW m \in Messages, NEW s \in Page!Receipts, Page!Receipt(m, s)
       PROVE  Page!PageInv'
  <2>1. /\ v1' = v1 /\ v2' = v2 /\ v3' = v3 /\ v4' = v4 /\ v5' = v5
        /\ v8 < MaxReceipts /\ v8' = v8 + 1
        /\ v7' = v7 \cup {[of |-> m, status |-> s]}
        /\ v6' = [v6 EXCEPT ![m].status = IF v6[m].known THEN Page!Merge(@, s) ELSE @]
    BY <1>14 DEF Page!Receipt
  <2>2. [of |-> m, status |-> s] \in Page!Event
    BY DEF Page!Event
  <2>3. v8' \in 0..MaxReceipts
    BY <1>2, <2>1, PageAssumption
  <2>4. v6' \in [Messages -> [known : BOOLEAN, status : Page!Statuses] \cup {Page!Absent}]
    <3>1. v6[m].known => /\ v6[m] \in [known : BOOLEAN, status : Page!Statuses]
                         /\ v6[m].status \in Page!Statuses
      BY <1>2 DEF Page!Absent
    <3>2. v6[m].known => Page!Merge(v6[m].status, s) \in Page!Statuses
      BY <3>1, MergeTyped
    <3>3. v6[m].known => v6[m].status \in Page!Statuses
      BY <3>1
    <3> DEFINE status == IF v6[m].known THEN Page!Merge(v6[m].status, s) ELSE v6[m].status
    <3>4. /\ v6[m].known => status \in Page!Statuses
          /\ ~v6[m].known => status = v6[m].status
      BY <3>2
    <3>5. v6' = [v6 EXCEPT ![m].status = status]
      BY <2>1
    <3> HIDE DEF status
    <3> QED
      BY <1>2, <3>1, <3>4, <3>5 DEF Page!Absent
  <2>5. Page!TypeOK'
    BY <1>2, <2>1, <2>2, <2>3, <2>4 DEF Page!TypeOK
  <2>6. Page!OneBubblePerId'
    BY <1>3, <2>1 DEF Page!OneBubblePerId
  <2> QED
    BY <1>8, <2>1, <2>5, <2>6
<1>15. ASSUME NEW m \in Messages, NEW s \in Page!Receipts, Page!ReceiptEvent(m, s)
       PROVE  Page!PageInv'
  <2> DEFINE Advanced(b) == IF b.of = m /\ b.known THEN [b EXCEPT !.status = Page!Merge(@, s)] ELSE b
  <2>1. /\ v2' = {Advanced(b) : b \in v2} /\ v7' \subseteq v7
        /\ v1' = v1 /\ v3' = v3 /\ v4' = v4 /\ v5' = v5 /\ v6' = v6 /\ v8' = v8
    BY <1>15 DEF Page!ReceiptEvent
  <2>2. \A b \in v2 : Page!Merge(b.status, s) \in Page!Statuses
    BY <1>2, MergeTyped DEF Page!Bubble
  <2>3. \A b \in v2 : /\ Advanced(b) \in Page!Bubble
                      /\ Advanced(b).of = b.of /\ Advanced(b).known = b.known
    BY <1>2, <2>2 DEF Page!Bubble
  <2> HIDE DEF Advanced
  <2>4. Page!TypeOK'
    BY <1>2, <2>1, <2>3 DEF Page!TypeOK
  <2>5. Page!OneBubblePerId'
    BY <1>3, <2>1, <2>3 DEF Page!OneBubblePerId
  <2> QED
    BY <1>8, <2>1, <2>3, <2>4, <2>5
<1>16. CASE UNCHANGED Page!pageVars
  BY <1>1, <1>16 DEF Page!pageVars, Page!PageInv, Page!TypeOK, Page!OneBubblePerId,
     Page!OwnChatShown, Page!AnswersOf
<1> QED
  BY <1>4, <1>5, <1>6, <1>7, <1>9, <1>10, <1>11, <1>12, <1>13, <1>14, <1>15, <1>16 DEF Page!Next

LEMMA PageInit == Page!Init => Page!PageInv
<1> SUFFICES ASSUME Page!Init
             PROVE  Page!PageInv
  OBVIOUS
<1>1. Page!TypeOK
  BY PageAssumption DEF Page!Init, Page!TypeOK, Page!Fetch
<1> QED
  BY <1>1 DEF Page!Init, Page!PageInv, Page!OneBubblePerId, Page!OwnChatShown, Page!AnswersOf

-----------------------------------------------------------------------------
(* What the pages show of the server.                                       *)

LEMMA PanelTypes ==
  ASSUME Panel!PanelInv
  PROVE  /\ v1 \in Panel!Queries /\ v2 \in Panel!Pages \cup {"login"}
         /\ v3 \in {"none", "old", "new"} /\ v5 \in {"no", "asked", "old", "new"}
         /\ v4 \in BOOLEAN /\ v7 \in BOOLEAN
         /\ v6 \in [Calls -> Panel!Call \cup {Panel!NoCall}]
         /\ v8 \in 0..MaxPageOpens /\ v9 \in 0..MaxCalls
BY DEF Panel!PanelInv, Panel!TypeOK, Panel!Data

(* A slot is free, or its call is under way.                                *)
LEMMA CallIs ==
  /\ Panel!NoCall.pc = "idle" /\ Panel!NoCall \notin Panel!Call
  /\ \A r \in Panel!Call : /\ r.pc \in {"sent", "done"} /\ r.does \in Panel!AllCalls
                           /\ r # Panel!NoCall
BY DEF Panel!NoCall, Panel!Call

(* Every call but those of the sessions page tells of all it changes that   *)
(* is not listed as untold.                                                 *)
LEMMA ChangesAreTold ==
  ASSUME NEW does \in Panel!AllCalls, does # Panel!OnSessionsPage,
         NEW q \in does.changes, q \notin Panel!Untold
  PROVE  q \in does.tells
BY DEF Panel!AllCalls, Panel!OnSessionsPage, Panel!Untold, Panel!Does, Panel!StopSession,
   Panel!ChangesWebhook, Panel!ChangesTemplate, Panel!ChangesApiKey, Panel!TogglePlugin,
   Panel!SavePluginConfig, Panel!SaveEngineConfig, Panel!SaveInfraConfig, Panel!ChangesClient,
   Panel!CreatesPlan, Panel!CreatesUser, Panel!UnderSessions

(* A step that is not of a call leaves the calls that are about to tell.    *)
LEMMA TellingStays ==
  ASSUME v1' = v1, v6' = v6
  PROVE  \A c \in Calls : Panel!Telling(c)' <=> Panel!Telling(c)
BY DEF Panel!Telling, Panel!Running, Panel!Changes, Panel!Invalidates

LEMMA OpensKeeps ==
  ASSUME Panel!PanelInv, v8 < MaxPageOpens, NEW p \in Panel!Pages, NEW aged \in BOOLEAN,
         Panel!Opens(p, aged)
  PROVE  Panel!PanelInv'
<1> USE PanelTypes, PanelAssumption
<1> DEFINE Anew == Panel!ShownOn(p) /\ v5 = "no" /\ (v3 = "none" \/ v4 \/ aged)
<1>1. /\ v2' = p /\ v8' = v8 + 1
      /\ IF Anew THEN v5' = "asked" /\ v7' = FALSE ELSE v5' = v5 /\ v7' = v7
      /\ v1' = v1 /\ v3' = v3 /\ v4' = v4 /\ v6' = v6 /\ v9' = v9
  BY DEF Panel!Opens, Panel!Fetches, Panel!Quiet
<1>2. v8' \in 0..MaxPageOpens
  BY <1>1
<1>3. Panel!TypeOK'
  BY <1>1, <1>2 DEF Panel!TypeOK, Panel!Data
<1>4. Panel!OldIsKnown'
  <2>1. CASE Anew
    BY <1>1, <2>1 DEF Panel!OldIsKnown
  <2>2. CASE ~Anew
    <3>1. Panel!ShownOn(v2)' <=> Panel!ShownOn(p)
      BY <1>1 DEF Panel!ShownOn
    <3>2. Panel!OldIsKnown
      BY DEF Panel!PanelInv
    <3> QED
      BY <1>1, <2>2, <3>1, <3>2, TellingStays DEF Panel!OldIsKnown, Panel!Quiet
  <2> QED
    BY <2>1, <2>2
<1> QED
  BY <1>3, <1>4 DEF Panel!PanelInv

LEMMA FetchKeeps ==
  ASSUME Panel!PanelInv, Panel!Reads \/ Panel!Lands \/ Panel!FetchFails
  PROVE  Panel!PanelInv'
<1> USE PanelTypes
<1>1. v1' = v1 /\ v2' = v2 /\ v6' = v6 /\ v8' = v8 /\ v9' = v9
  BY DEF Panel!Reads, Panel!Lands, Panel!FetchFails
<1>2. /\ Panel!OldIsKnown
      /\ Panel!ShownOn(v2)' <=> Panel!ShownOn(v2)
  BY <1>1 DEF Panel!PanelInv, Panel!ShownOn
<1>3. CASE Panel!Reads
  BY <1>1, <1>2, <1>3, TellingStays DEF Panel!Reads, Panel!PanelInv, Panel!TypeOK, Panel!Data, Panel!OldIsKnown
<1>4. CASE Panel!Lands
  BY <1>1, <1>2, <1>4, TellingStays DEF Panel!Lands, Panel!PanelInv, Panel!TypeOK, Panel!Data, Panel!OldIsKnown
<1>5. CASE Panel!FetchFails
  BY <1>1, <1>5 DEF Panel!FetchFails, Panel!PanelInv, Panel!TypeOK, Panel!Data, Panel!OldIsKnown
<1> QED
  BY <1>3, <1>4, <1>5

LEMMA CallBeginsKeeps ==
  ASSUME Panel!PanelInv, NEW c \in Calls, Panel!NextFree(c), v9 < MaxCalls,
         NEW does \in Panel!AllCalls, Panel!CallBegins(c, does)
  PROVE  Panel!PanelInv'
<1> USE PanelTypes, PanelAssumption
<1> DEFINE new == [pc |-> "sent", does |-> does]
<1>1. /\ v6' = [v6 EXCEPT ![c] = new] /\ v9' = v9 + 1
      /\ v1' = v1 /\ v2' = v2 /\ v3' = v3 /\ v4' = v4 /\ v5' = v5 /\ v7' = v7 /\ v8' = v8
  BY DEF Panel!CallBegins
<1>2. new \in Panel!Call /\ new.pc = "sent"
  BY DEF Panel!Call
<1> HIDE DEF new
<1>3. v9' \in 0..MaxCalls
  BY <1>1
<1>4. /\ v6' \in [Calls -> Panel!Call \cup {Panel!NoCall}] /\ v6'[c] = new
      /\ \A k \in Calls : k # c => v6'[k] = v6[k]
  BY <1>1, <1>2
<1>5. Panel!TypeOK'
  BY <1>1, <1>3, <1>4 DEF Panel!TypeOK, Panel!Data
<1>6. v6[c] = Panel!NoCall
  BY DEF Panel!NextFree
<1>7. \A k \in Calls : Panel!Telling(k) => Panel!Telling(k)'
  BY <1>1, <1>4, <1>6 DEF Panel!Telling, Panel!Running, Panel!Changes, Panel!Invalidates
<1>8. Panel!OldIsKnown /\ (Panel!ShownOn(v2)' <=> Panel!ShownOn(v2))
  BY <1>1 DEF Panel!PanelInv, Panel!ShownOn
<1>9. Panel!OldIsKnown'
  BY <1>1, <1>7, <1>8 DEF Panel!OldIsKnown, Panel!Quiet
<1> QED
  BY <1>5, <1>9 DEF Panel!PanelInv

(* What a call changed is old from then on, and the call is about to tell,  *)
(* or it was one of the sessions page.                                      *)
LEMMA ServerChangesKeeps ==
  ASSUME Panel!PanelInv, NEW c \in Calls, Panel!ServerChanges(c)
  PROVE  Panel!PanelInv'
<1> USE PanelTypes
<1> DEFINE done == [pc |-> "done", does |-> v6[c].does]
<1>1. /\ v6[c] # Panel!NoCall /\ v6[c].pc = "sent"
      /\ v3' = IF Panel!Changes(c) THEN Panel!Older(v3) ELSE v3
      /\ v5' = IF Panel!Changes(c) THEN Panel!Older(v5) ELSE v5
      /\ v7' = (v7 \/ (Panel!Changes(c) /\ v6[c].does = Panel!OnSessionsPage))
      /\ v6' = [v6 EXCEPT ![c].pc = "done"]
      /\ v1' = v1 /\ v2' = v2 /\ v4' = v4 /\ v8' = v8 /\ v9' = v9
  BY DEF Panel!ServerChanges, Panel!Running
<1>2. v6[c] \in Panel!Call
  BY <1>1
<1>3. /\ v6' = [v6 EXCEPT ![c] = done] /\ done \in Panel!Call /\ done.pc = "done"
      /\ done.does = v6[c].does /\ done # Panel!NoCall /\ done.does \in Panel!AllCalls
  <2>1. v6[c].does \in Panel!AllCalls
    BY <1>2, CallIs
  <2>2. done \in Panel!Call
    BY <2>1 DEF Panel!Call
  <2>3. [v6[c] EXCEPT !.pc = "done"] = done
    BY <1>2 DEF Panel!Call
  <2>4. v6' = [v6 EXCEPT ![c] = [v6[c] EXCEPT !.pc = "done"]]
    BY <1>1
  <2> QED
    BY <2>1, <2>2, <2>3, <2>4, CallIs
<1> HIDE DEF done
<1>4. /\ v6' \in [Calls -> Panel!Call \cup {Panel!NoCall}] /\ v6'[c] = done
      /\ \A k \in Calls : k # c => v6'[k] = v6[k]
  BY <1>3
<1>5. v3' \in {"none", "old", "new"} /\ v5' \in {"no", "asked", "old", "new"} /\ v7' \in BOOLEAN
  BY <1>1 DEF Panel!Older
<1>6. Panel!TypeOK'
  BY <1>1, <1>4, <1>5 DEF Panel!TypeOK, Panel!Data
<1>7. Panel!OldIsKnown /\ (Panel!ShownOn(v2)' <=> Panel!ShownOn(v2))
  BY <1>1 DEF Panel!PanelInv, Panel!ShownOn
<1>8. Panel!OldIsKnown'
  <2>1. CASE ~Panel!Changes(c)
    <3>1. \A k \in Calls : Panel!Telling(k) => Panel!Telling(k)'
      BY <1>1, <1>4, <2>1 DEF Panel!Telling, Panel!Running, Panel!Changes, Panel!Invalidates
    <3> QED
      BY <1>1, <1>7, <2>1, <3>1 DEF Panel!OldIsKnown, Panel!Quiet
  <2>2. CASE Panel!Changes(c) /\ v1 \notin Panel!Untold /\ v6[c].does # Panel!OnSessionsPage
    <3>1. v1 \in v6[c].does.tells
      BY <1>3, <2>2, ChangesAreTold DEF Panel!Changes
    <3>2. Panel!Telling(c)'
      BY <1>1, <1>3, <1>4, <2>2, <3>1 DEF Panel!Telling, Panel!Running, Panel!Changes, Panel!Invalidates
    <3> QED
      BY <3>2 DEF Panel!OldIsKnown
  <2>3. CASE Panel!Changes(c) /\ (v1 \in Panel!Untold \/ v6[c].does = Panel!OnSessionsPage)
    BY <1>1, <2>3 DEF Panel!OldIsKnown
  <2> QED
    BY <2>1, <2>2, <2>3
<1> QED
  BY <1>6, <1>8 DEF Panel!PanelInv

(* What others changed is missed, unless it is still to be read.            *)
LEMMA OthersChangeKeeps ==
  ASSUME Panel!PanelInv, Panel!OthersChange
  PROVE  Panel!PanelInv'
<1> USE PanelTypes
<1>1. /\ v3' = Panel!Older(v3) /\ v5' = Panel!Older(v5)
      /\ v7' = (v7 \/ v5 # "asked")
      /\ v1' = v1 /\ v2' = v2 /\ v4' = v4 /\ v6' = v6 /\ v8' = v8 /\ v9' = v9
  BY DEF Panel!OthersChange
<1>2. v3' \in {"none", "old", "new"} /\ v5' \in {"no", "asked", "old", "new"} /\ v7' \in BOOLEAN
  BY <1>1 DEF Panel!Older
<1>3. Panel!TypeOK'
  BY <1>1, <1>2 DEF Panel!TypeOK, Panel!Data
<1>4. Panel!OldIsKnown'
  <2>1. CASE v5 # "asked"
    BY <1>1, <2>1 DEF Panel!OldIsKnown
  <2>2. CASE v5 = "asked"
    BY <1>1, <2>2 DEF Panel!OldIsKnown, Panel!Older
  <2> QED
    BY <2>1, <2>2
<1> QED
  BY <1>3, <1>4 DEF Panel!PanelInv

LEMMA AnsweredKeeps ==
  ASSUME Panel!PanelInv, NEW c \in Calls, Panel!Answered(c)
  PROVE  Panel!PanelInv'
<1> USE PanelTypes
<1>1. /\ Panel!Invalidated(c) /\ v6' = [v6 EXCEPT ![c] = Panel!NoCall]
      /\ v1' = v1 /\ v2' = v2 /\ v3' = v3 /\ v8' = v8 /\ v9' = v9
  BY DEF Panel!Answered, Panel!Returns
<1>2. /\ v6' \in [Calls -> Panel!Call \cup {Panel!NoCall}]
      /\ \A k \in Calls : k # c => v6'[k] = v6[k]
  BY <1>1
<1>3. Panel!OldIsKnown /\ (Panel!ShownOn(v2)' <=> Panel!ShownOn(v2))
  BY <1>1 DEF Panel!PanelInv, Panel!ShownOn
<1>4. CASE ~Panel!Invalidates(c)
  <2>1. v4' = v4 /\ v5' = v5 /\ v7' = v7
    BY <1>1, <1>4 DEF Panel!Invalidated
  <2>2. Panel!TypeOK'
    BY <1>1, <1>2, <2>1 DEF Panel!TypeOK, Panel!Data
  <2>3. \A k \in Calls : Panel!Telling(k) => Panel!Telling(k)'
    BY <1>1, <1>2, <1>4 DEF Panel!Telling, Panel!Running, Panel!Changes, Panel!Invalidates
  <2>4. Panel!OldIsKnown'
    BY <1>1, <1>3, <2>1, <2>3 DEF Panel!OldIsKnown, Panel!Quiet
  <2> QED
    BY <2>2, <2>4 DEF Panel!PanelInv
<1>5. CASE Panel!Invalidates(c) /\ Panel!ShownOn(v2)
  BY <1>1, <1>2, <1>5 DEF Panel!Invalidated, Panel!PanelInv, Panel!TypeOK, Panel!Data, Panel!OldIsKnown
<1>6. CASE Panel!Invalidates(c) /\ ~Panel!ShownOn(v2)
  <2>1. v4' = TRUE /\ v5' = v5 /\ v7' = (v7 \/ v5 # "no")
    BY <1>1, <1>6 DEF Panel!Invalidated, Panel!Quiet
  <2>2. Panel!TypeOK'
    BY <1>1, <1>2, <2>1 DEF Panel!TypeOK, Panel!Data
  <2>3. Panel!OldIsKnown'
    BY <1>3, <1>6, <2>1 DEF Panel!OldIsKnown, Panel!Quiet
  <2> QED
    BY <2>2, <2>3 DEF Panel!PanelInv
<1> QED
  BY <1>4, <1>5, <1>6

LEMMA CallRefusedKeeps ==
  ASSUME Panel!PanelInv, NEW c \in Calls, Panel!CallFails(c)
  PROVE  Panel!PanelInv'
<1> USE PanelTypes
<1>1. /\ v7' = (v7 \/ (Panel!Running(c, "done") /\ Panel!Changes(c)))
      /\ v6' = [v6 EXCEPT ![c] = Panel!NoCall]
      /\ v1' = v1 /\ v2' = v2 /\ v3' = v3 /\ v4' = v4 /\ v5' = v5 /\ v8' = v8 /\ v9' = v9
  BY DEF Panel!CallFails, Panel!Returns
<1>2. /\ v6' \in [Calls -> Panel!Call \cup {Panel!NoCall}]
      /\ \A k \in Calls : k # c => v6'[k] = v6[k]
  BY <1>1
<1>3. Panel!OldIsKnown /\ (Panel!ShownOn(v2)' <=> Panel!ShownOn(v2))
  BY <1>1 DEF Panel!PanelInv, Panel!ShownOn
<1>4. v7' \in BOOLEAN
  BY <1>1
<1>5. Panel!TypeOK'
  BY <1>1, <1>2, <1>4 DEF Panel!TypeOK, Panel!Data
<1>6. ~v7' => \A k \in Calls : Panel!Telling(k) => Panel!Telling(k)'
  BY <1>1, <1>2 DEF Panel!Telling, Panel!Running, Panel!Changes, Panel!Invalidates
<1>7. Panel!OldIsKnown'
  BY <1>1, <1>3, <1>6 DEF Panel!OldIsKnown, Panel!Quiet
<1> QED
  BY <1>5, <1>7 DEF Panel!PanelInv

LEMMA PanelStep == Panel!PanelInv /\ [Panel!Next]_(Panel!panelVars) => Panel!PanelInv'
<1> SUFFICES ASSUME Panel!PanelInv, [Panel!Next]_(Panel!panelVars)
             PROVE  Panel!PanelInv'
  OBVIOUS
<1>1. CASE UNCHANGED Panel!panelVars
  <2>1. /\ v1' = v1 /\ v2' = v2 /\ v3' = v3 /\ v4' = v4 /\ v5' = v5 /\ v6' = v6 /\ v7' = v7
        /\ v8' = v8 /\ v9' = v9
    BY <1>1 DEF Panel!panelVars
  <2>2. Panel!OldIsKnown /\ (Panel!ShownOn(v2)' <=> Panel!ShownOn(v2))
    BY <2>1 DEF Panel!PanelInv, Panel!ShownOn
  <2>3. Panel!TypeOK'
    BY <2>1, PanelTypes DEF Panel!TypeOK, Panel!Data
  <2> QED
    BY <2>1, <2>2, <2>3, TellingStays DEF Panel!PanelInv, Panel!OldIsKnown, Panel!Quiet
<1>2. CASE Panel!Unauthorized
  <2>1. /\ v2' = "login" /\ v3' = "none" /\ v5' = "no" /\ v4' = FALSE /\ v7' = FALSE
        /\ v6' = [c \in Calls |-> Panel!NoCall] /\ v1' = v1 /\ v8' = v8 /\ v9' = v9
    BY <1>2 DEF Panel!Unauthorized, Panel!Forgets
  <2> QED
    BY <2>1, PanelTypes DEF Panel!PanelInv, Panel!TypeOK, Panel!Data, Panel!OldIsKnown
<1>3. CASE Panel!Next /\ ~Panel!Unauthorized
  BY <1>3, OpensKeeps, FetchKeeps, CallBeginsKeeps, ServerChangesKeeps, AnsweredKeeps,
     CallRefusedKeeps, OthersChangeKeeps DEF Panel!Next
<1> QED
  BY <1>1, <1>2, <1>3

LEMMA PanelInit == Panel!Init => Panel!PanelInv
<1> SUFFICES ASSUME Panel!Init
             PROVE  Panel!PanelInv
  OBVIOUS
<1>1. /\ v1 \in Panel!Queries /\ v2 = "login" /\ v3 = "none" /\ v5 = "no" /\ v4 = FALSE /\ v7 = FALSE
      /\ v6 = [c \in Calls |-> Panel!NoCall] /\ v8 = 0 /\ v9 = 0
  BY DEF Panel!Init
<1>2. v8 \in 0..MaxPageOpens /\ v9 \in 0..MaxCalls
  BY <1>1, PanelAssumption
<1> QED
  BY <1>1, <1>2 DEF Panel!PanelInv, Panel!TypeOK, Panel!Data, Panel!OldIsKnown

(* A page that is quiet has no call that is about to tell.                  *)
LEMMA PanelFollows == Panel!PanelInv => Panel!ShownIsCurrent
BY DEF Panel!PanelInv, Panel!OldIsKnown, Panel!ShownIsCurrent, Panel!Telling, Panel!Running, Panel!Quiet

-----------------------------------------------------------------------------
(* The list of the sessions page.                                           *)

(* What a step leaves of the lists that are under way: those that remain    *)
(* are touched in W, and the fetches among them stale if a change was lost. *)
Kept(W, lost) ==
  \A k \in Requests :
    /\ SessionList!Read(k)' =>
         /\ SessionList!Read(k) /\ v8'[k].list = v8[k].list
         /\ v8'[k].touched = v8[k].touched \cup W
         /\ v8'[k].stale = (v8[k].stale \/ lost)
    /\ SessionList!Handles(k)' =>
         /\ SessionList!Handles(k) /\ v8'[k].list = v8[k].list
         /\ v8'[k].kind = v8[k].kind /\ v8'[k].of = v8[k].of
         /\ v8'[k].touched = v8[k].touched \cup W

KindSets == {{"create"}, {"delete"}, {"start", "stop"}}

DidSame == \A k \in Requests : \A K \in KindSets : \A s :
             SessionList!Did(k, K, s)' <=> SessionList!Did(k, K, s)

(* A request that has just been made, or none.                              *)
FreshRequest(q) ==
  q = SessionList!Free \/ (q.kind \in {"fetch", "show", "poll"} /\ q.pc = "asked")

CoreInv ==
  /\ SessionList!EventsEndTrue /\ SessionList!AbsentIsUnknown /\ SessionList!CreatedIsNew
  /\ SessionList!DeletedStaysOff /\ SessionList!HandlersKeepUp /\ SessionList!ChangeIsTold
  /\ SessionList!ListsSettle /\ SessionList!FetchesAreOrdered

(* A request as a record.                                                   *)
LEMMA RequestIs ==
  ASSUME SessionList!TypeOK, NEW k \in Requests, SessionList!Busy(k)
  PROVE  /\ v8[k] \in SessionList!Request /\ v8[k] # SessionList!Free
         /\ v8[k].kind \in SessionList!PageKinds /\ v8[k].list \in [WaSessions -> SessionList!Statuses]
         /\ v8[k].touched \subseteq WaSessions /\ v8[k].stale \in BOOLEAN /\ v8[k].ok \in BOOLEAN
         /\ v8[k].of \in WaSessions \cup {"none"}
         /\ v8[k].kind # "fetch" => v8[k].of \in WaSessions
         /\ v8[k].then # "none" => v8[k].of \in WaSessions
BY DEF SessionList!TypeOK, SessionList!Busy, SessionList!Request, SessionList!Lists

LEMMA FreeIs == SessionList!Free \notin SessionList!Request
<1>1. DOMAIN SessionList!Free = {"kind"}
  BY DEF SessionList!Free
<1>2. \A q \in SessionList!Request : "pc" \in DOMAIN q
  BY DEF SessionList!Request
<1> QED
  BY <1>1, <1>2

(* What Touched makes of a request q.                                       *)
TouchedAs(n, q, W, lost) ==
  /\ q = SessionList!Free => n = SessionList!Free
  /\ q # SessionList!Free =>
       /\ n # SessionList!Free /\ n.kind = q.kind /\ n.of = q.of /\ n.then = q.then
       /\ n.pc = q.pc /\ n.ok = q.ok /\ n.list = q.list
       /\ SessionList!HasList(q) => n.touched = q.touched \cup W /\ n.stale = (q.stale \/ lost)

LEMMA TouchedIs ==
  ASSUME NEW R \in [Requests -> SessionList!Request \cup {SessionList!Free}],
         NEW W \in SUBSET WaSessions, NEW lost \in BOOLEAN,
         NEW N, N = SessionList!Touched(R, W, lost)
  PROVE  /\ N \in [Requests -> SessionList!Request \cup {SessionList!Free}]
         /\ \A k \in Requests : TouchedAs(N[k], R[k], W, lost)
<1>1. N = [k \in Requests |-> IF ~SessionList!HasList(R[k]) THEN R[k]
             ELSE [R[k] EXCEPT !.touched = @ \cup W, !.stale = @ \/ lost]]
  BY DEF SessionList!Touched
<1>2. ASSUME NEW k \in Requests
      PROVE  N[k] \in SessionList!Request \cup {SessionList!Free} /\ TouchedAs(N[k], R[k], W, lost)
  <2>1. CASE ~SessionList!HasList(R[k])
    BY <1>1, <2>1 DEF TouchedAs
  <2>2. CASE SessionList!HasList(R[k])
    <3>1. R[k] # SessionList!Free
      BY <2>2 DEF SessionList!HasList
    <3>2. R[k] \in SessionList!Request
      BY <3>1
    <3>3. N[k] = [R[k] EXCEPT !.touched = R[k].touched \cup W, !.stale = R[k].stale \/ lost]
      BY <1>1, <2>2
    <3>4. /\ N[k] \in SessionList!Request
          /\ N[k].kind = R[k].kind /\ N[k].of = R[k].of /\ N[k].then = R[k].then
          /\ N[k].pc = R[k].pc /\ N[k].ok = R[k].ok /\ N[k].list = R[k].list
          /\ N[k].touched = R[k].touched \cup W /\ N[k].stale = (R[k].stale \/ lost)
      BY <3>2, <3>3 DEF SessionList!Request
    <3> QED
      BY <3>1, <3>4, FreeIs DEF TouchedAs
  <2> QED
    BY <2>1, <2>2
<1>3. N \in [Requests -> SessionList!Request \cup {SessionList!Free}]
  BY <1>1, <1>2
<1> QED
  BY <1>2, <1>3

LEMMA TouchedKeeps ==
  ASSUME SessionList!TypeOK, NEW W \in SUBSET WaSessions, NEW lost \in BOOLEAN, NEW S \in SUBSET Requests,
         \A k \in Requests \ S : v8'[k] = SessionList!Touched(v8, W, lost)[k],
         \A k \in S : FreshRequest(v8'[k])
  PROVE  /\ Kept(W, lost)
         /\ \A k \in Requests : \A K \in KindSets : \A s :
              SessionList!Did(k, K, s)' <=> SessionList!Did(k, K, s) /\ k \notin S
<1>0. PICK N : N = SessionList!Touched(v8, W, lost)
  OBVIOUS
<1>1. \A k \in Requests : TouchedAs(N[k], v8[k], W, lost)
  BY <1>0, TouchedIs DEF SessionList!TypeOK
<1>2. ASSUME NEW k \in S
      PROVE  /\ ~SessionList!Read(k)' /\ ~SessionList!Handles(k)'
             /\ \A K \in KindSets : \A s : ~SessionList!Did(k, K, s)'
  <2>1. FreshRequest(v8'[k])
    OBVIOUS
  <2> QED
    BY <2>1 DEF FreshRequest, SessionList!Read, SessionList!Handles, SessionList!Handlers, SessionList!Did,
       SessionList!Busy, KindSets
<1>3. ASSUME NEW k \in Requests \ S
      PROVE  /\ SessionList!Read(k)' =>
                  /\ SessionList!Read(k) /\ v8'[k].list = v8[k].list
                  /\ v8'[k].touched = v8[k].touched \cup W
                  /\ v8'[k].stale = (v8[k].stale \/ lost)
             /\ SessionList!Handles(k)' =>
                  /\ SessionList!Handles(k) /\ v8'[k].list = v8[k].list
                  /\ v8'[k].kind = v8[k].kind /\ v8'[k].of = v8[k].of
                  /\ v8'[k].touched = v8[k].touched \cup W
             /\ \A K \in KindSets : \A s : SessionList!Did(k, K, s)' <=> SessionList!Did(k, K, s)
  <2>1. v8'[k] = N[k]
    BY <1>0
  <2>2. CASE v8[k] = SessionList!Free
    BY <1>1, <2>1, <2>2 DEF TouchedAs, SessionList!Read, SessionList!Handles, SessionList!Did, SessionList!Busy
  <2>3. CASE v8[k] # SessionList!Free
    <3>1. /\ v8'[k] # SessionList!Free /\ v8'[k].kind = v8[k].kind /\ v8'[k].of = v8[k].of
          /\ v8'[k].pc = v8[k].pc /\ v8'[k].ok = v8[k].ok /\ v8'[k].list = v8[k].list
          /\ SessionList!HasList(v8[k]) =>
               v8'[k].touched = v8[k].touched \cup W /\ v8'[k].stale = (v8[k].stale \/ lost)
      BY <1>1, <2>1, <2>3 DEF TouchedAs
    <3>2. (SessionList!Read(k) \/ SessionList!Handles(k)) => SessionList!HasList(v8[k])
      BY <2>3 DEF SessionList!Read, SessionList!Handles, SessionList!HasList
    <3>3. (SessionList!Read(k)' <=> SessionList!Read(k)) /\ (SessionList!Handles(k)' <=> SessionList!Handles(k))
      BY <2>3, <3>1 DEF SessionList!Read, SessionList!Handles, SessionList!Busy
    <3>4. \A K, s : SessionList!Did(k, K, s)' <=> SessionList!Did(k, K, s)
      BY <2>3, <3>1 DEF SessionList!Did, SessionList!Busy
    <3> QED
      BY <3>1, <3>2, <3>3, <3>4
  <2> QED
    BY <2>2, <2>3
<1> QED
  BY <1>2, <1>3 DEF Kept

(* The same where nothing is touched.                                       *)
LEMMA PlainKeeps ==
  ASSUME SessionList!TypeOK, NEW S \in SUBSET Requests,
         \A k \in Requests \ S : v8'[k] = v8[k],
         \A k \in S : FreshRequest(v8'[k])
  PROVE  /\ Kept({}, FALSE)
         /\ \A k \in Requests : \A K \in KindSets : \A s :
              SessionList!Did(k, K, s)' <=> SessionList!Did(k, K, s) /\ k \notin S
<1>2. ASSUME NEW k \in S
      PROVE  /\ ~SessionList!Read(k)' /\ ~SessionList!Handles(k)'
             /\ \A K \in KindSets : \A s : ~SessionList!Did(k, K, s)'
  <2>1. FreshRequest(v8'[k])
    OBVIOUS
  <2> QED
    BY <2>1 DEF FreshRequest, SessionList!Read, SessionList!Handles, SessionList!Handlers, SessionList!Did,
       SessionList!Busy, KindSets
<1>3. ASSUME NEW k \in Requests \ S
      PROVE  /\ SessionList!Read(k)' <=> SessionList!Read(k)
             /\ SessionList!Handles(k)' <=> SessionList!Handles(k)
             /\ \A K, s : SessionList!Did(k, K, s)' <=> SessionList!Did(k, K, s)
             /\ SessionList!Read(k) => v8[k].stale \in BOOLEAN
  <2>1. v8'[k] = v8[k]
    OBVIOUS
  <2>2. SessionList!Read(k) => v8[k].stale \in BOOLEAN
    BY RequestIs DEF SessionList!Read
  <2> QED
    BY <2>1, <2>2 DEF SessionList!Read, SessionList!Handles, SessionList!Did, SessionList!Busy
<1> QED
  BY <1>2, <1>3 DEF Kept

(* Did for the kinds that the invariant speaks of.                          *)
LEMMA DidsStay ==
  ASSUME DidSame
  PROVE  /\ \A s : SessionList!Deleting(s)' <=> SessionList!Deleting(s)
         /\ \A s : SessionList!Creating(s)' <=> SessionList!Creating(s)
         /\ \A k \in Requests : \A s :
              /\ SessionList!Did(k, {"create"}, s)' <=> SessionList!Did(k, {"create"}, s)
              /\ SessionList!Did(k, {"delete"}, s)' <=> SessionList!Did(k, {"delete"}, s)
              /\ SessionList!Did(k, {"start", "stop"}, s)' <=> SessionList!Did(k, {"start", "stop"}, s)
<1>1. \A k \in Requests : \A s :
        /\ SessionList!Did(k, {"create"}, s)' <=> SessionList!Did(k, {"create"}, s)
        /\ SessionList!Did(k, {"delete"}, s)' <=> SessionList!Did(k, {"delete"}, s)
        /\ SessionList!Did(k, {"start", "stop"}, s)' <=> SessionList!Did(k, {"start", "stop"}, s)
  BY DEF DidSame, KindSets
<1> QED
  BY <1>1 DEF SessionList!Deleting, SessionList!Creating

(* Who did something handles it.                                            *)
LEMMA DidHandles ==
  \A k \in Requests : \A s :
    /\ SessionList!Did(k, {"create"}, s) => SessionList!Handles(k) /\ v8[k].of = s
    /\ SessionList!Did(k, {"delete"}, s) => SessionList!Handles(k) /\ v8[k].of = s
    /\ SessionList!Did(k, {"start", "stop"}, s) => SessionList!Handles(k) /\ v8[k].of = s
BY DEF SessionList!Did, SessionList!Handles, SessionList!Handlers

LEMMA DidHandlesNext ==
  \A k \in Requests : \A s :
    /\ SessionList!Did(k, {"create"}, s)' => SessionList!Handles(k)' /\ v8'[k].of = s
    /\ SessionList!Did(k, {"delete"}, s)' => SessionList!Handles(k)' /\ v8'[k].of = s
    /\ SessionList!Did(k, {"start", "stop"}, s)' => SessionList!Handles(k)' /\ v8'[k].of = s
BY DEF SessionList!Did, SessionList!Handles, SessionList!Handlers

(* The events under way, as records.                                        *)
LEMMA EventsTyped ==
  ASSUME SessionList!TypeOK
  PROVE  \A i \in 1..Len(v5) : v5[i].of \in WaSessions /\ v5[i].status \in SessionList!Statuses
<1> DEFINE E == [of : WaSessions, status : SessionList!Statuses]
<1>1. v5 \in Seq(E)
  BY DEF SessionList!TypeOK
<1>2. \A q \in E : q.of \in WaSessions /\ q.status \in SessionList!Statuses
  OBVIOUS
<1> HIDE DEF E
<1>3. \A i \in 1..Len(v5) : v5[i] \in E
  BY <1>1
<1> QED
  BY <1>2, <1>3

(* Steps that change neither list, nor the gateway, nor what is told of it.  *)
LEMMA CoreSame ==
  ASSUME SessionList!TypeOK, CoreInv, Kept({}, FALSE), DidSame,
         v1' = v1, v2' = v2, v5' = v5, v9' = v9, v10' = v10,
         v4' = "down" => v5 = <<>>
  PROVE  CoreInv'
<1> USE DEF CoreInv
<1>1. /\ \A s : SessionList!Told(s)' <=> SessionList!Told(s)
      /\ \A s : SessionList!Deleting(s)' <=> SessionList!Deleting(s)
      /\ \A s : SessionList!Creating(s)' <=> SessionList!Creating(s)
      /\ \A k \in Requests : \A s :
           /\ SessionList!Did(k, {"create"}, s)' <=> SessionList!Did(k, {"create"}, s)
           /\ SessionList!Did(k, {"delete"}, s)' <=> SessionList!Did(k, {"delete"}, s)
           /\ SessionList!Did(k, {"start", "stop"}, s)' <=> SessionList!Did(k, {"start", "stop"}, s)
  BY DidsStay DEF SessionList!Told
<1>2. \A s, p : SessionList!Settles(s, p)' <=> SessionList!Settles(s, p)
  BY <1>1 DEF SessionList!Settles
<1>3. \A k \in Requests :
        /\ SessionList!Read(k)' =>
             /\ SessionList!Read(k) /\ v8'[k].list = v8[k].list
             /\ v8'[k].touched = v8[k].touched
             /\ v8'[k].stale = v8[k].stale
        /\ SessionList!Handles(k)' =>
             /\ SessionList!Handles(k) /\ v8'[k].list = v8[k].list
             /\ v8'[k].kind = v8[k].kind /\ v8'[k].of = v8[k].of
             /\ v8'[k].touched = v8[k].touched
  <2>1. \A k \in Requests : SessionList!Read(k) => v8[k].stale \in BOOLEAN
    BY RequestIs DEF SessionList!Read
  <2> QED
    BY <2>1 DEF Kept
<1>4. SessionList!EventsEndTrue'
  BY DEF SessionList!EventsEndTrue
<1>5. SessionList!AbsentIsUnknown'
  BY <1>1, <1>3 DEF SessionList!AbsentIsUnknown
<1>6. SessionList!CreatedIsNew'
  BY <1>1, <1>3, DidHandlesNext DEF SessionList!CreatedIsNew
<1>7. SessionList!DeletedStaysOff'
  BY <1>1, <1>3 DEF SessionList!DeletedStaysOff
<1>8. SessionList!HandlersKeepUp'
  BY <1>3 DEF SessionList!HandlersKeepUp
<1>9. SessionList!ChangeIsTold'
  BY <1>1, <1>3, DidHandlesNext DEF SessionList!ChangeIsTold
<1>10. SessionList!ListsSettle'
  BY <1>2, <1>3 DEF SessionList!ListsSettle
<1>11. SessionList!FetchesAreOrdered'
  BY <1>3 DEF SessionList!FetchesAreOrdered
<1> QED
  BY <1>4, <1>5, <1>6, <1>7, <1>8, <1>9, <1>10, <1>11

(* A change that the page is not told of, or events that are lost.          *)
LEMMA CoreLost ==
  ASSUME SessionList!TypeOK, CoreInv, Kept({}, TRUE),
         \A k \in Requests : \A s :
           /\ SessionList!Did(k, {"create"}, s)' <=> SessionList!Did(k, {"create"}, s)
           /\ SessionList!Did(k, {"delete"}, s)' <=> SessionList!Did(k, {"delete"}, s),
         \A s \in WaSessions :
           \/ v1'[s] = v1[s]
           \/ /\ v1[s] \notin {"gone", "absent"} /\ v1'[s] \notin {"gone", "absent"}
              /\ \A k \in Requests : SessionList!Did(k, {"create"}, s) => s \in v8[k].touched,
         v2' = v2, v5' = <<>>, v9' = v9, v10' = TRUE
  PROVE  CoreInv'
<1> USE DEF CoreInv
<1>1. /\ \A s : ~SessionList!Told(s)'
      /\ \A s : SessionList!Deleting(s)' <=> SessionList!Deleting(s)
      /\ \A s : SessionList!Creating(s)' <=> SessionList!Creating(s)
  <2>1. \A s : ~SessionList!Told(s)'
    <3>1. Len(<<>>) = 0 /\ 1..0 = {}
      OBVIOUS
    <3> QED
      BY <3>1 DEF SessionList!Told
  <2> QED
    BY <2>1 DEF SessionList!Deleting, SessionList!Creating
<1>2. \A k \in Requests :
        /\ SessionList!Read(k)' =>
             /\ SessionList!Read(k) /\ v8'[k].list = v8[k].list
             /\ v8'[k].touched = v8[k].touched /\ v8'[k].stale
        /\ SessionList!Handles(k)' =>
             /\ SessionList!Handles(k) /\ v8'[k].list = v8[k].list
             /\ v8'[k].kind = v8[k].kind /\ v8'[k].of = v8[k].of
             /\ v8'[k].touched = v8[k].touched
  BY DEF Kept
<1>3. \A s \in WaSessions : /\ v1'[s] = "absent" <=> v1[s] = "absent"
                            /\ v1'[s] = "gone" <=> v1[s] = "gone"
  OBVIOUS
<1>4. SessionList!EventsEndTrue'
  <2>1. 1..Len(v5') = {}
    OBVIOUS
  <2> QED
    BY <2>1 DEF SessionList!EventsEndTrue
<1>5. SessionList!AbsentIsUnknown'
  BY <1>1, <1>2, <1>3 DEF SessionList!AbsentIsUnknown
<1>6. SessionList!CreatedIsNew'
  <2>1. \A k \in Requests : \A s \in WaSessions :
          SessionList!Did(k, {"create"}, s)' /\ s \notin v8'[k].touched =>
            SessionList!Did(k, {"create"}, s) /\ s \notin v8[k].touched /\ v1'[s] = v1[s]
    BY <1>2, DidHandlesNext
  <2> QED
    BY <1>1, <1>2, <2>1 DEF SessionList!CreatedIsNew
<1>7. SessionList!DeletedStaysOff'
  BY <1>1, <1>2, <1>3 DEF SessionList!DeletedStaysOff
<1>8. SessionList!HandlersKeepUp'
  BY <1>2 DEF SessionList!HandlersKeepUp
<1>9. SessionList!ChangeIsTold'
  BY <1>2 DEF SessionList!ChangeIsTold
<1>10. SessionList!ListsSettle'
  BY <1>2 DEF SessionList!ListsSettle
<1>11. SessionList!FetchesAreOrdered'
  BY <1>2 DEF SessionList!FetchesAreOrdered
<1> QED
  BY <1>4, <1>5, <1>6, <1>7, <1>8, <1>9, <1>10, <1>11

(* A change that the page will be told of.                                  *)
LEMMA CoreTold ==
  ASSUME SessionList!TypeOK, CoreInv, Kept({}, FALSE), NEW s \in WaSessions, NEW st \in SessionList!Statuses,
         \A k \in Requests : \A x :
           /\ SessionList!Did(k, {"create"}, x)' <=> SessionList!Did(k, {"create"}, x)
           /\ SessionList!Did(k, {"delete"}, x)' <=> SessionList!Did(k, {"delete"}, x)
           /\ SessionList!Did(k, {"start", "stop"}, x)' => SessionList!Did(k, {"start", "stop"}, x) \/ x = s,
         v1[s] \notin {"gone", "absent"}, st # "absent", v1' = [v1 EXCEPT ![s] = st],
         \A k \in Requests : SessionList!Did(k, {"create"}, s) => s \in v8[k].touched,
         v2' = v2, v4' = "subscribed", v5' = Append(v5, [of |-> s, status |-> st]), v9' = v9, v10' = v10
  PROVE  CoreInv'
<1> USE DEF CoreInv
<1> DEFINE e == [of |-> s, status |-> st]
           n == Len(v5)
<1>0. v5 \in Seq([of : WaSessions, status : SessionList!Statuses]) /\ v1 \in [WaSessions -> SessionList!Statuses \cup {"gone"}]
      /\ st # "gone"
  BY DEF SessionList!TypeOK, SessionList!Statuses
<1>1. /\ n \in Nat /\ Len(v5') = n + 1 /\ v5'[n + 1] = e /\ \A i \in 1..n : v5'[i] = v5[i]
  <2> HIDE DEF e
  <2> QED
    BY <1>0 DEF e
<1>2. e.of = s /\ e.status = st
  OBVIOUS
<1> HIDE DEF e, n
<1>3. /\ SessionList!Told(s)'
      /\ \A x : x # s => (SessionList!Told(x)' <=> SessionList!Told(x))
      /\ \A x : SessionList!Deleting(x)' <=> SessionList!Deleting(x)
      /\ \A x : SessionList!Creating(x)' <=> SessionList!Creating(x)
  <2>1. SessionList!Told(s)'
    BY <1>1, <1>2 DEF SessionList!Told
  <2>2. \A x : x # s => (SessionList!Told(x)' <=> SessionList!Told(x))
    BY <1>1, <1>2 DEF SessionList!Told, n
  <2> QED
    BY <2>1, <2>2 DEF SessionList!Deleting, SessionList!Creating
<1>4. \A k \in Requests :
        /\ SessionList!Read(k)' =>
             /\ SessionList!Read(k) /\ v8'[k].list = v8[k].list
             /\ v8'[k].touched = v8[k].touched /\ v8'[k].stale = v8[k].stale
        /\ SessionList!Handles(k)' =>
             /\ SessionList!Handles(k) /\ v8'[k].list = v8[k].list
             /\ v8'[k].kind = v8[k].kind /\ v8'[k].of = v8[k].of
             /\ v8'[k].touched = v8[k].touched
  <2>1. \A k \in Requests : SessionList!Read(k) => v8[k].stale \in BOOLEAN
    BY RequestIs DEF SessionList!Read
  <2> QED
    BY <2>1 DEF Kept
<1>5. v1'[s] = st /\ \A x \in WaSessions : x # s => v1'[x] = v1[x]
  BY <1>0
<1>6. \A x \in WaSessions : \A p : SessionList!Settles(x, p) => SessionList!Settles(x, p)'
  BY <1>0, <1>3, <1>5 DEF SessionList!Settles
<1>7. SessionList!EventsEndTrue'
  <2> SUFFICES ASSUME NEW i \in 1..Len(v5')
               PROVE  \/ v1'[v5'[i].of] \in {"gone", v5'[i].status}
                      \/ \E j \in (i + 1)..Len(v5') : v5'[j].of = v5'[i].of
    BY DEF SessionList!EventsEndTrue
  <2>1. CASE i = n + 1
    BY <1>1, <1>2, <1>5, <2>1
  <2>2. CASE i \in 1..n
    <3>1. v5'[i] = v5[i] /\ v5[i].of \in WaSessions
      BY <1>1, <2>2, EventsTyped DEF n
    <3>2. CASE v5[i].of = s
      <4>1. n + 1 \in (i + 1)..Len(v5') /\ v5'[n + 1].of = v5'[i].of
        BY <1>1, <1>2, <2>2, <3>1, <3>2
      <4> QED
        BY <4>1
    <3>3. CASE v5[i].of # s
      <4>1. \/ v1[v5[i].of] \in {"gone", v5[i].status}
            \/ \E j \in (i + 1)..n : v5[j].of = v5[i].of
        BY <2>2 DEF SessionList!EventsEndTrue, n
      <4>2. \A j \in (i + 1)..n : j \in (i + 1)..Len(v5') /\ v5'[j] = v5[j]
        BY <1>1, <2>2
      <4> QED
        BY <1>5, <3>1, <3>3, <4>1, <4>2
    <3> QED
      BY <3>2, <3>3
  <2> QED
    BY <1>1, <2>1, <2>2
<1>8. SessionList!AbsentIsUnknown'
  BY <1>3, <1>4, <1>5 DEF SessionList!AbsentIsUnknown
<1>9. SessionList!CreatedIsNew'
  <2>1. \A k \in Requests : \A x \in WaSessions :
          SessionList!Did(k, {"create"}, x)' /\ x \notin v8'[k].touched =>
            SessionList!Did(k, {"create"}, x) /\ x \notin v8[k].touched /\ x # s
    BY <1>4, DidHandlesNext
  <2> QED
    BY <1>3, <1>4, <1>5, <2>1 DEF SessionList!CreatedIsNew
<1>10. SessionList!DeletedStaysOff'
  BY <1>0, <1>3, <1>4, <1>5 DEF SessionList!DeletedStaysOff
<1>11. SessionList!HandlersKeepUp'
  BY <1>4 DEF SessionList!HandlersKeepUp
<1>12. SessionList!ChangeIsTold'
  <2> SUFFICES ASSUME NEW k \in Requests, NEW x \in WaSessions,
                      SessionList!Did(k, {"start", "stop"}, x)', x \notin v8'[k].touched
               PROVE  \/ SessionList!Told(x)'
                      \/ v10' /\ \A i \in Requests : SessionList!Read(i)' /\ x \in v8'[i].touched => v8'[i].stale
    BY DEF SessionList!ChangeIsTold
  <2>1. CASE x = s
    BY <1>3, <2>1
  <2>2. CASE x # s
    <3>1. SessionList!Did(k, {"start", "stop"}, x) /\ x \notin v8[k].touched
      BY <1>4, <2>2, DidHandlesNext
    <3> QED
      BY <1>3, <1>4, <2>2, <3>1 DEF SessionList!ChangeIsTold
  <2> QED
    BY <2>1, <2>2
<1>13. SessionList!ListsSettle'
  BY <1>4, <1>6 DEF SessionList!ListsSettle
<1>14. SessionList!FetchesAreOrdered'
  BY <1>4 DEF SessionList!FetchesAreOrdered
<1> QED
  BY <1>7, <1>8, <1>9, <1>10, <1>11, <1>12, <1>13, <1>14

(* A session that the gateway created: its handler has still to list it.    *)
LEMMA CoreCreated ==
  ASSUME SessionList!TypeOK, CoreInv, Kept({}, FALSE), NEW r \in Requests, NEW s \in WaSessions,
         \A k \in Requests : \A x :
           /\ SessionList!Did(k, {"create"}, x)' <=> SessionList!Did(k, {"create"}, x) \/ (k = r /\ x = s)
           /\ SessionList!Did(k, {"delete"}, x)' <=> SessionList!Did(k, {"delete"}, x)
           /\ SessionList!Did(k, {"start", "stop"}, x)' <=> SessionList!Did(k, {"start", "stop"}, x),
         v1[s] = "absent", v1' = [v1 EXCEPT ![s] = "down"],
         v2' = v2, v4' = v4, v5' = v5, v9' = v9, v10' = v10
  PROVE  CoreInv'
<1> USE DEF CoreInv
<1>0. v1 \in [WaSessions -> SessionList!Statuses \cup {"gone"}]
  BY DEF SessionList!TypeOK
<1>1. v1'[s] = "down" /\ \A x \in WaSessions : x # s => v1'[x] = v1[x]
  BY <1>0
<1>2. /\ \A x : SessionList!Told(x)' <=> SessionList!Told(x)
      /\ \A x : SessionList!Deleting(x)' <=> SessionList!Deleting(x)
      /\ \A x : SessionList!Creating(x)' <=> SessionList!Creating(x) \/ x = s
  BY DEF SessionList!Told, SessionList!Deleting, SessionList!Creating
<1>3. \A k \in Requests :
        /\ SessionList!Read(k)' =>
             /\ SessionList!Read(k) /\ v8'[k].list = v8[k].list
             /\ v8'[k].touched = v8[k].touched /\ v8'[k].stale = v8[k].stale
        /\ SessionList!Handles(k)' =>
             /\ SessionList!Handles(k) /\ v8'[k].list = v8[k].list
             /\ v8'[k].kind = v8[k].kind /\ v8'[k].of = v8[k].of
             /\ v8'[k].touched = v8[k].touched
  <2>1. \A k \in Requests : SessionList!Read(k) => v8[k].stale \in BOOLEAN
    BY RequestIs DEF SessionList!Read
  <2> QED
    BY <2>1 DEF Kept
<1>4. /\ v2[s] = "absent" /\ ~SessionList!Told(s) /\ ~SessionList!Creating(s)
      /\ \A k \in Requests :
           /\ (SessionList!Read(k) \/ SessionList!Handles(k)) => v8[k].list[s] = "absent"
           /\ SessionList!Handles(k) /\ v8[k].of = s => v8[k].kind = "create"
  BY DEF SessionList!AbsentIsUnknown
<1>5. /\ \A x \in WaSessions : x # s => \A p : SessionList!Settles(x, p) => SessionList!Settles(x, p)'
      /\ SessionList!Settles(s, "absent")'
  BY <1>1, <1>2 DEF SessionList!Settles
<1>6. SessionList!EventsEndTrue'
  <2>1. \A i \in 1..Len(v5) : v5[i].of \in WaSessions /\ v5[i].of # s
    BY <1>4, EventsTyped DEF SessionList!Told
  <2> QED
    BY <1>1, <2>1 DEF SessionList!EventsEndTrue
<1>7. SessionList!AbsentIsUnknown'
  BY <1>1, <1>2, <1>3 DEF SessionList!AbsentIsUnknown
<1>8. SessionList!CreatedIsNew'
  <2> SUFFICES ASSUME NEW k \in Requests, NEW x \in WaSessions,
                      SessionList!Did(k, {"create"}, x)', x \notin v8'[k].touched
               PROVE  /\ v1'[x] = "down" /\ v2'[x] = "absent" /\ ~SessionList!Told(x)'
                      /\ \A i \in Requests : SessionList!Handles(i)' =>
                           /\ v8'[i].list[x] = "absent"
                           /\ v8'[i].of = x => v8'[i].kind = "create"
    BY DEF SessionList!CreatedIsNew
  <2>1. CASE x = s
    BY <1>1, <1>2, <1>3, <1>4, <2>1
  <2>2. CASE x # s
    <3>1. SessionList!Did(k, {"create"}, x) /\ x \notin v8[k].touched
      BY <1>3, <2>2, DidHandlesNext
    <3> QED
      BY <1>1, <1>2, <1>3, <2>2, <3>1 DEF SessionList!CreatedIsNew
  <2> QED
    BY <2>1, <2>2
<1>9. SessionList!DeletedStaysOff'
  BY <1>1, <1>2, <1>3 DEF SessionList!DeletedStaysOff
<1>10. SessionList!HandlersKeepUp'
  BY <1>3 DEF SessionList!HandlersKeepUp
<1>11. SessionList!ChangeIsTold'
  BY <1>2, <1>3, DidHandlesNext DEF SessionList!ChangeIsTold
<1>12. SessionList!ListsSettle'
  <2>1. \A x \in WaSessions : \A p : SessionList!Settles(x, p) /\ (x # s \/ p = "absent") => SessionList!Settles(x, p)'
    BY <1>5
  <2>2. \A k \in Requests : SessionList!Read(k) => v8[k].list[s] = "absent"
    BY <1>4
  <2>3. v2[s] = "absent"
    BY <1>4
  <2> QED
    BY <1>3, <2>1, <2>2, <2>3 DEF SessionList!ListsSettle
<1>13. SessionList!FetchesAreOrdered'
  BY <1>3 DEF SessionList!FetchesAreOrdered
<1> QED
  BY <1>6, <1>7, <1>8, <1>9, <1>10, <1>11, <1>12, <1>13

(* One that the gateway deleted: its handler has still to take it off.      *)
LEMMA CoreDeleted ==
  ASSUME SessionList!TypeOK, CoreInv, Kept({}, FALSE), NEW r \in Requests, NEW s \in WaSessions,
         SessionList!Handles(r), v8[r].kind = "delete", v8[r].of = s,
         \A k \in Requests : \A x :
           /\ SessionList!Did(k, {"create"}, x)' <=> SessionList!Did(k, {"create"}, x)
           /\ SessionList!Did(k, {"delete"}, x)' <=> SessionList!Did(k, {"delete"}, x) \/ (k = r /\ x = s)
           /\ SessionList!Did(k, {"start", "stop"}, x)' <=> SessionList!Did(k, {"start", "stop"}, x),
         v1' = [v1 EXCEPT ![s] = "gone"],
         v2' = v2, v4' = v4, v5' = v5, v9' = v9, v10' = v10
  PROVE  CoreInv'
<1> USE DEF CoreInv
<1>0. v1 \in [WaSessions -> SessionList!Statuses \cup {"gone"}]
  BY DEF SessionList!TypeOK
<1>1. v1'[s] = "gone" /\ \A x \in WaSessions : x # s => v1'[x] = v1[x]
  BY <1>0
<1>2. /\ \A x : SessionList!Told(x)' <=> SessionList!Told(x)
      /\ \A x : SessionList!Deleting(x)' <=> SessionList!Deleting(x) \/ x = s
      /\ \A x : SessionList!Creating(x)' <=> SessionList!Creating(x)
  BY DEF SessionList!Told, SessionList!Deleting, SessionList!Creating
<1>3. \A k \in Requests :
        /\ SessionList!Read(k)' =>
             /\ SessionList!Read(k) /\ v8'[k].list = v8[k].list
             /\ v8'[k].touched = v8[k].touched /\ v8'[k].stale = v8[k].stale
        /\ SessionList!Handles(k)' =>
             /\ SessionList!Handles(k) /\ v8'[k].list = v8[k].list
             /\ v8'[k].kind = v8[k].kind /\ v8'[k].of = v8[k].of
             /\ v8'[k].touched = v8[k].touched
  <2>1. \A k \in Requests : SessionList!Read(k) => v8[k].stale \in BOOLEAN
    BY RequestIs DEF SessionList!Read
  <2> QED
    BY <2>1 DEF Kept
<1>4. \A k \in Requests : SessionList!Did(k, {"create"}, s) => s \in v8[k].touched
  BY DEF SessionList!CreatedIsNew
<1>5. \A x \in WaSessions : \A p : SessionList!Settles(x, p) => SessionList!Settles(x, p)'
  BY <1>1, <1>2 DEF SessionList!Settles
<1>6. SessionList!EventsEndTrue'
  <2>1. \A i \in 1..Len(v5) : v5[i].of \in WaSessions
    BY EventsTyped
  <2> QED
    BY <1>1, <2>1 DEF SessionList!EventsEndTrue
<1>7. SessionList!AbsentIsUnknown'
  BY <1>1, <1>2, <1>3 DEF SessionList!AbsentIsUnknown
<1>8. SessionList!CreatedIsNew'
  <2>1. \A k \in Requests : \A x \in WaSessions :
          SessionList!Did(k, {"create"}, x)' /\ x \notin v8'[k].touched =>
            SessionList!Did(k, {"create"}, x) /\ x \notin v8[k].touched /\ x # s
    BY <1>3, <1>4, DidHandlesNext
  <2> QED
    BY <1>1, <1>2, <1>3, <2>1 DEF SessionList!CreatedIsNew
<1>9. SessionList!DeletedStaysOff'
  BY <1>1, <1>2, <1>3 DEF SessionList!DeletedStaysOff
<1>10. SessionList!HandlersKeepUp'
  BY <1>3 DEF SessionList!HandlersKeepUp
<1>11. SessionList!ChangeIsTold'
  BY <1>2, <1>3, DidHandlesNext DEF SessionList!ChangeIsTold
<1>12. SessionList!ListsSettle'
  BY <1>3, <1>5 DEF SessionList!ListsSettle
<1>13. SessionList!FetchesAreOrdered'
  BY <1>3 DEF SessionList!FetchesAreOrdered
<1> QED
  BY <1>6, <1>7, <1>8, <1>9, <1>10, <1>11, <1>12, <1>13

(* A fetch that the gateway answers.                                        *)
LEMMA CoreFetchAnswered ==
  ASSUME SessionList!TypeOK, CoreInv, NEW r \in Requests,
         v8[r].kind = "fetch", v8[r].pc = "asked", SessionList!Busy(r),
         \A k \in Requests \ {r} : v8'[k] = v8[k],
         v8'[r] # SessionList!Free, v8'[r].kind = "fetch", v8'[r].pc = "answered",
         v8'[r].list = SessionList!Listed, v8'[r].touched = {}, v8'[r].stale = FALSE,
         v1' = v1, v2' = v2, v4' = v4, v5' = v5, v9' = v9, v10' = v10
  PROVE  CoreInv'
<1> USE DEF CoreInv
<1>1. \A k \in Requests : SessionList!Read(k)' =>
        \/ k = r
        \/ /\ SessionList!Read(k) /\ v8'[k].list = v8[k].list
           /\ v8'[k].touched = v8[k].touched /\ v8'[k].stale = v8[k].stale
  BY DEF SessionList!Read, SessionList!Busy
<1>2. \A k \in Requests : SessionList!Handles(k)' =>
        /\ SessionList!Handles(k) /\ v8'[k].list = v8[k].list
        /\ v8'[k].kind = v8[k].kind /\ v8'[k].of = v8[k].of
        /\ v8'[k].touched = v8[k].touched
  BY DEF SessionList!Handles, SessionList!Busy, SessionList!Handlers
<1>3. DidSame
  BY DEF DidSame, KindSets, SessionList!Did, SessionList!Busy
<1>4. /\ \A s : SessionList!Told(s)' <=> SessionList!Told(s)
      /\ \A s : SessionList!Deleting(s)' <=> SessionList!Deleting(s)
      /\ \A s : SessionList!Creating(s)' <=> SessionList!Creating(s)
      /\ \A k \in Requests : \A s :
           /\ SessionList!Did(k, {"create"}, s)' <=> SessionList!Did(k, {"create"}, s)
           /\ SessionList!Did(k, {"delete"}, s)' <=> SessionList!Did(k, {"delete"}, s)
           /\ SessionList!Did(k, {"start", "stop"}, s)' <=> SessionList!Did(k, {"start", "stop"}, s)
  BY <1>3, DidsStay DEF SessionList!Told
<1>5. \A s, p : SessionList!Settles(s, p)' <=> SessionList!Settles(s, p)
  BY <1>4 DEF SessionList!Settles
<1>6. \A s \in WaSessions : v8'[r].list[s] = IF v1[s] = "gone" THEN "absent" ELSE v1[s]
  BY DEF SessionList!Listed
<1>7. \A s \in WaSessions : \A p : p = v8'[r].list[s] => SessionList!Settles(s, p)'
  BY <1>5, <1>6 DEF SessionList!Settles
<1>8. SessionList!EventsEndTrue'
  BY DEF SessionList!EventsEndTrue
<1>9. SessionList!AbsentIsUnknown'
  <2>1. \A s \in WaSessions : v1[s] = "absent" => v8'[r].list[s] = "absent"
    BY <1>6
  <2> QED
    BY <1>1, <1>2, <1>4, <2>1 DEF SessionList!AbsentIsUnknown
<1>10. SessionList!CreatedIsNew'
  BY <1>2, <1>4, DidHandlesNext DEF SessionList!CreatedIsNew
<1>11. SessionList!DeletedStaysOff'
  <2>1. \A s \in WaSessions : v1[s] = "gone" => v8'[r].list[s] = "absent"
    BY <1>6
  <2> QED
    BY <1>1, <1>4, <2>1 DEF SessionList!DeletedStaysOff
<1>12. SessionList!HandlersKeepUp'
  BY <1>2 DEF SessionList!HandlersKeepUp
<1>13. SessionList!ChangeIsTold'
  BY <1>1, <1>2, <1>4, DidHandlesNext DEF SessionList!ChangeIsTold
<1>14. SessionList!ListsSettle'
  BY <1>1, <1>5, <1>7 DEF SessionList!ListsSettle
<1>15. SessionList!FetchesAreOrdered'
  <2> SUFFICES ASSUME NEW k \in Requests, NEW m \in Requests, SessionList!Read(k)', SessionList!Read(m)'
               PROVE  \/ v8'[k].touched \subseteq v8'[m].touched /\ (v8'[k].stale => v8'[m].stale)
                      \/ v8'[m].touched \subseteq v8'[k].touched /\ (v8'[m].stale => v8'[k].stale)
    BY DEF SessionList!FetchesAreOrdered
  <2>1. CASE k = r
    BY <2>1
  <2>2. CASE m = r
    BY <2>2
  <2>3. CASE k # r /\ m # r
    BY <1>1, <2>3 DEF SessionList!FetchesAreOrdered
  <2> QED
    BY <2>1, <2>2, <2>3
<1> QED
  BY <1>8, <1>9, <1>10, <1>11, <1>12, <1>13, <1>14, <1>15

(* A handler that the user clicks.                                          *)
LEMMA CoreClicked ==
  ASSUME SessionList!TypeOK, CoreInv, NEW r \in Requests, ~SessionList!Busy(r),
         \A k \in Requests \ {r} : v8'[k] = v8[k],
         v8'[r].kind \in SessionList!Handlers, v8'[r].pc = "asked", v8'[r].of \in WaSessions,
         v8'[r].list = v2, v8'[r].touched = {},
         v8'[r].kind = "create" <=> v2[v8'[r].of] = "absent",
         v1' = v1, v2' = v2, v4' = v4, v5' = v5, v9' = v9, v10' = v10
  PROVE  CoreInv'
<1> USE DEF CoreInv
<1>1. \A k \in Requests : SessionList!Read(k)' =>
        /\ SessionList!Read(k) /\ v8'[k].list = v8[k].list
        /\ v8'[k].touched = v8[k].touched /\ v8'[k].stale = v8[k].stale
  BY DEF SessionList!Read, SessionList!Busy
<1>2. \A k \in Requests : SessionList!Handles(k)' =>
        \/ k = r
        \/ /\ SessionList!Handles(k) /\ v8'[k].list = v8[k].list
           /\ v8'[k].kind = v8[k].kind /\ v8'[k].of = v8[k].of
           /\ v8'[k].touched = v8[k].touched
  BY DEF SessionList!Handles, SessionList!Busy
<1>3. DidSame
  BY DEF DidSame, KindSets, SessionList!Did, SessionList!Busy
<1>4. /\ \A s : SessionList!Told(s)' <=> SessionList!Told(s)
      /\ \A s : SessionList!Deleting(s)' <=> SessionList!Deleting(s)
      /\ \A s : SessionList!Creating(s)' <=> SessionList!Creating(s)
      /\ \A k \in Requests : \A s :
           /\ SessionList!Did(k, {"create"}, s)' <=> SessionList!Did(k, {"create"}, s)
           /\ SessionList!Did(k, {"delete"}, s)' <=> SessionList!Did(k, {"delete"}, s)
           /\ SessionList!Did(k, {"start", "stop"}, s)' <=> SessionList!Did(k, {"start", "stop"}, s)
  BY <1>3, DidsStay DEF SessionList!Told
<1>5. \A s, p : SessionList!Settles(s, p)' <=> SessionList!Settles(s, p)
  BY <1>4 DEF SessionList!Settles
<1>6. \A s : /\ ~SessionList!Did(r, {"create"}, s) /\ ~SessionList!Did(r, {"start", "stop"}, s)
  BY DEF SessionList!Did
<1>8. SessionList!EventsEndTrue'
  BY DEF SessionList!EventsEndTrue
<1>9. SessionList!AbsentIsUnknown'
  BY <1>1, <1>2, <1>4 DEF SessionList!AbsentIsUnknown
<1>10. SessionList!CreatedIsNew'
  <2>1. \A k \in Requests : \A s \in WaSessions :
          SessionList!Did(k, {"create"}, s)' /\ s \notin v8'[k].touched =>
            SessionList!Did(k, {"create"}, s) /\ s \notin v8[k].touched
    BY <1>2, <1>4, <1>6, DidHandlesNext
  <2> QED
    BY <1>2, <1>4, <2>1 DEF SessionList!CreatedIsNew
<1>11. SessionList!DeletedStaysOff'
  BY <1>1, <1>4 DEF SessionList!DeletedStaysOff
<1>12. SessionList!HandlersKeepUp'
  BY <1>2 DEF SessionList!HandlersKeepUp
<1>13. SessionList!ChangeIsTold'
  <2>1. \A k \in Requests : \A s \in WaSessions :
          SessionList!Did(k, {"start", "stop"}, s)' /\ s \notin v8'[k].touched =>
            SessionList!Did(k, {"start", "stop"}, s) /\ s \notin v8[k].touched
    BY <1>2, <1>4, <1>6, DidHandlesNext
  <2> QED
    BY <1>1, <1>4, <2>1 DEF SessionList!ChangeIsTold
<1>14. SessionList!ListsSettle'
  BY <1>1, <1>5 DEF SessionList!ListsSettle
<1>15. SessionList!FetchesAreOrdered'
  BY <1>1 DEF SessionList!FetchesAreOrdered
<1> QED
  BY <1>8, <1>9, <1>10, <1>11, <1>12, <1>13, <1>14, <1>15

(* An event that arrives: the page writes its session, if it has it.        *)
LEMMA CoreEventArrives ==
  ASSUME SessionList!TypeOK, CoreInv, NEW x \in WaSessions, NEW st \in SessionList!Statuses,
         v5 # <<>>, Head(v5).of = x, Head(v5).status = st, v5' = Tail(v5),
         v2' = IF v2[x] = "absent" THEN v2 ELSE [v2 EXCEPT ![x] = st],
         v10' = (v10 \/ v2[x] = "absent"), Kept({x}, v2[x] = "absent"), DidSame,
         v1' = v1, v4' = v4, v9' = v9
  PROVE  CoreInv'
<1> USE DEF CoreInv
<1> DEFINE n == Len(v5)
<1>0. v2 \in [WaSessions -> SessionList!Statuses]
  BY DEF SessionList!TypeOK, SessionList!Lists
<1>1. /\ n \in Nat /\ n >= 1 /\ Len(v5') = n - 1 /\ \A i \in 1..(n - 1) : v5'[i] = v5[i + 1]
      /\ v5[1].of = x /\ v5[1].status = st
  <2>1. PICK E : v5 \in Seq(E)
    BY DEF SessionList!TypeOK
  <2> QED
    BY <2>1
<1> HIDE DEF n
<1>2. /\ SessionList!Told(x)
      /\ \A s : SessionList!Told(s)' => SessionList!Told(s)
      /\ \A s : s # x /\ SessionList!Told(s) => SessionList!Told(s)'
      /\ (\E j \in 2..n : v5[j].of = x) => SessionList!Told(x)'
  <2>1. SessionList!Told(x)
    BY <1>1 DEF SessionList!Told, n
  <2>2. \A s : SessionList!Told(s)' => SessionList!Told(s)
    BY <1>1 DEF SessionList!Told, n
  <2>3. ASSUME NEW s, NEW j \in 2..n, v5[j].of = s
        PROVE  SessionList!Told(s)'
    <3>1. j - 1 \in 1..Len(v5') /\ v5'[j - 1] = v5[j]
      BY <1>1, <2>3
    <3> QED
      BY <2>3, <3>1 DEF SessionList!Told
  <2>4. \A s : s # x /\ SessionList!Told(s) => SessionList!Told(s)'
    <3> SUFFICES ASSUME NEW s, s # x, NEW j \in 1..n, v5[j].of = s
                 PROVE  SessionList!Told(s)'
      BY DEF SessionList!Told, n
    <3>1. j \in 2..n
      BY <1>1
    <3> QED
      BY <2>3, <3>1
  <2> QED
    BY <2>1, <2>2, <2>3, <2>4
<1>3. /\ \A s : SessionList!Deleting(s)' <=> SessionList!Deleting(s)
      /\ \A s : SessionList!Creating(s)' <=> SessionList!Creating(s)
      /\ \A k \in Requests : \A s :
           /\ SessionList!Did(k, {"create"}, s)' <=> SessionList!Did(k, {"create"}, s)
           /\ SessionList!Did(k, {"delete"}, s)' <=> SessionList!Did(k, {"delete"}, s)
           /\ SessionList!Did(k, {"start", "stop"}, s)' <=> SessionList!Did(k, {"start", "stop"}, s)
  BY DidsStay
<1>4. \A k \in Requests :
        /\ SessionList!Read(k)' =>
             /\ SessionList!Read(k) /\ v8'[k].list = v8[k].list
             /\ v8'[k].touched = v8[k].touched \cup {x}
             /\ v8'[k].stale = (v8[k].stale \/ v2[x] = "absent")
        /\ SessionList!Handles(k)' =>
             /\ SessionList!Handles(k) /\ v8'[k].list = v8[k].list
             /\ v8'[k].kind = v8[k].kind /\ v8'[k].of = v8[k].of
             /\ v8'[k].touched = v8[k].touched \cup {x}
  BY DEF Kept
<1>5. /\ v1[x] # "absent" /\ \A s : s # x => v2'[s] = v2[s]
      /\ v2[x] = "absent" => v2'[x] = "absent"
      /\ v2[x] # "absent" => v2'[x] = st
  BY <1>0, <1>2 DEF SessionList!AbsentIsUnknown
<1>6. \A s, p : s # x /\ SessionList!Settles(s, p) => SessionList!Settles(s, p)'
  BY <1>2, <1>3 DEF SessionList!Settles
<1>7. v2[x] # "absent" /\ ~v9 => SessionList!Settles(x, st)'
  <2>1. v1[x] \in {"gone", st} \/ SessionList!Told(x)'
    <3>1. 1 \in 1..Len(v5)
      BY <1>1 DEF n
    <3>2. v1[x] \in {"gone", st} \/ \E j \in (1 + 1)..Len(v5) : v5[j].of = x
      BY <1>1, <3>1 DEF SessionList!EventsEndTrue
    <3>3. 1 + 1 = 2
      OBVIOUS
    <3> QED
      BY <1>2, <3>2, <3>3 DEF n
  <2>2. v2[x] # "absent" /\ ~v9 /\ v1[x] = "gone" => SessionList!Deleting(x)
    BY DEF SessionList!DeletedStaysOff
  <2> QED
    BY <1>3, <2>1, <2>2 DEF SessionList!Settles
<1>8. SessionList!EventsEndTrue'
  <2>1. v4' = "down" => v5' = <<>>
    BY DEF SessionList!EventsEndTrue
  <2>2. ASSUME NEW i \in 1..Len(v5')
        PROVE  \/ v1[v5'[i].of] \in {"gone", v5'[i].status}
               \/ \E j \in (i + 1)..Len(v5') : v5'[j].of = v5'[i].of
    <3>1. i + 1 \in 1..n /\ v5'[i] = v5[i + 1]
      BY <1>1
    <3>2. \/ v1[v5[i + 1].of] \in {"gone", v5[i + 1].status}
          \/ \E j \in (i + 2)..n : v5[j].of = v5[i + 1].of
      <4>1. (i + 1) + 1 = i + 2
        OBVIOUS
      <4> QED
        BY <3>1, <4>1 DEF SessionList!EventsEndTrue, n
    <3>3. \A j \in (i + 2)..n : j - 1 \in (i + 1)..Len(v5') /\ v5'[j - 1] = v5[j]
      BY <1>1
    <3> QED
      BY <3>1, <3>2, <3>3
  <2> QED
    BY <2>1, <2>2 DEF SessionList!EventsEndTrue
<1>9. SessionList!AbsentIsUnknown'
  BY <1>2, <1>3, <1>4, <1>5 DEF SessionList!AbsentIsUnknown
<1>10. SessionList!CreatedIsNew'
  <2>1. \A k \in Requests : \A s \in WaSessions :
          SessionList!Did(k, {"create"}, s)' /\ s \notin v8'[k].touched =>
            SessionList!Did(k, {"create"}, s) /\ s \notin v8[k].touched /\ s # x
    BY <1>3, <1>4, DidHandlesNext
  <2> QED
    BY <1>2, <1>4, <1>5, <2>1 DEF SessionList!CreatedIsNew
<1>11. SessionList!DeletedStaysOff'
  BY <1>3, <1>4, <1>5 DEF SessionList!DeletedStaysOff
<1>12. SessionList!HandlersKeepUp'
  BY <1>4, <1>5 DEF SessionList!HandlersKeepUp
<1>13. SessionList!ChangeIsTold'
  <2>1. \A k \in Requests : \A s \in WaSessions :
          SessionList!Did(k, {"start", "stop"}, s)' /\ s \notin v8'[k].touched =>
            SessionList!Did(k, {"start", "stop"}, s) /\ s \notin v8[k].touched /\ s # x
    BY <1>3, <1>4, DidHandlesNext
  <2>2. \A k \in Requests : \A s \in WaSessions :
          SessionList!Read(k)' /\ s \in v8'[k].touched /\ s # x =>
            SessionList!Read(k) /\ s \in v8[k].touched /\ (v8[k].stale => v8'[k].stale)
    BY <1>4
  <2>3. v10 => v10'
    OBVIOUS
  <2> QED
    BY <1>2, <2>1, <2>2, <2>3 DEF SessionList!ChangeIsTold
<1>14. SessionList!ListsSettle'
  <2>1. ASSUME NEW k \in Requests, SessionList!Read(k)', ~v8'[k].stale, NEW s \in WaSessions,
               s \notin v8'[k].touched \/ (~v9 /\ v8'[k].list[s] = v2'[s]),
               NEW p, p = v8'[k].list[s]
        PROVE  SessionList!Settles(s, p)'
    <3>1. CASE s # x
      BY <1>4, <1>5, <1>6, <2>1, <3>1 DEF SessionList!ListsSettle
    <3>2. CASE s = x
      BY <1>4, <1>5, <1>7, <2>1, <3>2
    <3> QED
      BY <3>1, <3>2
  <2>2. ASSUME ~v10', ~v9, NEW s \in WaSessions, NEW p, p = v2'[s]
        PROVE  SessionList!Settles(s, p)'
    <3>1. CASE s # x
      BY <1>5, <1>6, <2>2, <3>1 DEF SessionList!ListsSettle
    <3>2. CASE s = x
      BY <1>5, <1>7, <2>2, <3>2
    <3> QED
      BY <3>1, <3>2
  <2> QED
    BY <2>1, <2>2 DEF SessionList!ListsSettle
<1>15. SessionList!FetchesAreOrdered'
  <2>1. \A k \in Requests : SessionList!Read(k)' =>
          /\ SessionList!Read(k) /\ v8'[k].touched = v8[k].touched \cup {x}
          /\ v8'[k].stale <=> v8[k].stale \/ v2[x] = "absent"
    BY <1>4
  <2> QED
    BY <2>1 DEF SessionList!FetchesAreOrdered
<1> QED
  BY <1>8, <1>9, <1>10, <1>11, <1>12, <1>13, <1>14, <1>15

(* A fetch that lands: the page has its list.                               *)
LEMMA CoreFetchLands ==
  ASSUME SessionList!TypeOK, CoreInv, NEW r \in Requests, SessionList!Read(r),
         v2' = v8[r].list,
         v9' = (v8[r].touched # {} /\ (v9 \/ SessionList!Undoes(v8[r].list, v8[r].touched))),
         v10' = v8[r].stale, Kept(WaSessions, FALSE), DidSame, ~SessionList!Read(r)',
         v1' = v1, v4' = v4, v5' = v5
  PROVE  CoreInv'
<1> USE DEF CoreInv
<1> DEFINE L == v8[r].list
           T == v8[r].touched
<1>1. /\ \A s : SessionList!Told(s)' <=> SessionList!Told(s)
      /\ \A s : SessionList!Deleting(s)' <=> SessionList!Deleting(s)
      /\ \A s : SessionList!Creating(s)' <=> SessionList!Creating(s)
      /\ \A k \in Requests : \A s :
           /\ SessionList!Did(k, {"create"}, s)' <=> SessionList!Did(k, {"create"}, s)
           /\ SessionList!Did(k, {"delete"}, s)' <=> SessionList!Did(k, {"delete"}, s)
           /\ SessionList!Did(k, {"start", "stop"}, s)' <=> SessionList!Did(k, {"start", "stop"}, s)
  BY DidsStay DEF SessionList!Told
<1>2. \A s, p : SessionList!Settles(s, p)' <=> SessionList!Settles(s, p)
  BY <1>1 DEF SessionList!Settles
<1>3. \A k \in Requests :
        /\ SessionList!Read(k)' =>
             /\ SessionList!Read(k) /\ v8'[k].list = v8[k].list
             /\ v8'[k].touched = v8[k].touched \cup WaSessions
             /\ v8'[k].stale = v8[k].stale
        /\ SessionList!Handles(k)' =>
             /\ SessionList!Handles(k) /\ v8'[k].list = v8[k].list
             /\ v8'[k].kind = v8[k].kind /\ v8'[k].of = v8[k].of
             /\ v8'[k].touched = v8[k].touched \cup WaSessions
  <2>1. \A k \in Requests : SessionList!Read(k) => v8[k].stale \in BOOLEAN
    BY RequestIs DEF SessionList!Read
  <2> QED
    BY <2>1 DEF Kept
<1>4. v2' = L /\ (~v9' => T = {} \/ (~v9 /\ \A s \in T : L[s] = v2[s]))
  BY DEF SessionList!Undoes
<1>5. SessionList!EventsEndTrue'
  BY DEF SessionList!EventsEndTrue
<1>6. SessionList!AbsentIsUnknown'
  BY <1>1, <1>3 DEF SessionList!AbsentIsUnknown
<1>7. SessionList!CreatedIsNew'
  BY <1>3, DidHandlesNext DEF SessionList!CreatedIsNew
<1>8. SessionList!DeletedStaysOff'
  <2>1. ASSUME NEW s \in WaSessions, v1[s] = "gone", ~SessionList!Deleting(s), ~v9'
        PROVE  L[s] = "absent"
    BY <1>4, <2>1 DEF SessionList!DeletedStaysOff
  <2> QED
    BY <1>1, <1>3, <1>4, <2>1 DEF SessionList!DeletedStaysOff
<1>9. SessionList!HandlersKeepUp'
  BY <1>3 DEF SessionList!HandlersKeepUp
<1>10. SessionList!ChangeIsTold'
  BY <1>3, DidHandlesNext DEF SessionList!ChangeIsTold
<1>11. SessionList!ListsSettle'
  <2>1. ASSUME ~v8[r].stale, ~v9', NEW s \in WaSessions
        PROVE  SessionList!Settles(s, L[s])
    BY <1>4, <2>1 DEF SessionList!ListsSettle
  <2>2. ASSUME NEW k \in Requests, SessionList!Read(k), ~v8[k].stale, NEW s \in WaSessions,
               ~v9', v8[k].list[s] = L[s]
        PROVE  SessionList!Settles(s, v8[k].list[s])
    <3>1. CASE s \notin v8[k].touched
      BY <2>2, <3>1 DEF SessionList!ListsSettle
    <3>2. CASE s \in v8[k].touched /\ s \in T
      <4>1. ~v9 /\ v8[k].list[s] = v2[s]
        BY <1>4, <2>2, <3>2
      <4> QED
        BY <2>2, <4>1 DEF SessionList!ListsSettle
    <3>3. CASE s \in v8[k].touched /\ s \notin T
      <4>1. ~v8[r].stale
        BY <2>2, <3>3 DEF SessionList!FetchesAreOrdered
      <4> QED
        BY <2>1, <2>2, <4>1
    <3> QED
      BY <3>1, <3>2, <3>3
  <2>3. ASSUME NEW k \in Requests, SessionList!Read(k)', ~v8'[k].stale, NEW s \in WaSessions,
               s \notin v8'[k].touched \/ (~v9' /\ v8'[k].list[s] = v2'[s]),
               NEW p, p = v8'[k].list[s]
        PROVE  SessionList!Settles(s, p)'
    <3>1. SessionList!Read(k) /\ v8[k].list[s] = p /\ ~v8[k].stale /\ ~v9' /\ p = L[s]
      BY <1>3, <1>4, <2>3
    <3> QED
      BY <1>2, <2>2, <3>1
  <2>4. ASSUME ~v10', ~v9', NEW s \in WaSessions, NEW p, p = v2'[s]
        PROVE  SessionList!Settles(s, p)'
    BY <1>2, <1>4, <2>1, <2>4
  <2> HIDE DEF L, T
  <2> QED
    BY <2>3, <2>4 DEF SessionList!ListsSettle
<1>12. SessionList!FetchesAreOrdered'
  BY <1>3 DEF SessionList!FetchesAreOrdered
<1> QED
  BY <1>5, <1>6, <1>7, <1>8, <1>9, <1>10, <1>11, <1>12

(* A handler that lands: the page has the list it was clicked in, changed    *)
(* in one place.                                                           *)
LEMMA CoreHandlerLands ==
  ASSUME SessionList!TypeOK, CoreInv, NEW r \in Requests, NEW x \in WaSessions, NEW w,
         SessionList!Handles(r), v8[r].of = x, v8[r].pc = "answered", v8[r].ok,
         w = SessionList!WritesStatus[v8[r].kind],
         v2' = [v8[r].list EXCEPT ![x] = w],
         v9' = (v9 \/ SessionList!Undoes(v2', v8[r].touched)),
         Kept({x}, FALSE), ~SessionList!Handles(r)',
         \A k \in Requests : \A K \in KindSets : \A s :
           SessionList!Did(k, K, s)' <=> SessionList!Did(k, K, s) /\ k # r,
         v1' = v1, v4' = v4, v5' = v5, v10' = v10
  PROVE  CoreInv'
<1> USE DEF CoreInv
<1> DEFINE L == v8[r].list
           T == v8[r].touched
<1>0. L \in [WaSessions -> SessionList!Statuses] /\ v9 \in BOOLEAN /\ v10 \in BOOLEAN
  BY RequestIs DEF SessionList!Handles, SessionList!TypeOK
<1>1. /\ v8[r].kind \in {"create", "delete", "start", "stop"}
      /\ v8[r].kind = "create" => SessionList!Did(r, {"create"}, x) /\ w = "down"
      /\ v8[r].kind = "delete" => SessionList!Did(r, {"delete"}, x) /\ w = "absent"
      /\ v8[r].kind \in {"start", "stop"} => SessionList!Did(r, {"start", "stop"}, x)
  BY DEF SessionList!Handles, SessionList!Handlers, SessionList!Did, SessionList!WritesStatus
<1>2. \A k \in Requests : \A s :
           /\ SessionList!Did(k, {"create"}, s)' <=> SessionList!Did(k, {"create"}, s) /\ k # r
           /\ SessionList!Did(k, {"delete"}, s)' <=> SessionList!Did(k, {"delete"}, s) /\ k # r
           /\ SessionList!Did(k, {"start", "stop"}, s)' <=> SessionList!Did(k, {"start", "stop"}, s) /\ k # r
  BY DEF KindSets
<1>3. \A s : /\ SessionList!Did(r, {"create"}, s) => s = x /\ v8[r].kind = "create"
             /\ SessionList!Did(r, {"delete"}, s) => s = x /\ v8[r].kind = "delete"
  BY DEF SessionList!Did
<1>4. /\ \A s : SessionList!Told(s)' <=> SessionList!Told(s)
      /\ \A s : SessionList!Deleting(s)' => SessionList!Deleting(s)
      /\ \A s : SessionList!Creating(s)' => SessionList!Creating(s)
      /\ \A s : s # x \/ v8[r].kind # "delete" => (SessionList!Deleting(s) => SessionList!Deleting(s)')
      /\ \A s : s # x \/ v8[r].kind # "create" => (SessionList!Creating(s) => SessionList!Creating(s)')
  <2>1. \A s : s # x \/ v8[r].kind # "delete" => (SessionList!Deleting(s) => SessionList!Deleting(s)')
    BY <1>2, <1>3 DEF SessionList!Deleting
  <2>2. \A s : s # x \/ v8[r].kind # "create" => (SessionList!Creating(s) => SessionList!Creating(s)')
    BY <1>2, <1>3 DEF SessionList!Creating
  <2> QED
    BY <1>2, <2>1, <2>2 DEF SessionList!Told, SessionList!Deleting, SessionList!Creating
<1>5. \A k \in Requests :
        /\ SessionList!Read(k)' =>
             /\ SessionList!Read(k) /\ v8'[k].list = v8[k].list
             /\ v8'[k].touched = v8[k].touched \cup {x}
             /\ v8'[k].stale = v8[k].stale
        /\ SessionList!Handles(k)' =>
             /\ SessionList!Handles(k) /\ v8'[k].list = v8[k].list
             /\ v8'[k].kind = v8[k].kind /\ v8'[k].of = v8[k].of
             /\ v8'[k].touched = v8[k].touched \cup {x} /\ k # r
  <2>1. \A k \in Requests : SessionList!Read(k) => v8[k].stale \in BOOLEAN
    BY RequestIs DEF SessionList!Read
  <2> QED
    BY <2>1 DEF Kept
<1>6. v2'[x] = w /\ \A s : s # x => v2'[s] = L[s]
  BY <1>0
<1>7. ~v9' => /\ ~v9 /\ \A s \in T : v2'[s] = v2[s]
              /\ \A s \in WaSessions \ T : L[s] = v2[s]
  BY <1>0 DEF SessionList!Undoes, SessionList!HandlersKeepUp
<1>8. ~v9' => \A s \in WaSessions : s # x => v2'[s] = v2[s]
  BY <1>6, <1>7
<1> HIDE DEF L
<1>9. \A s, p : s # x /\ SessionList!Settles(s, p) => SessionList!Settles(s, p)'
  BY <1>4 DEF SessionList!Settles
<1>10. ~v9' /\ x \in T /\ v8[r].kind # "delete" =>
         /\ v2[x] = w
         /\ SessionList!Settles(x, w) => SessionList!Settles(x, w)'
  <2>1. v8[r].kind = "create" => w # "absent"
    BY <1>1
  <2> QED
    BY <1>4, <1>6, <1>7, <2>1 DEF SessionList!Settles
<1>11. /\ v8[r].kind = "delete" => SessionList!Settles(x, w)'
       /\ v8[r].kind = "create" /\ x \notin T => SessionList!Settles(x, w)' /\ v1[x] = "down"
  <2>1. v8[r].kind = "delete" => v1[x] = "gone"
    BY <1>1 DEF SessionList!DeletedStaysOff
  <2>2. v8[r].kind = "create" /\ x \notin T => v1[x] = "down"
    BY <1>1 DEF SessionList!CreatedIsNew
  <2> QED
    BY <1>1, <2>1, <2>2 DEF SessionList!Settles
<1>12. v8[r].kind \in {"start", "stop"} /\ x \notin T /\ ~v9' =>
         /\ v2[x] # "absent"
         /\ SessionList!Settles(x, w) => SessionList!Settles(x, w)'
         /\ \/ SessionList!Settles(x, w)'
            \/ v10 /\ \A k \in Requests : SessionList!Read(k) /\ x \in v8[k].touched => v8[k].stale
  <2> SUFFICES ASSUME v8[r].kind \in {"start", "stop"}, x \notin T, ~v9'
               PROVE  /\ v2[x] # "absent"
                      /\ SessionList!Settles(x, w) => SessionList!Settles(x, w)'
                      /\ \/ SessionList!Settles(x, w)'
                         \/ v10 /\ \A k \in Requests : SessionList!Read(k) /\ x \in v8[k].touched => v8[k].stale
    OBVIOUS
  <2>1. v2[x] # "absent"
    BY <1>7 DEF SessionList!HandlersKeepUp, L
  <2>2. SessionList!Settles(x, w) => SessionList!Settles(x, w)'
    BY <1>4 DEF SessionList!Settles
  <2>3. \/ SessionList!Told(x)
        \/ v10 /\ \A k \in Requests : SessionList!Read(k) /\ x \in v8[k].touched => v8[k].stale
    BY <1>1 DEF SessionList!ChangeIsTold
  <2>4. v1[x] = "gone" => SessionList!Deleting(x)
    BY <1>7, <2>1 DEF SessionList!DeletedStaysOff
  <2>5. SessionList!Told(x) => SessionList!Settles(x, w)'
    BY <1>4, <2>4 DEF SessionList!Settles
  <2> QED
    BY <2>1, <2>2, <2>3, <2>5
<1>13. SessionList!EventsEndTrue'
  BY DEF SessionList!EventsEndTrue
<1>14. SessionList!AbsentIsUnknown'
  <2>1. \A s \in WaSessions : v1[s] = "absent" => s # x /\ L[s] = "absent"
    BY <1>1 DEF SessionList!AbsentIsUnknown, SessionList!Creating, L
  <2> QED
    BY <1>4, <1>5, <1>6, <2>1 DEF SessionList!AbsentIsUnknown
<1>15. SessionList!CreatedIsNew'
  <2>1. \A k \in Requests : \A s \in WaSessions :
          SessionList!Did(k, {"create"}, s)' /\ s \notin v8'[k].touched =>
            SessionList!Did(k, {"create"}, s) /\ s \notin v8[k].touched /\ s # x
    BY <1>2, <1>5, DidHandlesNext
  <2>2. \A k \in Requests : \A s \in WaSessions :
          SessionList!Did(k, {"create"}, s) /\ s \notin v8[k].touched => L[s] = "absent"
    BY DEF SessionList!CreatedIsNew, L
  <2> QED
    BY <1>4, <1>5, <1>6, <2>1, <2>2 DEF SessionList!CreatedIsNew
<1>16. SessionList!DeletedStaysOff'
  <2>1. \A k \in Requests : \A s \in WaSessions : SessionList!Did(k, {"delete"}, s)' => v1[s] = "gone"
    BY <1>2 DEF SessionList!DeletedStaysOff
  <2>2. ASSUME NEW s \in WaSessions, v1[s] = "gone", ~SessionList!Deleting(s)', ~v9'
        PROVE  v2'[s] = "absent"
    <3>1. CASE s = x /\ v8[r].kind = "delete"
      BY <1>1, <1>6, <3>1
    <3>2. CASE s # x \/ v8[r].kind # "delete"
      <4>1. ~SessionList!Deleting(s) /\ v2[s] = "absent"
        BY <1>4, <1>7, <2>2, <3>2 DEF SessionList!DeletedStaysOff
      <4>2. CASE s # x
        BY <1>8, <2>2, <4>1, <4>2
      <4>3. CASE s = x
        <5>1. x \in T
          BY <1>1, <1>11, <1>12, <2>2, <3>2, <4>1, <4>3
        <5> QED
          BY <1>7, <2>2, <4>1, <4>3, <5>1
      <4> QED
        BY <4>2, <4>3
    <3> QED
      BY <3>1, <3>2
  <2>3. ASSUME NEW s \in WaSessions, v1[s] = "gone", ~SessionList!Deleting(s)', NEW k \in Requests,
               SessionList!Read(k)', s \notin v8'[k].touched
        PROVE  v8'[k].list[s] = "absent"
    BY <1>4, <1>5, <2>3 DEF SessionList!DeletedStaysOff
  <2> QED
    BY <2>1, <2>2, <2>3 DEF SessionList!DeletedStaysOff
<1>17. SessionList!HandlersKeepUp'
  <2>1. ASSUME NEW k \in Requests, SessionList!Handles(k)', ~v9', NEW s \in WaSessions \ v8'[k].touched
        PROVE  v8'[k].list[s] = v2'[s]
    BY <1>5, <1>7, <1>8, <2>1 DEF SessionList!HandlersKeepUp
  <2>2. ASSUME NEW k \in Requests, SessionList!Handles(k)', v8'[k].kind # "create"
        PROVE  v8'[k].list[v8'[k].of] # "absent"
    BY <1>5, <2>2 DEF SessionList!HandlersKeepUp
  <2> QED
    BY <2>1, <2>2 DEF SessionList!HandlersKeepUp
<1>18. SessionList!ChangeIsTold'
  <2>1. \A k \in Requests : \A s \in WaSessions :
          SessionList!Did(k, {"start", "stop"}, s)' /\ s \notin v8'[k].touched =>
            SessionList!Did(k, {"start", "stop"}, s) /\ s \notin v8[k].touched /\ s # x
    BY <1>2, <1>5, DidHandlesNext
  <2>2. \A k \in Requests : \A s \in WaSessions :
          SessionList!Read(k)' /\ s \in v8'[k].touched /\ s # x =>
            SessionList!Read(k) /\ s \in v8[k].touched /\ v8'[k].stale = v8[k].stale
    BY <1>5
  <2> QED
    BY <1>4, <2>1, <2>2 DEF SessionList!ChangeIsTold
<1>19. SessionList!ListsSettle'
  <2>1. ASSUME NEW k \in Requests, SessionList!Read(k)', ~v8'[k].stale, NEW s \in WaSessions,
               s \notin v8'[k].touched \/ (~v9' /\ v8'[k].list[s] = v2'[s]),
               NEW p, p = v8'[k].list[s]
        PROVE  SessionList!Settles(s, p)'
    <3>1. SessionList!Read(k) /\ v8[k].list[s] = p /\ ~v8[k].stale
          /\ (s \in v8'[k].touched <=> s \in v8[k].touched \/ s = x)
      BY <1>5, <2>1
    <3>2. CASE s # x
      <4>1. s \notin v8[k].touched \/ (~v9 /\ p = v2[s])
        BY <1>7, <1>8, <2>1, <3>1, <3>2
      <4>2. SessionList!Settles(s, p)
        BY <3>1, <4>1 DEF SessionList!ListsSettle
      <4> QED
        BY <1>9, <3>2, <4>2
    <3>3. CASE s = x
      <4>1. ~v9' /\ p = w /\ ~v9
        BY <1>6, <1>7, <2>1, <3>1, <3>3
      <4>2. CASE v8[r].kind = "delete"
        BY <1>11, <3>3, <4>1, <4>2
      <4>3. CASE v8[r].kind # "delete" /\ x \in T
        <5>1. v2[x] = w
          BY <1>10, <4>1, <4>3
        <5>2. SessionList!Settles(s, p)
          BY <3>1, <3>3, <4>1, <5>1 DEF SessionList!ListsSettle
        <5> QED
          BY <1>10, <3>3, <4>1, <4>3, <5>2
      <4>4. CASE v8[r].kind = "create" /\ x \notin T
        BY <1>11, <3>3, <4>1, <4>4
      <4>5. CASE v8[r].kind \in {"start", "stop"} /\ x \notin T
        <5>1. CASE x \in v8[k].touched
          BY <1>12, <3>1, <3>3, <4>1, <4>5, <5>1
        <5>2. CASE x \notin v8[k].touched
          <6>1. SessionList!Settles(s, p)
            BY <3>1, <3>3, <5>2 DEF SessionList!ListsSettle
          <6> QED
            BY <1>12, <3>3, <4>1, <4>5, <6>1
        <5> QED
          BY <5>1, <5>2
      <4> QED
        BY <1>1, <4>2, <4>3, <4>4, <4>5
    <3> QED
      BY <3>2, <3>3
  <2>2. ASSUME ~v10', ~v9', NEW s \in WaSessions, NEW p, p = v2'[s]
        PROVE  SessionList!Settles(s, p)'
    <3>1. ~v9 /\ ~v10
      BY <1>7, <2>2
    <3>2. \A t \in WaSessions : SessionList!Settles(t, v2[t])
      BY <3>1 DEF SessionList!ListsSettle
    <3>3. CASE s # x
      BY <1>8, <1>9, <2>2, <3>2, <3>3
    <3>4. CASE s = x
      <4>1. p = w
        BY <1>6, <2>2, <3>4
      <4>2. x \in T /\ v8[r].kind # "delete" => SessionList!Settles(x, w)
        BY <1>10, <2>2, <3>2
      <4> QED
        BY <1>1, <1>10, <1>11, <1>12, <2>2, <3>1, <3>4, <4>1, <4>2
    <3> QED
      BY <3>3, <3>4
  <2> HIDE DEF T
  <2> QED
    BY <2>1, <2>2 DEF SessionList!ListsSettle
<1>20. SessionList!FetchesAreOrdered'
  BY <1>5 DEF SessionList!FetchesAreOrdered
<1> QED
  BY <1>13, <1>14, <1>15, <1>16, <1>17, <1>18, <1>19, <1>20

(* The requests as TypeOK has them, and the polls among them.               *)
TypedRequests(N) ==
  /\ N \in [Requests -> SessionList!Request \cup {SessionList!Free}]
  /\ \A k \in Requests : N[k] # SessionList!Free /\ (N[k].kind # "fetch" \/ N[k].then # "none") =>
       N[k].of \in WaSessions

PollsIn(N, k) == N[k] # SessionList!Free /\ N[k].kind = "poll"
PollsKeep == \A k \in Requests : PollsIn(v8', k) => PollsIn(v8, k) /\ v8'[k].of = v8[k].of

LEMMA RequestsTyped ==
  ASSUME SessionList!TypeOK
  PROVE  TypedRequests(v8)
BY DEF SessionList!TypeOK, TypedRequests, SessionList!Busy

LEMMA TouchedTyped ==
  ASSUME NEW R, TypedRequests(R), NEW W \in SUBSET WaSessions, NEW lost \in BOOLEAN
  PROVE  /\ TypedRequests(SessionList!Touched(R, W, lost))
         /\ \A k \in Requests : PollsIn(SessionList!Touched(R, W, lost), k) =>
              PollsIn(R, k) /\ SessionList!Touched(R, W, lost)[k].of = R[k].of
<1>1. PICK N : N = SessionList!Touched(R, W, lost)
  OBVIOUS
<1>2. /\ N \in [Requests -> SessionList!Request \cup {SessionList!Free}]
      /\ \A k \in Requests : TouchedAs(N[k], R[k], W, lost)
  BY <1>1, TouchedIs DEF TypedRequests
<1>4. \A k \in Requests : N[k] # SessionList!Free =>
        /\ R[k] # SessionList!Free /\ N[k].kind = R[k].kind /\ N[k].then = R[k].then /\ N[k].of = R[k].of
  BY <1>2 DEF TouchedAs
<1>5. TypedRequests(N)
  BY <1>2, <1>4 DEF TypedRequests
<1>6. \A k \in Requests : PollsIn(N, k) => PollsIn(R, k) /\ N[k].of = R[k].of
  BY <1>4 DEF PollsIn
<1> QED
  BY <1>1, <1>5, <1>6

(* A request that is made, and one that ends.                               *)
AskedAs(q, kind, s, next) ==
  /\ q \in SessionList!Request /\ q # SessionList!Free
  /\ q.kind = kind /\ q.of = s /\ q.then = next /\ q.pc = "asked" /\ q.touched = {}
  /\ kind \in SessionList!Handlers => q.list = v2

LEMMA AskedIs ==
  ASSUME SessionList!TypeOK, NEW kind \in SessionList!PageKinds, NEW s \in WaSessions \cup {"none"},
         NEW next \in {"none", "show", "showUnlessReady"}
  PROVE  AskedAs(SessionList!Asked(kind, s, next), kind, s, next)
<1> DEFINE q == SessionList!Asked(kind, s, next)
<1>1. v2 \in SessionList!Lists /\ SessionList!Nothing \in SessionList!Lists
  BY DEF SessionList!TypeOK, SessionList!Lists, SessionList!Nothing, SessionList!Statuses
<1>2. /\ q.kind = kind /\ q.of = s /\ q.then = next /\ q.pc = "asked" /\ q.touched = {}
      /\ q.list = IF kind \in SessionList!Handlers THEN v2 ELSE SessionList!Nothing
  BY DEF SessionList!Asked
<1>3. q \in SessionList!Request
  BY <1>1 DEF SessionList!Asked, SessionList!Request
<1> QED
  BY <1>2, <1>3, FreeIs DEF AskedAs

LEMMA AskedTyped ==
  ASSUME SessionList!TypeOK, NEW N, TypedRequests(N), NEW r \in Requests,
         NEW kind \in SessionList!PageKinds, NEW s \in WaSessions \cup {"none"},
         NEW next \in {"none", "show", "showUnlessReady"},
         kind # "fetch" \/ next # "none" => s \in WaSessions,
         v8' = [N EXCEPT ![r] = SessionList!Asked(kind, s, next)]
  PROVE  /\ TypedRequests(v8')
         /\ v8'[r] = SessionList!Asked(kind, s, next) /\ \A k \in Requests \ {r} : v8'[k] = N[k]
         /\ kind \in {"fetch", "show", "poll"} => FreshRequest(v8'[r])
<1> DEFINE q == SessionList!Asked(kind, s, next)
<1>0. q = SessionList!Asked(kind, s, next)
  OBVIOUS
<1> HIDE DEF q
<1>1. /\ q \in SessionList!Request /\ q # SessionList!Free
      /\ q.kind = kind /\ q.of = s /\ q.then = next /\ q.pc = "asked"
  BY <1>0, AskedIs DEF AskedAs
<1>2. v8' = [N EXCEPT ![r] = q]
  BY <1>0
<1>3. v8'[r] = q /\ \A k \in Requests \ {r} : v8'[k] = N[k]
  BY <1>2 DEF TypedRequests
<1>4. v8' \in [Requests -> SessionList!Request \cup {SessionList!Free}]
  BY <1>1, <1>2 DEF TypedRequests
<1>5. TypedRequests(v8')
  BY <1>1, <1>3, <1>4 DEF TypedRequests
<1> QED
  BY <1>0, <1>1, <1>3, <1>5 DEF FreshRequest

LEMMA EndedTyped ==
  ASSUME NEW N, TypedRequests(N), NEW r \in Requests, v8' = [N EXCEPT ![r] = SessionList!Free]
  PROVE  /\ TypedRequests(v8')
         /\ v8'[r] = SessionList!Free /\ \A k \in Requests \ {r} : v8'[k] = N[k]
<1>1. v8'[r] = SessionList!Free /\ \A k \in Requests \ {r} : v8'[k] = N[k]
  BY DEF TypedRequests
<1>2. v8' \in [Requests -> SessionList!Request \cup {SessionList!Free}]
  BY DEF TypedRequests
<1> QED
  BY <1>1, <1>2 DEF TypedRequests

(* One that is answered.                                                    *)
AnsweredAs(N, r, step, ok) ==
  /\ TypedRequests(N) /\ \A k \in Requests \ {r} : N[k] = v8[k]
  /\ N[r] # SessionList!Free /\ N[r].kind = v8[r].kind /\ N[r].of = v8[r].of
  /\ N[r].pc = step /\ N[r].ok = ok /\ N[r].list = v8[r].list
  /\ N[r].touched = v8[r].touched /\ N[r].stale = v8[r].stale

LEMMA AnsweredTyped ==
  ASSUME SessionList!TypeOK, NEW r \in Requests, SessionList!Busy(r), NEW ok \in BOOLEAN,
         NEW step \in {"answered", "checked"}, NEW N, N = [v8 EXCEPT ![r].pc = step, ![r].ok = ok]
  PROVE  AnsweredAs(N, r, step, ok)
<1> DEFINE n == [v8[r] EXCEPT !.pc = step, !.ok = ok]
<1>1. TypedRequests(v8) /\ v8[r] \in SessionList!Request
  BY RequestsTyped, RequestIs
<1>2. /\ n \in SessionList!Request
      /\ n.kind = v8[r].kind /\ n.of = v8[r].of /\ n.then = v8[r].then
      /\ n.pc = step /\ n.ok = ok /\ n.list = v8[r].list
      /\ n.touched = v8[r].touched /\ n.stale = v8[r].stale
  BY <1>1 DEF SessionList!Request
<1>3. N = [v8 EXCEPT ![r] = n]
  BY <1>1 DEF TypedRequests
<1> HIDE DEF n
<1>4. N[r] = n /\ \A k \in Requests \ {r} : N[k] = v8[k]
  BY <1>1, <1>3 DEF TypedRequests
<1>5. N \in [Requests -> SessionList!Request \cup {SessionList!Free}]
  BY <1>1, <1>2, <1>3 DEF TypedRequests
<1>6. v8[r] # SessionList!Free
  BY DEF SessionList!Busy
<1>7. TypedRequests(N)
  BY <1>1, <1>2, <1>4, <1>5, <1>6 DEF TypedRequests
<1> QED
  BY <1>2, <1>4, <1>7, FreeIs DEF AnsweredAs

LEMMA FetchTyped ==
  ASSUME SessionList!TypeOK, NEW r \in Requests, SessionList!Busy(r), v8[r].kind = "fetch",
         v8' = [v8 EXCEPT ![r].pc = "answered", ![r].list = SessionList!Listed,
                          ![r].touched = {}, ![r].stale = FALSE]
  PROVE  /\ TypedRequests(v8') /\ \A k \in Requests \ {r} : v8'[k] = v8[k]
         /\ v8'[r] # SessionList!Free /\ v8'[r].kind = "fetch" /\ v8'[r].pc = "answered"
         /\ v8'[r].list = SessionList!Listed /\ v8'[r].touched = {} /\ v8'[r].stale = FALSE
<1> DEFINE n == [v8[r] EXCEPT !.pc = "answered", !.list = SessionList!Listed, !.touched = {}, !.stale = FALSE]
<1>1. TypedRequests(v8) /\ v8[r] \in SessionList!Request
  BY RequestsTyped, RequestIs
<1>2. SessionList!Listed \in SessionList!Lists
  BY DEF SessionList!TypeOK, SessionList!Listed, SessionList!Lists, SessionList!Statuses
<1>3. /\ n \in SessionList!Request
      /\ n.kind = v8[r].kind /\ n.of = v8[r].of /\ n.then = v8[r].then
      /\ n.pc = "answered" /\ n.list = SessionList!Listed /\ n.touched = {} /\ n.stale = FALSE
  BY <1>1, <1>2 DEF SessionList!Request
<1>4. v8' = [v8 EXCEPT ![r] = n]
  BY <1>1 DEF TypedRequests
<1> HIDE DEF n
<1>5. v8'[r] = n /\ \A k \in Requests \ {r} : v8'[k] = v8[k]
  BY <1>1, <1>4 DEF TypedRequests
<1>6. v8' \in [Requests -> SessionList!Request \cup {SessionList!Free}]
  BY <1>1, <1>3, <1>4 DEF TypedRequests
<1>7. v8[r] # SessionList!Free
  BY DEF SessionList!Busy
<1>8. TypedRequests(v8')
  BY <1>1, <1>3, <1>5, <1>6, <1>7 DEF TypedRequests
<1> QED
  BY <1>3, <1>5, <1>8, FreeIs

(* What the dialog is named after is left alone.                            *)
LEMMA RefSame ==
  ASSUME SessionList!RefIsNamed, v6' = v6, v7' = v7, v11' = v11, PollsKeep
  PROVE  SessionList!RefIsNamed'
BY DEF SessionList!RefIsNamed, PollsKeep, PollsIn, SessionList!Busy

LEMMA TypesFollow ==
  ASSUME v1' \in [WaSessions -> SessionList!Statuses \cup {"gone"}], v2' \in SessionList!Lists,
         v3' \in BOOLEAN, v4' \in {"down", "subscribed"},
         v5' \in Seq([of : WaSessions, status : SessionList!Statuses]),
         v6' \in [of : WaSessions, name : WaSessions \cup {""}] \cup {SessionList!Closed},
         v7' \in WaSessions \cup {""}, TypedRequests(v8'),
         v9' \in BOOLEAN, v10' \in BOOLEAN, v11' \in BOOLEAN
  PROVE  SessionList!TypeOK'
BY DEF SessionList!TypeOK, TypedRequests, SessionList!Busy

LEMMA TypesAre ==
  ASSUME SessionList!TypeOK
  PROVE  /\ v1 \in [WaSessions -> SessionList!Statuses \cup {"gone"}] /\ v2 \in SessionList!Lists
         /\ v3 \in BOOLEAN /\ v4 \in {"down", "subscribed"}
         /\ v5 \in Seq([of : WaSessions, status : SessionList!Statuses])
         /\ v6 \in [of : WaSessions, name : WaSessions \cup {""}] \cup {SessionList!Closed}
         /\ v7 \in WaSessions \cup {""} /\ TypedRequests(v8)
         /\ v9 \in BOOLEAN /\ v10 \in BOOLEAN /\ v11 \in BOOLEAN
BY RequestsTyped DEF SessionList!TypeOK

LEMMA UntouchedKeeps ==
  ASSUME SessionList!TypeOK, v8' = v8
  PROVE  Kept({}, FALSE) /\ DidSame /\ PollsKeep
<1>1. {} \in SUBSET Requests /\ (\A k \in Requests \ {} : v8'[k] = v8[k]) /\ \A k \in {} : FreshRequest(v8'[k])
  OBVIOUS
<1>2. Kept({}, FALSE)
  BY <1>1, PlainKeeps
<1>3. DidSame
  BY DEF DidSame, SessionList!Did, SessionList!Busy
<1> QED
  BY <1>2, <1>3 DEF PollsKeep

(* The connection, and its loss.                                            *)
LEMMA ListSocketMoves ==
  ASSUME SessionList!ListInv, SessionList!SocketMoves
  PROVE  SessionList!ListInv'
<1>1. SessionList!TypeOK /\ CoreInv /\ SessionList!RefIsNamed
  BY DEF SessionList!ListInv, CoreInv
<1>2. /\ v1' = v1 /\ v2' = v2 /\ v3' = v3 /\ v6' = v6 /\ v7' = v7 /\ v9' = v9 /\ v11' = v11
  BY DEF SessionList!SocketMoves
<1>3. CASE v4' = "subscribed" /\ v5' = v5 /\ v10' = v10 /\ v8' = v8
  <2>1. Kept({}, FALSE) /\ DidSame /\ PollsKeep
    BY <1>1, <1>3, UntouchedKeeps
  <2>2. CoreInv'
    BY <1>1, <1>2, <1>3, <2>1, CoreSame
  <2>3. SessionList!TypeOK'
    BY <1>1, <1>2, <1>3, TypesAre, TypesFollow
  <2>4. SessionList!RefIsNamed'
    BY <1>1, <1>2, <2>1, RefSame
  <2> QED
    BY <2>2, <2>3, <2>4 DEF SessionList!ListInv, CoreInv
<1>4. CASE /\ v4' = "down" /\ v5' = <<>> /\ v10' = (v10 \/ v5 # <<>>)
           /\ v8' = SessionList!Touched(v8, {}, v5 # <<>>)
  <2>1. /\ Kept({}, v5 # <<>>)
        /\ \A k \in Requests : \A K \in KindSets : \A s :
             SessionList!Did(k, K, s)' <=> SessionList!Did(k, K, s) /\ k \notin {}
    <3>1. {} \in SUBSET WaSessions /\ {} \in SUBSET Requests /\ (v5 # <<>>) \in BOOLEAN
      OBVIOUS
    <3>2. PICK b \in BOOLEAN : b = (v5 # <<>>)
      BY <3>1
    <3>3. v8' = SessionList!Touched(v8, {}, b)
      BY <1>4, <3>2
    <3>4. /\ Kept({}, b)
          /\ \A k \in Requests : \A K \in KindSets : \A s :
               SessionList!Did(k, K, s)' <=> SessionList!Did(k, K, s) /\ k \notin {}
      BY <1>1, <3>1, <3>3, TouchedKeeps
    <3> QED
      BY <3>2, <3>4
  <2>2. DidSame
    BY <2>1 DEF DidSame
  <2>3. CoreInv'
    <3>1. CASE v5 = <<>>
      <4>1. Kept({}, FALSE)
        BY <2>1, <3>1
      <4>2. v5' = v5 /\ v10' = v10
        BY <1>1, <1>4, <3>1, TypesAre
      <4> QED
        BY <1>1, <1>2, <1>4, <2>2, <3>1, <4>1, <4>2, CoreSame
    <3>2. CASE v5 # <<>>
      <4>1. Kept({}, TRUE)
        BY <2>1, <3>2
      <4>2. v5' = <<>> /\ v10' = TRUE
        BY <1>4, <3>2
      <4>3. \A k \in Requests : \A s :
              /\ SessionList!Did(k, {"create"}, s)' <=> SessionList!Did(k, {"create"}, s)
              /\ SessionList!Did(k, {"delete"}, s)' <=> SessionList!Did(k, {"delete"}, s)
        BY <2>2, DidsStay
      <4> QED
        BY <1>1, <1>2, <4>1, <4>2, <4>3, CoreLost
    <3> QED
      BY <3>1, <3>2
  <2>4. /\ TypedRequests(v8')
        /\ \A k \in Requests : PollsIn(v8', k) => PollsIn(v8, k) /\ v8'[k].of = v8[k].of
    <3>1. {} \in SUBSET WaSessions /\ (v5 # <<>>) \in BOOLEAN
      OBVIOUS
    <3> QED
      BY <1>1, <1>4, <3>1, RequestsTyped, TouchedTyped
  <2>5. SessionList!TypeOK'
    <3>1. v10' \in BOOLEAN /\ v5' \in Seq([of : WaSessions, status : SessionList!Statuses])
      BY <1>4
    <3> QED
      BY <1>1, <1>2, <1>4, <2>4, <3>1, TypesAre, TypesFollow
  <2>6. SessionList!RefIsNamed'
    BY <1>1, <1>2, <2>4, RefSame DEF PollsKeep
  <2> QED
    BY <2>3, <2>5, <2>6 DEF SessionList!ListInv, CoreInv
<1> QED
  BY <1>3, <1>4 DEF SessionList!SocketMoves

(* The dialog that is closed.                                               *)
LEMMA ListCloses ==
  ASSUME SessionList!ListInv, SessionList!Closes
  PROVE  SessionList!ListInv'
<1>1. SessionList!TypeOK /\ CoreInv /\ SessionList!RefIsNamed
  BY DEF SessionList!ListInv, CoreInv
<1>2. /\ v1' = v1 /\ v2' = v2 /\ v3' = v3 /\ v4' = v4 /\ v5' = v5 /\ v6' = SessionList!Closed /\ v7' = v7
      /\ v8' = v8 /\ v9' = v9 /\ v10' = v10 /\ v11' = v11
  BY DEF SessionList!Closes
<1>3. Kept({}, FALSE) /\ DidSame /\ PollsKeep
  BY <1>1, <1>2, UntouchedKeeps
<1>4. CoreInv'
  <2>1. v4' = "down" => v5 = <<>>
    BY <1>1, <1>2 DEF CoreInv, SessionList!EventsEndTrue
  <2> QED
    BY <1>1, <1>2, <1>3, <2>1, CoreSame
<1>5. SessionList!TypeOK'
  BY <1>1, <1>2, TypesAre, TypesFollow
<1>6. SessionList!RefIsNamed'
  BY <1>1, <1>2 DEF SessionList!RefIsNamed, SessionList!Busy
<1> QED
  BY <1>4, <1>5, <1>6 DEF SessionList!ListInv, CoreInv

(* What an answer leaves of the requests, told or lost.                     *)
LEMMA AnsweredListKeeps ==
  ASSUME SessionList!TypeOK, NEW r \in Requests, SessionList!Busy(r), v8[r].pc = "asked", v8[r].kind # "fetch",
         NEW ok \in BOOLEAN, NEW R, AnsweredAs(R, r, "answered", ok), NEW lost \in BOOLEAN,
         IF lost THEN v8' = SessionList!Touched(R, {}, TRUE) ELSE v8' = R
  PROVE  /\ Kept({}, lost) /\ PollsKeep /\ TypedRequests(v8')
         /\ \A k \in Requests : \A K \in KindSets : \A s :
              SessionList!Did(k, K, s)' <=>
                SessionList!Did(k, K, s) \/ (k = r /\ ok /\ v8[r].kind \in K /\ s = v8[r].of)
<1>1. /\ TypedRequests(R) /\ \A k \in Requests \ {r} : R[k] = v8[k]
      /\ R[r] # SessionList!Free /\ R[r].kind = v8[r].kind /\ R[r].of = v8[r].of
      /\ R[r].pc = "answered" /\ R[r].ok = ok /\ R[r].list = v8[r].list
      /\ R[r].touched = v8[r].touched /\ R[r].stale = v8[r].stale
  BY DEF AnsweredAs
<1>2. /\ TypedRequests(v8')
      /\ \A k \in Requests : v8[k] = SessionList!Free => v8'[k] = SessionList!Free
      /\ \A k \in Requests : v8[k] # SessionList!Free =>
           /\ v8'[k] # SessionList!Free /\ v8'[k].kind = v8[k].kind /\ v8'[k].of = v8[k].of
           /\ v8'[k].list = v8[k].list
           /\ k # r => v8'[k].pc = v8[k].pc /\ v8'[k].ok = v8[k].ok
           /\ k = r => v8'[k].pc = "answered" /\ v8'[k].ok = ok
           /\ SessionList!HasList(R[k]) =>
                v8'[k].touched = v8[k].touched /\ v8'[k].stale = (v8[k].stale \/ lost)
  <2>0. v8[r] # SessionList!Free
    BY DEF SessionList!Busy
  <2>1. CASE lost
    <3>1. PICK N : N = SessionList!Touched(R, {}, TRUE)
      OBVIOUS
    <3>2. v8' = N
      BY <2>1, <3>1
    <3>3. TypedRequests(v8')
      <4>1. TypedRequests(SessionList!Touched(R, {}, TRUE))
        <5>1. {} \in SUBSET WaSessions /\ TRUE \in BOOLEAN
          OBVIOUS
        <5> QED
          BY <1>1, <5>1, TouchedTyped
      <4>2. v8' = SessionList!Touched(R, {}, TRUE)
        BY <2>1
      <4> QED
        BY <4>1, <4>2
    <3>4. \A k \in Requests : TouchedAs(N[k], R[k], {}, TRUE)
      BY <1>1, <3>1, TouchedIs DEF TypedRequests
    <3>5. \A k \in Requests : v8[k] = SessionList!Free => v8'[k] = SessionList!Free
      BY <1>1, <2>0, <3>2, <3>4 DEF TouchedAs
    <3>6. \A k \in Requests : R[k] # SessionList!Free =>
            /\ v8'[k] # SessionList!Free /\ v8'[k].kind = R[k].kind /\ v8'[k].of = R[k].of
            /\ v8'[k].list = R[k].list /\ v8'[k].pc = R[k].pc /\ v8'[k].ok = R[k].ok
            /\ SessionList!HasList(R[k]) =>
                 v8'[k].touched = R[k].touched /\ v8'[k].stale = (R[k].stale \/ lost)
      BY <2>1, <3>2, <3>4 DEF TouchedAs
    <3> QED
      BY <1>1, <2>0, <3>3, <3>5, <3>6
  <2>2. CASE ~lost
    <3>1. v8' = R
      BY <2>2
    <3>2. \A k \in Requests : v8[k] # SessionList!Free => v8[k].stale \in BOOLEAN
      BY RequestIs DEF SessionList!Busy
    <3> QED
      BY <1>1, <2>0, <2>2, <3>1, <3>2
  <2> QED
    BY <2>1, <2>2
<1>3. \A k \in Requests : (SessionList!Read(k) \/ SessionList!Handles(k)) => SessionList!HasList(R[k])
  BY <1>1 DEF SessionList!Read, SessionList!Handles, SessionList!HasList, SessionList!Busy
<1>4. \A k \in Requests : /\ SessionList!Read(k)' => SessionList!Read(k)
                          /\ SessionList!Handles(k)' => SessionList!Handles(k)
  BY <1>2 DEF SessionList!Read, SessionList!Handles, SessionList!Busy
<1>5. Kept({}, lost)
  <2>1. ASSUME NEW k \in Requests, SessionList!Read(k)'
        PROVE  /\ SessionList!Read(k) /\ v8'[k].list = v8[k].list
               /\ v8'[k].touched = v8[k].touched \cup {}
               /\ v8'[k].stale = (v8[k].stale \/ lost)
    <3>1. SessionList!Read(k) /\ v8[k] # SessionList!Free
      BY <1>4, <2>1 DEF SessionList!Read, SessionList!Busy
    <3> QED
      BY <1>2, <1>3, <3>1
  <2>2. ASSUME NEW k \in Requests, SessionList!Handles(k)'
        PROVE  /\ SessionList!Handles(k) /\ v8'[k].list = v8[k].list
               /\ v8'[k].kind = v8[k].kind /\ v8'[k].of = v8[k].of
               /\ v8'[k].touched = v8[k].touched \cup {}
    <3>1. SessionList!Handles(k) /\ v8[k] # SessionList!Free
      BY <1>4, <2>2 DEF SessionList!Handles, SessionList!Busy
    <3> QED
      BY <1>2, <1>3, <3>1
  <2> QED
    BY <2>1, <2>2 DEF Kept
<1>6. PollsKeep
  BY <1>2 DEF PollsKeep, PollsIn
<1>7. ASSUME NEW k \in Requests, NEW K \in KindSets, NEW s
      PROVE  SessionList!Did(k, K, s)' <=>
               SessionList!Did(k, K, s) \/ (k = r /\ ok /\ v8[r].kind \in K /\ s = v8[r].of)
  <2>1. CASE k = r
    <3>1. v8[r] # SessionList!Free /\ v8[r].pc # "answered"
      BY DEF SessionList!Busy
    <3> QED
      BY <1>2, <2>1, <3>1 DEF SessionList!Did, SessionList!Busy
  <2>2. CASE k # r
    BY <1>2, <2>2 DEF SessionList!Did, SessionList!Busy
  <2> QED
    BY <2>1, <2>2
<1> QED
  BY <1>2, <1>5, <1>6, <1>7

(* A status that changes at the gateway, whoever changed it.                *)
LEMMA ListTells ==
  ASSUME SessionList!ListInv, NEW s \in WaSessions, NEW st \in SessionList!Statuses, NEW R,
         SessionList!Tells(s, st, R), st # "absent", v1[s] \notin {"gone", "absent"},
         \A k \in Requests : SessionList!Did(k, {"create"}, s) => s \in v8[k].touched,
         NEW lost \in BOOLEAN, lost <=> v4 # "subscribed",
         Kept({}, lost), PollsKeep, TypedRequests(v8'),
         \A k \in Requests : \A x :
           /\ SessionList!Did(k, {"create"}, x)' <=> SessionList!Did(k, {"create"}, x)
           /\ SessionList!Did(k, {"delete"}, x)' <=> SessionList!Did(k, {"delete"}, x)
           /\ SessionList!Did(k, {"start", "stop"}, x)' => SessionList!Did(k, {"start", "stop"}, x) \/ x = s,
         UNCHANGED <<v2, v3, v4, v6, v7, v9, v11>>
  PROVE  SessionList!ListInv'
<1>1. SessionList!TypeOK /\ CoreInv /\ SessionList!RefIsNamed
  BY DEF SessionList!ListInv, CoreInv
<1>2. v1' = [v1 EXCEPT ![s] = st] /\ v2' = v2 /\ v4' = v4 /\ v9' = v9
  BY DEF SessionList!Tells
<1>3. v1 \in [WaSessions -> SessionList!Statuses \cup {"gone"}]
      /\ v5 \in Seq([of : WaSessions, status : SessionList!Statuses])
      /\ v4 \in {"down", "subscribed"}
  BY <1>1, TypesAre
<1>4. CASE v4 = "subscribed"
  <2>1. v5' = Append(v5, [of |-> s, status |-> st]) /\ v10' = v10 /\ ~lost
    BY <1>4 DEF SessionList!Tells
  <2>2. Kept({}, FALSE)
    <3>1. lost = FALSE
      BY <2>1
    <3> QED
      BY <3>1
  <2>3. CoreInv'
    BY <1>1, <1>2, <1>4, <2>1, <2>2, CoreTold
  <2>4. v1' \in [WaSessions -> SessionList!Statuses \cup {"gone"}]
        /\ v5' \in Seq([of : WaSessions, status : SessionList!Statuses])
    <3>1. [of |-> s, status |-> st] \in [of : WaSessions, status : SessionList!Statuses]
      OBVIOUS
    <3>2. PICK E : E = [of : WaSessions, status : SessionList!Statuses]
      OBVIOUS
    <3>3. PICK e \in E : e = [of |-> s, status |-> st]
      BY <3>1, <3>2
    <3>4. v5' \in Seq(E)
      BY <1>3, <2>1, <3>2, <3>3
    <3> QED
      BY <1>2, <1>3, <3>2, <3>4
  <2>5. SessionList!TypeOK'
    BY <1>1, <2>1, <2>4, TypesAre, TypesFollow
  <2>6. SessionList!RefIsNamed'
    BY <1>1, RefSame
  <2> QED
    BY <2>3, <2>5, <2>6 DEF SessionList!ListInv, CoreInv
<1>5. CASE v4 = "down"
  <2>1. v5' = v5 /\ v10' = TRUE /\ lost = TRUE
    BY <1>5 DEF SessionList!Tells
  <2>2. Kept({}, TRUE)
    BY <2>1
  <2>3. v5' = <<>>
    BY <1>1, <1>5, <2>1 DEF CoreInv, SessionList!EventsEndTrue
  <2>4. \A x \in WaSessions :
          \/ v1'[x] = v1[x]
          \/ /\ v1[x] \notin {"gone", "absent"} /\ v1'[x] \notin {"gone", "absent"}
             /\ \A k \in Requests : SessionList!Did(k, {"create"}, x) => x \in v8[k].touched
    <3>1. st \notin {"gone", "absent"}
      BY DEF SessionList!Statuses
    <3> QED
      BY <1>2, <1>3, <3>1
  <2>5. CoreInv'
    BY <1>1, <1>2, <2>1, <2>2, <2>3, <2>4, CoreLost
  <2>6. v1' \in [WaSessions -> SessionList!Statuses \cup {"gone"}]
    BY <1>2, <1>3
  <2>7. SessionList!TypeOK'
    BY <1>1, <2>1, <2>6, TypesAre, TypesFollow
  <2>8. SessionList!RefIsNamed'
    BY <1>1, RefSame
  <2> QED
    BY <2>5, <2>7, <2>8 DEF SessionList!ListInv, CoreInv
<1> QED
  BY <1>3, <1>4, <1>5

LEMMA ListServerChanges ==
  ASSUME SessionList!ListInv, NEW s \in WaSessions, NEW st \in SessionList!Statuses,
         SessionList!ServerChanges(s, st)
  PROVE  SessionList!ListInv'
<1>1. SessionList!TypeOK /\ CoreInv
  BY DEF SessionList!ListInv, CoreInv
<1>2. /\ v1[s] \in {"starting", "ready"} /\ st \in {"ready", "failed", "down"}
      /\ SessionList!Tells(s, st, v8) /\ UNCHANGED <<v2, v3, v4, v6, v7, v9, v11>>
  <2>1. /\ v1[s] \in DOMAIN SessionList!Follows /\ st \in SessionList!Follows[v1[s]]
        /\ SessionList!Tells(s, st, v8) /\ UNCHANGED <<v2, v3, v4, v6, v7, v9, v11>>
    BY DEF SessionList!ServerChanges
  <2>2. DOMAIN SessionList!Follows = {"starting", "ready"}
        /\ SessionList!Follows["starting"] = {"ready", "failed"} /\ SessionList!Follows["ready"] = {"down", "failed"}
    BY DEF SessionList!Follows
  <2> QED
    BY <2>1, <2>2
<1>3. \A k \in Requests : SessionList!Did(k, {"create"}, s) => s \in v8[k].touched
  BY <1>1, <1>2 DEF CoreInv, SessionList!CreatedIsNew
<1>4. PICK lost \in BOOLEAN : lost <=> v4 # "subscribed"
  OBVIOUS
<1>5. /\ Kept({}, lost) /\ PollsKeep /\ TypedRequests(v8') /\ DidSame
  <2>1. CASE v4 = "subscribed"
    <3>1. v8' = v8
      BY <1>2, <2>1 DEF SessionList!Tells
    <3>2. lost = FALSE
      BY <1>4, <2>1
    <3> QED
      BY <1>1, <3>1, <3>2, UntouchedKeeps, RequestsTyped
  <2>2. CASE v4 # "subscribed"
    <3>1. v8' = SessionList!Touched(v8, {}, TRUE)
      BY <1>2, <2>2 DEF SessionList!Tells
    <3>2. lost = TRUE /\ {} \in SUBSET WaSessions /\ {} \in SUBSET Requests /\ TRUE \in BOOLEAN
      BY <1>4, <2>2
    <3>3. /\ Kept({}, TRUE)
          /\ \A k \in Requests : \A K \in KindSets : \A x :
               SessionList!Did(k, K, x)' <=> SessionList!Did(k, K, x) /\ k \notin {}
      BY <1>1, <3>1, <3>2, TouchedKeeps
    <3>4. TypedRequests(v8)
      BY <1>1, RequestsTyped
    <3>5. /\ TypedRequests(v8')
          /\ \A k \in Requests : PollsIn(v8', k) => PollsIn(v8, k) /\ v8'[k].of = v8[k].of
      BY <3>1, <3>2, <3>4, TouchedTyped
    <3> QED
      BY <3>2, <3>3, <3>5 DEF DidSame, PollsKeep
  <2> QED
    BY <2>1, <2>2
<1>6. \A k \in Requests : \A x :
        /\ SessionList!Did(k, {"create"}, x)' <=> SessionList!Did(k, {"create"}, x)
        /\ SessionList!Did(k, {"delete"}, x)' <=> SessionList!Did(k, {"delete"}, x)
        /\ SessionList!Did(k, {"start", "stop"}, x)' => SessionList!Did(k, {"start", "stop"}, x) \/ x = s
  BY <1>5, DidsStay
<1> QED
  BY <1>2, <1>3, <1>4, <1>5, <1>6, ListTells

(* What is left of the requests when the page is told nothing.              *)
AnswerKept(r, ok) ==
  /\ Kept({}, FALSE) /\ PollsKeep /\ TypedRequests(v8')
  /\ \A k \in Requests : \A K \in KindSets : \A x :
       SessionList!Did(k, K, x)' <=>
         SessionList!Did(k, K, x) \/ (k = r /\ ok /\ v8[r].kind \in K /\ x = v8[r].of)

(* The gateway answers.                                                     *)
LEMMA ListAnswers ==
  ASSUME SessionList!ListInv, NEW r \in Requests, SessionList!Answers(r)
  PROVE  SessionList!ListInv'
<1> DEFINE s == v8[r].of
           kind == v8[r].kind
<1>0. SessionList!Busy(r) /\ v8[r].pc = "asked" /\ UNCHANGED <<v2, v3, v4, v6, v7, v9, v11>>
  BY DEF SessionList!Answers
<1>1. SessionList!TypeOK /\ CoreInv /\ SessionList!RefIsNamed
  BY DEF SessionList!ListInv, CoreInv
<1>2. kind # "fetch" => s \in WaSessions
  BY <1>0, <1>1, RequestIs
<1>3. kind \in SessionList!Handlers => SessionList!Handles(r)
  BY <1>0 DEF SessionList!Handles
<1>4. \A K \in KindSets : kind \in K => kind \in {"create", "delete", "start", "stop"}
  BY DEF KindSets
<1>5. ASSUME kind # "fetch", NEW ok \in BOOLEAN, v8' = SessionList!Answered(r, ok)
      PROVE  AnswerKept(r, ok)
  <2>1. PICK R : R = [v8 EXCEPT ![r].pc = "answered", ![r].ok = ok]
    OBVIOUS
  <2>2. AnsweredAs(R, r, "answered", ok)
    BY <1>0, <1>1, <2>1, AnsweredTyped
  <2>3. v8' = R
    BY <1>5, <2>1 DEF SessionList!Answered
  <2>4. FALSE \in BOOLEAN /\ IF FALSE THEN v8' = SessionList!Touched(R, {}, TRUE) ELSE v8' = R
    BY <2>3
  <2> QED
    BY <1>0, <1>1, <1>5, <2>2, <2>4, AnsweredListKeeps DEF AnswerKept
<1>6. ASSUME kind # "fetch", NEW ok \in BOOLEAN, v8' = SessionList!Answered(r, ok),
             ok => kind \in {"show", "poll"}, UNCHANGED <<v1, v5, v10>>
      PROVE  SessionList!ListInv'
  <2>0. AnswerKept(r, ok)
    BY <1>5, <1>6
  <2>1. Kept({}, FALSE) /\ PollsKeep /\ TypedRequests(v8')
    BY <2>0 DEF AnswerKept
  <2>2. DidSame
    BY <1>4, <1>6, <2>0 DEF DidSame, AnswerKept
  <2>3. v4' = "down" => v5 = <<>>
    BY <1>0, <1>1 DEF CoreInv, SessionList!EventsEndTrue
  <2>4. CoreInv'
    BY <1>0, <1>1, <1>6, <2>1, <2>2, <2>3, CoreSame
  <2>5. SessionList!TypeOK'
    BY <1>0, <1>1, <1>6, <2>1, TypesAre, TypesFollow
  <2>6. SessionList!RefIsNamed'
    BY <1>0, <1>1, <2>1, RefSame
  <2> QED
    BY <2>4, <2>5, <2>6 DEF SessionList!ListInv, CoreInv
<1>7. CASE /\ kind = "fetch" /\ UNCHANGED <<v1, v5, v10>>
           /\ v8' = [v8 EXCEPT ![r].pc = "answered", ![r].list = SessionList!Listed,
                               ![r].touched = {}, ![r].stale = FALSE]
  <2>1. /\ TypedRequests(v8') /\ \A k \in Requests \ {r} : v8'[k] = v8[k]
        /\ v8'[r] # SessionList!Free /\ v8'[r].kind = "fetch" /\ v8'[r].pc = "answered"
        /\ v8'[r].list = SessionList!Listed /\ v8'[r].touched = {} /\ v8'[r].stale = FALSE
    BY <1>0, <1>1, <1>7, FetchTyped
  <2>2. CoreInv'
    BY <1>0, <1>1, <1>7, <2>1, CoreFetchAnswered
  <2>3. SessionList!TypeOK'
    BY <1>0, <1>1, <1>7, <2>1, TypesAre, TypesFollow
  <2>4. PollsKeep
    BY <2>1 DEF PollsKeep, PollsIn
  <2>5. SessionList!RefIsNamed'
    BY <1>0, <1>1, <2>4, RefSame
  <2> QED
    BY <2>2, <2>3, <2>5 DEF SessionList!ListInv, CoreInv
<1>8. CASE /\ kind = "create" /\ v1[s] = "absent" /\ v1' = [v1 EXCEPT ![s] = "down"] /\ UNCHANGED <<v5, v10>>
           /\ v8' = SessionList!Answered(r, TRUE)
  <2>1. /\ Kept({}, FALSE) /\ PollsKeep /\ TypedRequests(v8')
        /\ \A k \in Requests : \A K \in KindSets : \A x :
             SessionList!Did(k, K, x)' <=>
               SessionList!Did(k, K, x) \/ (k = r /\ TRUE /\ v8[r].kind \in K /\ x = v8[r].of)
    <3>1. AnswerKept(r, TRUE)
      BY <1>5, <1>8
    <3> QED
      BY <3>1 DEF AnswerKept
  <2>2. \A k \in Requests : \A x :
           /\ SessionList!Did(k, {"create"}, x)' <=> SessionList!Did(k, {"create"}, x) \/ (k = r /\ x = s)
           /\ SessionList!Did(k, {"delete"}, x)' <=> SessionList!Did(k, {"delete"}, x)
           /\ SessionList!Did(k, {"start", "stop"}, x)' <=> SessionList!Did(k, {"start", "stop"}, x)
    BY <1>8, <2>1 DEF KindSets
  <2>3. s \in WaSessions
    BY <1>2, <1>8
  <2>4. CoreInv'
    BY <1>0, <1>1, <1>8, <2>1, <2>2, <2>3, CoreCreated
  <2>5. v1' \in [WaSessions -> SessionList!Statuses \cup {"gone"}]
    BY <1>1, <1>8, TypesAre DEF SessionList!Statuses
  <2>6. SessionList!TypeOK'
    BY <1>0, <1>1, <1>8, <2>1, <2>5, TypesAre, TypesFollow
  <2>7. SessionList!RefIsNamed'
    BY <1>0, <1>1, <2>1, RefSame
  <2> QED
    BY <2>4, <2>6, <2>7 DEF SessionList!ListInv, CoreInv
<1>9. CASE /\ kind = "delete" /\ v1' = [v1 EXCEPT ![s] = "gone"] /\ UNCHANGED <<v5, v10>>
           /\ v8' = SessionList!Answered(r, TRUE)
  <2>1. /\ Kept({}, FALSE) /\ PollsKeep /\ TypedRequests(v8')
        /\ \A k \in Requests : \A K \in KindSets : \A x :
             SessionList!Did(k, K, x)' <=>
               SessionList!Did(k, K, x) \/ (k = r /\ TRUE /\ v8[r].kind \in K /\ x = v8[r].of)
    <3>1. AnswerKept(r, TRUE)
      BY <1>5, <1>9
    <3> QED
      BY <3>1 DEF AnswerKept
  <2>2. \A k \in Requests : \A x :
           /\ SessionList!Did(k, {"create"}, x)' <=> SessionList!Did(k, {"create"}, x)
           /\ SessionList!Did(k, {"delete"}, x)' <=> SessionList!Did(k, {"delete"}, x) \/ (k = r /\ x = s)
           /\ SessionList!Did(k, {"start", "stop"}, x)' <=> SessionList!Did(k, {"start", "stop"}, x)
    BY <1>9, <2>1 DEF KindSets
  <2>3. s \in WaSessions /\ SessionList!Handles(r)
    BY <1>2, <1>3, <1>9 DEF SessionList!Handlers
  <2>4. CoreInv'
    BY <1>0, <1>1, <1>9, <2>1, <2>2, <2>3, CoreDeleted
  <2>5. v1' \in [WaSessions -> SessionList!Statuses \cup {"gone"}]
    BY <1>1, <1>9, TypesAre
  <2>6. SessionList!TypeOK'
    BY <1>0, <1>1, <1>9, <2>1, <2>5, TypesAre, TypesFollow
  <2>7. SessionList!RefIsNamed'
    BY <1>0, <1>1, <2>1, RefSame
  <2> QED
    BY <2>4, <2>6, <2>7 DEF SessionList!ListInv, CoreInv
<1>10. ASSUME kind \in {"start", "stop"}, v1[s] # "gone", NEW st \in {"starting", "down"},
              SessionList!Tells(s, st, SessionList!Answered(r, TRUE))
       PROVE  SessionList!ListInv'
  <2>1. s \in WaSessions /\ SessionList!Handles(r) /\ kind # "fetch"
    BY <1>2, <1>3, <1>10 DEF SessionList!Handlers
  <2>2. v1[s] # "absent"
    BY <1>1, <1>10, <2>1 DEF CoreInv, SessionList!AbsentIsUnknown
  <2>3. \A k \in Requests : SessionList!Did(k, {"create"}, s) => s \in v8[k].touched
    BY <1>1, <1>10, <2>1 DEF CoreInv, SessionList!CreatedIsNew
  <2>4. PICK lost \in BOOLEAN : lost <=> v4 # "subscribed"
    OBVIOUS
  <2>5. PICK R : R = [v8 EXCEPT ![r].pc = "answered", ![r].ok = TRUE]
    OBVIOUS
  <2>6. AnsweredAs(R, r, "answered", TRUE)
    BY <1>0, <1>1, <2>5, AnsweredTyped
  <2>7. R = SessionList!Answered(r, TRUE)
    BY <2>5 DEF SessionList!Answered
  <2>8. SessionList!Tells(s, st, R)
    BY <1>10, <2>7
  <2>9. IF lost THEN v8' = SessionList!Touched(R, {}, TRUE) ELSE v8' = R
    BY <2>4, <2>8 DEF SessionList!Tells
  <2>10. /\ Kept({}, lost) /\ PollsKeep /\ TypedRequests(v8')
         /\ \A k \in Requests : \A K \in KindSets : \A x :
              SessionList!Did(k, K, x)' <=>
                SessionList!Did(k, K, x) \/ (k = r /\ TRUE /\ v8[r].kind \in K /\ x = v8[r].of)
    BY <1>0, <1>1, <2>1, <2>6, <2>9, AnsweredListKeeps
  <2>11. \A k \in Requests : \A x :
           /\ SessionList!Did(k, {"create"}, x)' <=> SessionList!Did(k, {"create"}, x)
           /\ SessionList!Did(k, {"delete"}, x)' <=> SessionList!Did(k, {"delete"}, x)
           /\ SessionList!Did(k, {"start", "stop"}, x)' => SessionList!Did(k, {"start", "stop"}, x) \/ x = s
    BY <1>10, <2>10 DEF KindSets
  <2>12. st \in SessionList!Statuses /\ st # "absent"
    BY DEF SessionList!Statuses
  <2> HIDE DEF s
  <2> QED
    BY <1>0, <1>10, <2>1, <2>2, <2>3, <2>4, <2>8, <2>10, <2>11, <2>12, ListTells
<1> QED
  <2>1. \/ /\ kind = "fetch" /\ UNCHANGED <<v1, v5, v10>>
           /\ v8' = [v8 EXCEPT ![r].pc = "answered", ![r].list = SessionList!Listed,
                               ![r].touched = {}, ![r].stale = FALSE]
        \/ /\ kind \in {"show", "poll"} /\ UNCHANGED <<v1, v5, v10>>
           /\ \E ok \in BOOLEAN : v8' = SessionList!Answered(r, ok)
        \/ /\ kind = "create" /\ v1[s] = "absent" /\ v1' = [v1 EXCEPT ![s] = "down"] /\ UNCHANGED <<v5, v10>>
           /\ v8' = SessionList!Answered(r, TRUE)
        \/ /\ kind = "delete" /\ v1' = [v1 EXCEPT ![s] = "gone"] /\ UNCHANGED <<v5, v10>>
           /\ v8' = SessionList!Answered(r, TRUE)
        \/ /\ kind = "start" /\ v1[s] \in {"down", "failed"}
           /\ SessionList!Tells(s, "starting", SessionList!Answered(r, TRUE))
        \/ /\ kind = "stop" /\ v1[s] # "gone"
           /\ SessionList!Tells(s, "down", SessionList!Answered(r, TRUE))
        \/ /\ SessionList!Refused(v8[r]) /\ UNCHANGED <<v1, v5, v10>>
           /\ v8' = SessionList!Answered(r, FALSE)
    BY DEF SessionList!Answers
  <2>2. SessionList!Refused(v8[r]) => kind # "fetch"
    BY DEF SessionList!Refused
  <2> QED
    BY <1>6, <1>7, <1>8, <1>9, <1>10, <2>1, <2>2

(* What the user clicks, but for a QR.                                      *)
LEMMA ListClicks ==
  ASSUME SessionList!ListInv, NEW r \in Requests, NEW s \in WaSessions,
         NEW kind \in {"create", "delete", "start", "stop", "show"}, SessionList!Clicks(r, kind, s)
  PROVE  SessionList!ListInv'
<1>1. SessionList!TypeOK /\ CoreInv /\ SessionList!RefIsNamed
  BY DEF SessionList!ListInv, CoreInv
<1>2. /\ ~SessionList!Busy(r) /\ SessionList!Offered(kind, s) /\ UNCHANGED <<v1, v2, v3, v4, v5, v9, v10>>
      /\ v8' = [v8 EXCEPT ![r] = SessionList!Asked(kind, s, "none")]
      /\ IF kind = "show" THEN SessionList!Opens(s) ELSE UNCHANGED <<v6, v7, v11>>
  BY DEF SessionList!Clicks, SessionList!NextFree
<1>3. /\ TypedRequests(v8)
      /\ kind \in SessionList!PageKinds /\ s \in WaSessions \cup {"none"} /\ kind # "fetch"
      /\ "none" \in {"none", "show", "showUnlessReady"}
  BY <1>1, RequestsTyped DEF SessionList!PageKinds
<1>4. /\ TypedRequests(v8')
      /\ v8'[r] = SessionList!Asked(kind, s, "none") /\ \A k \in Requests \ {r} : v8'[k] = v8[k]
      /\ kind \in {"fetch", "show", "poll"} => FreshRequest(v8'[r])
  BY <1>1, <1>2, <1>3, AskedTyped
<1>5. AskedAs(v8'[r], kind, s, "none")
  BY <1>1, <1>3, <1>4, AskedIs
<1>6. v8[r] = SessionList!Free
  BY <1>2 DEF SessionList!Busy
<1>7. PollsKeep
  BY <1>4, <1>5 DEF PollsKeep, PollsIn, AskedAs
<1>8. v4' = "down" => v5 = <<>>
  BY <1>1, <1>2 DEF CoreInv, SessionList!EventsEndTrue
<1>9. CASE kind = "show"
  <2>1. {r} \in SUBSET Requests /\ \A k \in {r} : FreshRequest(v8'[k])
    BY <1>4, <1>9
  <2>2. /\ Kept({}, FALSE)
        /\ \A k \in Requests : \A K \in KindSets : \A x :
             SessionList!Did(k, K, x)' <=> SessionList!Did(k, K, x) /\ k \notin {r}
    BY <1>1, <1>4, <2>1, PlainKeeps
  <2>3. DidSame
    BY <1>6, <2>2 DEF DidSame, SessionList!Did, SessionList!Busy
  <2>4. CoreInv'
    BY <1>1, <1>2, <1>8, <2>2, <2>3, CoreSame
  <2>5. /\ v6' = [of |-> s, name |-> s] /\ v7' = s /\ v11' = (v11 \/ SessionList!PollsOther(s))
    BY <1>2, <1>9 DEF SessionList!Opens
  <2>6. v6' \in [of : WaSessions, name : WaSessions \cup {""}] \cup {SessionList!Closed}
        /\ v7' \in WaSessions \cup {""} /\ v11' \in BOOLEAN
    BY <2>5
  <2>7. SessionList!TypeOK'
    BY <1>1, <1>2, <1>4, <2>6, TypesAre, TypesFollow
  <2>8. SessionList!RefIsNamed'
    BY <1>7, <2>5 DEF SessionList!RefIsNamed, SessionList!PollsOther, SessionList!Busy, PollsKeep, PollsIn
  <2> QED
    BY <2>4, <2>7, <2>8 DEF SessionList!ListInv, CoreInv
<1>10. CASE kind # "show"
  <2>1. UNCHANGED <<v6, v7, v11>>
    BY <1>2, <1>10
  <2>2. /\ v8'[r].kind = kind /\ v8'[r].pc = "asked" /\ v8'[r].of = s /\ v8'[r].touched = {} /\ v8'[r].list = v2
        /\ kind \in SessionList!Handlers
    BY <1>5, <1>10 DEF AskedAs, SessionList!Handlers
  <2>3. kind = "create" <=> v2[s] = "absent"
    BY <1>2, <1>10 DEF SessionList!Offered
  <2>4. CoreInv'
    BY <1>1, <1>2, <1>4, <2>2, <2>3, CoreClicked
  <2>5. SessionList!TypeOK'
    BY <1>1, <1>2, <1>4, <2>1, TypesAre, TypesFollow
  <2>6. SessionList!RefIsNamed'
    BY <1>1, <1>7, <2>1, RefSame
  <2> QED
    BY <2>4, <2>5, <2>6 DEF SessionList!ListInv, CoreInv
<1> QED
  BY <1>9, <1>10

(* The interval of the dialog.                                              *)
LEMMA ListPollTicks ==
  ASSUME SessionList!ListInv, NEW r \in Requests, SessionList!PollTicks(r)
  PROVE  SessionList!ListInv'
<1>1. SessionList!TypeOK /\ CoreInv /\ SessionList!RefIsNamed
  BY DEF SessionList!ListInv, CoreInv
<1>2. v6 # SessionList!Closed /\ ~SessionList!Busy(r) /\ UNCHANGED <<v1, v2, v3, v4, v5, v9, v10, v11>>
  BY DEF SessionList!PollTicks, SessionList!NextFree
<1>3. v4' = "down" => v5 = <<>>
  BY <1>1, <1>2 DEF CoreInv, SessionList!EventsEndTrue
<1>4. CASE v6' = SessionList!Closed /\ v7' = "" /\ v8' = v8
  <2>1. Kept({}, FALSE) /\ DidSame /\ PollsKeep
    BY <1>1, <1>4, UntouchedKeeps
  <2>2. CoreInv'
    BY <1>1, <1>2, <1>3, <2>1, CoreSame
  <2>3. SessionList!TypeOK'
    BY <1>1, <1>2, <1>4, TypesAre, TypesFollow
  <2>4. SessionList!RefIsNamed'
    BY <1>4 DEF SessionList!RefIsNamed
  <2> QED
    BY <2>2, <2>3, <2>4 DEF SessionList!ListInv, CoreInv
<1>5. CASE v8' = [v8 EXCEPT ![r] = SessionList!Asked("poll", v6.of, "none")] /\ UNCHANGED <<v6, v7>>
  <2>1. /\ v6 \in [of : WaSessions, name : WaSessions \cup {""}] /\ TypedRequests(v8)
        /\ "poll" \in SessionList!PageKinds
    BY <1>1, <1>2, TypesAre DEF SessionList!PageKinds
  <2>2. v6.of \in WaSessions /\ v6.of \in WaSessions \cup {"none"} /\ "none" \in {"none", "show", "showUnlessReady"}
    BY <2>1
  <2>3. /\ TypedRequests(v8')
        /\ v8'[r] = SessionList!Asked("poll", v6.of, "none") /\ \A k \in Requests \ {r} : v8'[k] = v8[k]
        /\ "poll" \in {"fetch", "show", "poll"} => FreshRequest(v8'[r])
    BY <1>1, <1>5, <2>1, <2>2, AskedTyped
  <2>4. AskedAs(v8'[r], "poll", v6.of, "none")
    BY <1>1, <2>1, <2>2, <2>3, AskedIs
  <2>5. {r} \in SUBSET Requests /\ \A k \in {r} : FreshRequest(v8'[k])
    BY <2>3
  <2>6. /\ Kept({}, FALSE)
        /\ \A k \in Requests : \A K \in KindSets : \A x :
             SessionList!Did(k, K, x)' <=> SessionList!Did(k, K, x) /\ k \notin {r}
    BY <1>1, <2>3, <2>5, PlainKeeps
  <2>7. DidSame
    BY <1>2, <2>6 DEF DidSame, SessionList!Did, SessionList!Busy
  <2>8. CoreInv'
    BY <1>1, <1>2, <1>3, <2>6, <2>7, CoreSame
  <2>9. SessionList!TypeOK'
    BY <1>1, <1>2, <1>5, <2>3, TypesAre, TypesFollow
  <2>10. SessionList!RefIsNamed'
    <3>1. \A k \in Requests : PollsIn(v8', k) =>
            (PollsIn(v8, k) /\ v8'[k].of = v8[k].of) \/ v8'[k].of = v6.of
      BY <2>3, <2>4 DEF PollsIn, AskedAs
    <3>2. ~v11 => {v6.name, v7} \subseteq {v6.of, ""}
      BY <1>1, <1>2 DEF SessionList!RefIsNamed
    <3> QED
      BY <1>1, <1>2, <1>5, <3>1, <3>2 DEF SessionList!RefIsNamed, PollsIn, SessionList!Busy
  <2> QED
    BY <2>8, <2>9, <2>10 DEF SessionList!ListInv, CoreInv
<1> QED
  BY <1>4, <1>5 DEF SessionList!PollTicks

(* A request that ends, another one following it or none.                   *)
EndsAs(r, W, lost) ==
  /\ TypedRequests(v8') /\ Kept(W, lost) /\ PollsKeep
  /\ ~SessionList!Read(r)' /\ ~SessionList!Handles(r)'
  /\ \A k \in Requests : \A K \in KindSets : \A x :
       SessionList!Did(k, K, x)' <=> SessionList!Did(k, K, x) /\ k # r

LEMMA TouchedNothing ==
  ASSUME SessionList!TypeOK
  PROVE  SessionList!Touched(v8, {}, FALSE) = v8
<1>1. v8 \in [Requests -> SessionList!Request \cup {SessionList!Free}]
  BY DEF SessionList!TypeOK
<1>2. ASSUME NEW k \in Requests, SessionList!HasList(v8[k])
      PROVE  [v8[k] EXCEPT !.touched = v8[k].touched \cup {}, !.stale = v8[k].stale \/ FALSE] = v8[k]
  <2>1. v8[k] \in SessionList!Request
    BY <1>1, <1>2 DEF SessionList!HasList
  <2>2. v8[k].stale \in BOOLEAN
    BY <2>1 DEF SessionList!Request
  <2>3. (v8[k].stale \/ FALSE) = v8[k].stale /\ v8[k].touched \cup {} = v8[k].touched
    BY <2>2
  <2> QED
    BY <2>1, <2>3 DEF SessionList!Request
<1>3. SessionList!Touched(v8, {}, FALSE)
        = [k \in Requests |-> IF ~SessionList!HasList(v8[k]) THEN v8[k]
             ELSE [v8[k] EXCEPT !.touched = v8[k].touched \cup {}, !.stale = v8[k].stale \/ FALSE]]
  BY DEF SessionList!Touched
<1> QED
  BY <1>1, <1>2, <1>3

LEMMA RequestEnds ==
  ASSUME SessionList!TypeOK, NEW r \in Requests, NEW W \in SUBSET WaSessions, NEW lost \in BOOLEAN,
         NEW N, N = SessionList!Touched(v8, W, lost),
         NEW kind \in {"fetch", "show"}, NEW s \in WaSessions \cup {"none"},
         NEW next \in {"none", "show", "showUnlessReady"},
         kind # "fetch" \/ next # "none" => s \in WaSessions,
         \/ v8' = [N EXCEPT ![r] = SessionList!Asked(kind, s, next)]
         \/ v8' = [N EXCEPT ![r] = SessionList!Free]
  PROVE  EndsAs(r, W, lost)
<1>1. TypedRequests(v8) /\ kind \in SessionList!PageKinds
  BY RequestsTyped DEF SessionList!PageKinds
<1>2. TypedRequests(N)
  BY <1>1, TouchedTyped
<1>3. \A k \in Requests : PollsIn(N, k) => PollsIn(v8, k) /\ N[k].of = v8[k].of
  BY <1>1, TouchedTyped
<1>4. \A k \in Requests : N[k] = SessionList!Touched(v8, W, lost)[k]
  OBVIOUS
<1>5. /\ TypedRequests(v8') /\ \A k \in Requests \ {r} : v8'[k] = N[k]
      /\ FreshRequest(v8'[r]) /\ ~PollsIn(v8', r)
  <2>1. ASSUME NEW M, TypedRequests(M), v8' = [M EXCEPT ![r] = SessionList!Asked(kind, s, next)]
        PROVE  /\ TypedRequests(v8') /\ \A k \in Requests \ {r} : v8'[k] = M[k]
               /\ FreshRequest(v8'[r]) /\ ~PollsIn(v8', r)
    <3>1. PICK q : q = SessionList!Asked(kind, s, next)
      OBVIOUS
    <3>2. AskedAs(q, kind, s, next)
      BY <1>1, <3>1, AskedIs
    <3>3. q \in SessionList!Request /\ (q.of \in WaSessions \/ (q.kind = "fetch" /\ q.then = "none"))
      BY <3>2 DEF AskedAs
    <3>4. v8' = [M EXCEPT ![r] = q]
      BY <2>1, <3>1
    <3>5. v8'[r] = q /\ \A k \in Requests \ {r} : v8'[k] = M[k]
      BY <2>1, <3>4 DEF TypedRequests
    <3>6. v8' \in [Requests -> SessionList!Request \cup {SessionList!Free}]
      BY <2>1, <3>3, <3>4 DEF TypedRequests
    <3>7. TypedRequests(v8')
      BY <2>1, <3>3, <3>5, <3>6 DEF TypedRequests
    <3> QED
      BY <3>2, <3>5, <3>7 DEF AskedAs, PollsIn, FreshRequest
  <2>2. ASSUME NEW M, TypedRequests(M), v8' = [M EXCEPT ![r] = SessionList!Free]
        PROVE  /\ TypedRequests(v8') /\ \A k \in Requests \ {r} : v8'[k] = M[k]
               /\ FreshRequest(v8'[r]) /\ ~PollsIn(v8', r)
    <3>1. /\ TypedRequests(v8')
          /\ v8'[r] = SessionList!Free /\ \A k \in Requests \ {r} : v8'[k] = M[k]
      BY ONLY <2>2, EndedTyped
    <3> QED
      BY <3>1 DEF PollsIn, FreshRequest
  <2> QED
    BY <1>2, <2>1, <2>2
<1>6. /\ Kept(W, lost)
      /\ \A k \in Requests : \A K \in KindSets : \A x :
           SessionList!Did(k, K, x)' <=> SessionList!Did(k, K, x) /\ k \notin {r}
  <2>1. PICK S : S = {r}
    OBVIOUS
  <2>2. \A k \in S : FreshRequest(v8'[k])
    BY <1>5, <2>1
  <2>3. \A k \in Requests \ S : v8'[k] = SessionList!Touched(v8, W, lost)[k]
    BY <1>4, <1>5, <2>1
  <2>4. S \in SUBSET Requests
    BY <2>1
  <2>5. /\ Kept(W, lost)
        /\ \A k \in Requests : \A K \in KindSets : \A x :
             SessionList!Did(k, K, x)' <=> SessionList!Did(k, K, x) /\ k \notin S
    BY ONLY SessionList!TypeOK, <2>2, <2>3, <2>4, W \in SUBSET WaSessions, lost \in BOOLEAN, TouchedKeeps
  <2> QED
    BY <2>1, <2>5
<1>7. ~SessionList!Read(r)' /\ ~SessionList!Handles(r)'
  BY <1>5 DEF FreshRequest, SessionList!Read, SessionList!Handles, SessionList!Handlers, SessionList!Busy
<1>8. PollsKeep
  BY <1>3, <1>5 DEF PollsKeep, PollsIn
<1> QED
  BY <1>5, <1>6, <1>7, <1>8 DEF EndsAs

(* The same where the page is not written.                                  *)
LEMMA RequestEndsOnly ==
  ASSUME SessionList!TypeOK, NEW r \in Requests,
         NEW kind \in {"fetch", "show"}, NEW s \in WaSessions \cup {"none"},
         NEW next \in {"none", "show", "showUnlessReady"},
         kind # "fetch" \/ next # "none" => s \in WaSessions,
         \/ v8' = [v8 EXCEPT ![r] = SessionList!Asked(kind, s, next)]
         \/ v8' = [v8 EXCEPT ![r] = SessionList!Free]
  PROVE  EndsAs(r, {}, FALSE)
<1>1. {} \in SUBSET WaSessions /\ FALSE \in BOOLEAN
  OBVIOUS
<1>2. v8 = SessionList!Touched(v8, {}, FALSE)
  BY TouchedNothing
<1>3. PICK N : N = v8 /\ N = SessionList!Touched(v8, {}, FALSE)
  BY <1>2
<1>4. \/ v8' = [N EXCEPT ![r] = SessionList!Asked(kind, s, next)]
      \/ v8' = [N EXCEPT ![r] = SessionList!Free]
  BY <1>3
<1> QED
  BY <1>1, <1>3, <1>4, RequestEnds

(* An event that arrives.                                                   *)
LEMMA ListEventArrives ==
  ASSUME SessionList!ListInv, SessionList!EventArrives
  PROVE  SessionList!ListInv'
<1> DEFINE x == Head(v5).of
           st == Head(v5).status
<1>1. SessionList!TypeOK /\ CoreInv /\ SessionList!RefIsNamed
  BY DEF SessionList!ListInv, CoreInv
<1>2. /\ v5 # <<>> /\ v5' = Tail(v5) /\ v2' = SessionList!Applied(Head(v5))
      /\ v10' = (v10 \/ v2[x] = "absent") /\ UNCHANGED <<v1, v4, v6, v7, v9, v11>>
  BY DEF SessionList!EventArrives
<1>3. x \in WaSessions /\ st \in SessionList!Statuses
  <2>1. v5[1] = Head(v5) /\ 1 \in 1..Len(v5)
    <3>1. PICK E : v5 \in Seq(E)
      BY <1>1, TypesAre
    <3> QED
      BY <1>2, <3>1
  <2> QED
    BY <1>1, <2>1, EventsTyped
<1>4. PICK lost \in BOOLEAN : lost <=> v2[x] = "absent"
  OBVIOUS
<1>5. PICK N : N = SessionList!Touched(v8, {x}, v2[x] = "absent")
  OBVIOUS
<1>6. \/ v8' = N /\ v3' = v3
      \/ \E r \in Requests : /\ ~SessionList!Busy(r) /\ v3' = TRUE
                             /\ v8' = [N EXCEPT ![r] = SessionList!Asked("fetch", "none", "none")]
  BY <1>5 DEF SessionList!EventArrives, SessionList!NextFree
<1>7. N = SessionList!Touched(v8, {x}, lost) /\ {x} \in SUBSET WaSessions
  <2>1. lost = (v2[x] = "absent")
    BY <1>4
  <2> QED
    BY <1>3, <1>5, <2>1
<1>8. v2' = IF v2[x] = "absent" THEN v2 ELSE [v2 EXCEPT ![x] = st]
  BY <1>2 DEF SessionList!Applied
<1> HIDE DEF x, st
<1>9. TypedRequests(v8') /\ Kept({x}, lost) /\ PollsKeep /\ DidSame
  <2>1. CASE v8' = N
    <3>1. {} \in SUBSET Requests /\ (\A k \in {} : FreshRequest(v8'[k]))
          /\ \A k \in Requests \ {} : v8'[k] = SessionList!Touched(v8, {x}, lost)[k]
      BY <1>7, <2>1
    <3>2. /\ Kept({x}, lost)
          /\ \A k \in Requests : \A K \in KindSets : \A s :
               SessionList!Did(k, K, s)' <=> SessionList!Did(k, K, s) /\ k \notin {}
      BY <1>1, <1>7, <3>1, TouchedKeeps
    <3>3. TypedRequests(v8)
      BY <1>1, RequestsTyped
    <3>4. /\ TypedRequests(N)
          /\ \A k \in Requests : PollsIn(N, k) => PollsIn(v8, k) /\ N[k].of = v8[k].of
      BY <1>7, <3>3, TouchedTyped
    <3> QED
      BY <2>1, <3>2, <3>4 DEF DidSame, PollsKeep
  <2>2. ASSUME NEW r \in Requests, ~SessionList!Busy(r),
               v8' = [N EXCEPT ![r] = SessionList!Asked("fetch", "none", "none")]
        PROVE  TypedRequests(v8') /\ Kept({x}, lost) /\ PollsKeep /\ DidSame
    <3>1. "fetch" \in {"fetch", "show"} /\ "none" \in WaSessions \cup {"none"}
          /\ "none" \in {"none", "show", "showUnlessReady"}
      OBVIOUS
    <3>2. EndsAs(r, {x}, lost)
      BY <1>1, <1>7, <2>2, <3>1, RequestEnds
    <3>3. v8[r] = SessionList!Free
      BY <2>2 DEF SessionList!Busy
    <3> QED
      BY <3>2, <3>3 DEF EndsAs, DidSame, SessionList!Did, SessionList!Busy
  <2> QED
    BY <1>6, <2>1, <2>2
<1>10. Kept({x}, v2[x] = "absent")
  <2>1. lost = (v2[x] = "absent")
    BY <1>4
  <2> QED
    BY <1>9, <2>1
<1>11. CoreInv'
  <2>1. Head(v5).of = x /\ Head(v5).status = st
    BY DEF x, st
  <2> QED
    BY <1>1, <1>2, <1>3, <1>8, <1>9, <1>10, <2>1, CoreEventArrives
<1>12. SessionList!TypeOK'
  <2>1. v2' \in SessionList!Lists
    BY <1>1, <1>3, <1>8, TypesAre DEF SessionList!Lists
  <2>2. v5' \in Seq([of : WaSessions, status : SessionList!Statuses])
    <3>1. PICK E : E = [of : WaSessions, status : SessionList!Statuses]
      OBVIOUS
    <3>2. v5 \in Seq(E)
      BY <1>1, <3>1, TypesAre
    <3>3. v5' \in Seq(E)
      BY <1>2, <3>2
    <3> QED
      BY <3>1, <3>3
  <2>3. v3' \in BOOLEAN /\ v10' \in BOOLEAN
    BY <1>1, <1>2, <1>6, TypesAre
  <2> QED
    BY <1>1, <1>2, <1>9, <2>1, <2>2, <2>3, TypesAre, TypesFollow
<1>13. SessionList!RefIsNamed'
  BY <1>1, <1>2, <1>9, RefSame
<1> QED
  BY <1>11, <1>12, <1>13 DEF SessionList!ListInv, CoreInv

(* A dialog that is opened, or opened anew.                                 *)
LEMMA OpenedIsNamed ==
  ASSUME SessionList!RefIsNamed, PollsKeep, NEW s \in WaSessions,
         v6' = [of |-> s, name |-> s], v7' = s, v11' = (v11 \/ SessionList!PollsOther(s)), v11 \in BOOLEAN
  PROVE  /\ SessionList!RefIsNamed' /\ v11' \in BOOLEAN /\ v7' \in WaSessions \cup {""}
         /\ v6' \in [of : WaSessions, name : WaSessions \cup {""}] \cup {SessionList!Closed}
BY DEF SessionList!RefIsNamed, SessionList!PollsOther, SessionList!Busy, PollsKeep, PollsIn

(* A fetch that lands.                                                      *)
LEMMA ListFetchLands ==
  ASSUME SessionList!ListInv, NEW r \in Requests, SessionList!FetchLands(r)
  PROVE  SessionList!ListInv'
<1> DEFINE q == v8[r]
<1>1. SessionList!TypeOK /\ CoreInv /\ SessionList!RefIsNamed
  BY DEF SessionList!ListInv, CoreInv
<1>2. /\ SessionList!Read(r) /\ UNCHANGED <<v1, v4, v5>> /\ v3' = FALSE
  BY DEF SessionList!FetchLands, SessionList!Read
<1>3. PICK ok \in BOOLEAN :
        /\ IF ok
           THEN /\ v2' = q.list /\ v10' = q.stale
                /\ v9' = (q.touched # {} /\ (v9 \/ SessionList!Undoes(q.list, q.touched)))
           ELSE UNCHANGED <<v2, v9, v10>>
        /\ \/ /\ q.then # "none" /\ SessionList!Opens(q.of)
              /\ v8' = [(IF ok THEN SessionList!Touched(v8, WaSessions, FALSE) ELSE v8)
                          EXCEPT ![r] = SessionList!Asked("show", q.of, "none")]
           \/ /\ v8' = [(IF ok THEN SessionList!Touched(v8, WaSessions, FALSE) ELSE v8)
                          EXCEPT ![r] = SessionList!Free]
              /\ UNCHANGED <<v6, v7, v11>>
  BY DEF SessionList!FetchLands, SessionList!Asks, SessionList!Ended
<1>4. /\ q.list \in SessionList!Lists /\ q.stale \in BOOLEAN
      /\ q.then # "none" => q.of \in WaSessions
      /\ q # SessionList!Free /\ q.kind = "fetch"
  BY <1>1, <1>2, RequestIs DEF SessionList!Read, SessionList!Lists
<1> DEFINE N == IF ok THEN SessionList!Touched(v8, WaSessions, FALSE) ELSE v8
<1>5. PICK s \in WaSessions \cup {"none"} : s = q.of
  BY <1>1, <1>2, RequestIs DEF SessionList!Read
<1>6. PICK kind \in {"fetch", "show"} : /\ kind = (IF q.then # "none" THEN "show" ELSE "fetch")
                                        /\ kind # "fetch" => s \in WaSessions
  BY <1>4, <1>5
<1>7. \/ v8' = [N EXCEPT ![r] = SessionList!Asked(kind, s, "none")]
      \/ v8' = [N EXCEPT ![r] = SessionList!Free]
  BY <1>3, <1>5, <1>6
<1>8. "none" \in {"none", "show", "showUnlessReady"} /\ (kind # "fetch" \/ "none" # "none" => s \in WaSessions)
      /\ WaSessions \in SUBSET WaSessions /\ FALSE \in BOOLEAN
  BY <1>6
<1> HIDE DEF N, q
<1>9. EndsAs(r, IF ok THEN WaSessions ELSE {}, FALSE)
  <2>1. CASE ok
    <3>1. N = SessionList!Touched(v8, WaSessions, FALSE)
      BY <2>1 DEF N
    <3>2. EndsAs(r, WaSessions, FALSE)
      BY <1>1, <1>7, <1>8, <3>1, RequestEnds
    <3> QED
      BY <2>1, <3>2
  <2>2. CASE ~ok
    <3>1. N = v8
      BY <2>2 DEF N
    <3>2. EndsAs(r, {}, FALSE)
      BY <1>1, <1>7, <1>8, <3>1, RequestEndsOnly
    <3> QED
      BY <2>2, <3>2
  <2> QED
    BY <2>1, <2>2
<1>10. TypedRequests(v8') /\ PollsKeep /\ ~SessionList!Read(r)'
  BY <1>9 DEF EndsAs
<1>11. DidSame
  <2>1. \A K \in KindSets : \A x : ~SessionList!Did(r, K, x)
    BY <1>4 DEF KindSets, SessionList!Did, q
  <2> QED
    BY <1>9, <2>1 DEF EndsAs, DidSame
<1>12. CoreInv'
  <2>1. CASE ok
    <3>1. Kept(WaSessions, FALSE)
      BY <1>9, <2>1 DEF EndsAs
    <3>2. /\ v2' = v8[r].list /\ v10' = v8[r].stale
          /\ v9' = (v8[r].touched # {} /\ (v9 \/ SessionList!Undoes(v8[r].list, v8[r].touched)))
      BY <1>3, <2>1 DEF q
    <3> QED
      BY <1>1, <1>2, <1>10, <1>11, <3>1, <3>2, CoreFetchLands
  <2>2. CASE ~ok
    <3>1. Kept({}, FALSE)
      BY <1>9, <2>2 DEF EndsAs
    <3>2. v4' = "down" => v5 = <<>>
      BY <1>1, <1>2 DEF CoreInv, SessionList!EventsEndTrue
    <3>3. UNCHANGED <<v2, v9, v10>>
      BY <1>3, <2>2
    <3> QED
      BY <1>1, <1>2, <1>11, <3>1, <3>2, <3>3, CoreSame
  <2> QED
    BY <2>1, <2>2
<1>13. /\ SessionList!RefIsNamed' /\ v11' \in BOOLEAN /\ v7' \in WaSessions \cup {""}
       /\ v6' \in [of : WaSessions, name : WaSessions \cup {""}] \cup {SessionList!Closed}
  <2>1. CASE q.then # "none" /\ SessionList!Opens(q.of)
    <3>1. q.of \in WaSessions /\ v11 \in BOOLEAN
      BY <1>1, <1>4, <2>1, TypesAre
    <3>2. v6' = [of |-> q.of, name |-> q.of] /\ v7' = q.of /\ v11' = (v11 \/ SessionList!PollsOther(q.of))
      BY <2>1 DEF SessionList!Opens
    <3> QED
      BY <1>1, <1>10, <3>1, <3>2, OpenedIsNamed
  <2>2. CASE UNCHANGED <<v6, v7, v11>>
    BY <1>1, <1>10, <2>2, RefSame, TypesAre
  <2> QED
    BY <1>3, <2>1, <2>2
<1>14. v2' \in SessionList!Lists /\ v9' \in BOOLEAN /\ v10' \in BOOLEAN
  <2>1. CASE ok
    BY <1>3, <1>4, <2>1
  <2>2. CASE ~ok
    BY <1>1, <1>3, <2>2, TypesAre
  <2> QED
    BY <2>1, <2>2
<1>15. SessionList!TypeOK'
  <2>1. v3' \in BOOLEAN
    BY <1>2
  <2> QED
    BY <1>1, <1>2, <1>10, <1>13, <1>14, <2>1, TypesAre, TypesFollow
<1> QED
  BY <1>12, <1>13, <1>15 DEF SessionList!ListInv, CoreInv

(* A handler that lands.                                                    *)
LEMMA ListHandlerLands ==
  ASSUME SessionList!ListInv, NEW r \in Requests, SessionList!HandlerLands(r)
  PROVE  SessionList!ListInv'
<1> DEFINE q == v8[r]
<1>1. SessionList!TypeOK /\ CoreInv /\ SessionList!RefIsNamed
  BY DEF SessionList!ListInv, CoreInv
<1>2. /\ SessionList!Handles(r) /\ q.pc = "answered" /\ q.kind \in SessionList!Handlers
      /\ UNCHANGED <<v1, v4, v5, v6, v7, v10, v11>>
  BY DEF SessionList!HandlerLands, SessionList!Handles
<1>3. /\ q.ok \in BOOLEAN /\ q.of \in WaSessions /\ q.list \in SessionList!Lists
      /\ q.touched \subseteq WaSessions
  BY <1>1, <1>2, RequestIs DEF SessionList!Handles, SessionList!Handlers, SessionList!Lists
<1>4. PICK x \in WaSessions : x = q.of
  BY <1>3
<1>5. PICK N : N = IF q.ok THEN SessionList!Touched(v8, {x}, FALSE) ELSE v8
  OBVIOUS
<1>6. PICK s \in WaSessions \cup {"none"}, next \in {"none", "show", "showUnlessReady"} :
        /\ "fetch" # "fetch" \/ next # "none" => s \in WaSessions
        /\ \/ v8' = [N EXCEPT ![r] = SessionList!Asked("fetch", s, next)] /\ v3' = TRUE
           \/ v8' = [N EXCEPT ![r] = SessionList!Free] /\ v3' = v3
  <2>1. \/ v8' = [N EXCEPT ![r] = SessionList!Asked("fetch", x, IF q.ok THEN "show" ELSE "showUnlessReady")]
           /\ v3' = TRUE
        \/ v8' = [N EXCEPT ![r] = SessionList!Asked("fetch", "none", "none")] /\ v3' = TRUE
        \/ v8' = [N EXCEPT ![r] = SessionList!Free] /\ v3' = v3
    BY <1>4, <1>5 DEF SessionList!HandlerLands, SessionList!Asks, SessionList!Ended
  <2> QED
    BY <2>1
<1>7. IF q.ok THEN v2' = SessionList!HandlerList(q)
                   /\ v9' = (v9 \/ SessionList!Undoes(SessionList!HandlerList(q), q.touched))
      ELSE UNCHANGED <<v2, v9>>
  BY DEF SessionList!HandlerLands
<1>8. EndsAs(r, IF q.ok THEN {x} ELSE {}, FALSE)
  <2>1. CASE q.ok
    <3>1. N = SessionList!Touched(v8, {x}, FALSE) /\ {x} \in SUBSET WaSessions /\ FALSE \in BOOLEAN
          /\ "fetch" \in {"fetch", "show"}
      BY <1>5, <2>1
    <3>2. EndsAs(r, {x}, FALSE)
      BY <1>1, <1>6, <3>1, RequestEnds
    <3> QED
      BY <2>1, <3>2
  <2>2. CASE ~q.ok
    <3>1. N = v8 /\ "fetch" \in {"fetch", "show"}
      BY <1>5, <2>2
    <3>2. EndsAs(r, {}, FALSE)
      BY <1>1, <1>6, <3>1, RequestEndsOnly
    <3> QED
      BY <2>2, <3>2
  <2> QED
    BY <2>1, <2>2
<1>9. TypedRequests(v8') /\ PollsKeep /\ ~SessionList!Handles(r)'
  BY <1>8 DEF EndsAs
<1>10. CASE q.ok
  <2>1. PICK w : w = SessionList!WritesStatus[q.kind]
    OBVIOUS
  <2>2. v2' = [q.list EXCEPT ![x] = w] /\ v9' = (v9 \/ SessionList!Undoes(v2', q.touched))
    BY <1>4, <1>7, <1>10, <2>1 DEF SessionList!HandlerList
  <2>3. /\ Kept({x}, FALSE)
        /\ \A k \in Requests : \A K \in KindSets : \A y :
             SessionList!Did(k, K, y)' <=> SessionList!Did(k, K, y) /\ k # r
    BY <1>8, <1>10 DEF EndsAs
  <2>4. CoreInv'
    BY <1>1, <1>2, <1>4, <1>9, <1>10, <2>1, <2>2, <2>3, CoreHandlerLands
  <2>5. w \in SessionList!Statuses
    BY <1>2, <2>1 DEF SessionList!Handlers, SessionList!WritesStatus, SessionList!Statuses
  <2>6. v2' \in SessionList!Lists /\ v9' \in BOOLEAN
    BY <1>3, <2>2, <2>5 DEF SessionList!Lists
  <2>7. v3' \in BOOLEAN
    BY <1>1, <1>6, TypesAre
  <2>8. SessionList!TypeOK'
    BY <1>1, <1>2, <1>9, <2>6, <2>7, TypesAre, TypesFollow
  <2>9. SessionList!RefIsNamed'
    BY <1>1, <1>2, <1>9, RefSame
  <2> QED
    BY <2>4, <2>8, <2>9 DEF SessionList!ListInv, CoreInv
<1>11. CASE ~q.ok
  <2>1. Kept({}, FALSE)
    BY <1>8, <1>11 DEF EndsAs
  <2>2. DidSame
    BY <1>8, <1>11 DEF EndsAs, DidSame, SessionList!Did
  <2>3. UNCHANGED <<v2, v9>> /\ (v4' = "down" => v5 = <<>>)
    BY <1>1, <1>2, <1>7, <1>11 DEF CoreInv, SessionList!EventsEndTrue
  <2>4. CoreInv'
    BY <1>1, <1>2, <2>1, <2>2, <2>3, CoreSame
  <2>5. v3' \in BOOLEAN
    BY <1>1, <1>6, TypesAre
  <2>6. SessionList!TypeOK'
    BY <1>1, <1>2, <1>9, <2>3, <2>5, TypesAre, TypesFollow
  <2>7. SessionList!RefIsNamed'
    BY <1>1, <1>2, <1>9, RefSame
  <2> QED
    BY <2>4, <2>6, <2>7 DEF SessionList!ListInv, CoreInv
<1> QED
  BY <1>3, <1>10, <1>11

(* A request that is none of a list ends.                                   *)
LEMMA PlainEnds ==
  ASSUME SessionList!TypeOK, CoreInv, NEW r \in Requests, v8[r].kind \in {"show", "poll"},
         v8' = [v8 EXCEPT ![r] = SessionList!Free] \/ v8' = [v8 EXCEPT ![r] = SessionList!Asked("fetch", "none", "none")],
         UNCHANGED <<v1, v2, v4, v5, v9, v10>>
  PROVE  CoreInv' /\ TypedRequests(v8') /\ PollsKeep
<1>1. "fetch" \in {"fetch", "show"} /\ "none" \in WaSessions \cup {"none"}
      /\ "none" \in {"none", "show", "showUnlessReady"}
  OBVIOUS
<1>2. EndsAs(r, {}, FALSE)
  BY <1>1, RequestEndsOnly
<1>3. \A K \in KindSets : \A x : ~SessionList!Did(r, K, x)
  BY DEF KindSets, SessionList!Did
<1>4. DidSame /\ Kept({}, FALSE) /\ TypedRequests(v8') /\ PollsKeep
  BY <1>2, <1>3 DEF EndsAs, DidSame
<1>5. v4' = "down" => v5 = <<>>
  BY DEF CoreInv, SessionList!EventsEndTrue
<1> QED
  BY <1>4, <1>5, CoreSame

(* The QR that was asked for.                                               *)
LEMMA ListShowLands ==
  ASSUME SessionList!ListInv, NEW r \in Requests, SessionList!ShowLands(r)
  PROVE  SessionList!ListInv'
<1> DEFINE q == v8[r]
<1>1. SessionList!TypeOK /\ CoreInv /\ SessionList!RefIsNamed
  BY DEF SessionList!ListInv, CoreInv
<1>2. /\ SessionList!Busy(r) /\ q.kind = "show" /\ UNCHANGED <<v1, v2, v3, v4, v5, v9, v10>>
      /\ v8' = [v8 EXCEPT ![r] = SessionList!Free]
      /\ IF q.ok THEN /\ v6' = SessionList!ShownAgain(q.of) /\ v7' = SessionList!ShownAgain(q.of).name
                      /\ v11' = (v11 \/ SessionList!PollsOther(q.of))
         ELSE UNCHANGED <<v6, v7, v11>>
  BY DEF SessionList!ShowLands, SessionList!Ended
<1>3. q.of \in WaSessions
  BY <1>1, <1>2, RequestIs
<1>4. CoreInv' /\ TypedRequests(v8') /\ PollsKeep
  <2>1. v8[r].kind \in {"show", "poll"}
    BY <1>2
  <2> QED
    BY <1>1, <1>2, <2>1, PlainEnds
<1>5. /\ SessionList!RefIsNamed' /\ v11' \in BOOLEAN /\ v7' \in WaSessions \cup {""}
      /\ v6' \in [of : WaSessions, name : WaSessions \cup {""}] \cup {SessionList!Closed}
  <2>1. CASE q.ok
    <3>1. v6' = [of |-> q.of, name |-> q.of] /\ v7' = q.of /\ v11' = (v11 \/ SessionList!PollsOther(q.of))
      BY <1>2, <2>1 DEF SessionList!ShownAgain
    <3>2. v11 \in BOOLEAN
      BY <1>1, TypesAre
    <3> QED
      BY <1>1, <1>3, <1>4, <3>1, <3>2, OpenedIsNamed
  <2>2. CASE ~q.ok
    <3>1. UNCHANGED <<v6, v7, v11>>
      BY <1>2, <2>2
    <3> QED
      BY <1>1, <1>4, <3>1, RefSame, TypesAre
  <2> QED
    BY <2>1, <2>2
<1>6. SessionList!TypeOK'
  BY <1>1, <1>2, <1>4, <1>5, TypesAre, TypesFollow
<1> QED
  BY <1>4, <1>5, <1>6 DEF SessionList!ListInv, CoreInv

(* What a poll is answered, and what the session is if it was no QR.        *)
LEMMA ListPollLands ==
  ASSUME SessionList!ListInv, NEW r \in Requests, SessionList!PollLands(r)
  PROVE  SessionList!ListInv'
<1> DEFINE q == v8[r]
<1>1. SessionList!TypeOK /\ CoreInv /\ SessionList!RefIsNamed
  BY DEF SessionList!ListInv, CoreInv
<1>2. /\ SessionList!Busy(r) /\ q.kind = "poll" /\ UNCHANGED <<v1, v2, v4, v5, v9, v10, v11>>
  BY DEF SessionList!PollLands
<1>3. q.of \in WaSessions /\ v8[r].kind \in {"show", "poll"} /\ v7 \in WaSessions \cup {""} /\ v3 \in BOOLEAN
  BY <1>1, <1>2, RequestIs, TypesAre
<1>4. CASE /\ v6' = [of |-> q.of, name |-> v7] /\ v8' = [v8 EXCEPT ![r] = SessionList!Free]
           /\ UNCHANGED <<v7, v3>>
  <2>1. CoreInv' /\ TypedRequests(v8') /\ PollsKeep
    BY <1>1, <1>2, <1>3, <1>4, PlainEnds
  <2>2. v6' \in [of : WaSessions, name : WaSessions \cup {""}] \cup {SessionList!Closed}
    BY <1>3, <1>4
  <2>3. SessionList!RefIsNamed'
    <3>1. ~v11 => v7 \in {q.of, ""}
      BY <1>1, <1>2 DEF SessionList!RefIsNamed
    <3> QED
      BY <1>1, <1>2, <1>4, <2>1, <3>1 DEF SessionList!RefIsNamed, SessionList!Busy, PollsKeep, PollsIn
  <2>4. SessionList!TypeOK'
    BY <1>1, <1>2, <1>4, <2>1, <2>2, TypesAre, TypesFollow
  <2> QED
    BY <2>1, <2>3, <2>4 DEF SessionList!ListInv, CoreInv
<1>5. CASE /\ v8' = [v8 EXCEPT ![r].pc = "checked", ![r].ok = (v1[q.of] = "starting")]
           /\ UNCHANGED <<v6, v7, v3>>
  <2>1. PICK b \in BOOLEAN : b = (v1[q.of] = "starting")
    OBVIOUS
  <2>2. PICK R : R = [v8 EXCEPT ![r].pc = "checked", ![r].ok = b]
    OBVIOUS
  <2>3. AnsweredAs(R, r, "checked", b)
    BY <1>1, <1>2, <2>2, AnsweredTyped
  <2>4. v8' = R
    BY <1>5, <2>1, <2>2
  <2>5. /\ TypedRequests(v8') /\ \A k \in Requests \ {r} : v8'[k] = v8[k]
        /\ v8'[r] # SessionList!Free /\ v8'[r].kind = "poll" /\ v8'[r].of = v8[r].of
    BY <1>2, <2>3, <2>4 DEF AnsweredAs
  <2>6. PollsKeep
    BY <1>2, <2>5 DEF PollsKeep, PollsIn, SessionList!Busy
  <2>7. \A k \in Requests : /\ SessionList!Read(k)' => SessionList!Read(k) /\ k # r
                            /\ SessionList!Handles(k)' => SessionList!Handles(k) /\ k # r
    BY <2>5 DEF SessionList!Read, SessionList!Handles, SessionList!Handlers, SessionList!Busy
  <2>8. Kept({}, FALSE)
    <3>1. \A k \in Requests : SessionList!Read(k) => v8[k].stale \in BOOLEAN
      BY <1>1, RequestIs DEF SessionList!Read
    <3> QED
      BY <2>5, <2>7, <3>1 DEF Kept
  <2>9. DidSame
    BY <1>2, <2>5 DEF DidSame, KindSets, SessionList!Did, SessionList!Busy
  <2>10. v4' = "down" => v5 = <<>>
    BY <1>1, <1>2 DEF CoreInv, SessionList!EventsEndTrue
  <2>11. CoreInv'
    BY <1>1, <1>2, <2>8, <2>9, <2>10, CoreSame
  <2>12. SessionList!TypeOK'
    BY <1>1, <1>2, <1>5, <2>5, TypesAre, TypesFollow
  <2>13. SessionList!RefIsNamed'
    BY <1>1, <1>2, <1>5, <2>6, RefSame
  <2> QED
    BY <2>11, <2>12, <2>13 DEF SessionList!ListInv, CoreInv
<1>6. CASE v8' = [v8 EXCEPT ![r] = SessionList!Free] /\ UNCHANGED <<v6, v7, v3>>
  <2>1. CoreInv' /\ TypedRequests(v8') /\ PollsKeep
    BY <1>1, <1>2, <1>3, <1>6, PlainEnds
  <2>2. SessionList!TypeOK'
    BY <1>1, <1>2, <1>6, <2>1, TypesAre, TypesFollow
  <2>3. SessionList!RefIsNamed'
    BY <1>1, <1>2, <1>6, <2>1, RefSame
  <2> QED
    BY <2>1, <2>2, <2>3 DEF SessionList!ListInv, CoreInv
<1>7. CASE /\ v6' = SessionList!Closed /\ v7' = "" /\ v3' = TRUE
           /\ v8' = [v8 EXCEPT ![r] = SessionList!Asked("fetch", "none", "none")]
  <2>1. CoreInv' /\ TypedRequests(v8') /\ PollsKeep
    BY <1>1, <1>2, <1>3, <1>7, PlainEnds
  <2>2. SessionList!TypeOK'
    BY <1>1, <1>2, <1>7, <2>1, TypesAre, TypesFollow
  <2>3. SessionList!RefIsNamed'
    BY <1>7 DEF SessionList!RefIsNamed
  <2> QED
    BY <2>1, <2>2, <2>3 DEF SessionList!ListInv, CoreInv
<1> QED
  BY <1>4, <1>5, <1>6, <1>7 DEF SessionList!PollLands, SessionList!Ended, SessionList!Asks

(* The page when it is mounted: nothing is listed, and nothing is known of   *)
(* the gateway's sessions.                                                 *)
LEMMA ListInit == SessionList!Init => SessionList!ListInv
<1> SUFFICES ASSUME SessionList!Init
             PROVE  SessionList!ListInv
  OBVIOUS
<1>1. PICK st \in {"absent", "ready"} :
        v1 = [s \in WaSessions |-> IF s = SessionList!First THEN st ELSE "down"]
  BY DEF SessionList!Init
<1>2. /\ v2 = SessionList!Nothing /\ v3 = TRUE /\ v4 = "down" /\ v5 = <<>> /\ v6 = SessionList!Closed /\ v7 = ""
      /\ v8 = [r \in Requests |-> IF r = 1 THEN SessionList!Asked("fetch", "none", "none") ELSE SessionList!Free]
      /\ v9 = FALSE /\ v10 = TRUE /\ v11 = FALSE
  BY DEF SessionList!Init
<1>2a. v5 = <<>> /\ 1..Len(v5) = {}
  <2>1. v5 = <<>>
    BY <1>2
  <2>2. 1..Len(<<>>) = {}
    OBVIOUS
  <2> QED
    BY ONLY <2>1, <2>2
<1>3. v1 \in [WaSessions -> SessionList!Statuses \cup {"gone"}] /\ \A s \in WaSessions : v1[s] # "gone"
  BY <1>1 DEF SessionList!Statuses
<1>4. v2 \in SessionList!Lists /\ \A s \in WaSessions : v2[s] = "absent"
  BY <1>2 DEF SessionList!Nothing, SessionList!Lists, SessionList!Statuses
<1>5. PICK q : q = SessionList!Asked("fetch", "none", "none")
  OBVIOUS
<1>6. /\ q.kind = "fetch" /\ q.of = "none" /\ q.then = "none" /\ q.pc = "asked"
      /\ q \in SessionList!Request
  <2>1. SessionList!Nothing \in SessionList!Lists
    BY <1>2, <1>4
  <2>2. q = [kind |-> "fetch", of |-> "none", then |-> "none", pc |-> "asked", ok |-> TRUE,
             list |-> SessionList!Nothing, touched |-> {}, stale |-> FALSE]
    BY <1>5 DEF SessionList!Asked, SessionList!Handlers
  <2> QED
    BY <2>1, <2>2 DEF SessionList!Request, SessionList!PageKinds
<1>7. \A k \in Requests : v8[k] = SessionList!Free \/ v8[k] = q
  BY <1>2, <1>5
<1>8. \A k \in Requests : /\ ~SessionList!Read(k) /\ ~SessionList!Handles(k) /\ ~PollsIn(v8, k)
                          /\ \A K, s : ~SessionList!Did(k, K, s)
  BY <1>6, <1>7 DEF SessionList!Read, SessionList!Handles, SessionList!Handlers, SessionList!Did,
     SessionList!Busy, PollsIn
<1>9. \A s : ~SessionList!Told(s) /\ ~SessionList!Deleting(s) /\ ~SessionList!Creating(s)
  BY <1>8, <1>2a DEF SessionList!Told, SessionList!Deleting, SessionList!Creating
<1>10. SessionList!TypeOK
  <2>1. v8 \in [Requests -> SessionList!Request \cup {SessionList!Free}]
    BY <1>2, <1>5, <1>6
  <2>2. v5 \in Seq([of : WaSessions, status : SessionList!Statuses])
    <3>1. v5 = <<>>
      BY <1>2a
    <3> QED
      BY ONLY <3>1
  <2> QED
    BY <1>2, <1>3, <1>4, <1>6, <1>7, <2>1, <2>2 DEF SessionList!TypeOK, SessionList!Busy
<1>11. SessionList!EventsEndTrue
  BY <1>2a DEF SessionList!EventsEndTrue
<1>12. SessionList!AbsentIsUnknown /\ SessionList!CreatedIsNew /\ SessionList!DeletedStaysOff
       /\ SessionList!HandlersKeepUp
  BY <1>3, <1>4, <1>8, <1>9 DEF SessionList!AbsentIsUnknown, SessionList!CreatedIsNew, SessionList!DeletedStaysOff,
     SessionList!HandlersKeepUp
<1>13. SessionList!ChangeIsTold /\ SessionList!ListsSettle /\ SessionList!FetchesAreOrdered
  BY <1>2, <1>8 DEF SessionList!ChangeIsTold, SessionList!ListsSettle, SessionList!FetchesAreOrdered
<1>14. SessionList!RefIsNamed
  BY <1>2, <1>8 DEF SessionList!RefIsNamed, PollsIn, SessionList!Busy
<1> QED
  BY <1>10, <1>11, <1>12, <1>13, <1>14 DEF SessionList!ListInv

LEMMA ListStep == SessionList!ListInv /\ [SessionList!Next]_(SessionList!sessionsPageVars) => SessionList!ListInv'
<1> SUFFICES ASSUME SessionList!ListInv, [SessionList!Next]_(SessionList!sessionsPageVars)
             PROVE  SessionList!ListInv'
  OBVIOUS
<1>1. CASE UNCHANGED SessionList!sessionsPageVars
  <2>1. UNCHANGED <<v1, v2, v3, v4, v5, v6, v7, v8, v9, v10, v11>>
    BY <1>1 DEF SessionList!sessionsPageVars
  <2>2. SessionList!TypeOK /\ CoreInv /\ SessionList!RefIsNamed
    BY DEF SessionList!ListInv, CoreInv
  <2>3. Kept({}, FALSE) /\ DidSame /\ PollsKeep
    BY <2>1, <2>2, UntouchedKeeps
  <2>4. v4' = "down" => v5 = <<>>
    BY <2>1, <2>2 DEF CoreInv, SessionList!EventsEndTrue
  <2>5. CoreInv'
    BY <2>1, <2>2, <2>3, <2>4, CoreSame
  <2>6. SessionList!TypeOK'
    BY <2>1, <2>2, TypesAre, TypesFollow
  <2>7. SessionList!RefIsNamed'
    BY <2>1, <2>2, <2>3, RefSame
  <2> QED
    BY <2>5, <2>6, <2>7 DEF SessionList!ListInv, CoreInv
<1>2. CASE SessionList!SocketMoves
  BY <1>2, ListSocketMoves
<1>3. CASE SessionList!EventArrives
  BY <1>3, ListEventArrives
<1>4. CASE SessionList!Closes
  BY <1>4, ListCloses
<1>5. ASSUME NEW s \in WaSessions, NEW st \in SessionList!Statuses, SessionList!ServerChanges(s, st)
      PROVE  SessionList!ListInv'
  BY <1>5, ListServerChanges
<1>6. ASSUME NEW r \in Requests, SessionList!Answers(r)
      PROVE  SessionList!ListInv'
  BY <1>6, ListAnswers
<1>7. ASSUME NEW r \in Requests, SessionList!FetchLands(r)
      PROVE  SessionList!ListInv'
  BY <1>7, ListFetchLands
<1>8. ASSUME NEW r \in Requests, SessionList!HandlerLands(r)
      PROVE  SessionList!ListInv'
  BY <1>8, ListHandlerLands
<1>9. ASSUME NEW r \in Requests, SessionList!ShowLands(r)
      PROVE  SessionList!ListInv'
  BY <1>9, ListShowLands
<1>10. ASSUME NEW r \in Requests, SessionList!PollLands(r)
       PROVE  SessionList!ListInv'
  BY <1>10, ListPollLands
<1>11. ASSUME NEW r \in Requests, SessionList!PollTicks(r)
       PROVE  SessionList!ListInv'
  BY <1>11, ListPollTicks
<1>12. ASSUME NEW r \in Requests, NEW s \in WaSessions,
              NEW kind \in {"create", "delete", "start", "stop", "show"}, SessionList!Clicks(r, kind, s)
       PROVE  SessionList!ListInv'
  BY <1>12, ListClicks
<1> QED
  BY <1>1, <1>2, <1>3, <1>4, <1>5, <1>6, <1>7, <1>8, <1>9, <1>10, <1>11, <1>12 DEF SessionList!Next

(* What the invariant is for: the quiet list, and the dialog's name.        *)
LEMMA ListFollows == SessionList!ListInv => SessionList!QuietListIsTrue /\ SessionList!DialogIsNamed
<1> SUFFICES ASSUME SessionList!ListInv
             PROVE  SessionList!QuietListIsTrue /\ SessionList!DialogIsNamed
  OBVIOUS
<1>1. SessionList!QuietListIsTrue
  <2> SUFFICES ASSUME \A r \in Requests : ~SessionList!Busy(r), v5 = <<>>, ~v9, ~v10
               PROVE  v2 = SessionList!Listed
    BY DEF SessionList!QuietListIsTrue
  <2>1. \A s : ~SessionList!Told(s) /\ ~SessionList!Deleting(s) /\ ~SessionList!Creating(s)
    <3>1. 1..Len(v5) = {}
      OBVIOUS
    <3> QED
      BY <3>1 DEF SessionList!Told, SessionList!Deleting, SessionList!Creating, SessionList!Did
  <2>2. \A s \in WaSessions : SessionList!Settles(s, v2[s])
    BY DEF SessionList!ListInv, SessionList!ListsSettle
  <2>3. \A s \in WaSessions : v2[s] = IF v1[s] = "gone" THEN "absent" ELSE v1[s]
    BY <2>1, <2>2 DEF SessionList!Settles
  <2>4. v2 \in [WaSessions -> SessionList!Statuses]
    BY DEF SessionList!ListInv, SessionList!TypeOK, SessionList!Lists
  <2> QED
    BY <2>3, <2>4 DEF SessionList!Listed
<1>2. SessionList!DialogIsNamed
  BY DEF SessionList!ListInv, SessionList!RefIsNamed, SessionList!DialogIsNamed
<1> QED
  BY <1>1, <1>2

-----------------------------------------------------------------------------
(* The components together: a step is one of the component that is checked. *)

PagesInv ==
  /\ part = "page" => Page!PageInv
  /\ part = "panel" => Panel!PanelInv
  /\ part = "list" => SessionList!ListInv

LEMMA PagesStep == PagesInv /\ [Next]_componentVars => PagesInv'
<1> SUFFICES ASSUME PagesInv, [Next]_componentVars
             PROVE  PagesInv'
  OBVIOUS
<1>1. ASSUME part' = "page"
      PROVE  Page!PageInv'
  <2>1. part = "page" /\ [Page!Next]_(Page!pageVars)
    BY <1>1 DEF Next, componentVars, Page!pageVars
  <2> QED
    BY <2>1, PageStep DEF PagesInv
<1>2. ASSUME part' = "panel"
      PROVE  Panel!PanelInv'
  <2>1. part = "panel" /\ [Panel!Next]_(Panel!panelVars)
    BY <1>2 DEF Next, componentVars, Panel!panelVars
  <2> QED
    BY <2>1, PanelStep DEF PagesInv
<1>3. ASSUME part' = "list"
      PROVE  SessionList!ListInv'
  <2>1. part = "list" /\ [SessionList!Next]_(SessionList!sessionsPageVars)
    BY <1>3 DEF Next, componentVars, SessionList!sessionsPageVars
  <2> QED
    BY <2>1, ListStep DEF PagesInv
<1> QED
  BY <1>1, <1>2, <1>3 DEF PagesInv

(* The inductive invariants hold of every behaviour.                        *)
THEOREM PagesAreKept == Spec => []PagesInv
<1>1. Init => PagesInv
  BY PageInit, PanelInit, ListInit DEF Init, PagesInv
<1> QED
  BY <1>1, PagesStep, PTL DEF Spec

(* The chat page shows a message once, and only those of its own chat when  *)
(* the history of that chat landed last; a quiet page of the panel shows    *)
(* what the panel's calls left, unless the server was changed without it    *)
(* since it was read; a quiet sessions page lists what the gateway has    *)
(* and its dialog is named after the session of its code; a report and its  *)
(* parts differ by what arrived meanwhile at most; and each with exactly    *)
(* the exceptions that the properties spell out.                            *)
THEOREM PagesTellTheTruth == Spec => []PagesHold
<1>1. PagesInv /\ OperationsInv => PagesHold
  BY PanelFollows, ListFollows, ReportsFollow, UsageFollow
     DEF PagesInv, OperationsInv, PagesHold, Page!PageInv
<1> QED
  BY <1>1, PagesAreKept, OperationsAreKept, PTL

(* Every component's state has its types: each part's inductive invariant    *)
(* has them, in this module or in ComponentProofs.                          *)
THEOREM PartsAreTyped == Spec => []PartsTypeOK
<1>1. /\ OperationsInv /\ PagesInv /\ AdaptersInv /\ OmegaInv /\ TalkInv /\ MessagesInv
      => PartsTypeOK
  <2> SUFFICES ASSUME OperationsInv, PagesInv, AdaptersInv, OmegaInv, TalkInv, MessagesInv
               PROVE  PartsTypeOK
    OBVIOUS
  <2>1. /\ part = "hooks" => Hooks!TypeOK
        /\ part = "stats" => Stats!TypeOK
    BY DEF OperationsInv, Hooks!HooksInv, Stats!StatsInv
  <2>2. /\ part = "page" => Page!TypeOK
        /\ part = "panel" => Panel!TypeOK
        /\ part = "list" => SessionList!TypeOK
    BY DEF PagesInv, Page!PageInv, Panel!PanelInv, SessionList!ListInv
  <2>3. /\ part = "infra" => Infra!TypeOK
        /\ part = "transfer" => Transfer!TypeOK
        /\ part = "media" => Media!TypeOK
    BY DEF OperationsInv, Infra!InfraInv, Transfer!TransferInv, Media!MediaInv
  <2>4. /\ part = "baileys" => Baileys!TypeOK
        /\ part = "wwebjs" => Wwebjs!TypeOK
    BY DEF AdaptersInv, Baileys!StopInv, Wwebjs!EndInv
  <2>5. /\ part = "tenants" => Tenants!TypeOK
        /\ part = "login" => Login!TypeOK
        /\ part = "route" => Access!TypeOK
    BY DEF OmegaInv, Tenants!TenantInv, Login!BarInv
  <2>6. /\ part = "talk" => Talk!TypeOK
        /\ part = "store" => Store!TypeOK
        /\ part = "inbound" => Inbound!TypeOK
    BY DEF TalkInv, MessagesInv, Talk!CopyInv, Store!StoreInv, Inbound!InboundInv
  <2> QED
    BY <2>1, <2>2, <2>3, <2>4, <2>5, <2>6 DEF PartsTypeOK
<1> QED
  BY <1>1, OperationsAreKept, PagesAreKept, AdaptersAreKept, OmegaIsKept, CopiesAreKept, MessagesAreKept, PTL
=================================================================================
