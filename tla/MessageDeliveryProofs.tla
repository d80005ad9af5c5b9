----------------------- MODULE MessageDeliveryProofs -----------------------
(***************************************************************************)
(* What holds of the stored messages for any number of messages, accounts, *)
(* receipts and reactions: the types, that no receipt crosses to another   *)
(* account, and that statuses only advance.                                *)
(***************************************************************************)
EXTENDS MessageDelivery, TLAPS

USE ConstantsAssumption

-----------------------------------------------------------------------------
(* The invariant.                                                          *)

(* Where a send is decides what its row holds until it is over; the id is  *)
(* stored by its last save.                                                *)
SendsInOrder ==
  \A m \in Messages :
    /\ pc[m] \in {"idle", "create"} => row[m].status = "none" /\ ~row[m].id
    /\ pc[m] \in {"engine", "accepted", "save", "fail", "fail_known"}
         => row[m].status = "pending" /\ ~row[m].id
    /\ pc[m] \in {"accepted", "save", "fail_known"} => m \in accepted
    /\ row[m].id => m \in accepted

(* A row that has an id, or a reaction's copy of one, is past the send.     *)
Past(r) == r.id /\ r.status \in {"sent", "delivered", "read", "failed"}

IdsArePast == \A m \in Messages : row[m].id => Past(row[m])

CopiesArePast ==
  \A h \in Hands : hand[h].pc = "save" =>
    LET m == hand[h].of IN
      /\ row[m].id /\ Past(hand[h].snap)
      /\ hand[h].snap.status \in {"delivered", "read"} => hand[h].snap.status \in ticks[m]

(* An UPDATE in flight carries a receipt that was raised for the message    *)
(* its session and id name.                                                *)
UpdatesWereRaised ==
  \A u \in updates : \E m \in Messages :
    SessionOf[m] = u.session /\ IdOf[m] = u.id /\ u.status \in ticks[m]

DeliveryInv == /\ TypeOK /\ NoCrossTalk /\ SendsInOrder
               /\ IdsArePast /\ CopiesArePast /\ UpdatesWereRaised

-----------------------------------------------------------------------------
(* Types.                                                                  *)
LEMMA InitTyped == Init => TypeOK
<1> SUFFICES ASSUME Init PROVE TypeOK
  OBVIOUS
<1>1. NoRow \in Row
  BY DEF NoRow, Row, Statuses
<1>2. hand \in [Hands -> Handler]
  BY <1>1 DEF Init, Handler
<1> QED
  BY <1>1, <1>2 DEF Init, TypeOK

(* The changes of a row that the statements make keep it a row.             *)
LEMMA RowChanges ==
  ASSUME NEW r \in Row, NEW s \in Statuses, NEW b \in BOOLEAN
  PROVE  /\ [r EXCEPT !.status = s] \in Row
         /\ [r EXCEPT !.status = s, !.id = b] \in Row
         /\ [r EXCEPT !.revoked = b] \in Row
  BY DEF Row

LEMMA TypeStep == TypeOK /\ [Next]_vars => TypeOK'
<1> SUFFICES ASSUME TypeOK, [Next]_vars PROVE TypeOK'
  OBVIOUS
<1>s. Upgrades \subseteq Statuses /\ {"pending", "sent", "failed"} \subseteq Statuses
  BY DEF Upgrades, Statuses
<1>1. CASE UNCHANGED vars
  BY <1>1 DEF vars, TypeOK
<1>2. ASSUME NEW m \in Messages, SendStep(m) PROVE TypeOK'
  <2>r. row[m] \in Row
    BY DEF TypeOK
  <2>1. CASE Send(m)
    BY <2>1 DEF Send, At, TypeOK
  <2>2. CASE Created(m)
    BY <2>2, <2>r, <1>s, RowChanges DEF Created, At, TypeOK
  <2>3. CASE CreateFails(m)
    BY <2>3 DEF CreateFails, At, QueryFails, TypeOK
  <2>4. CASE EngineAccepts(m)
    BY <2>4 DEF EngineAccepts, At, TypeOK
  <2>5. CASE EngineReturns(m)
    BY <2>5 DEF EngineReturns, At, TypeOK
  <2>6. CASE EngineRefuses(m)
    BY <2>6 DEF EngineRefuses, At, TypeOK
  <2>7. CASE \E known \in BOOLEAN : SentSaved(m, known)
    <3>1. PICK known \in BOOLEAN : SentSaved(m, known)
      BY <2>7
    <3>2. [row[m] EXCEPT !.status = "sent", !.id = known] \in Row
      BY <2>r, <1>s, RowChanges
    <3> QED
      BY <3>1, <3>2 DEF SentSaved, At, TypeOK
  <2>8. CASE SentSaveFails(m)
    BY <2>8 DEF SentSaveFails, At, QueryFails, TypeOK
  <2>9. CASE \E known \in BOOLEAN : FailedSaved(m, known)
    <3>1. PICK known \in BOOLEAN : FailedSaved(m, known)
      BY <2>9
    <3>2. [row[m] EXCEPT !.status = "failed", !.id = known] \in Row
      BY <2>r, <1>s, RowChanges
    <3> QED
      BY <3>1, <3>2 DEF FailedSaved, At, TypeOK
  <2>10. CASE FailedSaveFails(m)
    BY <2>10 DEF FailedSaveFails, At, QueryFails, TypeOK
  <2> QED
    BY <1>2, <2>1, <2>2, <2>3, <2>4, <2>5, <2>6, <2>7, <2>8, <2>9, <2>10 DEF SendStep
<1>3. ASSUME NEW m \in Messages, Revoke(m) PROVE TypeOK'
  BY <1>3 DEF Revoke, TypeOK
<1>4. ASSUME NEW m \in Messages, NEW s \in Upgrades, Ack(m, s) PROVE TypeOK'
  <2>1. [session |-> SessionOf[m], id |-> IdOf[m], status |-> s] \in Update
    BY DEF Update
  <2> QED
    BY <1>4, <2>1 DEF Ack, TypeOK
<1>5. ASSUME NEW u \in updates, UpdateLands(u) PROVE TypeOK'
  <2>1. u.status \in Upgrades
    BY DEF TypeOK, Update
  <2>2. \A m \in Messages : row[m] \in Row /\ [row[m] EXCEPT !.status = u.status] \in Row
    BY <2>1, <1>s, RowChanges DEF TypeOK
  <2> QED
    BY <1>5, <2>1, <2>2 DEF UpdateLands, TypeOK
<1>6. ASSUME NEW u \in updates, UpdateFails(u) PROVE TypeOK'
  BY <1>6 DEF UpdateFails, QueryFails, TypeOK
<1>7. ASSUME NEW q \in revokes, RevokeLands(q) PROVE TypeOK'
  <2>1. \A m \in Messages : row[m] \in Row /\ [row[m] EXCEPT !.revoked = TRUE] \in Row
    BY <1>s, RowChanges DEF TypeOK
  <2> QED
    BY <1>7, <2>1 DEF RevokeLands, TypeOK
<1>8. ASSUME NEW h \in Hands, React(h) \/ ReactReads(h) \/ ReactSaved(h) PROVE TypeOK'
  <2>h. hand[h] \in Handler /\ hand[h].of \in Messages /\ hand[h].snap \in Row
    BY DEF TypeOK, Handler
  <2>r. row[hand[h].of] \in Row
    BY <2>h DEF TypeOK
  <2>1. CASE React(h)
    <3>1. [hand[h] EXCEPT !.pc = "read"] \in Handler
      BY <2>h DEF Handler
    <3> QED
      BY <2>1, <3>1 DEF React, TypeOK
  <2>2. CASE ReactReads(h)
    <3>1. /\ [hand[h] EXCEPT !.pc = "save", !.snap = row[hand[h].of]] \in Handler
          /\ [hand[h] EXCEPT !.pc = "done"] \in Handler
      BY <2>h, <2>r DEF Handler
    <3> QED
      BY <2>2, <3>1 DEF ReactReads, TypeOK
  <2>3. CASE ReactSaved(h)
    <3>1. [hand[h] EXCEPT !.pc = "done"] \in Handler
      BY <2>h DEF Handler
    <3> QED
      BY <2>3, <2>h, <3>1 DEF ReactSaved, TypeOK
  <2> QED
    BY <1>8, <2>1, <2>2, <2>3
<1> QED
  BY <1>1, <1>2, <1>3, <1>4, <1>5, <1>6, <1>7, <1>8 DEF Next

(* Every variable keeps its type.                                           *)
THEOREM TypeCorrect == Spec => []TypeOK
  BY InitTyped, TypeStep, PTL DEF Spec

-----------------------------------------------------------------------------
(* The invariant is inductive.                                             *)
LEMMA DeliveryInit == Init => DeliveryInv
<1> SUFFICES ASSUME Init PROVE DeliveryInv
  OBVIOUS
<1>1. \A m \in Messages : row[m].status = "none" /\ ~row[m].id /\ pc[m] = "idle"
  BY DEF Init, NoRow
<1>2. \A h \in Hands : hand[h].pc = "idle"
  BY DEF Init
<1>3. NoCrossTalk /\ SendsInOrder
  BY <1>1 DEF NoCrossTalk, SendsInOrder
<1>4. IdsArePast /\ CopiesArePast
  BY <1>1, <1>2 DEF IdsArePast, CopiesArePast
<1>5. UpdatesWereRaised
  BY DEF Init, UpdatesWereRaised
<1> QED
  BY InitTyped, <1>3, <1>4, <1>5 DEF DeliveryInv

(* What a step of a send, which touches only its own row and place, has to  *)
(* keep.                                                                   *)
LEMMA SendKeeps ==
  ASSUME DeliveryInv, NEW m \in Messages, SendStep(m)
  PROVE  /\ NoCrossTalk' /\ SendsInOrder' /\ IdsArePast'
         /\ CopiesArePast' /\ UpdatesWereRaised'
<1>t. TypeOK /\ row[m] \in Row
  BY DEF DeliveryInv, TypeOK
<1>1. UNCHANGED <<updates, hand, ticks>> /\ accepted \subseteq accepted'
  BY DEF SendStep, Send, Created, CreateFails, EngineAccepts, EngineReturns, EngineRefuses,
         SentSaved, SentSaveFails, FailedSaved, FailedSaveFails
<1>2. \A n \in Messages \ {m} : row'[n] = row[n] /\ pc'[n] = pc[n]
  BY <1>t DEF SendStep, Send, Created, CreateFails, EngineAccepts, EngineReturns,
         EngineRefuses, SentSaved, SentSaveFails, FailedSaved, FailedSaveFails, At, TypeOK
<1>3. /\ row[m].id => row'[m] = row[m]
      /\ row'[m].id => m \in accepted' /\ Past(row'[m])
      /\ row'[m].status \in {"sent", "delivered", "read"} => m \in accepted'
      /\ row'[m].status \in {"delivered", "read"} => row'[m].status \in ticks[m]
      /\ pc'[m] \in {"idle", "create"} => row'[m].status = "none" /\ ~row'[m].id
      /\ pc'[m] \in {"engine", "accepted", "save", "fail", "fail_known"}
           => row'[m].status = "pending" /\ ~row'[m].id
      /\ pc'[m] \in {"accepted", "save", "fail_known"} => m \in accepted'
  <2>i. /\ pc[m] \in {"idle", "create"} => row[m].status = "none" /\ ~row[m].id
        /\ pc[m] \in {"engine", "accepted", "save", "fail", "fail_known"}
             => row[m].status = "pending" /\ ~row[m].id
        /\ pc[m] \in {"accepted", "save", "fail_known"} => m \in accepted
        /\ row[m].id => m \in accepted /\ Past(row[m])
        /\ row[m].status \in {"sent", "delivered", "read"} => m \in accepted
        /\ row[m].status \in {"delivered", "read"} => row[m].status \in ticks[m]
    BY DEF DeliveryInv, SendsInOrder, IdsArePast, NoCrossTalk
  <2>1. CASE Send(m)
    BY <2>1, <2>i, <1>t DEF Send, At, TypeOK
  <2>2. CASE Created(m)
    <3>1. row'[m].status = "pending" /\ row'[m].id = row[m].id /\ pc'[m] = "engine"
      BY <2>2, <1>t DEF Created, At, TypeOK, Row
    <3> QED
      BY <3>1, <2>2, <2>i DEF Created, At
  <2>3. CASE CreateFails(m)
    BY <2>3, <2>i, <1>t DEF CreateFails, At, TypeOK
  <2>4. CASE EngineAccepts(m)
    BY <2>4, <2>i, <1>t DEF EngineAccepts, At, TypeOK
  <2>5. CASE EngineReturns(m)
    BY <2>5, <2>i, <1>t DEF EngineReturns, At, TypeOK
  <2>6. CASE EngineRefuses(m)
    BY <2>6, <2>i, <1>t DEF EngineRefuses, At, TypeOK
  <2>7. CASE \E known \in BOOLEAN : SentSaved(m, known)
    <3>1. row'[m].status = "sent" /\ pc[m] = "save" /\ pc'[m] = "done"
      BY <2>7, <1>t DEF SentSaved, At, TypeOK, Row
    <3> QED
      BY <3>1, <2>7, <2>i DEF SentSaved, Past
  <2>8. CASE SentSaveFails(m)
    BY <2>8, <2>i, <1>t DEF SentSaveFails, At, TypeOK
  <2>9. CASE \E known \in BOOLEAN : FailedSaved(m, known)
    <3>1. /\ row'[m].status = "failed" /\ pc'[m] = "done"
          /\ row'[m].id => pc[m] = "fail_known"
      BY <2>9, <1>t DEF FailedSaved, At, TypeOK, Row
    <3> QED
      BY <3>1, <2>9, <2>i DEF FailedSaved, At, Past
  <2>10. CASE FailedSaveFails(m)
    BY <2>10, <2>i, <1>t DEF FailedSaveFails, At, TypeOK
  <2> QED
    BY <2>1, <2>2, <2>3, <2>4, <2>5, <2>6, <2>7, <2>8, <2>9, <2>10 DEF SendStep
<1>4. NoCrossTalk'
  BY <1>1, <1>2, <1>3 DEF DeliveryInv, NoCrossTalk
<1>5. SendsInOrder' /\ IdsArePast'
  BY <1>1, <1>2, <1>3 DEF DeliveryInv, SendsInOrder, IdsArePast
<1>6. CopiesArePast'
  <2> SUFFICES ASSUME NEW h \in Hands, hand[h].pc = "save"
               PROVE  /\ row'[hand[h].of].id /\ Past(hand[h].snap)
                      /\ hand[h].snap.status \in {"delivered", "read"}
                           => hand[h].snap.status \in ticks[hand[h].of]
    BY <1>1 DEF CopiesArePast
  <2>1. hand[h].of \in Messages
    BY <1>t DEF TypeOK, Handler
  <2> QED
    BY <2>1, <1>2, <1>3 DEF DeliveryInv, CopiesArePast
<1>7. UpdatesWereRaised'
  BY <1>1 DEF DeliveryInv, UpdatesWereRaised
<1> QED
  BY <1>4, <1>5, <1>6, <1>7

(* What the other steps keep: they leave the sends alone, and a row, once   *)
(* past its send, stays so.                                                *)
LEMMA OthersKeep ==
  ASSUME DeliveryInv, UNCHANGED <<pc, accepted>>, TypeOK',
         \A m \in Messages : \/ /\ row'[m].id = row[m].id /\ row'[m].status = row[m].status
                             \/ row[m].id /\ Past(row'[m]),
         \A m \in Messages : ticks[m] \subseteq ticks'[m],
         \A m \in Messages : row'[m].status \in {"delivered", "read"}
                               => row'[m].status \in ticks'[m]
  PROVE  NoCrossTalk' /\ SendsInOrder' /\ IdsArePast'
<1>1. \A m \in Messages :
        /\ pc[m] \in {"idle", "create"} => row[m].status = "none" /\ ~row[m].id
        /\ pc[m] \in {"engine", "accepted", "save", "fail", "fail_known"}
             => row[m].status = "pending" /\ ~row[m].id
        /\ pc[m] \in {"accepted", "save", "fail_known"} => m \in accepted
        /\ row[m].id => m \in accepted
  BY DEF DeliveryInv, SendsInOrder
<1>2. \A m \in Messages : row[m].status \in {"sent", "delivered", "read"} => m \in accepted
  BY DEF DeliveryInv, NoCrossTalk
<1>3. SendsInOrder'
  BY <1>1 DEF SendsInOrder, Past
<1>4. IdsArePast'
  BY DEF DeliveryInv, IdsArePast, Past
<1>5. NoCrossTalk'
  BY <1>1, <1>2 DEF NoCrossTalk
<1> QED
  BY <1>3, <1>4, <1>5

(* An UPDATE that lands advances only the row of the message its receipt    *)
(* was raised for.                                                         *)
LEMMA UpdateKeeps ==
  ASSUME DeliveryInv, TypeOK', NEW u \in updates, UpdateLands(u)
  PROVE  /\ NoCrossTalk' /\ SendsInOrder' /\ IdsArePast'
         /\ CopiesArePast' /\ UpdatesWereRaised'
<1>t. TypeOK /\ u.status \in Upgrades
  BY DEF DeliveryInv, TypeOK, Update
<1>1. UNCHANGED <<pc, accepted, ticks, hand>> /\ updates' \subseteq updates
  BY DEF UpdateLands
<1>2. ASSUME NEW m \in Messages
      PROVE  \/ row'[m] = row[m]
             \/ /\ row[m].id /\ row'[m].id /\ row'[m].status = u.status
                /\ u.status \in ticks[m]
  <2>1. CASE Selects(m, u) /\ row[m].status \in TransitionFrom(u.status)
    <3>1. row'[m] = [row[m] EXCEPT !.status = u.status] /\ row[m] \in Row
      BY <2>1, <1>t DEF UpdateLands, TypeOK
    <3>2. row[m].id /\ SessionOf[m] = u.session /\ IdOf[m] = u.id
      BY <2>1 DEF Selects
    <3>3. u.status \in ticks[m]
      BY <3>2 DEF DeliveryInv, UpdatesWereRaised, ConstantsAssumption
    <3> QED
      BY <3>1, <3>2, <3>3 DEF Row
  <2>2. CASE ~(Selects(m, u) /\ row[m].status \in TransitionFrom(u.status))
    BY <2>2 DEF UpdateLands
  <2> QED
    BY <2>1, <2>2
<1>3. \A m \in Messages : row'[m].status \in {"delivered", "read"} => row'[m].status \in ticks'[m]
  BY <1>1, <1>2 DEF DeliveryInv, NoCrossTalk
<1>4. \A m \in Messages : \/ row'[m].id = row[m].id /\ row'[m].status = row[m].status
                          \/ row[m].id /\ Past(row'[m])
  BY <1>2, <1>t DEF Past, Upgrades
<1>5. NoCrossTalk' /\ SendsInOrder' /\ IdsArePast'
  BY <1>1, <1>3, <1>4, OthersKeep
<1>6. CopiesArePast'
  <2>1. \A h \in Hands : hand[h].of \in Messages
    BY <1>t DEF TypeOK, Handler
  <2> QED
    BY <2>1, <1>1, <1>2 DEF DeliveryInv, CopiesArePast
<1>7. UpdatesWereRaised'
  BY <1>1 DEF DeliveryInv, UpdatesWereRaised
<1> QED
  BY <1>5, <1>6, <1>7

(* A reaction's handler copies a row that is past its send, and what it     *)
(* saves back is that copy.                                                *)
LEMMA ReactKeeps ==
  ASSUME DeliveryInv, TypeOK', NEW h \in Hands, React(h) \/ ReactReads(h) \/ ReactSaved(h)
  PROVE  /\ NoCrossTalk' /\ SendsInOrder' /\ IdsArePast'
         /\ CopiesArePast' /\ UpdatesWereRaised'
<1>t. TypeOK /\ hand[h].of \in Messages /\ \A g \in Hands : hand[g].of \in Messages
  BY DEF DeliveryInv, TypeOK, Handler
<1>1. UNCHANGED <<pc, accepted, ticks, updates>>
  BY DEF React, ReactReads, ReactSaved
<1>2. UpdatesWereRaised'
  BY <1>1 DEF DeliveryInv, UpdatesWereRaised
<1>3. CASE React(h)
  <2>1. UNCHANGED row /\ hand'[h].pc = "read" /\ \A g \in Hands \ {h} : hand'[g] = hand[g]
    BY <1>3, <1>t DEF React, TypeOK, Handler
  <2>2. NoCrossTalk' /\ SendsInOrder' /\ IdsArePast'
    BY <1>1, <2>1 DEF DeliveryInv, NoCrossTalk, SendsInOrder, IdsArePast
  <2>3. CopiesArePast'
    BY <1>1, <2>1 DEF DeliveryInv, CopiesArePast
  <2> QED
    BY <1>2, <2>2, <2>3
<1>4. CASE ReactReads(h)
  <2>1. /\ UNCHANGED row /\ \A g \in Hands \ {h} : hand'[g] = hand[g]
        /\ hand'[h].pc = "save" => /\ hand'[h].of = hand[h].of /\ row[hand[h].of].id
                                   /\ hand'[h].snap = row[hand[h].of]
    BY <1>4, <1>t DEF ReactReads, TypeOK, Handler
  <2>2. NoCrossTalk' /\ SendsInOrder' /\ IdsArePast'
    BY <1>1, <2>1 DEF DeliveryInv, NoCrossTalk, SendsInOrder, IdsArePast
  <2>3. row[hand[h].of].id => /\ Past(row[hand[h].of])
                              /\ row[hand[h].of].status \in {"delivered", "read"}
                                   => row[hand[h].of].status \in ticks[hand[h].of]
    BY <1>t DEF DeliveryInv, IdsArePast, NoCrossTalk
  <2>4. CopiesArePast'
    BY <1>1, <2>1, <2>3 DEF DeliveryInv, CopiesArePast
  <2> QED
    BY <1>2, <2>2, <2>4
<1>5. CASE ReactSaved(h)
  <2>1. /\ hand[h].pc = "save"
        /\ hand'[h].pc = "done" /\ \A g \in Hands \ {h} : hand'[g] = hand[g]
        /\ row'[hand[h].of] = hand[h].snap
        /\ \A m \in Messages \ {hand[h].of} : row'[m] = row[m]
    BY <1>5, <1>t DEF ReactSaved, TypeOK, Handler
  <2>2. /\ row[hand[h].of].id /\ Past(hand[h].snap)
        /\ hand[h].snap.status \in {"delivered", "read"}
             => hand[h].snap.status \in ticks[hand[h].of]
    BY <2>1 DEF DeliveryInv, CopiesArePast
  <2>3. NoCrossTalk' /\ SendsInOrder' /\ IdsArePast'
    <3>1. \A m \in Messages : \/ row'[m].id = row[m].id /\ row'[m].status = row[m].status
                              \/ row[m].id /\ Past(row'[m])
      BY <2>1, <2>2
    <3>2. \A m \in Messages : row'[m].status \in {"delivered", "read"}
                                => row'[m].status \in ticks'[m]
      BY <1>1, <2>1, <2>2 DEF DeliveryInv, NoCrossTalk
    <3> QED
      BY <1>1, <3>1, <3>2, OthersKeep
  <2>4. CopiesArePast'
    <3>1. \A m \in Messages : row[m].id => row'[m].id
      BY <2>1, <2>2 DEF Past
    <3> QED
      BY <1>1, <1>t, <2>1, <3>1 DEF DeliveryInv, CopiesArePast
  <2> QED
    BY <1>2, <2>3, <2>4
<1> QED
  BY <1>3, <1>4, <1>5

LEMMA DeliveryStep == DeliveryInv /\ [Next]_vars => DeliveryInv'
<1> SUFFICES ASSUME DeliveryInv, [Next]_vars PROVE DeliveryInv'
  OBVIOUS
<1>t. TypeOK /\ TypeOK'
  BY TypeStep DEF DeliveryInv
<1>1. CASE UNCHANGED vars
  BY <1>1, <1>t DEF vars, DeliveryInv, NoCrossTalk, SendsInOrder, IdsArePast, CopiesArePast,
                    UpdatesWereRaised
<1>2. ASSUME NEW m \in Messages, SendStep(m) PROVE DeliveryInv'
  BY <1>2, <1>t, SendKeeps DEF DeliveryInv
<1>3. ASSUME NEW m \in Messages, Revoke(m) PROVE DeliveryInv'
  BY <1>3, <1>t DEF Revoke, DeliveryInv, NoCrossTalk, SendsInOrder, IdsArePast, CopiesArePast,
                    UpdatesWereRaised
<1>4. ASSUME NEW m \in Messages, NEW s \in Upgrades, Ack(m, s) PROVE DeliveryInv'
  <2> DEFINE new == [session |-> SessionOf[m], id |-> IdOf[m], status |-> s]
  <2>1. /\ UNCHANGED <<row, pc, hand, accepted>> /\ updates' = updates \cup {new}
        /\ s \in ticks'[m] /\ \A n \in Messages : ticks[n] \subseteq ticks'[n]
    BY <1>4, <1>t DEF Ack, TypeOK
  <2>2. NoCrossTalk' /\ SendsInOrder' /\ IdsArePast'
    BY <2>1 DEF DeliveryInv, NoCrossTalk, SendsInOrder, IdsArePast
  <2>3. CopiesArePast'
    <3>1. \A h \in Hands : hand[h].of \in Messages
      BY <1>t DEF TypeOK, Handler
    <3> QED
      BY <2>1, <3>1 DEF DeliveryInv, CopiesArePast
  <2>4. UpdatesWereRaised'
    <3>1. \A u \in updates : \E n \in Messages :
            SessionOf[n] = u.session /\ IdOf[n] = u.id /\ u.status \in ticks'[n]
      BY <2>1 DEF DeliveryInv, UpdatesWereRaised
    <3>2. SessionOf[m] = new.session /\ IdOf[m] = new.id /\ new.status \in ticks'[m]
      BY <2>1
    <3> QED
      BY <2>1, <3>1, <3>2 DEF UpdatesWereRaised
  <2> QED
    BY <1>t, <2>2, <2>3, <2>4 DEF DeliveryInv
<1>5. ASSUME NEW u \in updates, UpdateLands(u) PROVE DeliveryInv'
  BY <1>5, <1>t, UpdateKeeps DEF DeliveryInv
<1>6. ASSUME NEW u \in updates, UpdateFails(u) PROVE DeliveryInv'
  BY <1>6, <1>t DEF UpdateFails, DeliveryInv, NoCrossTalk, SendsInOrder, IdsArePast,
                    CopiesArePast, UpdatesWereRaised
<1>7. ASSUME NEW q \in revokes, RevokeLands(q) PROVE DeliveryInv'
  <2>1. /\ UNCHANGED <<pc, accepted, ticks, updates, hand>>
        /\ \A m \in Messages : row'[m].id = row[m].id /\ row'[m].status = row[m].status
    BY <1>7, <1>t DEF RevokeLands, TypeOK, Row
  <2>2. NoCrossTalk' /\ SendsInOrder' /\ IdsArePast'
    BY <2>1 DEF DeliveryInv, NoCrossTalk, SendsInOrder, IdsArePast, Past
  <2>3. \A h \in Hands : hand[h].of \in Messages
    BY <1>t DEF TypeOK, Handler
  <2>4. CopiesArePast' /\ UpdatesWereRaised'
    BY <2>1, <2>3 DEF DeliveryInv, CopiesArePast, UpdatesWereRaised
  <2> QED
    BY <1>t, <2>2, <2>4 DEF DeliveryInv
<1>8. ASSUME NEW h \in Hands, React(h) \/ ReactReads(h) \/ ReactSaved(h) PROVE DeliveryInv'
  BY <1>8, <1>t, ReactKeeps DEF DeliveryInv
<1> QED
  BY <1>1, <1>2, <1>3, <1>4, <1>5, <1>6, <1>7, <1>8 DEF Next

(* A receipt on one account never advances a message of another, nor does   *)
(* a row claim a message sent that the engine has not accepted.            *)
THEOREM ReceiptsStayHome == Spec => []NoCrossTalk
<1>1. DeliveryInv => NoCrossTalk
  BY DEF DeliveryInv
<1> QED
  BY DeliveryInit, DeliveryStep, <1>1, PTL DEF Spec

-----------------------------------------------------------------------------
(* A stored status goes back only where a reaction saved an overtaken copy. *)
THEOREM StatusesOnlyAdvance == Spec => AdvancesUnlessUndone
<1>1. ASSUME DeliveryInv, [Next]_vars, NEW m \in Messages \ undone' PROVE Advances(m)
  <2>t. TypeOK /\ row[m] \in Row
    BY <1>1 DEF DeliveryInv, TypeOK
  <2>1. CASE UNCHANGED row
    BY <2>1 DEF Advances
  <2>2. ASSUME NEW n \in Messages, SendStep(n) PROVE Advances(m)
    <3>1. CASE n # m
      <4>1. row'[m] = row[m]
        BY <2>2, <3>1, <2>t DEF SendStep, Send, Created, CreateFails, EngineAccepts,
               EngineReturns, EngineRefuses, SentSaved, SentSaveFails, FailedSaved,
               FailedSaveFails, TypeOK
      <4> QED
        BY <4>1 DEF Advances
    <3>2. CASE Created(m)
      <4>1. row[m].status = "none" /\ row'[m].status = "pending"
        BY <1>1, <2>t, <3>2 DEF Created, At, DeliveryInv, SendsInOrder, TypeOK, Row
      <4> QED
        BY <4>1 DEF Advances, Forward
    <3>3. CASE \E known \in BOOLEAN : SentSaved(m, known)
      <4>1. row[m].status = "pending" /\ row'[m].status = "sent"
        BY <1>1, <2>t, <3>3 DEF SentSaved, At, DeliveryInv, SendsInOrder, TypeOK, Row
      <4> QED
        BY <4>1 DEF Advances, Forward
    <3>4. CASE \E known \in BOOLEAN : FailedSaved(m, known)
      <4>1. row[m].status = "pending" /\ row'[m].status = "failed"
        BY <1>1, <2>t, <3>4 DEF FailedSaved, At, DeliveryInv, SendsInOrder, TypeOK, Row
      <4> QED
        BY <4>1 DEF Advances, Forward
    <3>5. CASE /\ n = m /\ ~Created(m)
               /\ ~\E known \in BOOLEAN : SentSaved(m, known) \/ FailedSaved(m, known)
      BY <2>2, <3>5, <2>1 DEF SendStep, Send, CreateFails, EngineAccepts, EngineReturns,
             EngineRefuses, SentSaveFails, FailedSaveFails
    <3> QED
      BY <3>1, <3>2, <3>3, <3>4, <3>5
  <2>3. ASSUME NEW u \in updates, UpdateLands(u) PROVE Advances(m)
    <3>1. CASE row'[m].status = row[m].status
      BY <3>1 DEF Advances
    <3>2. CASE row'[m].status # row[m].status
      <4>1. /\ Selects(m, u) /\ row[m].status \in TransitionFrom(u.status)
            /\ row'[m].status = u.status
        BY <2>3, <3>2, <2>t DEF UpdateLands, TypeOK, Row
      <4>2. row[m].status \in {"sent", "delivered", "read", "failed"}
        BY <4>1, <1>1 DEF Selects, DeliveryInv, IdsArePast, Past
      <4>3. u.status \in Upgrades
        BY <2>t DEF TypeOK, Update
      <4> QED
        BY <4>1, <4>2, <4>3 DEF Advances, Forward, TransitionFrom, Upgrades
    <3> QED
      BY <3>1, <3>2
  <2>4. ASSUME NEW q \in revokes, RevokeLands(q) PROVE Advances(m)
    BY <2>4, <2>t DEF RevokeLands, Advances, TypeOK, Row
  <2>5. ASSUME NEW h \in Hands, ReactSaved(h) PROVE Advances(m)
    <3>1. CASE m = hand[h].of
      <4>1. hand[h].snap = row[m]
        BY <2>5, <3>1, <1>1 DEF ReactSaved
      <4>2. row'[m] = row[m]
        BY <4>1, <2>5, <3>1, <2>t DEF ReactSaved, TypeOK
      <4> QED
        BY <4>2 DEF Advances
    <3>2. CASE m # hand[h].of
      BY <2>5, <3>2, <2>t DEF ReactSaved, TypeOK, Advances
    <3> QED
      BY <3>1, <3>2
  <2> QED
    BY <1>1, <2>1, <2>2, <2>3, <2>4, <2>5 DEF Next, vars, Revoke, Ack, UpdateFails, React,
         ReactReads
<1>2. DeliveryInv /\ [Next]_vars => [\A m \in Messages \ undone' : Advances(m)]_vars
  BY <1>1
<1> QED
  BY DeliveryInit, DeliveryStep, <1>2, PTL DEF Spec, AdvancesUnlessUndone
-----------------------------------------------------------------------------
(* What the row shows once everything has landed.  A receipt is raised and  *)
(* its UPDATE issued once; it is in flight, or found no row, or has landed. *)
(* While no query was rejected, an accepted message's row is saved with its *)
(* id before its send is over, and shows the highest receipt that landed on *)
(* it; a message that was never accepted gets neither an id nor a receipt.  *)
InFlight(m) ==
  {s \in Upgrades : [session |-> SessionOf[m], id |-> IdOf[m], status |-> s] \in updates}

Landed(m) == (ticks[m] \ missed[m]) \ InFlight(m)

ReceiptsOnce ==
  \A m \in Messages :
    /\ missed[m] \subseteq ticks[m] /\ InFlight(m) \subseteq ticks[m]
    /\ InFlight(m) \cap missed[m] = {}
    /\ m \notin accepted => ticks[m] = {}

AcceptedOnce == \A m \in Messages : pc[m] \in {"idle", "create", "engine", "fail"} => m \notin accepted

ShowsLanded(m) ==
  /\ pc[m] # "fail_known"
  /\ pc[m] = "done" /\ m \notin accepted => row[m].status \in {"none", "failed"}
  /\ pc[m] \in {"accepted", "save"} => Landed(m) = {}
  /\ pc[m] = "done" /\ m \in accepted /\ m \notin undone /\ "failed" \notin ticks[m]
       => row[m].status = Highest(Landed(m))

ShownInv ==
  /\ DeliveryInv /\ ReceiptsOnce /\ AcceptedOnce
  /\ saveFailures = 0 => \A m \in Messages : ShowsLanded(m)

(* Session and id name one message, so an UPDATE that leaves the queue is   *)
(* one message's, and so is one that joins it.                              *)
LEMMA UpdateLeaves ==
  ASSUME TypeOK, NEW u \in updates, updates' = updates \ {u}, NEW m \in Messages
  PROVE  IF SessionOf[m] = u.session /\ IdOf[m] = u.id
         THEN u.status \in InFlight(m) /\ InFlight(m)' = InFlight(m) \ {u.status}
         ELSE InFlight(m)' = InFlight(m)
<1>1. u \in Update
  BY DEF TypeOK
<1>2. /\ u = [session |-> u.session, id |-> u.id, status |-> u.status]
      /\ u.status \in Upgrades
  BY <1>1 DEF Update
<1>3. \A s \in Upgrades :
        [session |-> SessionOf[m], id |-> IdOf[m], status |-> s] = u
          <=> SessionOf[m] = u.session /\ IdOf[m] = u.id /\ s = u.status
  BY <1>2
<1> QED BY <1>2, <1>3 DEF InFlight

LEMMA UpdateJoins ==
  ASSUME NEW m \in Messages, NEW s \in Upgrades, NEW n \in Messages,
         updates' = updates \cup {[session |-> SessionOf[m], id |-> IdOf[m], status |-> s]}
  PROVE  InFlight(n)' = IF n = m THEN InFlight(m) \cup {s} ELSE InFlight(n)
<1>1. \A t \in Upgrades :
        [session |-> SessionOf[n], id |-> IdOf[n], status |-> t]
          = [session |-> SessionOf[m], id |-> IdOf[m], status |-> s]
          <=> n = m /\ t = s
  BY ConstantsAssumption
<1> QED BY <1>1 DEF InFlight

(* The receipts' transition rule computes the highest receipt.              *)
LEMMA HighestNext ==
  ASSUME NEW L, NEW s \in {"delivered", "read"}
  PROVE  Highest(L \cup {s}) = IF Highest(L) \in TransitionFrom(s) THEN s ELSE Highest(L)
<1>1. CASE s = "delivered"
  BY <1>1 DEF Highest, TransitionFrom
<1>2. CASE s = "read"
  BY <1>2 DEF Highest, TransitionFrom
<1> QED BY <1>1, <1>2

LEMMA ShowsSame ==
  ASSUME NEW n \in Messages, ShowsLanded(n), pc'[n] = pc[n],
         row'[n].id = row[n].id, row'[n].status = row[n].status,
         n \in accepted' <=> n \in accepted, ticks'[n] = ticks[n], missed'[n] = missed[n],
         InFlight(n)' = InFlight(n), undone \subseteq undone'
  PROVE  ShowsLanded(n)'
  BY DEF ShowsLanded, Landed

LEMMA ShownInit == Init => ShownInv
<1> SUFFICES ASSUME Init
             PROVE  ReceiptsOnce /\ AcceptedOnce /\ \A m \in Messages : ShowsLanded(m)
  BY DeliveryInit DEF ShownInv
<1>1. \A m \in Messages : /\ pc[m] = "idle" /\ ticks[m] = {} /\ missed[m] = {}
                          /\ InFlight(m) = {} /\ m \notin accepted
  BY DEF Init, InFlight
<1> QED BY <1>1 DEF ReceiptsOnce, AcceptedOnce, ShowsLanded

LEMMA ReceiptsOnceStep ==
  ASSUME ShownInv, [Next]_vars
  PROVE  ReceiptsOnce'
<1>0. TypeOK /\ ReceiptsOnce
  BY DEF ShownInv, DeliveryInv
<1>1. CASE UNCHANGED <<updates, ticks, missed>> /\ accepted \subseteq accepted'
  <2>1. \A m \in Messages : InFlight(m)' = InFlight(m)
    BY <1>1 DEF InFlight
  <2> QED BY <1>0, <1>1, <2>1 DEF ReceiptsOnce
<1>2. ASSUME NEW m \in Messages, NEW s \in Upgrades, Ack(m, s) PROVE ReceiptsOnce'
  <2>1. \A n \in Messages : InFlight(n)' = IF n = m THEN InFlight(m) \cup {s} ELSE InFlight(n)
    BY <1>2, UpdateJoins DEF Ack
  <2>2. /\ s \notin ticks[m] /\ m \in accepted /\ missed' = missed /\ accepted' = accepted
        /\ \A n \in Messages : ticks'[n] = IF n = m THEN ticks[m] \cup {s} ELSE ticks[n]
    BY <1>0, <1>2 DEF Ack, TypeOK
  <2> QED BY <1>0, <2>1, <2>2 DEF ReceiptsOnce
<1>3. ASSUME NEW u \in updates, UpdateLands(u) \/ UpdateFails(u) PROVE ReceiptsOnce'
  <2>1. /\ updates' = updates \ {u} /\ ticks' = ticks /\ accepted' = accepted
        /\ missed' = missed \/ UpdateLands(u)
    BY <1>3 DEF UpdateLands, UpdateFails
  <2>2. ASSUME NEW m \in Messages
        PROVE  /\ missed'[m] \subseteq ticks'[m] /\ InFlight(m)' \subseteq ticks'[m]
               /\ InFlight(m)' \cap missed'[m] = {}
    <3>1. \/ missed'[m] = missed[m]
          \/ /\ SessionOf[m] = u.session /\ IdOf[m] = u.id
             /\ missed'[m] = missed[m] \cup {u.status}
      <4>1. CASE UpdateLands(u)
        BY <4>1 DEF UpdateLands
      <4>2. CASE missed' = missed
        BY <4>2
      <4> QED BY <2>1, <4>1, <4>2
    <3>2. /\ missed[m] \subseteq ticks[m] /\ InFlight(m) \subseteq ticks[m]
          /\ InFlight(m) \cap missed[m] = {}
      BY <1>0 DEF ReceiptsOnce
    <3> QED BY <1>0, <2>1, <3>1, <3>2, UpdateLeaves
  <2> QED BY <1>0, <2>1, <2>2 DEF ReceiptsOnce
<1>4. \/ UNCHANGED <<updates, ticks, missed>> /\ accepted \subseteq accepted'
      \/ \E m \in Messages, s \in Upgrades : Ack(m, s)
      \/ \E u \in updates : UpdateLands(u) \/ UpdateFails(u)
  BY DEF Next, vars, SendStep, Send, Created, CreateFails, EngineAccepts, EngineReturns,
         EngineRefuses, SentSaved, SentSaveFails, FailedSaved, FailedSaveFails, Revoke,
         RevokeLands, React, ReactReads, ReactSaved
<1> QED BY <1>1, <1>2, <1>3, <1>4

LEMMA AcceptedOnceStep ==
  ASSUME ShownInv, [Next]_vars
  PROVE  AcceptedOnce'
<1>0. TypeOK /\ AcceptedOnce
  BY DEF ShownInv, DeliveryInv
<1>1. CASE UNCHANGED <<pc, accepted>>
  BY <1>0, <1>1 DEF AcceptedOnce
<1>2. ASSUME NEW m \in Messages, SendStep(m) PROVE AcceptedOnce'
  <2>1. \A n \in Messages \ {m} : pc'[n] = pc[n] /\ (n \in accepted' <=> n \in accepted)
    BY <1>0, <1>2 DEF SendStep, Send, Created, CreateFails, EngineAccepts, EngineReturns,
       EngineRefuses, SentSaved, SentSaveFails, FailedSaved, FailedSaveFails, At, TypeOK
  <2>2. pc'[m] \in {"idle", "create", "engine", "fail"}
          => pc[m] \in {"idle", "create", "engine", "fail"} /\ accepted' = accepted
    BY <1>0, <1>2 DEF SendStep, Send, Created, CreateFails, EngineAccepts, EngineReturns,
       EngineRefuses, SentSaved, SentSaveFails, FailedSaved, FailedSaveFails, At, TypeOK
  <2> QED BY <1>0, <2>1, <2>2 DEF AcceptedOnce
<1>3. (\E m \in Messages : SendStep(m)) \/ UNCHANGED <<pc, accepted>>
  BY DEF Next, vars, Revoke, Ack, UpdateLands, UpdateFails, RevokeLands, React, ReactReads,
         ReactSaved
<1> QED BY <1>1, <1>2, <1>3

(* A step of a send, while no query was rejected.                           *)
LEMMA ShowsSend ==
  ASSUME ShownInv, NEW m \in Messages, SendStep(m), saveFailures = 0, saveFailures' = 0
  PROVE  \A n \in Messages : ShowsLanded(n)'
<1>0. /\ TypeOK /\ row[m] \in Row /\ SendsInOrder /\ ReceiptsOnce /\ AcceptedOnce
      /\ \A n \in Messages : ShowsLanded(n)
  BY DEF ShownInv, DeliveryInv, TypeOK
<1>1. /\ UNCHANGED <<updates, ticks, missed, undone>>
      /\ \A n \in Messages : InFlight(n)' = InFlight(n)
  BY DEF SendStep, Send, Created, CreateFails, EngineAccepts, EngineReturns, EngineRefuses,
         SentSaved, SentSaveFails, FailedSaved, FailedSaveFails, InFlight
<1>2. ASSUME NEW n \in Messages, n # m PROVE ShowsLanded(n)'
  <2>1. pc'[n] = pc[n] /\ row'[n] = row[n] /\ (n \in accepted' <=> n \in accepted)
    BY <1>0, <1>2 DEF SendStep, Send, Created, CreateFails, EngineAccepts, EngineReturns,
       EngineRefuses, SentSaved, SentSaveFails, FailedSaved, FailedSaveFails, At, TypeOK
  <2> QED BY <1>0, <1>1, <2>1, ShowsSame
<1>3. Landed(m)' = Landed(m)
  BY <1>1 DEF Landed
<1>4. ShowsLanded(m)'
  <2>1. CASE Send(m)
    <3>1. /\ pc'[m] \in {"create", "done"} /\ m \notin accepted' /\ row'[m].status = "none"
      BY <1>0, <2>1 DEF Send, At, TypeOK, AcceptedOnce, SendsInOrder
    <3> QED BY <3>1 DEF ShowsLanded
  <2>2. CASE Created(m) \/ EngineRefuses(m)
    <3>1. pc'[m] \in {"engine", "fail"}
      BY <1>0, <2>2 DEF Created, EngineRefuses, At, TypeOK
    <3> QED BY <3>1 DEF ShowsLanded
  <2>3. CASE EngineAccepts(m)
    <3>1. pc'[m] = "accepted" /\ ticks[m] = {}
      BY <1>0, <2>3 DEF EngineAccepts, At, TypeOK, AcceptedOnce, ReceiptsOnce
    <3> QED BY <1>3, <3>1 DEF ShowsLanded, Landed
  <2>4. CASE EngineReturns(m)
    <3>1. pc[m] = "accepted" /\ pc'[m] = "save"
      BY <1>0, <2>4 DEF EngineReturns, At, TypeOK
    <3>2. Landed(m) = {}
      BY <1>0, <3>1 DEF ShowsLanded
    <3> QED BY <1>3, <3>1, <3>2 DEF ShowsLanded
  <2>5. CASE \E known \in BOOLEAN : SentSaved(m, known)
    <3>1. /\ pc[m] = "save" /\ pc'[m] = "done" /\ accepted' = accepted
          /\ row'[m].status = "sent"
      BY <1>0, <2>5 DEF SentSaved, At, TypeOK, Row
    <3>2. Landed(m) = {} /\ m \in accepted
      BY <1>0, <3>1 DEF ShowsLanded, SendsInOrder
    <3>3. Highest(Landed(m)') = "sent"
      BY <1>3, <3>2 DEF Highest
    <3> QED BY <3>1, <3>2, <3>3 DEF ShowsLanded
  <2>6. CASE \E known \in BOOLEAN : FailedSaved(m, known)
    <3>1. /\ pc[m] = "fail" /\ pc'[m] = "done" /\ row'[m].status = "failed"
          /\ accepted' = accepted
      BY <1>0, <2>6 DEF FailedSaved, At, TypeOK, Row, ShowsLanded
    <3>2. m \notin accepted
      BY <1>0, <3>1 DEF AcceptedOnce
    <3> QED BY <3>1, <3>2 DEF ShowsLanded
  <2>7. ~CreateFails(m) /\ ~SentSaveFails(m) /\ ~FailedSaveFails(m)
    BY DEF CreateFails, SentSaveFails, FailedSaveFails, QueryFails
  <2> QED
    BY <2>1, <2>2, <2>3, <2>4, <2>5, <2>6, <2>7 DEF SendStep
<1> QED BY <1>2, <1>4

(* A receipt is raised: what has landed stays what it is.                   *)
LEMMA ShowsAck ==
  ASSUME ShownInv, NEW m \in Messages, NEW s \in Upgrades, Ack(m, s), saveFailures = 0
  PROVE  \A n \in Messages : ShowsLanded(n)'
<1>0. TypeOK /\ ReceiptsOnce /\ \A n \in Messages : ShowsLanded(n)
  BY DEF ShownInv, DeliveryInv
<1>1. \A n \in Messages : InFlight(n)' = IF n = m THEN InFlight(m) \cup {s} ELSE InFlight(n)
  BY UpdateJoins DEF Ack
<1>2. /\ s \notin ticks[m] /\ UNCHANGED <<row, pc, accepted, missed, undone>>
      /\ \A n \in Messages : ticks'[n] = IF n = m THEN ticks[m] \cup {s} ELSE ticks[n]
  BY <1>0 DEF Ack, TypeOK
<1>3. \A n \in Messages : n # m => ShowsLanded(n)'
  BY <1>0, <1>1, <1>2, ShowsSame
<1>4. Landed(m)' = Landed(m)
  BY <1>0, <1>1, <1>2 DEF Landed, ReceiptsOnce
<1>5. ShowsLanded(m)'
  BY <1>0, <1>2, <1>4 DEF ShowsLanded
<1> QED BY <1>3, <1>5

(* An UPDATE lands: on the row it was raised for, as the transition rule    *)
(* allows, or on no row, which the history remembers.                       *)
LEMMA ShowsUpdate ==
  ASSUME ShownInv, NEW u \in updates, UpdateLands(u), saveFailures = 0, NEW n \in Messages
  PROVE  ShowsLanded(n)'
<1>0. /\ TypeOK /\ row[n] \in Row /\ ReceiptsOnce /\ SendsInOrder /\ ShowsLanded(n)
      /\ u.status \in Upgrades
  BY DEF ShownInv, DeliveryInv, TypeOK, Update
<1>1. /\ updates' = updates \ {u} /\ UNCHANGED <<pc, accepted, ticks, undone>>
  BY DEF UpdateLands
<1>2. CASE ~(SessionOf[n] = u.session /\ IdOf[n] = u.id)
  <2>1. row'[n] = row[n] /\ missed'[n] = missed[n]
    BY <1>2 DEF UpdateLands, Selects
  <2>2. InFlight(n)' = InFlight(n)
    BY <1>0, <1>1, <1>2, UpdateLeaves
  <2> QED BY <1>0, <1>1, <2>1, <2>2, ShowsSame
<1>3. CASE SessionOf[n] = u.session /\ IdOf[n] = u.id
  <2>1. /\ u.status \in InFlight(n) /\ InFlight(n)' = InFlight(n) \ {u.status}
        /\ u.status \in ticks[n] /\ u.status \notin missed[n]
    BY <1>0, <1>1, <1>3, UpdateLeaves DEF ReceiptsOnce
  <2>2. CASE ~row[n].id
    <3>1. row'[n] = row[n] /\ missed'[n] = missed[n] \cup {u.status}
      BY <1>3, <2>2 DEF UpdateLands, Selects
    <3>2. Landed(n)' = Landed(n)
      BY <1>1, <2>1, <3>1 DEF Landed
    <3> QED BY <1>0, <1>1, <3>1, <3>2 DEF ShowsLanded
  <2>3. CASE row[n].id
    <3>1. /\ missed'[n] = missed[n]
          /\ row'[n] = IF row[n].status \in TransitionFrom(u.status)
                       THEN [row[n] EXCEPT !.status = u.status] ELSE row[n]
      BY <1>3, <2>3 DEF UpdateLands, Selects
    <3>2. /\ row'[n].id
          /\ row'[n].status = IF row[n].status \in TransitionFrom(u.status)
                              THEN u.status ELSE row[n].status
      BY <1>0, <2>3, <3>1 DEF Row
    <3>3. Landed(n)' = Landed(n) \cup {u.status}
      BY <1>1, <2>1, <3>1 DEF Landed
    <3>4. n \in accepted /\ pc[n] \notin {"accepted", "save", "fail_known"}
      BY <1>0, <2>3 DEF SendsInOrder
    <3>5. ASSUME pc[n] = "done", n \notin undone, "failed" \notin ticks[n]
          PROVE  row'[n].status = Highest(Landed(n)')
      <4>1. row[n].status = Highest(Landed(n))
        BY <1>0, <3>4, <3>5 DEF ShowsLanded
      <4>2. u.status \in {"delivered", "read"}
        BY <1>0, <2>1, <3>5 DEF Upgrades
      <4>3. Highest(Landed(n) \cup {u.status})
              = IF row[n].status \in TransitionFrom(u.status) THEN u.status ELSE row[n].status
        BY <4>1, <4>2, HighestNext
      <4> QED BY <3>2, <3>3, <4>3
    <3> QED BY <1>1, <3>2, <3>4, <3>5 DEF ShowsLanded
  <2> QED BY <2>2, <2>3
<1> QED BY <1>2, <1>3

LEMMA ShownStep == ShownInv /\ [Next]_vars => ShownInv'
<1> SUFFICES ASSUME ShownInv, [Next]_vars, saveFailures' = 0
             PROVE  \A n \in Messages : ShowsLanded(n)'
  BY DeliveryStep, ReceiptsOnceStep, AcceptedOnceStep DEF ShownInv
<1>0. TypeOK /\ SendsInOrder /\ CopiesArePast
  BY DEF ShownInv, DeliveryInv
<1>1. saveFailures = 0
  <2>1. saveFailures' = saveFailures \/ QueryFails
    BY DEF Next, vars, SendStep, Send, Created, CreateFails, EngineAccepts, EngineReturns,
           EngineRefuses, SentSaved, SentSaveFails, FailedSaved, FailedSaveFails, Revoke, Ack,
           UpdateLands, UpdateFails, RevokeLands, React, ReactReads, ReactSaved
  <2> QED BY <1>0, <2>1 DEF QueryFails, TypeOK
<1>2. \A n \in Messages : ShowsLanded(n)
  BY <1>1 DEF ShownInv
<1>3. ASSUME UNCHANGED <<pc, accepted, ticks, missed, updates>>, undone \subseteq undone',
             NEW n \in Messages, row'[n].id = row[n].id, row'[n].status = row[n].status
      PROVE  ShowsLanded(n)'
  <2>1. InFlight(n)' = InFlight(n)
    BY <1>3 DEF InFlight
  <2> QED BY <1>2, <1>3, <2>1, ShowsSame
<1>4. CASE UNCHANGED <<row, pc, accepted, ticks, missed, updates, undone>>
  BY <1>3, <1>4
<1>5. ASSUME NEW m \in Messages, SendStep(m) PROVE \A n \in Messages : ShowsLanded(n)'
  BY <1>1, <1>5, ShowsSend
<1>6. ASSUME NEW m \in Messages, NEW s \in Upgrades, Ack(m, s)
      PROVE  \A n \in Messages : ShowsLanded(n)'
  BY <1>1, <1>6, ShowsAck
<1>7. ASSUME NEW u \in updates, UpdateLands(u) PROVE \A n \in Messages : ShowsLanded(n)'
  BY <1>1, <1>7, ShowsUpdate
<1>8. ASSUME NEW q \in revokes, RevokeLands(q) PROVE \A n \in Messages : ShowsLanded(n)'
  <2>1. \A n \in Messages : row'[n].id = row[n].id /\ row'[n].status = row[n].status
    BY <1>0, <1>8 DEF RevokeLands, TypeOK, Row
  <2> QED BY <1>3, <1>8, <2>1 DEF RevokeLands
<1>9. ASSUME NEW h \in Hands, ReactSaved(h), NEW n \in Messages PROVE ShowsLanded(n)'
  <2>1. CASE row'[n] = row[n]
    BY <1>3, <1>9, <2>1 DEF ReactSaved
  <2>2. CASE row'[n] # row[n]
    <3>1. n = hand[h].of /\ row'[n] = hand[h].snap /\ hand[h].pc = "save"
      BY <1>0, <1>9, <2>2 DEF ReactSaved, TypeOK, Handler
    <3>2. n \in undone' /\ row[n].id /\ row'[n].id
      BY <1>0, <1>9, <2>2, <3>1 DEF ReactSaved, CopiesArePast, Past
    <3>3. /\ pc[n] \notin {"accepted", "save", "fail_known"} /\ n \in accepted
          /\ UNCHANGED <<pc, accepted>>
      BY <1>0, <1>9, <3>2 DEF ReactSaved, SendsInOrder
    <3> QED BY <3>2, <3>3 DEF ShowsLanded
  <2> QED BY <2>1, <2>2
<1>10. ASSUME NEW u \in updates, UpdateFails(u) PROVE FALSE
  BY <1>1, <1>10 DEF UpdateFails, QueryFails
<1> QED
  BY <1>4, <1>5, <1>6, <1>7, <1>8, <1>9, <1>10
     DEF Next, vars, Revoke, React, ReactReads

(* Receipts may be raised and may land in any order, early ones while the   *)
(* send is still being saved: once all have landed, an accepted message's   *)
(* row shows the highest that found it.                                     *)
THEOREM ReceiptsAlwaysConverge == Spec => []ReceiptsConverge
<1>1. ASSUME ShownInv, NEW m \in accepted, Settled(m), m \notin undone, "failed" \notin ticks[m]
      PROVE  row[m].status = Highest(ticks[m] \ missed[m])
  <2>1. m \in Messages /\ pc[m] = "done" /\ saveFailures = 0
    BY <1>1 DEF ShownInv, DeliveryInv, TypeOK, Settled
  <2>2. InFlight(m) = {}
    BY <1>1 DEF Settled, InFlight
  <2>3. Landed(m) = ticks[m] \ missed[m]
    BY <2>2 DEF Landed
  <2> QED BY <1>1, <2>1, <2>3 DEF ShownInv, ShowsLanded
<1>2. ShownInv => ReceiptsConverge
  BY <1>1 DEF ReceiptsConverge
<1> QED BY ShownInit, ShownStep, <1>2, PTL DEF Spec

(* A message the engine refused ends up FAILED, or was never stored, and no *)
(* receipt or reaction gives its row an id or another status.               *)
THEOREM RefusalAlwaysShown == Spec => []RefusalShown
<1>1. ShownInv => RefusalShown
  BY DEF ShownInv, DeliveryInv, SendsInOrder, ShowsLanded, Settled, RefusalShown
<1> QED BY ShownInit, ShownStep, <1>1, PTL DEF Spec
=============================================================================
