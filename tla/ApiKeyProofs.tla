---------------------------- MODULE ApiKeyProofs ----------------------------
(***************************************************************************)
(* What holds of ApiKeyUsage for any number of calls in flight: the types,  *)
(* that no use is counted twice, and that a change of the key holds as long *)
(* as no save lands under another call's copy.  Then, for any sockets and   *)
(* topics, what holds of the WebSocket gateway that EventsGateway composes  *)
(* with it: it uses the key as ApiKeyUsage allows, and a socket is in no    *)
(* room that the key was not granted when it asked.                        *)
(***************************************************************************)
EXTENDS EventsGateway, TLAPS

-----------------------------------------------------------------------------
(* The key.                                                                *)

(* Every copy a call holds, old as it may be, plus what is accumulated now  *)
(* stays within the requests let in: the copy is all a save can write.      *)
CopiesInBounds == \A c \in Calls : call[c].copy.usageCount + pending <= validated

CountInv == TypeOK /\ NeverOvercounts /\ CopiesInBounds

(* While no save has landed under another call's copy, a copy that was read *)
(* is the row, and one to be saved is the row with its call's change.       *)
CopiesCurrent ==
  ~overtaken => \A c \in Calls :
    /\ call[c].pc = "read" => call[c].copy = row
    /\ call[c].pc = "save" =>
         /\ row.here
         /\ call[c].kind = "validate" => /\ LetsIn(row) /\ LetsIn(call[c].copy)
                                         /\ call[c].copy.grants = row.grants
         /\ call[c].kind = "update" => /\ call[c].copy.isActive = row.isActive
                                       /\ call[c].copy.here
         /\ call[c].kind = "revoke" => /\ ~call[c].copy.isActive
                                       /\ call[c].copy.grants = row.grants
         /\ call[c].kind = "delete" => ~call[c].copy.here

HoldInv == TypeOK /\ ChangesHold /\ CopiesCurrent

-----------------------------------------------------------------------------
LEMMA InitTyped == Init => TypeOK
<1>1. Fresh \in Row /\ Idle \in Call
  BY DEF Idle, Call, Fresh, Row, Kinds
<1> SUFFICES ASSUME Init PROVE TypeOK
  OBVIOUS
<1>2. /\ now \in 1..MaxClock /\ uses \in 0..MaxUses /\ changes \in 0..MaxChanges
      /\ failures \in 0..MaxFailures /\ crashes \in 0..MaxCrashes
  BY ConstantsAssumption DEF Init
<1>3. pending \in Nat /\ validated \in Nat /\ granted \in Nat
  BY DEF Init
<1>4. revoked \in BOOLEAN /\ overtaken \in BOOLEAN
  BY DEF Init
<1>5. row \in Row /\ call \in [Calls -> Call]
  BY <1>1 DEF Init
<1> QED
  BY <1>2, <1>3, <1>4, <1>5 DEF TypeOK

(* What a call may put in its slot is a call. *)
LEMMA CallsTyped ==
  ASSUME TypeOK, NEW c \in Calls
  PROVE  /\ call[c].copy \in Row /\ call[c].kind \in Kinds
         /\ Finish(c) => call' \in [Calls -> Call]
         /\ \A copy \in Row : Save(c, copy) => call' \in [Calls -> Call]
<1>1. call[c].copy \in Row /\ call[c].kind \in Kinds
  BY DEF TypeOK, Call
<1>2. Idle \in Call
  BY DEF Idle, Call, Fresh, Row, Kinds
<1>3. \A copy \in Row : [pc |-> "save", kind |-> call[c].kind, copy |-> copy] \in Call
  BY <1>1 DEF Call
<1> QED
  BY <1>1, <1>2, <1>3 DEF TypeOK, Finish, Save

LEMMA TypeStep == TypeOK /\ [Next]_vars => TypeOK'
<1> SUFFICES ASSUME TypeOK, [Next]_vars PROVE TypeOK'
  OBVIOUS
<1> USE ConstantsAssumption
<1>1. CASE UNCHANGED vars
  BY <1>1 DEF vars, TypeOK
<1>2. CASE Tick
  BY <1>2 DEF Tick, TypeOK
<1>3. CASE Crash
  <2>1. Idle \in Call
    BY DEF Idle, Call, Fresh, Row, Kinds
  <2> QED
    BY <1>3, <2>1 DEF Crash, TypeOK
<1>4. ASSUME NEW c \in Calls, CallStep(c) PROVE TypeOK'
  <2>1. ASSUME NEW kind \in Kinds, Read(c, kind) PROVE TypeOK'
    <3>1. [pc |-> "read", kind |-> kind, copy |-> row] \in Call
      BY DEF Call, TypeOK
    <3> QED
      BY <2>1, <3>1 DEF Read, TypeOK
  <2>2. CASE Refused(c)
    BY <2>2, CallsTyped DEF Refused, TypeOK
  <2>3. CASE Accumulates(c)
    BY <2>3, CallsTyped DEF Accumulates, TypeOK
  <2>4. CASE Flushes(c)
    <3> DEFINE new == [call[c].copy EXCEPT !.usageCount = @ + pending + 1, !.lastUsedAt = now]
    <3>0. /\ call[c].copy \in Row /\ now \in Nat
          /\ call[c].copy.usageCount + pending + 1 \in Nat
      BY CallsTyped DEF Row, TypeOK
    <3>1. new \in Row
      BY <3>0 DEF Row
    <3>2. call' \in [Calls -> Call]
      BY <2>4, <3>1, CallsTyped DEF Flushes
    <3> QED
      BY <2>4, <3>2 DEF Flushes, TypeOK
  <2>5. CASE Updates(c)
    <3> DEFINE new == [call[c].copy EXCEPT !.grants = @ + 1]
    <3>1. new \in Row
      BY CallsTyped DEF Row
    <3>2. call' \in [Calls -> Call]
      BY <2>5, <3>1, CallsTyped DEF Updates
    <3> QED
      BY <2>5, <3>2 DEF Updates, TypeOK
  <2>6. CASE Revokes(c)
    <3> DEFINE new == [call[c].copy EXCEPT !.isActive = FALSE]
    <3>1. new \in Row
      BY CallsTyped DEF Row
    <3>2. call' \in [Calls -> Call]
      BY <2>6, <3>1, CallsTyped DEF Revokes
    <3> QED
      BY <2>6, <3>2 DEF Revokes, TypeOK
  <2>7. CASE Deletes(c)
    <3> DEFINE new == [call[c].copy EXCEPT !.here = FALSE]
    <3>1. new \in Row
      BY CallsTyped DEF Row
    <3>2. call' \in [Calls -> Call]
      BY <2>7, <3>1, CallsTyped DEF Deletes
    <3> QED
      BY <2>7, <3>2 DEF Deletes, TypeOK
  <2>8. CASE Written(c)
    <3>1. call[c].copy.grants \in Nat
      BY CallsTyped DEF Row
    <3>2. HeldByOthers(c) \in BOOLEAN
      BY DEF HeldByOthers
    <3>3. call' \in [Calls -> Call] /\ row' \in Row
      BY <2>8, CallsTyped DEF Written
    <3>4. granted' \in Nat /\ revoked' \in BOOLEAN /\ overtaken' \in BOOLEAN
      BY <2>8, <3>1, <3>2 DEF Written, TypeOK
    <3> QED
      BY <2>8, <3>3, <3>4 DEF Written, TypeOK
  <2>9. CASE WriteFails(c)
    BY <2>9, CallsTyped DEF WriteFails, TypeOK
  <2> QED
    BY <1>4, <2>1, <2>2, <2>3, <2>4, <2>5, <2>6, <2>7, <2>8, <2>9 DEF CallStep
<1> QED
  BY <1>1, <1>2, <1>3, <1>4 DEF Next

(* The type invariant holds for any number of calls in flight.              *)
THEOREM TypeCorrect == Spec => []TypeOK
  BY InitTyped, TypeStep, PTL DEF Spec

-----------------------------------------------------------------------------
(* No use is counted twice.                                                *)
LEMMA CountInit == Init => CountInv
<1> SUFFICES ASSUME Init PROVE CountInv
  OBVIOUS
<1>1. TypeOK
  BY InitTyped
<1>2. NeverOvercounts /\ CopiesInBounds
  BY DEF Init, Fresh, Idle, NeverOvercounts, CopiesInBounds
<1> QED
  BY <1>1, <1>2 DEF CountInv

LEMMA CountStep == CountInv /\ [Next]_vars => CountInv'
<1> SUFFICES ASSUME CountInv, [Next]_vars PROVE NeverOvercounts' /\ CopiesInBounds'
  BY TypeStep DEF CountInv
<1>0. /\ TypeOK
      /\ row.usageCount + pending <= validated
      /\ \A c \in Calls : call[c].copy.usageCount + pending <= validated
  BY DEF CountInv, NeverOvercounts, CopiesInBounds
<1>t. /\ pending \in Nat /\ validated \in Nat /\ row.usageCount \in Nat
      /\ \A c \in Calls : call[c].copy.usageCount \in Nat
  BY <1>0, CallsTyped DEF TypeOK, Row
<1>f. Idle.copy.usageCount = 0
  BY DEF Idle, Fresh
<1>1. CASE UNCHANGED vars
  BY <1>1, <1>0 DEF vars, NeverOvercounts, CopiesInBounds
<1>2. CASE Tick
  BY <1>2, <1>0 DEF Tick, NeverOvercounts, CopiesInBounds
<1>3. CASE Crash
  BY <1>3, <1>0, <1>t, <1>f DEF Crash, NeverOvercounts, CopiesInBounds
<1>4. ASSUME NEW c \in Calls, CallStep(c) PROVE NeverOvercounts' /\ CopiesInBounds'
  <2>0. call \in [Calls -> Call]
    BY <1>0 DEF TypeOK
  <2>1. ASSUME NEW kind \in Kinds, Read(c, kind) PROVE NeverOvercounts' /\ CopiesInBounds'
    BY <2>1, <2>0, <1>0, <1>t DEF Read, NeverOvercounts, CopiesInBounds
  <2>2. CASE Refused(c)
    BY <2>2, <2>0, <1>0, <1>t, <1>f DEF Refused, Finish, NeverOvercounts, CopiesInBounds
  <2>3. CASE Accumulates(c)
    BY <2>3, <2>0, <1>0, <1>t, <1>f DEF Accumulates, Finish, NeverOvercounts, CopiesInBounds
  <2>4. CASE Flushes(c)
    <3>1. pending' = 0 /\ validated' = validated + 1 /\ row' = row
      BY <2>4 DEF Flushes
    <3>2. call'[c].copy.usageCount = call[c].copy.usageCount + pending + 1
      <4>1. call[c].copy \in Row
        BY <1>0, CallsTyped
      <4> QED
        BY <2>4, <2>0, <4>1 DEF Flushes, Save, Row
    <3>3. \A d \in Calls \ {c} : call'[d] = call[d]
      BY <2>4, <2>0 DEF Flushes, Save
    <3> QED
      BY <3>1, <3>2, <3>3, <1>0, <1>t DEF NeverOvercounts, CopiesInBounds
  <2>5. ASSUME Updates(c) \/ Revokes(c) \/ Deletes(c)
        PROVE  NeverOvercounts' /\ CopiesInBounds'
    <3>1. /\ row' = row /\ validated' = validated
          /\ pending' = pending \/ pending' = 0
      BY <2>5 DEF Updates, Revokes, Deletes
    <3>2. call'[c].copy.usageCount = call[c].copy.usageCount
      <4>1. call[c].copy \in Row
        BY <1>0, CallsTyped
      <4> QED
        BY <2>5, <2>0, <4>1 DEF Updates, Revokes, Deletes, Save, Row
    <3>3. \A d \in Calls \ {c} : call'[d] = call[d]
      BY <2>5, <2>0 DEF Updates, Revokes, Deletes, Save
    <3> QED
      BY <3>1, <3>2, <3>3, <1>0, <1>t DEF NeverOvercounts, CopiesInBounds
  <2>6. CASE Written(c)
    BY <2>6, <2>0, <1>0, <1>t, <1>f DEF Written, Finish, NeverOvercounts, CopiesInBounds
  <2>7. CASE WriteFails(c)
    BY <2>7, <2>0, <1>0, <1>t, <1>f DEF WriteFails, Finish, NeverOvercounts, CopiesInBounds
  <2> QED
    BY <1>4, <2>1, <2>2, <2>3, <2>4, <2>5, <2>6, <2>7 DEF CallStep
<1> QED
  BY <1>1, <1>2, <1>3, <1>4 DEF Next

(* However many requests and changes overlap, fail or are cut off, the      *)
(* stored count and the accumulator never exceed the requests let in.      *)
THEOREM NoUseCountedTwice == Spec => []NeverOvercounts
<1>1. CountInv => NeverOvercounts
  BY DEF CountInv
<1> QED
  BY CountInit, CountStep, <1>1, PTL DEF Spec

-----------------------------------------------------------------------------
(* A change of the key holds.                                              *)
LEMMA HoldInit == Init => HoldInv
<1> SUFFICES ASSUME Init PROVE HoldInv
  OBVIOUS
<1>1. TypeOK
  BY InitTyped
<1>2. ChangesHold /\ CopiesCurrent
  BY DEF Init, Fresh, Idle, ChangesHold, CopiesCurrent
<1> QED
  BY <1>1, <1>2 DEF HoldInv

(* A step that leaves the row and the histories alone, and each slot free   *)
(* or as it was, keeps both.                                               *)
LEMMA HoldCalm ==
  ASSUME HoldInv, UNCHANGED <<row, revoked, granted, overtaken>>,
         \A c \in Calls : call'[c] = Idle \/ call'[c] = call[c]
  PROVE  ChangesHold' /\ CopiesCurrent'
<1>1. ChangesHold'
  BY DEF HoldInv, ChangesHold, LetsIn
<1>2. Idle.pc = "idle"
  BY DEF Idle
<1>3. ASSUME NEW c \in Calls, ~overtaken'
      PROVE  /\ call'[c].pc = "read" => call'[c].copy = row'
             /\ call'[c].pc = "save" => call'[c] = call[c]
  BY <1>2, <1>3 DEF HoldInv, CopiesCurrent
<1> QED
  BY <1>1, <1>3 DEF HoldInv, CopiesCurrent, LetsIn

(* A call that goes on from its copy to the save of a changed one.          *)
LEMMA HoldSave ==
  ASSUME HoldInv, NEW c \in Calls, NEW copy, Save(c, copy), call[c].pc = "read",
         UNCHANGED <<row, revoked, granted, overtaken>>,
         ~overtaken =>
           /\ row.here
           /\ call[c].kind = "validate" => /\ LetsIn(row) /\ LetsIn(copy)
                                           /\ copy.grants = row.grants
           /\ call[c].kind = "update" => copy.isActive = row.isActive /\ copy.here
           /\ call[c].kind = "revoke" => ~copy.isActive /\ copy.grants = row.grants
           /\ call[c].kind = "delete" => ~copy.here
  PROVE  ChangesHold' /\ CopiesCurrent'
<1>1. ChangesHold'
  BY DEF HoldInv, ChangesHold, LetsIn
<1>2. call \in [Calls -> Call]
  BY DEF HoldInv, TypeOK
<1>3. call'[c] = [pc |-> "save", kind |-> call[c].kind, copy |-> copy]
  BY <1>2 DEF Save
<1>4. \A d \in Calls \ {c} : call'[d] = call[d]
  BY <1>2 DEF Save
<1> QED
  BY <1>1, <1>3, <1>4 DEF HoldInv, CopiesCurrent, LetsIn

LEMMA HoldStep == HoldInv /\ [Next]_vars => HoldInv'
<1> SUFFICES ASSUME HoldInv, [Next]_vars PROVE ChangesHold' /\ CopiesCurrent'
  BY TypeStep DEF HoldInv
<1>0. TypeOK /\ call \in [Calls -> Call]
  BY DEF HoldInv, TypeOK
<1>1. CASE UNCHANGED vars
  BY <1>1, HoldCalm DEF vars
<1>2. CASE Tick
  BY <1>2, HoldCalm DEF Tick
<1>3. CASE Crash
  BY <1>3, HoldCalm DEF Crash
<1>4. ASSUME NEW c \in Calls, CallStep(c) PROVE ChangesHold' /\ CopiesCurrent'
  <2>t. call[c].copy \in Row /\ row \in Row
    BY <1>0, CallsTyped DEF TypeOK
  <2>1. ASSUME NEW kind \in Kinds, Read(c, kind) PROVE ChangesHold' /\ CopiesCurrent'
    <3>1. ChangesHold'
      BY <2>1 DEF Read, HoldInv, ChangesHold, LetsIn
    <3>2. call'[c].pc = "read" /\ call'[c].copy = row
      BY <2>1, <1>0 DEF Read
    <3>3. \A d \in Calls \ {c} : call'[d] = call[d]
      BY <2>1, <1>0 DEF Read
    <3>4. row' = row /\ overtaken' = overtaken
      BY <2>1 DEF Read
    <3> QED
      BY <3>1, <3>2, <3>3, <3>4 DEF HoldInv, CopiesCurrent, LetsIn
  <2>2. CASE Refused(c) \/ Accumulates(c) \/ WriteFails(c)
    BY <2>2, <1>0, HoldCalm DEF Refused, Accumulates, WriteFails, Finish
  <2>3. ~overtaken /\ call[c].pc = "read" => call[c].copy = row
    BY DEF HoldInv, CopiesCurrent
  <2>4. CASE Flushes(c)
    <3> DEFINE new == [call[c].copy EXCEPT !.usageCount = @ + pending + 1, !.lastUsedAt = now]
    <3>1. new.grants = call[c].copy.grants /\ LetsIn(new) /\ LetsIn(call[c].copy)
      BY <2>4, <2>t DEF Flushes, LetsIn, Row
    <3>2. Save(c, new) /\ call[c].kind = "validate" /\ call[c].pc = "read"
      BY <2>4 DEF Flushes, Reading
    <3>3. UNCHANGED <<row, revoked, granted, overtaken>>
      BY <2>4 DEF Flushes
    <3> HIDE DEF new
    <3> QED
      BY <3>1, <3>2, <3>3, <2>3, HoldSave DEF LetsIn
  <2>5. CASE Updates(c)
    <3> DEFINE new == [call[c].copy EXCEPT !.grants = @ + 1]
    <3>1. new.here /\ new.isActive = call[c].copy.isActive /\ call[c].copy.here
      BY <2>5, <2>t DEF Updates, Row
    <3>2. Save(c, new) /\ call[c].kind = "update" /\ call[c].pc = "read"
      BY <2>5 DEF Updates, Reading
    <3>3. UNCHANGED <<row, revoked, granted, overtaken>>
      BY <2>5 DEF Updates
    <3> HIDE DEF new
    <3> QED
      BY <3>1, <3>2, <3>3, <2>3, HoldSave
  <2>6. CASE Revokes(c)
    <3> DEFINE new == [call[c].copy EXCEPT !.isActive = FALSE]
    <3>1. ~new.isActive /\ new.grants = call[c].copy.grants /\ call[c].copy.here
      BY <2>6, <2>t DEF Revokes, Row
    <3>2. Save(c, new) /\ call[c].kind = "revoke" /\ call[c].pc = "read"
      BY <2>6 DEF Revokes, Reading
    <3>3. UNCHANGED <<row, revoked, granted, overtaken>>
      BY <2>6 DEF Revokes
    <3> HIDE DEF new
    <3> QED
      BY <3>1, <3>2, <3>3, <2>3, HoldSave
  <2>7. CASE Deletes(c)
    <3> DEFINE new == [call[c].copy EXCEPT !.here = FALSE]
    <3>1. ~new.here /\ call[c].copy.here
      BY <2>7, <2>t DEF Deletes, Row
    <3>2. Save(c, new) /\ call[c].kind = "delete" /\ call[c].pc = "read"
      BY <2>7 DEF Deletes, Reading
    <3>3. UNCHANGED <<row, revoked, granted, overtaken>>
      BY <2>7 DEF Deletes
    <3> HIDE DEF new
    <3> QED
      BY <3>1, <3>2, <3>3, <2>3, HoldSave
  <2>8. CASE Written(c)
    <3> SUFFICES ASSUME ~overtaken' PROVE ChangesHold' /\ CopiesCurrent'
      BY DEF ChangesHold, CopiesCurrent
    <3>1. ~overtaken /\ \A d \in Calls : call'[d].pc = "idle"
      BY <2>8, <1>0 DEF Written, Finish, HeldByOthers, Idle
    <3>2. CopiesCurrent'
      BY <3>1 DEF CopiesCurrent
    <3>3. /\ row' = call[c].copy /\ call[c].pc = "save"
          /\ revoked' <=> revoked \/ call[c].kind \in {"revoke", "delete"}
          /\ granted' = IF call[c].kind = "update" THEN call[c].copy.grants ELSE granted
      BY <2>8 DEF Written
    <3>4. call[c].kind \in Kinds
      BY <1>0, CallsTyped
    <3>5. /\ revoked => ~LetsIn(row)
          /\ row.here => row.grants = granted
      BY <3>1 DEF HoldInv, ChangesHold
    <3>6. /\ row.here
          /\ call[c].kind = "validate" => /\ LetsIn(row) /\ LetsIn(call[c].copy)
                                          /\ call[c].copy.grants = row.grants
          /\ call[c].kind = "update" => /\ call[c].copy.isActive = row.isActive
                                        /\ call[c].copy.here
          /\ call[c].kind = "revoke" => /\ ~call[c].copy.isActive
                                        /\ call[c].copy.grants = row.grants
          /\ call[c].kind = "delete" => ~call[c].copy.here
      BY <3>1, <3>3 DEF HoldInv, CopiesCurrent
    <3>7. ChangesHold'
      BY <3>3, <3>4, <3>5, <3>6 DEF ChangesHold, LetsIn, Kinds
    <3> QED
      BY <3>2, <3>7
  <2> QED
    BY <1>4, <2>1, <2>2, <2>4, <2>5, <2>6, <2>7, <2>8 DEF CallStep
<1> QED
  BY <1>1, <1>2, <1>3, <1>4 DEF Next

(* Until a save lands under another call's copy, a revoke or delete that    *)
(* has returned keeps the key out, and the last update's grants stand.      *)
THEOREM ChangesAlwaysHold == Spec => []ChangesHold
<1>1. HoldInv => ChangesHold
  BY DEF HoldInv
<1> QED
  BY HoldInit, HoldStep, <1>1, PTL DEF Spec
-----------------------------------------------------------------------------
(* No use is lost.  With no save in flight the row and the accumulator are  *)
(* exact; with one, its copy is what they will be.  A second save beside it *)
(* makes no promise: whichever lands first overtakes the other.            *)
Saving(c) == call[c].pc = "save"

RowExact ==
  (\A c \in Calls : ~Saving(c)) /\ LetsIn(row) => row.usageCount + pending = validated

LoneSaveExact ==
  \A c \in Calls : Saving(c) /\ (\A d \in Calls \ {c} : ~Saving(d)) /\ LetsIn(call[c].copy)
                     => call[c].copy.usageCount + pending = validated

Exact == ~overtaken /\ failures = 0 /\ crashes = 0 => RowExact /\ LoneSaveExact

ExactInv == HoldInv /\ Exact

LEMMA ExactInit == Init => ExactInv
<1> SUFFICES ASSUME Init PROVE RowExact /\ LoneSaveExact
  BY HoldInit DEF ExactInv, Exact
<1> QED BY DEF Init, Fresh, Idle, Saving, RowExact, LoneSaveExact

(* A call whose copy is the row goes on to save `copy`, which counts what   *)
(* the row and the accumulator held and what the step itself lets in.       *)
LEMMA ExactSave ==
  ASSUME ExactInv, NEW c \in Calls, NEW copy, Save(c, copy), call[c].pc = "read", row' = row,
         ~overtaken, failures = 0, crashes = 0,
         LetsIn(copy) => LetsIn(row) /\
                         (row.usageCount + pending = validated
                            => copy.usageCount + pending' = validated')
  PROVE  RowExact' /\ LoneSaveExact'
<1>1. call \in [Calls -> Call]
  BY DEF ExactInv, HoldInv, TypeOK
<1>2. /\ call'[c].pc = "save" /\ call'[c].copy = copy
      /\ \A d \in Calls \ {c} : call'[d] = call[d]
  BY <1>1 DEF Save
<1>3. RowExact'
  BY <1>2 DEF RowExact, Saving
<1>4. ASSUME NEW e \in Calls, call'[e].pc = "save", \A d \in Calls \ {e} : call'[d].pc # "save",
             LetsIn(call'[e].copy)
      PROVE  call'[e].copy.usageCount + pending' = validated'
  <2>1. e = c
    BY <1>2, <1>4
  <2>2. \A d \in Calls : call[d].pc # "save"
    BY <1>2, <1>4, <2>1
  <2>3. LetsIn(row) /\ LetsIn(copy)
    BY <1>2, <1>4, <2>1
  <2>4. row.usageCount + pending = validated
    BY <2>2, <2>3 DEF ExactInv, Exact, RowExact, Saving
  <2> QED BY <1>2, <2>1, <2>3, <2>4
<1> QED BY <1>3, <1>4 DEF LoneSaveExact, Saving, LetsIn

LEMMA ExactStep == ExactInv /\ [Next]_vars => ExactInv'
<1> SUFFICES ASSUME ExactInv, [Next]_vars, ~overtaken', failures' = 0, crashes' = 0
             PROVE  RowExact' /\ LoneSaveExact'
  BY HoldStep DEF ExactInv, Exact
<1> DEFINE Goal == RowExact' /\ LoneSaveExact'
<1>0. /\ HoldInv /\ TypeOK /\ call \in [Calls -> Call]
      /\ pending \in Nat /\ validated \in Nat
      /\ \A c \in Calls : call[c].copy \in Row
  BY CallsTyped DEF ExactInv, HoldInv, TypeOK
<1>i. Idle.pc = "idle"
  BY DEF Idle
<1>1. CASE UNCHANGED vars
  BY <1>1 DEF vars, ExactInv, Exact, RowExact, LoneSaveExact, Saving, LetsIn
<1>2. CASE Tick
  BY <1>2 DEF Tick, ExactInv, Exact, RowExact, LoneSaveExact, Saving, LetsIn
<1>3. CASE Crash
  BY <1>3, <1>0 DEF Crash, TypeOK
<1>4. ASSUME NEW c \in Calls, CallStep(c) PROVE Goal
  <2>0. WriteFails(c) => failures' > 0
    BY <1>0 DEF WriteFails, TypeOK
  <2>1. ~overtaken /\ failures = 0 /\ crashes = 0
    <3>1. overtaken \in BOOLEAN
      BY <1>0 DEF TypeOK
    <3> QED
      BY <1>4, <2>0, <3>1 DEF CallStep, Read, Refused, Accumulates, Flushes, Updates, Revokes,
           Deletes, Written, HeldByOthers
  <2>2. RowExact /\ LoneSaveExact
    BY <2>1 DEF ExactInv, Exact
  <2>3. /\ call[c].copy \in Row
        /\ call[c].pc = "read" => call[c].copy = row
    BY <1>0, <2>1 DEF HoldInv, CopiesCurrent
(* A call that reads, or leaves its slot before it has anything to save.    *)
  <2>4. ASSUME row' = row, \A d \in Calls : d # c => call'[d] = call[d],
               ~Saving(c), call'[c].pc # "save",
               NEW k \in {0, 1}, pending' = pending + k, validated' = validated + k
        PROVE  Goal
    <3>1. \A d \in Calls : (Saving(d)' <=> Saving(d)) /\ (Saving(d) => call'[d] = call[d])
      BY <2>4 DEF Saving
    <3>2. \A n \in Nat : n + pending = validated => n + pending' = validated'
      <4>1. pending \in Nat /\ validated \in Nat
        BY <1>0
      <4> QED BY <2>4, <4>1
    <3>3. row.usageCount \in Nat /\ \A d \in Calls : call[d].copy.usageCount \in Nat
      BY <1>0 DEF TypeOK, Row
    <3>4. RowExact'
      BY <2>2, <2>4, <3>1, <3>2, <3>3 DEF RowExact, LetsIn
    <3>5. LoneSaveExact'
      BY <2>2, <3>1, <3>2, <3>3 DEF LoneSaveExact, LetsIn
    <3> QED BY <3>4, <3>5
  <2>5. ASSUME NEW kind \in Kinds, Read(c, kind) PROVE Goal
    BY <2>4, <2>5, <1>0 DEF Read, Saving
  <2>6. CASE Refused(c)
    BY <2>4, <2>6, <1>0, <1>i DEF Refused, Finish, Saving
  <2>7. CASE Accumulates(c)
    <3>1. /\ row' = row /\ call' = [call EXCEPT ![c] = Idle] /\ call[c].pc = "read"
          /\ pending' = pending + 1 /\ validated' = validated + 1
      BY <2>7 DEF Accumulates, Finish, Reading
    <3> QED BY <2>4, <3>1, <1>0, <1>i DEF Saving
  <2>8. CASE Flushes(c)
    <3> DEFINE new == [call[c].copy EXCEPT !.usageCount = @ + pending + 1, !.lastUsedAt = now]
    <3>1. /\ Save(c, new) /\ call[c].pc = "read" /\ row' = row /\ LetsIn(call[c].copy)
          /\ pending' = 0 /\ validated' = validated + 1
      BY <2>8 DEF Flushes, Reading
    <3>2. new.usageCount = row.usageCount + pending + 1
      BY <2>3, <3>1 DEF Row
    <3>3. row.usageCount \in Nat
      BY <2>3, <3>1 DEF Row
    <3>4. row.usageCount + pending = validated => new.usageCount + pending' = validated'
      BY <3>1, <3>2, <3>3, <1>0
    <3> HIDE DEF new
    <3> QED BY <2>1, <2>3, <3>1, <3>4, ExactSave
  <2>9. CASE Updates(c)
    <3> DEFINE new == [call[c].copy EXCEPT !.grants = @ + 1]
    <3>1. /\ Save(c, new) /\ call[c].pc = "read"
          /\ UNCHANGED <<row, pending, validated>>
      BY <2>9 DEF Updates, Reading
    <3>2. new.usageCount = row.usageCount /\ (LetsIn(new) => LetsIn(row))
      BY <2>3, <3>1 DEF Row, LetsIn
    <3> HIDE DEF new
    <3> QED BY <2>1, <3>1, <3>2, ExactSave
  <2>10. CASE Revokes(c) \/ Deletes(c)
    <3>1. PICK new : Save(c, new) /\ ~LetsIn(new)
      BY <2>3, <2>10 DEF Revokes, Deletes, LetsIn, Row
    <3>2. call[c].pc = "read" /\ row' = row
      BY <2>10 DEF Revokes, Deletes, Reading
    <3> QED BY <2>1, <3>1, <3>2, ExactSave
  <2>11. CASE Written(c)
    <3>1. /\ row' = call[c].copy /\ pending' = pending /\ validated' = validated
          /\ Saving(c) /\ call' = [call EXCEPT ![c] = Idle]
          /\ \A d \in Calls \ {c} : call[d].pc = "idle"
      BY <2>11 DEF Written, Finish, HeldByOthers, Saving
    <3>2. \A d \in Calls : ~Saving(d)'
      BY <3>1, <1>0, <1>i DEF Saving
    <3>3. LetsIn(call[c].copy) => call[c].copy.usageCount + pending = validated
      BY <2>2, <3>1 DEF LoneSaveExact, Saving
    <3> QED BY <3>1, <3>2, <3>3 DEF RowExact, LoneSaveExact, LetsIn
  <2>12. CASE WriteFails(c)
    BY <2>0, <2>12, <1>0 DEF WriteFails, TypeOK
  <2> QED
    BY <1>4, <2>5, <2>6, <2>7, <2>8, <2>9, <2>10, <2>11, <2>12 DEF CallStep
<1> QED
  BY <1>1, <1>2, <1>3, <1>4 DEF Next

(* Until a save lands under another call's copy, a query fails or the       *)
(* process ends, an active key at rest has every request it let in either   *)
(* stored or accumulated: the reset of the accumulator at a flush loses     *)
(* nothing.                                                                 *)
THEOREM NoUseLost == Spec => []ExactUnlessOvertaken
<1>1. ExactInv => ExactUnlessOvertaken
  BY DEF ExactInv, Exact, RowExact, Saving, LetsIn, NothingInFlight, ExactUnlessOvertaken
<1> QED
  BY ExactInit, ExactStep, <1>1, PTL DEF Spec

-----------------------------------------------------------------------------
(* The gateway as a client of the key.                                     *)

LEMMA GatewayStepsKey == [GatewayNext]_gatewayVars => [Next]_vars
<1> SUFFICES ASSUME [GatewayNext]_gatewayVars PROVE [Next]_vars
  OBVIOUS
<1>1. "validate" \in Kinds
  BY DEF Kinds
<1>2. ASSUME NEW c \in Calls, Proceeds(c) \/ Returns(c) PROVE Next
  BY <1>2 DEF Proceeds, Returns, CallStep, Next
<1>3. ASSUME NEW c \in Calls, NEW kind \in Kinds, Read(c, kind) PROVE Next
  BY <1>3 DEF CallStep, Next
<1>4. ASSUME NEW k \in Sockets, NEW c \in Calls,
             Connects(k, c) \/ \E t \in Topics : Subscribes(k, c, t)
      PROVE  Next
  BY <1>1, <1>3, <1>4 DEF Connects, Subscribes
<1>5. ASSUME NEW k \in Sockets,
             \/ ConnectsBare(k) \/ SubscribesEarly(k) \/ Disconnects(k)
             \/ \E t \in Topics : Unsubscribes(k, t)
      PROVE  UNCHANGED vars
  BY <1>5 DEF ConnectsBare, SubscribesEarly, Disconnects, Unsubscribes
<1>6. CASE Tick \/ ProcessEnds
  BY <1>6 DEF ProcessEnds, Next
<1>7. UNCHANGED gatewayVars => UNCHANGED vars
  BY DEF gatewayVars
<1> QED
  BY <1>2, <1>3, <1>4, <1>5, <1>6, <1>7 DEF GatewayNext, HttpCall

(* The gateway does with the key's row and its accumulator nothing that     *)
(* ApiKeyUsage does not allow: every theorem about the key holds of it.     *)
THEOREM GatewayUsesKey == GatewaySpec => Spec
  BY GatewayStepsKey, PTL DEF GatewaySpec, GatewayInit, Spec

-----------------------------------------------------------------------------
(* Type correctness.                                                       *)
GatewayTyped ==
  /\ TypeOK
  /\ socket \in [Sockets -> Socket]
  /\ request \in [Calls -> Http \cup Asked]

LEMMA NoRequestTyped == NoRequest \in Http
  BY DEF NoRequest, Http

LEMMA ClosedTyped ==
  ASSUME NEW s \in Socket
  PROVE  Closed(s) \in Socket
  BY DEF Closed, Socket

LEMMA RoomTyped ==
  ASSUME TypeOK, NEW t \in Topics
  PROVE  RoomNow(t) \in Room
  BY DEF RoomNow, Room, TypeOK

LEMMA JoinTyped ==
  ASSUME NEW s \in Socket, NEW r \in Room
  PROVE  [s EXCEPT !.rooms = @ \cup {r}] \in Socket
  BY DEF Socket

LEMMA AnsweredTyped ==
  ASSUME GatewayTyped, NEW c \in Calls, Accepted(c) \/ TurnedAway(c)
  PROVE  socket' \in [Sockets -> Socket]
<1> DEFINE r == request[c]
<1>0. socket \in [Sockets -> Socket] /\ r \in Http \cup Asked
  BY DEF GatewayTyped
<1>1. CASE socket' = socket
  BY <1>0, <1>1
<1>2. CASE r.what # "http"
  <2>1. r.socket \in Sockets
    BY <1>0, <1>2 DEF Http, Asked
  <2>2. r.what = "connect" \/ r.room \in Room
    BY <1>0, <1>2 DEF Http, Asked
  <2>3. CASE socket' = [socket EXCEPT ![r.socket].known = TRUE]
    <3>1. [socket[r.socket] EXCEPT !.known = TRUE] \in Socket
      BY <1>0, <2>1 DEF Socket
    <3> QED BY <1>0, <2>3, <3>1
  <2>4. CASE r.room \in Room /\ socket' = [socket EXCEPT ![r.socket].rooms = @ \cup {r.room}]
    <3>1. [socket[r.socket] EXCEPT !.rooms = @ \cup {r.room}] \in Socket
      BY <1>0, <2>1, <2>4, JoinTyped
    <3> QED BY <1>0, <2>4, <3>1
  <2>5. CASE socket' = [socket EXCEPT ![r.socket] = Closed(@)]
    BY <1>0, <2>1, <2>5, ClosedTyped
  <2>6. \/ socket' = socket
        \/ socket' = [socket EXCEPT ![r.socket].known = TRUE]
        \/ r.room \in Room /\ socket' = [socket EXCEPT ![r.socket].rooms = @ \cup {r.room}]
        \/ socket' = [socket EXCEPT ![r.socket] = Closed(@)]
    BY <1>2, <2>2 DEF Accepted, TurnedAway, Heard
  <2> QED BY <1>1, <2>3, <2>4, <2>5, <2>6
<1>3. CASE r.what = "http"
  BY <1>1, <1>3 DEF Accepted, TurnedAway, Heard
<1> QED BY <1>2, <1>3

LEMMA GatewayTypedInit == GatewayInit => GatewayTyped
<1> SUFFICES ASSUME GatewayInit PROVE GatewayTyped
  OBVIOUS
<1>1. TypeOK
  BY InitTyped DEF GatewayInit
<1>2. Unused \in Socket
  BY DEF Unused, Socket
<1> QED BY <1>1, <1>2, NoRequestTyped DEF GatewayInit, GatewayTyped

LEMMA GatewayTypedStep == GatewayTyped /\ [GatewayNext]_gatewayVars => GatewayTyped'
<1> SUFFICES ASSUME GatewayTyped, [GatewayNext]_gatewayVars
             PROVE  socket' \in [Sockets -> Socket] /\ request' \in [Calls -> Http \cup Asked]
  BY GatewayStepsKey, TypeStep DEF GatewayTyped
<1>0. /\ TypeOK /\ socket \in [Sockets -> Socket] /\ request \in [Calls -> Http \cup Asked]
  BY DEF GatewayTyped
<1>1. CASE UNCHANGED <<socket, request>>
  BY <1>0, <1>1
<1>2. ASSUME NEW c \in Calls, Returns(c)
      PROVE  socket' \in [Sockets -> Socket] /\ request' \in [Calls -> Http \cup Asked]
  BY <1>0, <1>2, AnsweredTyped, NoRequestTyped DEF Returns
<1>3. ASSUME NEW k \in Sockets, NEW c \in Calls, Connects(k, c)
      PROVE  socket' \in [Sockets -> Socket] /\ request' \in [Calls -> Http \cup Asked]
  <2>1. [what |-> "connect", socket |-> k] \in Asked
    BY DEF Asked
  <2>2. [socket[k] EXCEPT !.pc = "open"] \in Socket
    BY <1>0 DEF Socket
  <2> QED BY <1>0, <1>3, <2>1, <2>2 DEF Connects
<1>4. ASSUME NEW k \in Sockets, NEW c \in Calls, NEW t \in Topics, Subscribes(k, c, t)
      PROVE  socket' \in [Sockets -> Socket] /\ request' \in [Calls -> Http \cup Asked]
  <2>1. [what |-> "subscribe", socket |-> k, room |-> RoomNow(t)] \in Asked
    BY <1>0, RoomTyped DEF Asked
  <2> QED BY <1>0, <1>4, <2>1 DEF Subscribes
<1>5. ASSUME NEW k \in Sockets, ConnectsBare(k) \/ SubscribesEarly(k) \/ Disconnects(k)
      PROVE  socket' \in [Sockets -> Socket] /\ request' \in [Calls -> Http \cup Asked]
  <2>1. Closed(socket[k]) \in Socket
    BY <1>0, ClosedTyped
  <2> QED BY <1>0, <1>5, <2>1 DEF ConnectsBare, SubscribesEarly, Disconnects
<1>6. ASSUME NEW k \in Sockets, NEW t \in Topics, Unsubscribes(k, t)
      PROVE  socket' \in [Sockets -> Socket] /\ request' \in [Calls -> Http \cup Asked]
  <2>1. [socket[k] EXCEPT !.rooms = {r \in @ : t # "*" /\ r.topic # t}] \in Socket
    BY <1>0 DEF Socket
  <2> QED BY <1>0, <1>6, <2>1 DEF Unsubscribes
<1>7. CASE ProcessEnds
  <2>1. \A k \in Sockets : Closed(socket[k]) \in Socket
    BY <1>0, ClosedTyped
  <2> QED BY <1>0, <1>7, <2>1, NoRequestTyped DEF ProcessEnds
<1> QED
  BY <1>1, <1>2, <1>3, <1>4, <1>5, <1>6, <1>7
     DEF GatewayNext, HttpCall, Proceeds, gatewayVars

(* Every state of the gateway and of the key under it is of its type.       *)
THEOREM GatewayTypeCorrect == GatewaySpec => []GatewayTypeOK
<1>1. GatewayTyped => GatewayTypeOK
  BY DEF GatewayTyped, GatewayTypeOK
<1> QED
  BY GatewayTypedInit, GatewayTypedStep, <1>1, PTL DEF GatewaySpec

-----------------------------------------------------------------------------
(* What is granted.  A call made for a socket is a validation in flight;    *)
(* until a save lands under another call's copy, the copy a subscription    *)
(* will be judged by agrees with what the room remembers of the key as it   *)
(* stood when the subscribe arrived.                                       *)
ForSocket(c) == request[c].what # "http"

RequestsInFlight ==
  \A c \in Calls : ForSocket(c) => call[c].pc # "idle" /\ call[c].kind = "validate"

RequestsCurrent ==
  ~overtaken => \A c \in Calls :
    request[c].what = "subscribe" /\ LetsIn(call[c].copy)
      => ~request[c].room.revoked /\ request[c].room.granted = call[c].copy.grants

GrantInv ==
  /\ GatewayTyped /\ HoldInv
  /\ RequestsInFlight /\ RequestsCurrent /\ RoomsWereGranted

LEMMA GrantInit == GatewayInit => GrantInv
<1> SUFFICES ASSUME GatewayInit PROVE RequestsInFlight /\ RequestsCurrent /\ RoomsWereGranted
  BY GatewayTypedInit, HoldInit DEF GrantInv, GatewayInit
<1> QED
  BY DEF GatewayInit, NoRequest, Unused, RequestsInFlight, RequestsCurrent, ForSocket,
         RoomsWereGranted

(* No step takes back that a save has overtaken a copy.                     *)
LEMMA OvertakenStays ==
  ASSUME TypeOK, [Next]_vars, ~overtaken'
  PROVE  ~overtaken
  BY DEF TypeOK, Next, CallStep, Read, Refused, Accumulates, Flushes, Updates, Revokes, Deletes,
         Written, WriteFails, Tick, Crash, vars

(* A call that goes from its read to its save keeps what a subscription is  *)
(* judged by; no call but a validation is made for a socket.                *)
LEMMA ProceedsKeeps ==
  ASSUME GrantInv, NEW c \in Calls, Proceeds(c)
  PROVE  RequestsInFlight' /\ RequestsCurrent'
<1>0. /\ call \in [Calls -> Call] /\ call[c].copy \in Row
      /\ RequestsInFlight /\ RequestsCurrent
  BY CallsTyped DEF GrantInv, HoldInv, TypeOK
<1>1. request' = request /\ overtaken' = overtaken
  BY DEF Proceeds, Flushes, Updates, Revokes, Deletes
<1>2. \A d \in Calls : d # c => call'[d] = call[d]
  BY <1>0 DEF Proceeds, Flushes, Updates, Revokes, Deletes, Save
<1>3. call'[c].pc = "save" /\ call'[c].kind = call[c].kind
  BY <1>0 DEF Proceeds, Flushes, Updates, Revokes, Deletes, Save
<1>4. CASE Flushes(c)
  <2>1. call'[c].copy.grants = call[c].copy.grants /\ LetsIn(call[c].copy)
    BY <1>0, <1>4 DEF Flushes, Save, Row
  <2> QED
    BY <1>0, <1>1, <1>2, <1>3, <2>1 DEF RequestsInFlight, RequestsCurrent, ForSocket, LetsIn
<1>5. CASE Updates(c) \/ Revokes(c) \/ Deletes(c)
  <2>1. call[c].kind # "validate"
    BY <1>5 DEF Updates, Revokes, Deletes, Reading
  <2>2. ~ForSocket(c)
    BY <1>0, <2>1 DEF RequestsInFlight
  <2> QED
    BY <1>0, <1>1, <1>2, <1>3, <2>2 DEF RequestsInFlight, RequestsCurrent, ForSocket, LetsIn
<1> QED BY <1>4, <1>5 DEF Proceeds

(* A call is answered: a room that is joined is one the key was granted.    *)
LEMMA ReturnsGrants ==
  ASSUME GrantInv, NEW c \in Calls, Returns(c)
  PROVE  RequestsInFlight' /\ RequestsCurrent' /\ RoomsWereGranted'
<1>0. /\ call \in [Calls -> Call] /\ HoldInv /\ TypeOK
      /\ RequestsInFlight /\ RequestsCurrent /\ RoomsWereGranted
      /\ socket \in [Sockets -> Socket] /\ request \in [Calls -> Http \cup Asked]
  BY DEF GrantInv, GatewayTyped, HoldInv, TypeOK
<1>1. /\ request' = [request EXCEPT ![c] = NoRequest]
      /\ call' = [call EXCEPT ![c] = Idle]
  BY DEF Returns, Accumulates, Written, Refused, WriteFails, Finish
<1>2. /\ request'[c].what = "http"
      /\ \A d \in Calls : d # c => call'[d] = call[d] /\ request'[d] = request[d]
  BY <1>0, <1>1 DEF NoRequest
<1>3. ~overtaken' => ~overtaken
  BY <1>0, OvertakenStays DEF Returns, CallStep, Next
<1>4. RequestsInFlight' /\ RequestsCurrent'
  BY <1>0, <1>2, <1>3 DEF RequestsInFlight, RequestsCurrent, ForSocket, LetsIn
<1>5. ASSUME ~overtaken, NEW k \in Sockets, NEW r \in socket'[k].rooms, r \notin socket[k].rooms
      PROVE  ~r.revoked /\ isSessionSubscriptionAllowed(r.granted, r.topic)
  <2>1. ~TurnedAway(c)
    BY <1>0, <1>5 DEF TurnedAway, Closed, Socket
  <2>2. Accepted(c) /\ (Accumulates(c) \/ Written(c))
    BY <2>1 DEF Returns
  <2>3. /\ request[c].what = "subscribe" /\ r = request[c].room
        /\ isSessionSubscriptionAllowed(call[c].copy.grants, r.topic)
    BY <1>0, <1>5, <2>2 DEF Accepted, Socket
  <2>4. call[c].kind = "validate"
    BY <1>0, <2>3 DEF RequestsInFlight, ForSocket
  <2>5. LetsIn(call[c].copy)
    BY <1>0, <1>5, <2>2, <2>4 DEF Accumulates, Written, HoldInv, CopiesCurrent
  <2> QED BY <1>0, <1>5, <2>3, <2>5 DEF RequestsCurrent
<1> QED BY <1>0, <1>3, <1>4, <1>5 DEF RoomsWereGranted

(* A read that opens a call of a socket's, or of anybody's: what a room of  *)
(* this moment remembers of the key is what the copy says of it.            *)
LEMMA ReadsCurrent ==
  ASSUME GrantInv, NEW c \in Calls, NEW kind \in Kinds, Read(c, kind), NEW q,
         request' = [request EXCEPT ![c] = q],
         q.what # "http" => kind = "validate",
         q.what = "subscribe" => q.room.revoked = revoked /\ q.room.granted = granted
  PROVE  RequestsInFlight' /\ RequestsCurrent'
<1>0. /\ call \in [Calls -> Call] /\ request \in [Calls -> Http \cup Asked]
      /\ RequestsInFlight /\ RequestsCurrent /\ ChangesHold
  BY DEF GrantInv, GatewayTyped, HoldInv, TypeOK
<1>1. /\ call'[c].pc = "read" /\ call'[c].kind = kind /\ call'[c].copy = row
      /\ request'[c] = q
      /\ \A d \in Calls : d # c => call'[d] = call[d] /\ request'[d] = request[d]
  BY <1>0 DEF Read
<1>2. overtaken' = overtaken
  BY DEF Read
<1>3. ~overtaken /\ LetsIn(row) => ~revoked /\ row.grants = granted
  BY <1>0 DEF ChangesHold, LetsIn
<1> QED
  BY <1>0, <1>1, <1>2, <1>3 DEF RequestsInFlight, RequestsCurrent, ForSocket, LetsIn

LEMMA GrantStep == GrantInv /\ [GatewayNext]_gatewayVars => GrantInv'
<1> SUFFICES ASSUME GrantInv, [GatewayNext]_gatewayVars
             PROVE  RequestsInFlight' /\ RequestsCurrent' /\ RoomsWereGranted'
  BY GatewayTypedStep, GatewayStepsKey, HoldStep DEF GrantInv
<1> DEFINE Goal == RequestsInFlight' /\ RequestsCurrent' /\ RoomsWereGranted'
<1>0. /\ TypeOK /\ call \in [Calls -> Call]
      /\ RequestsInFlight /\ RequestsCurrent /\ RoomsWereGranted
      /\ socket \in [Sockets -> Socket] /\ request \in [Calls -> Http \cup Asked]
  BY DEF GrantInv, GatewayTyped, TypeOK
<1>t. ~overtaken' => ~overtaken
  BY <1>0, GatewayStepsKey, OvertakenStays
<1>a. ASSUME \A k \in Sockets : socket'[k].rooms \subseteq socket[k].rooms
      PROVE  RoomsWereGranted'
  BY <1>0, <1>t, <1>a DEF RoomsWereGranted
<1>1. CASE UNCHANGED gatewayVars
  BY <1>0, <1>1 DEF gatewayVars, vars, RequestsInFlight, RequestsCurrent, ForSocket, LetsIn,
     RoomsWereGranted
<1>2. ASSUME NEW c \in Calls, Proceeds(c) PROVE Goal
  BY <1>a, <1>2, ProceedsKeeps DEF Proceeds
<1>3. ASSUME NEW c \in Calls, Returns(c) PROVE Goal
  BY <1>3, ReturnsGrants
<1>4. ASSUME NEW c \in Calls, NEW kind \in Kinds, HttpCall(c, kind) PROVE Goal
  <2>1. request[c].what = "http" /\ Read(c, kind) /\ socket' = socket /\ request' = request
    BY <1>0, <1>4 DEF HttpCall, Read, RequestsInFlight, ForSocket
  <2>2. request' = [request EXCEPT ![c] = request[c]]
    BY <1>0, <2>1
  <2>3. RequestsInFlight' /\ RequestsCurrent'
    BY <2>1, <2>2, ReadsCurrent
  <2> QED BY <1>a, <2>1, <2>3
<1>5. ASSUME NEW k \in Sockets, NEW c \in Calls, Connects(k, c) PROVE Goal
  <2>1. "validate" \in Kinds
    BY DEF Kinds
  <2> DEFINE q == [what |-> "connect", socket |-> k]
  <2>2. q.what = "connect" /\ Read(c, "validate") /\ request' = [request EXCEPT ![c] = q]
    BY <1>5 DEF Connects
  <2> HIDE DEF q
  <2>3. RequestsInFlight' /\ RequestsCurrent'
    BY <2>1, <2>2, ReadsCurrent
  <2>4. \A j \in Sockets : socket'[j].rooms = socket[j].rooms
    BY <1>0, <1>5 DEF Connects, Socket
  <2> QED BY <1>a, <2>3, <2>4
<1>6. ASSUME NEW k \in Sockets, NEW c \in Calls, NEW t \in Topics, Subscribes(k, c, t) PROVE Goal
  <2>1. "validate" \in Kinds
    BY DEF Kinds
  <2> DEFINE q == [what |-> "subscribe", socket |-> k, room |-> RoomNow(t)]
  <2>2. /\ q.what = "subscribe" /\ q.room.revoked = revoked /\ q.room.granted = granted
        /\ Read(c, "validate") /\ request' = [request EXCEPT ![c] = q] /\ socket' = socket
    BY <1>6 DEF Subscribes, RoomNow
  <2> HIDE DEF q
  <2>3. RequestsInFlight' /\ RequestsCurrent'
    BY <2>1, <2>2, ReadsCurrent
  <2> QED BY <1>a, <2>2, <2>3
<1>7. ASSUME NEW k \in Sockets,
             \/ ConnectsBare(k) \/ SubscribesEarly(k) \/ Disconnects(k)
             \/ \E t \in Topics : Unsubscribes(k, t)
      PROVE  Goal
  <2>1. UNCHANGED <<vars, request>>
    BY <1>7 DEF ConnectsBare, SubscribesEarly, Disconnects, Unsubscribes
  <2>2. RequestsInFlight' /\ RequestsCurrent'
    BY <1>0, <2>1 DEF vars, RequestsInFlight, RequestsCurrent, ForSocket, LetsIn
  <2>3. \A j \in Sockets : socket'[j].rooms \subseteq socket[j].rooms
    <3>1. CASE socket' = [socket EXCEPT ![k] = Closed(@)]
      BY <1>0, <3>1 DEF Closed, Socket
    <3>2. ASSUME NEW t \in Topics, Unsubscribes(k, t)
          PROVE  \A j \in Sockets : socket'[j].rooms \subseteq socket[j].rooms
      BY <1>0, <3>2 DEF Unsubscribes, Socket
    <3> QED BY <1>7, <3>1, <3>2 DEF ConnectsBare, SubscribesEarly, Disconnects
  <2> QED BY <1>a, <2>2, <2>3
<1>8. CASE Tick /\ UNCHANGED <<socket, request>>
  <2>1. UNCHANGED <<call, overtaken, socket, request>>
    BY <1>8 DEF Tick
  <2> QED
    BY <1>0, <1>a, <2>1 DEF RequestsInFlight, RequestsCurrent, ForSocket, LetsIn
<1>9. CASE ProcessEnds
  <2>1. \A c \in Calls : request'[c].what = "http"
    BY <1>9 DEF ProcessEnds, NoRequest
  <2>2. \A j \in Sockets : socket'[j].rooms \subseteq socket[j].rooms
    BY <1>0, <1>9 DEF ProcessEnds, Closed, Socket
  <2> QED BY <1>a, <2>1, <2>2 DEF RequestsInFlight, RequestsCurrent, ForSocket
<1> QED
  BY <1>1, <1>2, <1>3, <1>4, <1>5, <1>6, <1>7, <1>8, <1>9 DEF GatewayNext

(* However connections, subscriptions and changes of the key overlap: until *)
(* a save lands under another call's copy, a socket is in no room that the  *)
(* key, as it stood when the subscribe arrived, did not open to it.         *)
THEOREM RoomsAreGranted == GatewaySpec => []RoomsWereGranted
<1>1. GrantInv => RoomsWereGranted
  BY DEF GrantInv
<1> QED
  BY GrantInit, GrantStep, <1>1, PTL DEF GatewaySpec
=============================================================================
