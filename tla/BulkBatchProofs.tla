-------------------------- MODULE BulkBatchProofs --------------------------
(***************************************************************************)
(* What holds of a bulk batch of any size, with any number of cancelBatch  *)
(* calls, restarts and rejected queries.                                   *)
(***************************************************************************)
EXTENDS BulkBatch, FiniteSetTheorems, TLAPS

USE ConstantsAssumption

-----------------------------------------------------------------------------
(* The operators on entities.                                              *)

LEMMA FinalStatusTyped ==
  ASSUME NEW a, NEW b, NEW m \in Entity
  PROVE  FinalStatus(a, b, m) \in Terminal
  BY DEF FinalStatus, Terminal, Entity

LEMMA ReconcileTyped ==
  ASSUME NEW m \in Entity
  PROVE  Reconcile(m) \in Entity
  BY DEF Reconcile, Entity

LEMMA StatusTyped ==
  ASSUME NEW m \in Entity, NEW s \in Statuses
  PROVE  [m EXCEPT !.status = s] \in Entity
  BY DEF Entity

LEMMA IndexTyped ==
  ASSUME NEW m \in Entity, NEW i \in 0..N
  PROVE  [m EXCEPT !.index = i] \in Entity
  BY DEF Entity

LEMMA CountedTyped ==
  ASSUME NEW ok \in BOOLEAN, mem \in Entity
  PROVE  Counted(ok) \in Entity
  BY DEF Counted, Entity

-----------------------------------------------------------------------------
(* The loop's three ways on, as far as types go.                           *)
LoopTyped ==
  /\ mem' \in Entity
  /\ wpc' \in WorkerAt
  /\ at' \in 0..N
  /\ wpc' \in {"send", "save", "sleep"} => at' \in 1..N
  /\ sends' \in [1..N -> Nat]

LEMMA FinalizeTyped ==
  ASSUME TypeOK, NEW m \in Entity, NEW stopped \in BOOLEAN, Finalize(m, stopped)
  PROVE  LoopTyped
<1> DEFINE isCancelled == flag # "run"
           final == [m EXCEPT !.status = FinalStatus(isCancelled, stopped, m)]
<1>1. FinalStatus(isCancelled, stopped, m) \in Statuses
  BY FinalStatusTyped DEF Terminal, Statuses
<1>2. final \in Entity
  BY <1>1, StatusTyped
<1>3. Reconcile(final) \in Entity
  BY <1>2, ReconcileTyped
<1>4. mem' \in Entity
  BY <1>2, <1>3 DEF Finalize
<1>5. wpc' = "final" /\ at' = at /\ sends' = sends
  BY DEF Finalize
<1> QED BY <1>4, <1>5 DEF LoopTyped, TypeOK, WorkerAt

LEMMA GoOnTyped ==
  ASSUME TypeOK, NEW m \in Entity, NEW k \in 1..(N + 1), GoOn(m, k)
  PROVE  LoopTyped
<1>1. CASE k <= N /\ flag = "run"
  <2>1. mem' = m /\ at' = k /\ wpc' = "send" /\ sends' = [sends EXCEPT ![k] = @ + 1]
    BY <1>1 DEF GoOn
  <2> QED BY <1>1, <2>1 DEF LoopTyped, TypeOK, WorkerAt
<1>2. CASE ~(k <= N /\ flag = "run")
  BY <1>2, FinalizeTyped DEF GoOn
<1> QED BY <1>1, <1>2

LEMMA PauseTyped ==
  ASSUME TypeOK, at \in 1..N, NEW m \in Entity, Pause(m)
  PROVE  LoopTyped
<1>1. CASE at < N /\ flag = "run"
  <2>1. mem' = m /\ wpc' = "sleep" /\ at' = at /\ sends' = sends
    BY <1>1 DEF Pause
  <2> QED BY <2>1 DEF LoopTyped, TypeOK, WorkerAt
<1>2. CASE ~(at < N /\ flag = "run")
  <2>1. GoOn(m, at + 1) /\ at + 1 \in 1..(N + 1)
    BY <1>2 DEF Pause
  <2> QED BY <2>1, GoOnTyped
<1> QED BY <1>1, <1>2

-----------------------------------------------------------------------------
(* Type correctness.                                                       *)

LEMMA TypeInit == Init => TypeOK
  BY DEF Init, TypeOK, Fresh, Entity, Statuses, WorkerAt

LEMMA TypeStep == TypeOK /\ [Next]_vars => TypeOK'
<1> SUFFICES ASSUME TypeOK, [Next]_vars PROVE TypeOK'
  OBVIOUS
<1>1. CASE Create
  <2>1. row' \in Entity
    BY <1>1, StatusTyped DEF Create, TypeOK, Statuses
  <2> QED BY <1>1, <2>1 DEF Create, TypeOK, WorkerAt
<1>2. CASE WorkerReads
  BY <1>2 DEF WorkerReads, TypeOK, WorkerAt
<1>3. CASE WorkerMarks
  <2>1. mem' \in Entity
    BY <1>3, StatusTyped DEF WorkerMarks, TypeOK, Statuses
  <2> QED BY <1>3, <2>1 DEF WorkerMarks, TypeOK, WorkerAt
<1>4. CASE MarkSaved
  <2>1. mem.index + 1 \in 1..(N + 1)
    BY SMTT(30) DEF TypeOK, Entity
  <2>2. LoopTyped
    <3>1. CASE GoOn(mem, mem.index + 1)
      BY <3>1, <2>1, GoOnTyped DEF TypeOK
    <3>2. CASE /\ mem' = [mem EXCEPT !.status = "FAILED"] /\ wpc' = "abort"
               /\ UNCHANGED <<at, sends>>
      <4>1. mem' \in Entity
        BY <3>2, StatusTyped DEF TypeOK, Statuses
      <4> QED BY <3>2, <4>1 DEF LoopTyped, TypeOK, WorkerAt
    <3> QED BY <1>4, <3>1, <3>2 DEF MarkSaved
  <2> QED BY <1>4, <2>2 DEF MarkSaved, LoopTyped, TypeOK
<1>5. CASE AbortSaved
  BY <1>5 DEF AbortSaved, TypeOK, WorkerAt
<1>6. ASSUME NEW ok \in BOOLEAN, SendReturns(ok) PROVE TypeOK'
  <2> DEFINE done == [Counted(ok) EXCEPT !.index = at]
  <2>1. Counted(ok) \in Entity /\ at \in 1..N
    BY <1>6, CountedTyped DEF TypeOK, SendReturns
  <2>2. done \in Entity
    BY <2>1, IndexTyped
  <2>3. LoopTyped
    <3>1. CASE Finalize(Counted(ok), TRUE)
      BY <3>1, <2>1, FinalizeTyped
    <3>2. CASE mem' = done /\ wpc' = "save" /\ UNCHANGED <<at, sends>>
      BY <3>2, <2>1, <2>2 DEF LoopTyped, TypeOK, WorkerAt
    <3>3. CASE Pause(done)
      BY <3>3, <2>1, <2>2, PauseTyped
    <3> QED BY <1>6, <3>1, <3>2, <3>3 DEF SendReturns
  <2>4. accepted' \in SUBSET (1..N)
    BY <1>6, <2>1 DEF SendReturns, TypeOK
  <2> QED BY <1>6, <2>3, <2>4 DEF SendReturns, LoopTyped, TypeOK
<1>7. CASE ProgressSaved
  <2>1. LoopTyped
    BY <1>7, PauseTyped DEF ProgressSaved, TypeOK
  <2> QED BY <1>7, <2>1 DEF ProgressSaved, LoopTyped, TypeOK
<1>8. CASE Wake
  <2>1. at + 1 \in 1..(N + 1)
    BY <1>8 DEF Wake, TypeOK
  <2>2. LoopTyped
    BY <1>8, <2>1, GoOnTyped DEF Wake, TypeOK
  <2> QED BY <1>8, <2>2 DEF Wake, LoopTyped, TypeOK
<1>9. CASE FinalSaved
  BY <1>9 DEF FinalSaved, TypeOK, WorkerAt
<1>10. CASE WorkerQueryFails
  BY <1>10 DEF WorkerQueryFails, TypeOK, WorkerAt
<1>11. CASE Crash
  BY <1>11 DEF Crash, TypeOK, WorkerAt
<1>12. CASE Boot
  <2>1. row' \in Entity
    BY <1>12, StatusTyped DEF Boot, TypeOK, Statuses
  <2> QED BY <1>12, <2>1 DEF Boot, TypeOK
<1>13. ASSUME NEW c \in Cancellers, CancelReads(c) PROVE TypeOK'
  BY <1>13 DEF CancelReads, TypeOK
<1>14. ASSUME NEW c \in Cancellers, CancelSignals(c) PROVE TypeOK'
  <2>1. [Reconcile(snap[c]) EXCEPT !.status = "CANCELLED"] \in Entity
    BY ReconcileTyped, StatusTyped DEF TypeOK, Statuses
  <2>2. snap' \in [Cancellers -> Entity]
    BY <1>14, <2>1 DEF CancelSignals, TypeOK
  <2> QED BY <1>14, <2>2 DEF CancelSignals, TypeOK
<1>15. ASSUME NEW c \in Cancellers, CancelSaved(c) PROVE TypeOK'
  BY <1>15 DEF CancelSaved, TypeOK
<1>16. ASSUME NEW c \in Cancellers, CancelSaveFails(c) PROVE TypeOK'
  BY <1>16 DEF CancelSaveFails, TypeOK
<1>17. CASE UNCHANGED vars
  BY <1>17 DEF vars, TypeOK
<1> QED
  BY <1>1, <1>2, <1>3, <1>4, <1>5, <1>6, <1>7, <1>8, <1>9, <1>10, <1>11, <1>12, <1>13, <1>14,
     <1>15, <1>16, <1>17 DEF Next, WorkerStep, CancelStep

(* Every state of a batch is of the declared types; the loop never looks    *)
(* past the last message.                                                   *)
THEOREM TypeCorrect == Spec => []TypeOK
  BY TypeInit, TypeStep, PTL DEF Spec
-----------------------------------------------------------------------------
(* No message is sent twice.  The loop only moves up, and it starts from   *)
(* the index the row was created with: a worker that has read nothing yet, *)
(* or is still marking the batch, has sent nothing, and no cancel holds a  *)
(* copy with another index to write back before the worker reads.          *)
SentUpToAt == \A k \in 1..N : sends[k] <= 1 /\ (k > at => sends[k] = 0)

NothingBegun ==
  /\ wpc \in {"none", "find", "found", "mark"} => at = 0
  /\ wpc \in {"none", "find"} => row.index = 0 /\ \A c \in Cancellers : snap[c].index = 0
  /\ wpc \in {"found", "mark"} => mem.index = 0

(* The row exists once createBatch saved it; it is created once.            *)
CreatedOnce ==
  /\ row.status = "NONE" => wpc = "none"
  /\ wpc \notin {"none", "find", "done"} => mem.status # "NONE"
  /\ \A c \in Cancellers : cpc[c] \in {"found", "save"} => snap[c].status # "NONE"

OnceInv == TypeOK /\ SentUpToAt /\ NothingBegun /\ CreatedOnce

(* What the loop's three ways on do to the count of calls.                  *)
LoopOnce ==
  /\ SentUpToAt'
  /\ wpc' \in {"send", "save", "sleep", "abort", "final"}
  /\ mem'.status # "NONE"

LEMMA FinalizeOnce ==
  ASSUME TypeOK, SentUpToAt, NEW m \in Entity, NEW stopped \in BOOLEAN, Finalize(m, stopped)
  PROVE  LoopOnce
<1> DEFINE s == FinalStatus(flag # "run", stopped, m)
           final == [m EXCEPT !.status = s]
<1>1. s \in Terminal
  BY FinalStatusTyped
<1>2. final.status = s /\ Reconcile(final).status = s
  BY DEF Reconcile, Entity
<1>3. mem'.status = s
  BY <1>2 DEF Finalize
<1>4. wpc' = "final" /\ at' = at /\ sends' = sends
  BY DEF Finalize
<1> QED BY <1>1, <1>3, <1>4 DEF LoopOnce, SentUpToAt, Terminal

LEMMA GoOnOnce ==
  ASSUME TypeOK, SentUpToAt, NEW m \in Entity, m.status # "NONE", GoOn(m, at + 1)
  PROVE  LoopOnce
<1>1. CASE at + 1 <= N /\ flag = "run"
  <2>1. /\ mem' = m /\ at' = at + 1 /\ wpc' = "send"
        /\ sends' = [sends EXCEPT ![at + 1] = @ + 1]
    BY <1>1 DEF GoOn
  <2>2. at \in Nat /\ at + 1 \in 1..N /\ sends \in [1..N -> Nat]
    BY <1>1 DEF TypeOK
  <2>3. sends'[at + 1] = 1
    BY <2>1, <2>2 DEF SentUpToAt
  <2>4. \A k \in 1..N : k # at + 1 => sends'[k] = sends[k]
    BY <2>1, <2>2
  <2>5. SentUpToAt'
    BY <2>1, <2>2, <2>3, <2>4 DEF SentUpToAt
  <2> QED BY <2>1, <2>5 DEF LoopOnce
<1>2. CASE ~(at + 1 <= N /\ flag = "run")
  BY <1>2, FinalizeOnce DEF GoOn
<1> QED BY <1>1, <1>2

LEMMA PauseOnce ==
  ASSUME TypeOK, SentUpToAt, NEW m \in Entity, m.status # "NONE", Pause(m)
  PROVE  LoopOnce
<1>1. CASE at < N /\ flag = "run"
  BY <1>1 DEF Pause, LoopOnce, SentUpToAt
<1>2. CASE ~(at < N /\ flag = "run")
  BY <1>2, GoOnOnce DEF Pause
<1> QED BY <1>1, <1>2

LEMMA OnceInit == Init => OnceInv
  BY TypeInit DEF Init, OnceInv, SentUpToAt, NothingBegun, CreatedOnce, Fresh

LEMMA OnceStep == OnceInv /\ [Next]_vars => OnceInv'
<1> SUFFICES ASSUME OnceInv, [Next]_vars PROVE SentUpToAt' /\ NothingBegun' /\ CreatedOnce'
  BY TypeStep DEF OnceInv
<1> USE DEF OnceInv
<1>0. ASSUME LoopOnce, UNCHANGED <<cpc, snap>>, row' = row \/ row' = mem,
             wpc \notin {"none", "find", "done"}
      PROVE  SentUpToAt' /\ NothingBegun' /\ CreatedOnce'
  BY <1>0 DEF LoopOnce, NothingBegun, CreatedOnce
<1>1. CASE Create
  <2>1. row'.status = "PENDING" /\ row'.index = row.index
    BY <1>1 DEF Create, TypeOK, Entity
  <2> QED BY <1>1, <2>1 DEF Create, SentUpToAt, NothingBegun, CreatedOnce
<1>2. CASE WorkerReads
  BY <1>2 DEF WorkerReads, SentUpToAt, NothingBegun, CreatedOnce
<1>3. CASE WorkerMarks
  <2>1. mem'.status = "PROCESSING" /\ mem'.index = mem.index
    BY <1>3 DEF WorkerMarks, TypeOK, Entity
  <2> QED BY <1>3, <2>1 DEF WorkerMarks, SentUpToAt, NothingBegun, CreatedOnce
<1>4. CASE MarkSaved
  <2>1. at = 0 /\ mem.index = 0 /\ mem.status # "NONE" /\ mem \in Entity
    BY <1>4 DEF MarkSaved, NothingBegun, CreatedOnce, TypeOK
  <2>2. CASE GoOn(mem, mem.index + 1)
    <3>1. LoopOnce
      BY <2>1, <2>2, GoOnOnce
    <3> QED BY <1>0, <1>4, <3>1 DEF MarkSaved
  <2>3. CASE /\ mem' = [mem EXCEPT !.status = "FAILED"] /\ wpc' = "abort"
             /\ UNCHANGED <<at, sends>>
    <3>1. mem'.status = "FAILED"
      BY <2>1, <2>3 DEF Entity
    <3>2. LoopOnce
      BY <2>3, <3>1 DEF LoopOnce, SentUpToAt
    <3> QED BY <1>0, <1>4, <3>2 DEF MarkSaved
  <2> QED BY <1>4, <2>2, <2>3 DEF MarkSaved
<1>5. CASE AbortSaved
  BY <1>5 DEF AbortSaved, SentUpToAt, NothingBegun, CreatedOnce
<1>6. ASSUME NEW ok \in BOOLEAN, SendReturns(ok)
      PROVE  SentUpToAt' /\ NothingBegun' /\ CreatedOnce'
  <2> DEFINE done == [Counted(ok) EXCEPT !.index = at]
  <2>1. Counted(ok) \in Entity /\ at \in 1..N /\ mem.status # "NONE"
    BY <1>6, CountedTyped DEF TypeOK, SendReturns, CreatedOnce
  <2>2. done \in Entity /\ done.status # "NONE"
    BY <2>1, IndexTyped DEF Counted
  <2>3. LoopOnce
    <3>1. CASE Finalize(Counted(ok), TRUE)
      BY <3>1, <2>1, FinalizeOnce
    <3>2. CASE mem' = done /\ wpc' = "save" /\ UNCHANGED <<at, sends>>
      BY <3>2, <2>1, <2>2 DEF LoopOnce, SentUpToAt
    <3>3. CASE Pause(done)
      BY <3>3, <2>1, <2>2, PauseOnce
    <3> QED BY <1>6, <3>1, <3>2, <3>3 DEF SendReturns
  <2> QED BY <1>0, <1>6, <2>3 DEF SendReturns
<1>7. CASE ProgressSaved
  <2>1. LoopOnce
    BY <1>7, PauseOnce DEF ProgressSaved, CreatedOnce, TypeOK
  <2> QED BY <1>0, <1>7, <2>1 DEF ProgressSaved
<1>8. CASE Wake
  <2>1. LoopOnce
    BY <1>8, GoOnOnce DEF Wake, CreatedOnce, TypeOK
  <2> QED BY <1>0, <1>8, <2>1 DEF Wake
<1>9. CASE FinalSaved
  BY <1>9 DEF FinalSaved, SentUpToAt, NothingBegun, CreatedOnce
<1>10. CASE WorkerQueryFails
  BY <1>10 DEF WorkerQueryFails, SentUpToAt, NothingBegun, CreatedOnce
<1>11. CASE Crash
  BY <1>11 DEF Crash, SentUpToAt, NothingBegun, CreatedOnce
<1>12. CASE Boot
  <2>1. row'.index = row.index /\ (row'.status = "NONE" => row.status = "NONE")
    BY <1>12 DEF Boot, TypeOK, Entity
  <2> QED BY <1>12, <2>1 DEF Boot, SentUpToAt, NothingBegun, CreatedOnce
<1>13. ASSUME NEW c \in Cancellers, CancelReads(c)
       PROVE  SentUpToAt' /\ NothingBegun' /\ CreatedOnce'
  <2>1. \A d \in Cancellers : snap'[d] = IF d = c THEN row ELSE snap[d]
    BY <1>13 DEF CancelReads, TypeOK
  <2>2. \A d \in Cancellers : d # c => cpc'[d] = cpc[d]
    BY <1>13 DEF CancelReads, TypeOK
  <2> QED BY <1>13, <2>1, <2>2 DEF CancelReads, SentUpToAt, NothingBegun, CreatedOnce
<1>14. ASSUME NEW c \in Cancellers, CancelSignals(c)
       PROVE  SentUpToAt' /\ NothingBegun' /\ CreatedOnce'
  <2>1. \A d \in Cancellers : /\ snap'[d].index = snap[d].index
                              /\ snap'[d].status \in {snap[d].status, "CANCELLED"}
    <3> DEFINE cancelled == [Reconcile(snap[c]) EXCEPT !.status = "CANCELLED"]
    <3>1. cancelled.index = snap[c].index /\ cancelled.status = "CANCELLED"
      BY DEF Reconcile
    <3>2. snap' = snap \/ snap' = [snap EXCEPT ![c] = cancelled]
      BY <1>14 DEF CancelSignals
    <3> HIDE DEF cancelled
    <3> QED BY <3>1, <3>2 DEF TypeOK
  <2>2. \A d \in Cancellers : cpc'[d] \in {"found", "save"} => cpc[d] \in {"found", "save"}
    BY <1>14 DEF CancelSignals, TypeOK
  <2> QED BY <1>14, <2>1, <2>2 DEF CancelSignals, SentUpToAt, NothingBegun, CreatedOnce
<1>15. ASSUME NEW c \in Cancellers, CancelSaved(c)
       PROVE  SentUpToAt' /\ NothingBegun' /\ CreatedOnce'
  <2>1. \A d \in Cancellers : cpc'[d] \in {"found", "save"} => cpc[d] \in {"found", "save"}
    BY <1>15 DEF CancelSaved, TypeOK
  <2> QED BY <1>15, <2>1 DEF CancelSaved, SentUpToAt, NothingBegun, CreatedOnce
<1>16. ASSUME NEW c \in Cancellers, CancelSaveFails(c)
       PROVE  SentUpToAt' /\ NothingBegun' /\ CreatedOnce'
  <2>1. \A d \in Cancellers : cpc'[d] \in {"found", "save"} => cpc[d] \in {"found", "save"}
    BY <1>16 DEF CancelSaveFails, TypeOK
  <2> QED BY <1>16, <2>1 DEF CancelSaveFails, SentUpToAt, NothingBegun, CreatedOnce
<1>17. CASE UNCHANGED vars
  BY <1>17 DEF vars, SentUpToAt, NothingBegun, CreatedOnce
<1> QED
  BY <1>1, <1>2, <1>3, <1>4, <1>5, <1>6, <1>7, <1>8, <1>9, <1>10, <1>11, <1>12, <1>13, <1>14,
     <1>15, <1>16, <1>17 DEF Next, WorkerStep, CancelStep

(* However often the process ends and whatever is cancelled, no message of  *)
(* a batch is handed to the engine twice: the sweep at startup fails what   *)
(* it finds and resumes nothing.                                            *)
THEOREM SentAtMostOnce == Spec => []NeverSentTwice
<1>1. OnceInv => NeverSentTwice
  BY DEF OnceInv, SentUpToAt, NeverSentTwice
<1> QED BY OnceInit, OnceStep, <1>1, PTL DEF Spec
-----------------------------------------------------------------------------
(* The counters.  Reconciling overwrites `cancelled`, so the balance needs *)
(* it to be zero in every copy that may still be reconciled: any copy of a *)
(* batch that is neither completed nor cancelled, and the worker's until   *)
(* its final save.                                                         *)
NoEarly == \A c \in Cancellers : met[c] # "early"

Clean(m) == m.status \notin {"COMPLETED", "CANCELLED"} => m.cancelled = 0

Books ==
  /\ Balanced(row) /\ Clean(row)
  /\ Balanced(mem) /\ Clean(mem)
  /\ \A c \in Cancellers : Balanced(snap[c]) /\ Clean(snap[c])
  /\ wpc \notin {"final", "done"} => mem.cancelled = 0
  /\ wpc \in {"none", "find"} => row.cancelled = 0
  /\ wpc \in {"none", "find", "found"} => \A c \in Cancellers : cpc[c] # "save"

MetOnSignal == \A c \in Cancellers : cpc[c] \in {"idle", "found"} => met[c] = "none"

BooksInv == OnceInv /\ MetOnSignal /\ (NoEarly => Books)

LoopBalanced ==
  /\ Balanced(mem') /\ Clean(mem')
  /\ wpc' # "final" => mem'.cancelled = 0
  /\ wpc' \notin {"none", "find", "found", "done"}

LEMMA FinalizeBalanced ==
  ASSUME NEW m \in Entity, NEW stopped \in BOOLEAN, Balanced(m), m.cancelled = 0,
         Finalize(m, stopped)
  PROVE  LoopBalanced
<1> DEFINE s == FinalStatus(flag # "run", stopped, m)
           final == [m EXCEPT !.status = s]
<1>1. CASE flag = "run"
  <2>1. mem' = final /\ wpc' = "final"
    BY <1>1 DEF Finalize
  <2>2. Balanced(final) /\ final.cancelled = 0
    BY DEF Balanced, Entity
  <2> QED BY <2>1, <2>2 DEF LoopBalanced, Clean
<1>2. CASE flag # "run"
  <2>1. s = "CANCELLED"
    BY <1>2 DEF FinalStatus
  <2>2. mem' = Reconcile(final) /\ wpc' = "final"
    BY <1>2 DEF Finalize
  <2>3. /\ final.sent = m.sent /\ final.failed = m.failed /\ final.pending = m.pending
        /\ final.results = m.results /\ final.status = s
    BY DEF Entity
  <2>4. Balanced(Reconcile(final)) /\ Reconcile(final).status = "CANCELLED"
    BY <2>1, <2>3 DEF Balanced, Reconcile, Entity
  <2> QED BY <2>2, <2>4 DEF LoopBalanced, Clean
<1> QED BY <1>1, <1>2

LEMMA GoOnBalanced ==
  ASSUME NEW m \in Entity, Balanced(m), m.cancelled = 0, NEW k, GoOn(m, k)
  PROVE  LoopBalanced
<1>1. CASE k <= N /\ flag = "run"
  BY <1>1 DEF GoOn, LoopBalanced, Clean
<1>2. CASE ~(k <= N /\ flag = "run")
  BY <1>2, FinalizeBalanced DEF GoOn
<1> QED BY <1>1, <1>2

LEMMA PauseBalanced ==
  ASSUME NEW m \in Entity, Balanced(m), m.cancelled = 0, Pause(m)
  PROVE  LoopBalanced
<1>1. CASE at < N /\ flag = "run"
  BY <1>1 DEF Pause, LoopBalanced, Clean
<1>2. CASE ~(at < N /\ flag = "run")
  BY <1>2, GoOnBalanced DEF Pause
<1> QED BY <1>1, <1>2

LEMMA BooksInit == Init => BooksInv
<1> SUFFICES ASSUME Init PROVE MetOnSignal /\ Books
  BY OnceInit DEF BooksInv
<1>1. Balanced(Fresh) /\ Clean(Fresh) /\ Fresh.cancelled = 0
  BY DEF Balanced, Clean, Fresh
<1> QED BY <1>1 DEF Init, MetOnSignal, Books

(* The signal of a cancel is recorded once.                                 *)
LEMMA MetStep ==
  ASSUME TypeOK, MetOnSignal, [Next]_vars
  PROVE  MetOnSignal' /\ (NoEarly' => NoEarly)
<1>1. CASE UNCHANGED <<cpc, met>>
  BY <1>1 DEF MetOnSignal, NoEarly
<1>2. CASE Crash
  BY <1>2 DEF Crash, TypeOK, MetOnSignal, NoEarly
<1>3. ASSUME NEW c \in Cancellers, CancelSignals(c)
      PROVE  MetOnSignal' /\ (NoEarly' => NoEarly)
  <2>1. \A d \in Cancellers : d # c => cpc'[d] = cpc[d] /\ met'[d] = met[d]
    BY <1>3 DEF CancelSignals, TypeOK
  <2>2. met[c] = "none" /\ cpc'[c] \in {"save", "done"}
    BY <1>3 DEF CancelSignals, MetOnSignal, TypeOK
  <2> QED BY <2>1, <2>2 DEF MetOnSignal, NoEarly
<1>4. ASSUME NEW c \in Cancellers, CancelReads(c) \/ CancelSaved(c) \/ CancelSaveFails(c)
      PROVE  MetOnSignal' /\ (NoEarly' => NoEarly)
  <2>1. \A d \in Cancellers : cpc'[d] \in {"idle", "found"} => cpc[d] \in {"idle", "found"}
    BY <1>4 DEF CancelReads, CancelSaved, CancelSaveFails, TypeOK
  <2>2. met' = met
    BY <1>4 DEF CancelReads, CancelSaved, CancelSaveFails
  <2> QED BY <2>1, <2>2 DEF MetOnSignal, NoEarly
<1>5. Create \/ WorkerStep \/ WorkerQueryFails \/ Boot \/ UNCHANGED vars
        => UNCHANGED <<cpc, met>>
  BY DEF Create, WorkerStep, WorkerReads, WorkerMarks, MarkSaved, AbortSaved, SendReturns,
         ProgressSaved, Wake, FinalSaved, WorkerQueryFails, Boot, vars
<1> QED BY <1>1, <1>2, <1>3, <1>4, <1>5 DEF Next, CancelStep

LEMMA BooksStep == BooksInv /\ [Next]_vars => BooksInv'
<1> SUFFICES ASSUME BooksInv, [Next]_vars, NoEarly, NoEarly' PROVE Books'
  BY OnceStep, MetStep DEF BooksInv, OnceInv
<1>0. Books /\ TypeOK /\ CreatedOnce
  BY DEF BooksInv, OnceInv
<1> USE <1>0
<1>a. ASSUME LoopBalanced, UNCHANGED <<cpc, snap>>, row' = row \/ row' = mem
      PROVE  Books'
  <2>1. wpc' \notin {"none", "find", "found", "done"}
    BY <1>a DEF LoopBalanced
  <2> QED BY <1>a, <2>1 DEF LoopBalanced, Books
<1>1. CASE Create
  <2>1. Balanced(row') /\ row'.cancelled = row.cancelled /\ row.status = "NONE"
    BY <1>1 DEF Create, TypeOK, Entity, Balanced, Books
  <2>2. row.cancelled = 0
    BY <2>1 DEF Books, Clean
  <2>3. mem.cancelled = 0 /\ (\A c \in Cancellers : cpc[c] # "save")
    BY <2>1 DEF CreatedOnce, Books
  <2> QED BY <1>1, <2>1, <2>2, <2>3 DEF Create, Books, Clean
<1>2. CASE WorkerReads
  BY <1>2 DEF WorkerReads, Books
<1>3. CASE WorkerMarks
  <2>1. Balanced(mem') /\ mem'.cancelled = 0
    BY <1>3 DEF WorkerMarks, TypeOK, Entity, Balanced, Books
  <2> QED BY <1>3, <2>1 DEF WorkerMarks, Books, Clean
<1>4. CASE MarkSaved
  <2>1. mem \in Entity /\ Balanced(mem) /\ mem.cancelled = 0
    BY <1>4 DEF MarkSaved, Books, TypeOK
  <2>2. CASE GoOn(mem, mem.index + 1)
    <3>1. LoopBalanced
      BY <2>1, <2>2, GoOnBalanced
    <3> QED BY <1>a, <1>4, <3>1 DEF MarkSaved
  <2>3. CASE /\ mem' = [mem EXCEPT !.status = "FAILED"] /\ wpc' = "abort"
             /\ UNCHANGED <<at, sends>>
    <3>1. Balanced(mem') /\ mem'.cancelled = 0
      BY <2>1, <2>3 DEF Entity, Balanced
    <3>2. LoopBalanced
      BY <2>3, <3>1 DEF LoopBalanced, Clean
    <3> QED BY <1>a, <1>4, <3>2 DEF MarkSaved
  <2> QED BY <1>4, <2>2, <2>3 DEF MarkSaved
<1>5. CASE AbortSaved
  BY <1>5 DEF AbortSaved, Books
<1>6. ASSUME NEW ok \in BOOLEAN, SendReturns(ok)
      PROVE  Books'
  <2> DEFINE done == [Counted(ok) EXCEPT !.index = at]
  <2>1. /\ mem \in Entity /\ Balanced(mem) /\ mem.cancelled = 0
        /\ Counted(ok) \in Entity /\ at \in 1..N
    BY <1>6, CountedTyped DEF TypeOK, SendReturns, Books
  <2>2. Balanced(Counted(ok)) /\ Counted(ok).cancelled = 0
    BY <2>1 DEF Counted, Balanced, Entity
  <2>3. done \in Entity /\ Balanced(done) /\ done.cancelled = 0
    BY <2>1, <2>2, IndexTyped DEF Balanced, Counted
  <2>4. LoopBalanced
    <3>1. CASE Finalize(Counted(ok), TRUE)
      BY <3>1, <2>1, <2>2, FinalizeBalanced
    <3>2. CASE mem' = done /\ wpc' = "save" /\ UNCHANGED <<at, sends>>
      BY <3>2, <2>3 DEF LoopBalanced, Clean
    <3>3. CASE Pause(done)
      BY <3>3, <2>3, PauseBalanced
    <3> QED BY <1>6, <3>1, <3>2, <3>3 DEF SendReturns
  <2> QED BY <1>a, <1>6, <2>4 DEF SendReturns
<1>7. CASE ProgressSaved
  <2>1. LoopBalanced
    BY <1>7, PauseBalanced DEF ProgressSaved, Books, TypeOK
  <2> QED BY <1>a, <1>7, <2>1 DEF ProgressSaved
<1>8. CASE Wake
  <2>1. LoopBalanced
    BY <1>8, GoOnBalanced DEF Wake, Books, TypeOK
  <2> QED BY <1>a, <1>8, <2>1 DEF Wake
<1>9. CASE FinalSaved
  BY <1>9 DEF FinalSaved, Books
<1>10. CASE WorkerQueryFails
  BY <1>10 DEF WorkerQueryFails, Books
<1>11. CASE Crash
  BY <1>11 DEF Crash, Books
<1>12. CASE Boot
  <2>1. Balanced(row') /\ Clean(row') /\ row'.cancelled = row.cancelled
    BY <1>12 DEF Boot, TypeOK, Entity, Balanced, Clean, Books
  <2> QED BY <1>12, <2>1 DEF Boot, Books
<1>13. ASSUME NEW c \in Cancellers, CancelReads(c)
       PROVE  Books'
  <2>1. \A d \in Cancellers : snap'[d] = IF d = c THEN row ELSE snap[d]
    BY <1>13 DEF CancelReads, TypeOK
  <2>2. \A d \in Cancellers : cpc'[d] = "save" => cpc[d] = "save"
    BY <1>13 DEF CancelReads, TypeOK
  <2> QED BY <1>13, <2>1, <2>2 DEF CancelReads, Books
<1>14. ASSUME NEW c \in Cancellers, CancelSignals(c)
       PROVE  Books'
  <2>1. CASE snap[c].status \in {"COMPLETED", "CANCELLED"}
    <3>1. snap' = snap /\ \A d \in Cancellers : cpc'[d] = "save" => cpc[d] = "save"
      BY <1>14, <2>1 DEF CancelSignals, TypeOK
    <3> QED BY <1>14, <3>1 DEF CancelSignals, Books
  <2>2. CASE snap[c].status \notin {"COMPLETED", "CANCELLED"}
    <3> DEFINE cancelled == [Reconcile(snap[c]) EXCEPT !.status = "CANCELLED"]
    <3>1. snap[c] \in Entity /\ Balanced(snap[c]) /\ snap[c].cancelled = 0
      BY <2>2 DEF TypeOK, Books, Clean
    <3>2. Balanced(cancelled) /\ Clean(cancelled)
      BY <3>1 DEF Reconcile, Balanced, Clean, Entity
    <3>3. snap' = [snap EXCEPT ![c] = cancelled]
      BY <1>14, <2>2 DEF CancelSignals
    <3>4. met'[c] # "early"
      BY DEF NoEarly
    <3>5. wpc \notin {"none", "find", "found"}
      BY <1>14, <2>2, <3>4 DEF CancelSignals, TypeOK
    <3> HIDE DEF cancelled
    <3>6. \A d \in Cancellers : Balanced(snap'[d]) /\ Clean(snap'[d])
      BY <3>2, <3>3 DEF TypeOK, Books
    <3> QED BY <1>14, <3>5, <3>6 DEF CancelSignals, Books
  <2> QED BY <2>1, <2>2
<1>15. ASSUME NEW c \in Cancellers, CancelSaved(c)
       PROVE  Books'
  <2>1. \A d \in Cancellers : cpc'[d] = "save" => cpc[d] = "save"
    BY <1>15 DEF CancelSaved, TypeOK
  <2>2. wpc \notin {"none", "find", "found"}
    BY <1>15 DEF CancelSaved, Books
  <2> QED BY <1>15, <2>1, <2>2 DEF CancelSaved, Books
<1>16. ASSUME NEW c \in Cancellers, CancelSaveFails(c)
       PROVE  Books'
  <2>1. \A d \in Cancellers : cpc'[d] = "save" => cpc[d] = "save"
    BY <1>16 DEF CancelSaveFails, TypeOK
  <2> QED BY <1>16, <2>1 DEF CancelSaveFails, Books
<1>17. CASE UNCHANGED vars
  BY <1>17 DEF vars, Books
<1> QED
  BY <1>1, <1>2, <1>3, <1>4, <1>5, <1>6, <1>7, <1>8, <1>9, <1>10, <1>11, <1>12, <1>13, <1>14,
     <1>15, <1>16, <1>17 DEF Next, WorkerStep, CancelStep

(* The row, the worker's copy and every cancel's copy account for each of   *)
(* the batch's messages once, whatever is cancelled, stopped or rejected.   *)
THEOREM CountersAlwaysBalance == Spec => []CountersBalance
<1>1. BooksInv => CountersBalance
  BY DEF BooksInv, NoEarly, Books, CountersBalance
<1> QED BY BooksInit, BooksStep, <1>1, PTL DEF Spec
-----------------------------------------------------------------------------
(* The refinement of BatchContract.  What a batch has sent are the messages *)
(* up to the one the loop is at; the flag says "run" only until a cancel    *)
(* meets the worker; each save of the worker says what its place in the     *)
(* code allows; and a process that is down runs no worker.                 *)
Halted == \E c \in Cancellers : met[c] \in {"marking", "running"}

AllSentTo(i) == \A k \in 1..N : k <= i => sends[k] = 1

HaltLowersFlag == Halted => flag # "run" /\ wpc \notin {"none", "find", "found"}

StatusFollowsLoop ==
  /\ wpc \in {"mark", "send", "save", "sleep"} => mem.status = "PROCESSING"
  /\ wpc = "abort" => mem.status = "FAILED"
  /\ wpc = "final" => mem.status \in Terminal
  /\ wpc = "final" /\ mem.status = "COMPLETED" => ~Halted /\ at = N
  /\ \A c \in Cancellers : cpc[c] = "save" => snap[c].status = "CANCELLED"
  /\ \A c \in Cancellers : cpc[c] # "idle" => row.status # "NONE"

DownIsOver == proc = "down" => wpc \in {"none", "done"}

ContractInv ==
  /\ OnceInv /\ MetOnSignal
  /\ AllSentTo(at) /\ HaltLowersFlag /\ StatusFollowsLoop /\ DownIsOver

(* Where the loop may go on to from the message it is at, with the copy m.  *)
SendsNext(m) ==
  /\ flag = "run" /\ at + 1 \in 1..N
  /\ wpc' = "send" /\ mem' = m /\ at' = at + 1
  /\ sends' = [sends EXCEPT ![at + 1] = @ + 1]

Sleeps(m) == wpc' = "sleep" /\ mem' = m /\ at' = at /\ sends' = sends

Finishes(m) ==
  /\ wpc' = "final" /\ at' = at /\ sends' = sends
  /\ mem'.status \in Terminal
  /\ mem'.sent = m.sent /\ mem'.failed = m.failed
  /\ flag # "run" => mem'.status = "CANCELLED"
  /\ mem'.status = "COMPLETED" => flag = "run" /\ at >= N

WaysOn(m) == SendsNext(m) \/ Sleeps(m) \/ Finishes(m)

LEMMA FinalizeWays ==
  ASSUME NEW m \in Entity, NEW stopped \in BOOLEAN, stopped \/ at >= N \/ flag # "run",
         Finalize(m, stopped)
  PROVE  Finishes(m)
<1> DEFINE s == FinalStatus(flag # "run", stopped, m)
           final == [m EXCEPT !.status = s]
<1>1. s \in Terminal
  BY FinalStatusTyped
<1>2. /\ flag # "run" => s = "CANCELLED"
      /\ s = "COMPLETED" => flag = "run" /\ ~stopped
  BY DEF FinalStatus
<1>3. final.status = s /\ final.sent = m.sent /\ final.failed = m.failed
  BY DEF Entity
<1>4. /\ Reconcile(final).status = s
      /\ Reconcile(final).sent = m.sent /\ Reconcile(final).failed = m.failed
  BY <1>3 DEF Reconcile
<1>5. /\ wpc' = "final" /\ at' = at /\ sends' = sends
      /\ mem' = final \/ mem' = Reconcile(final)
  BY DEF Finalize
<1> HIDE DEF s, final
<1> QED BY <1>1, <1>2, <1>3, <1>4, <1>5 DEF Finishes

LEMMA GoOnWays ==
  ASSUME NEW m \in Entity, at \in 0..N, GoOn(m, at + 1)
  PROVE  SendsNext(m) \/ Finishes(m)
<1>1. CASE at + 1 <= N /\ flag = "run"
  BY <1>1 DEF GoOn, SendsNext
<1>2. CASE ~(at + 1 <= N /\ flag = "run")
  <2>1. at >= N \/ flag # "run"
    BY <1>2
  <2>2. Finalize(m, FALSE)
    BY <1>2 DEF GoOn
  <2> QED BY <2>1, <2>2, FinalizeWays
<1> QED BY <1>1, <1>2

LEMMA PauseWays ==
  ASSUME NEW m \in Entity, at \in 0..N, Pause(m)
  PROVE  WaysOn(m)
<1>1. CASE at < N /\ flag = "run"
  BY <1>1 DEF Pause, WaysOn, Sleeps
<1>2. CASE ~(at < N /\ flag = "run")
  BY <1>2, GoOnWays DEF Pause, WaysOn
<1> QED BY <1>1, <1>2

(* What a message's answer leads to: the end of the run, a save or the rest *)
(* of the round.                                                           *)
LEMMA AnswerWays ==
  ASSUME TypeOK, NEW ok \in BOOLEAN, SendReturns(ok)
  PROVE  LET done == [Counted(ok) EXCEPT !.index = at]
         IN  /\ done \in Entity /\ done.status = mem.status
             /\ done.sent = Counted(ok).sent /\ done.failed = Counted(ok).failed
             /\ \/ WaysOn(done)
                \/ wpc' = "save" /\ mem' = done /\ at' = at /\ sends' = sends
<1> DEFINE done == [Counted(ok) EXCEPT !.index = at]
<1>1. Counted(ok) \in Entity /\ at \in 1..N /\ mem \in Entity
  BY CountedTyped DEF TypeOK, SendReturns
<1>2. done \in Entity
  BY <1>1, IndexTyped
<1>3. done.status = mem.status /\ done.sent = Counted(ok).sent /\ done.failed = Counted(ok).failed
  BY <1>1 DEF Counted, Entity
<1>4. CASE Finalize(Counted(ok), TRUE)
  <2>1. Finishes(Counted(ok))
    BY <1>1, <1>4, FinalizeWays
  <2>2. Finishes(done)
    BY <2>1, <1>3 DEF Finishes
  <2> QED BY <1>2, <1>3, <2>2 DEF WaysOn
<1>5. CASE mem' = done /\ wpc' = "save" /\ UNCHANGED <<at, sends>>
  BY <1>2, <1>3, <1>5
<1>6. CASE Pause(done)
  <2>1. WaysOn(done)
    BY <1>1, <1>2, <1>6, PauseWays
  <2> QED BY <1>2, <1>3, <2>1
<1> QED BY <1>4, <1>5, <1>6 DEF SendReturns

LEMMA ContractInit == Init => ContractInv
<1> SUFFICES ASSUME Init
             PROVE  AllSentTo(at) /\ HaltLowersFlag /\ StatusFollowsLoop /\ DownIsOver /\ MetOnSignal
  BY OnceInit DEF ContractInv
<1> QED
  BY DEF Init, AllSentTo, HaltLowersFlag, Halted, StatusFollowsLoop, DownIsOver, MetOnSignal

(* A cancel that is over has met what it met: only a signal adds to that.   *)
LEMMA HaltedStays ==
  ASSUME MetOnSignal, TypeOK, NEW c \in Cancellers, CancelSignals(c)
  PROVE  Halted' <=> Halted \/ met'[c] \in {"marking", "running"}
<1>1. met[c] = "none"
  BY DEF CancelSignals, MetOnSignal
<1>2. \A d \in Cancellers : d # c => met'[d] = met[d]
  BY DEF CancelSignals, TypeOK
<1> QED BY <1>1, <1>2 DEF Halted

LEMMA ContractStep == ContractInv /\ [Next]_vars => ContractInv'
<1> SUFFICES ASSUME ContractInv, [Next]_vars
             PROVE  AllSentTo(at)' /\ HaltLowersFlag' /\ StatusFollowsLoop' /\ DownIsOver'
  BY OnceStep, MetStep DEF ContractInv, OnceInv
<1> DEFINE Goal == AllSentTo(at)' /\ HaltLowersFlag' /\ StatusFollowsLoop' /\ DownIsOver'
<1>0. /\ TypeOK /\ SentUpToAt /\ NothingBegun /\ CreatedOnce /\ MetOnSignal
      /\ AllSentTo(at) /\ HaltLowersFlag /\ StatusFollowsLoop /\ DownIsOver
  BY DEF ContractInv, OnceInv
<1> USE <1>0
(* The loop goes on, whether or not it has saved its copy.                  *)
<1>a. ASSUME NEW m \in Entity, m.status = "PROCESSING", WaysOn(m),
             wpc \in {"mark", "send", "save", "sleep"},
             UNCHANGED <<flag, cpc, snap, met, proc>>, row' = row \/ row' = mem
      PROVE  Goal
  <2>1. AllSentTo(at)'
    <3>1. CASE SendsNext(m)
      <4>1. /\ at \in Nat /\ at + 1 \in 1..N /\ at' = at + 1
            /\ sends \in [1..N -> Nat] /\ sends' = [sends EXCEPT ![at + 1] = @ + 1]
        BY <3>1 DEF SendsNext, TypeOK
      <4>2. \A k \in 1..N : sends'[k] = IF k = at + 1 THEN sends[k] + 1 ELSE sends[k]
        BY <4>1
      <4>3. sends[at + 1] = 0
        BY <4>1 DEF SentUpToAt
      <4> QED BY <4>1, <4>2, <4>3 DEF AllSentTo
    <3>2. CASE Sleeps(m) \/ Finishes(m)
      BY <3>2 DEF Sleeps, Finishes, AllSentTo
    <3> QED BY <1>a, <3>1, <3>2 DEF WaysOn
  <2>2. HaltLowersFlag' /\ DownIsOver'
    BY <1>a DEF WaysOn, SendsNext, Sleeps, Finishes, HaltLowersFlag, Halted, DownIsOver
  <2>3. wpc' = "final" => /\ mem'.status \in Terminal
                          /\ mem'.status = "COMPLETED" => ~Halted' /\ at' = N
    BY <1>a DEF WaysOn, SendsNext, Sleeps, Finishes, HaltLowersFlag, Halted, TypeOK
  <2>4. wpc' # "final" => mem' = m /\ wpc' \in {"send", "sleep"}
    BY <1>a DEF WaysOn, SendsNext, Sleeps, Finishes
  <2>5. wpc' \in {"send", "sleep", "final"}
    BY <1>a DEF WaysOn, SendsNext, Sleeps, Finishes
  <2>6. \A c \in Cancellers : cpc'[c] # "idle" => row'.status # "NONE"
    BY <1>a DEF StatusFollowsLoop
  <2>7. StatusFollowsLoop'
    BY <1>a, <2>3, <2>4, <2>5, <2>6 DEF StatusFollowsLoop
  <2> QED BY <2>1, <2>2, <2>7
<1>1. CASE Create
  <2>1. row'.status = "PENDING" /\ wpc = "none" /\ wpc' = "find"
    BY <1>1 DEF Create, TypeOK, Entity, CreatedOnce
  <2> QED BY <1>1, <2>1 DEF Create, AllSentTo, HaltLowersFlag, Halted, StatusFollowsLoop, DownIsOver
<1>2. CASE WorkerReads
  BY <1>2 DEF WorkerReads, AllSentTo, HaltLowersFlag, Halted, StatusFollowsLoop, DownIsOver
<1>3. CASE WorkerMarks
  <2>1. mem'.status = "PROCESSING" /\ ~Halted
    BY <1>3 DEF WorkerMarks, TypeOK, Entity, HaltLowersFlag
  <2> QED BY <1>3, <2>1
             DEF WorkerMarks, AllSentTo, HaltLowersFlag, Halted, StatusFollowsLoop, DownIsOver
<1>4. CASE MarkSaved
  <2>1. at = 0 /\ mem.index = 0 /\ mem.status = "PROCESSING" /\ mem \in Entity
    BY <1>4 DEF MarkSaved, NothingBegun, StatusFollowsLoop, TypeOK
  <2>2. CASE GoOn(mem, mem.index + 1)
    <3>1. WaysOn(mem)
      BY <2>1, <2>2, GoOnWays DEF WaysOn, TypeOK
    <3> QED BY <1>a, <1>4, <2>1, <3>1 DEF MarkSaved
  <2>3. CASE /\ mem' = [mem EXCEPT !.status = "FAILED"] /\ wpc' = "abort"
             /\ UNCHANGED <<at, sends>>
    <3>1. mem'.status = "FAILED" /\ row' = mem
      BY <1>4, <2>1, <2>3 DEF Entity, MarkSaved
    <3> QED BY <1>4, <2>1, <2>3, <3>1
               DEF MarkSaved, AllSentTo, HaltLowersFlag, Halted, StatusFollowsLoop, DownIsOver
  <2> QED BY <1>4, <2>2, <2>3 DEF MarkSaved
<1>5. CASE AbortSaved
  BY <1>5 DEF AbortSaved, AllSentTo, HaltLowersFlag, Halted, StatusFollowsLoop, DownIsOver
<1>6. ASSUME NEW ok \in BOOLEAN, SendReturns(ok) PROVE Goal
  <2> DEFINE done == [Counted(ok) EXCEPT !.index = at]
  <2>1. /\ done \in Entity /\ done.status = mem.status
        /\ \/ WaysOn(done)
           \/ wpc' = "save" /\ mem' = done /\ at' = at /\ sends' = sends
    BY <1>6, AnswerWays
  <2>2. mem.status = "PROCESSING" /\ wpc = "send"
    BY <1>6 DEF SendReturns, StatusFollowsLoop
  <2> HIDE DEF done
  <2>3. CASE WaysOn(done)
    BY <1>a, <1>6, <2>1, <2>2, <2>3 DEF SendReturns
  <2>4. CASE wpc' = "save" /\ mem' = done /\ at' = at /\ sends' = sends
    BY <1>6, <2>1, <2>2, <2>4
       DEF SendReturns, AllSentTo, HaltLowersFlag, Halted, StatusFollowsLoop, DownIsOver
  <2> QED BY <2>1, <2>3, <2>4
<1>7. CASE ProgressSaved
  <2>1. WaysOn(mem) /\ mem.status = "PROCESSING" /\ mem \in Entity
    BY <1>7, PauseWays DEF ProgressSaved, StatusFollowsLoop, TypeOK
  <2> QED BY <1>a, <1>7, <2>1 DEF ProgressSaved
<1>8. CASE Wake
  <2>1. WaysOn(mem) /\ mem.status = "PROCESSING" /\ mem \in Entity
    BY <1>8, GoOnWays DEF Wake, WaysOn, StatusFollowsLoop, TypeOK
  <2> QED BY <1>a, <1>8, <2>1 DEF Wake
<1>9. CASE FinalSaved
  BY <1>9 DEF FinalSaved, AllSentTo, HaltLowersFlag, Halted, StatusFollowsLoop, DownIsOver, Terminal
<1>10. CASE WorkerQueryFails
  BY <1>10 DEF WorkerQueryFails, AllSentTo, HaltLowersFlag, Halted, StatusFollowsLoop, DownIsOver
<1>11. CASE Crash
  <2>1. \A c \in Cancellers : cpc'[c] # "save" /\ (cpc'[c] # "idle" => cpc[c] # "idle")
    BY <1>11 DEF Crash
  <2> QED BY <1>11, <2>1
             DEF Crash, AllSentTo, HaltLowersFlag, Halted, StatusFollowsLoop, DownIsOver
<1>12. CASE Boot
  <2>1. row'.status = "NONE" => row.status = "NONE"
    BY <1>12 DEF Boot, TypeOK, Entity
  <2> QED BY <1>12, <2>1
             DEF Boot, AllSentTo, HaltLowersFlag, Halted, StatusFollowsLoop, DownIsOver
<1>13. ASSUME NEW c \in Cancellers, CancelReads(c) PROVE Goal
  <2>1. \A d \in Cancellers : /\ cpc'[d] = "save" => cpc[d] = "save" /\ snap'[d] = snap[d]
                              /\ row'.status # "NONE"
    BY <1>13 DEF CancelReads, TypeOK
  <2> QED BY <1>13, <2>1
             DEF CancelReads, AllSentTo, HaltLowersFlag, Halted, StatusFollowsLoop, DownIsOver
<1>14. ASSUME NEW c \in Cancellers, CancelSignals(c) PROVE Goal
  <2>1. CASE snap[c].status \in {"COMPLETED", "CANCELLED"}
    <3>1. \A d \in Cancellers : cpc'[d] = "save" => cpc[d] = "save"
      BY <1>14, <2>1 DEF CancelSignals, TypeOK
    <3>2. \A d \in Cancellers : cpc'[d] # "idle" => cpc[d] # "idle"
      BY <1>14, <2>1 DEF CancelSignals, TypeOK
    <3>3. UNCHANGED <<flag, snap, met, row, wpc, mem, at, proc, sends>>
      BY <1>14, <2>1 DEF CancelSignals
    <3> QED BY <3>1, <3>2, <3>3
               DEF AllSentTo, HaltLowersFlag, Halted, StatusFollowsLoop, DownIsOver
  <2>2. CASE snap[c].status \notin {"COMPLETED", "CANCELLED"}
    <3> DEFINE cancelled == [Reconcile(snap[c]) EXCEPT !.status = "CANCELLED"]
    <3>1. /\ flag' = "cancel" /\ snap' = [snap EXCEPT ![c] = cancelled]
          /\ UNCHANGED <<row, wpc, mem, at, proc, sends>>
      BY <1>14, <2>2 DEF CancelSignals
    <3>2. cancelled.status = "CANCELLED"
      BY DEF Reconcile
    <3> HIDE DEF cancelled
    <3>3. \A d \in Cancellers : cpc'[d] = "save" => snap'[d].status = "CANCELLED"
      BY <1>14, <2>2, <3>1, <3>2 DEF CancelSignals, TypeOK, StatusFollowsLoop
    <3>4. \A d \in Cancellers : cpc'[d] # "idle" => cpc[d] # "idle"
      BY <1>14, <2>2 DEF CancelSignals, TypeOK
    <3>5. met'[c] = CASE wpc \in {"none", "find", "found"} -> "early"
                      [] wpc = "mark" -> "marking"
                      [] wpc \in {"abort", "final", "done"} -> "late"
                      [] OTHER -> "running"
      BY <1>14, <2>2 DEF CancelSignals, TypeOK
    <3>6. /\ wpc \in {"none", "find", "found"} => met'[c] = "early"
          /\ wpc = "final" => met'[c] = "late"
      BY <3>5
    <3>7. Halted' <=> Halted \/ met'[c] \in {"marking", "running"}
      BY <1>14, HaltedStays
    <3> QED BY <3>1, <3>3, <3>4, <3>6, <3>7
               DEF AllSentTo, HaltLowersFlag, StatusFollowsLoop, DownIsOver
  <2> QED BY <2>1, <2>2
<1>15. ASSUME NEW c \in Cancellers, CancelSaved(c) PROVE Goal
  <2>1. /\ row'.status = "CANCELLED"
        /\ \A d \in Cancellers : cpc'[d] = "save" => cpc[d] = "save"
    BY <1>15 DEF CancelSaved, TypeOK, StatusFollowsLoop
  <2> QED BY <1>15, <2>1
             DEF CancelSaved, AllSentTo, HaltLowersFlag, Halted, StatusFollowsLoop, DownIsOver
<1>16. ASSUME NEW c \in Cancellers, CancelSaveFails(c) PROVE Goal
  <2>1. \A d \in Cancellers : /\ cpc'[d] = "save" => cpc[d] = "save"
                              /\ cpc'[d] # "idle" => cpc[d] # "idle"
    BY <1>16 DEF CancelSaveFails, TypeOK
  <2> QED BY <1>16, <2>1
             DEF CancelSaveFails, AllSentTo, HaltLowersFlag, Halted, StatusFollowsLoop, DownIsOver
<1>17. CASE UNCHANGED vars
  BY <1>17 DEF vars, AllSentTo, HaltLowersFlag, Halted, StatusFollowsLoop, DownIsOver
<1> QED
  BY <1>1, <1>2, <1>3, <1>4, <1>5, <1>6, <1>7, <1>8, <1>9, <1>10, <1>11, <1>12, <1>13, <1>14,
     <1>15, <1>16, <1>17 DEF Next, WorkerStep, CancelStep

(* A step of the loop hands over the next message, or nothing; the row may  *)
(* be saved with it as far as the worker has got.                          *)
LEMMA LoopHands ==
  ASSUME ContractInv, NEW m, WaysOn(m), wpc \in {"mark", "send", "save", "sleep"},
         row'.status \in {row.status, "PROCESSING"}, met' = met
  PROVE  \/ Contract!Hands
         \/ wpc' \notin {"none", "done"} /\ sends' = sends
<1>1. CASE SendsNext(m)
  <2>1. /\ at \in Nat /\ at + 1 \in 1..N /\ flag = "run" /\ sends \in [1..N -> Nat]
        /\ wpc' = "send" /\ sends' = [sends EXCEPT ![at + 1] = @ + 1]
    BY <1>1 DEF SendsNext, ContractInv, OnceInv, TypeOK
  <2>2. sends[at + 1] = 0 /\ \A k \in 1..N : k < at + 1 => sends[k] = 1
    BY <2>1 DEF ContractInv, OnceInv, SentUpToAt, AllSentTo
  <2>3. ~Halted
    BY <2>1 DEF ContractInv, HaltLowersFlag
  <2>4. \A k \in 1..(at + 1) - 1 : k \in 1..N /\ k < at + 1
    BY <2>1
  <2>5. /\ sends[at + 1] = 0 /\ \A k \in 1..(at + 1) - 1 : sends[k] = 1
        /\ sends' = [sends EXCEPT ![at + 1] = 1]
    BY <2>1, <2>2, <2>4
  <2> QED BY <2>1, <2>3, <2>5 DEF Contract!Hands, Halted
<1>2. CASE Sleeps(m) \/ Finishes(m)
  BY <1>2 DEF Sleeps, Finishes
<1> QED BY <1>1, <1>2 DEF WaysOn

LEMMA ContractRefines == ContractInv /\ [Next]_vars => [Contract!Proceed]_(Contract!contractVars)
<1> SUFFICES ASSUME ContractInv, [Next]_vars
             PROVE  \/ Contract!Proceed
                    \/ UNCHANGED <<row.status, wpc \notin {"none", "done"}, Halted, sends>>
  BY DEF Contract!contractVars, Halted
<1> DEFINE Goal == \/ Contract!Proceed
                   \/ UNCHANGED <<row.status, wpc \notin {"none", "done"}, Halted, sends>>
<1>0. /\ TypeOK /\ CreatedOnce /\ MetOnSignal
      /\ AllSentTo(at) /\ HaltLowersFlag /\ StatusFollowsLoop /\ DownIsOver
  BY DEF ContractInv, OnceInv
<1> USE <1>0
<1>1. CASE Create
  <2>1. row'.status = "PENDING" /\ wpc = "none"
    BY <1>1 DEF Create, TypeOK, Entity, CreatedOnce
  <2> QED BY <1>1, <2>1 DEF Create, Contract!Begins, Contract!Proceed
<1>2. CASE WorkerReads \/ WorkerMarks
  BY <1>2 DEF WorkerReads, WorkerMarks, Halted
<1>3. ASSUME NEW m, WaysOn(m), wpc \in {"mark", "send", "save", "sleep"}, met' = met,
             row' = row \/ (row' = mem /\ mem.status = "PROCESSING")
      PROVE  Goal
  <2>1. CASE Contract!Hands
    BY <2>1 DEF Contract!Proceed
  <2>2. CASE wpc' \notin {"none", "done"} /\ sends' = sends
    <3>1. CASE row' = row
      BY <1>3, <2>2, <3>1 DEF Halted
    <3>2. CASE row'.status = "PROCESSING"
      <4>1. row.status # "NONE"
        BY <1>3 DEF CreatedOnce
      <4> QED BY <1>3, <2>2, <3>2, <4>1 DEF Contract!Reports, Contract!Proceed
    <3> QED BY <1>3, <3>1, <3>2
  <2> QED BY <1>3, <2>1, <2>2, LoopHands
<1>4. CASE MarkSaved
  <2>1. at = 0 /\ mem.index = 0 /\ mem.status = "PROCESSING" /\ mem \in Entity
    BY <1>4 DEF MarkSaved, ContractInv, OnceInv, NothingBegun, StatusFollowsLoop, TypeOK
  <2>2. CASE GoOn(mem, mem.index + 1)
    <3>1. WaysOn(mem)
      BY <2>1, <2>2, GoOnWays DEF WaysOn, TypeOK
    <3> QED BY <1>3, <1>4, <2>1, <3>1 DEF MarkSaved
  <2>3. CASE /\ mem' = [mem EXCEPT !.status = "FAILED"] /\ wpc' = "abort"
             /\ UNCHANGED <<at, sends>>
    BY <1>4, <2>1, <2>3 DEF MarkSaved, CreatedOnce, Contract!Reports, Contract!Proceed
  <2> QED BY <1>4, <2>2, <2>3 DEF MarkSaved
<1>5. CASE AbortSaved
  <2>1. wpc = "abort" /\ row'.status = "FAILED" /\ wpc' = "done"
    BY <1>5 DEF AbortSaved, StatusFollowsLoop
  <2> QED BY <1>5, <2>1 DEF AbortSaved, Contract!Ends, Contract!Proceed
<1>6. ASSUME NEW ok \in BOOLEAN, SendReturns(ok) PROVE Goal
  <2> DEFINE done == [Counted(ok) EXCEPT !.index = at]
  <2>1. /\ done \in Entity
        /\ \/ WaysOn(done)
           \/ wpc' = "save" /\ mem' = done /\ at' = at /\ sends' = sends
    BY <1>6, AnswerWays
  <2> HIDE DEF done
  <2>2. CASE WaysOn(done)
    BY <1>3, <1>6, <2>2 DEF SendReturns
  <2>3. CASE wpc' = "save" /\ mem' = done /\ at' = at /\ sends' = sends
    BY <1>6, <2>3 DEF SendReturns, Halted
  <2> QED BY <2>1, <2>2, <2>3
<1>7. CASE ProgressSaved
  <2>1. WaysOn(mem) /\ mem.status = "PROCESSING"
    BY <1>7, PauseWays DEF ProgressSaved, StatusFollowsLoop, TypeOK
  <2> QED BY <1>3, <1>7, <2>1 DEF ProgressSaved
<1>8. CASE Wake
  <2>1. WaysOn(mem)
    BY <1>8, GoOnWays DEF Wake, WaysOn, TypeOK
  <2> QED BY <1>3, <1>8, <2>1 DEF Wake
<1>9. CASE FinalSaved
  <2>1. /\ wpc = "final" /\ wpc' = "done" /\ row'.status \in Terminal
        /\ row'.status = "COMPLETED" => ~Halted /\ at = N
        /\ UNCHANGED <<met, sends>>
    BY <1>9 DEF FinalSaved, StatusFollowsLoop
  <2>2. at = N => \A k \in 1..N : sends[k] = 1
    BY DEF AllSentTo
  <2> QED BY <2>1, <2>2 DEF Contract!Ends, Contract!Proceed, Terminal, Halted
<1>10. CASE WorkerQueryFails
  <2>1. wpc \notin {"none", "done"} /\ wpc' = "done" /\ UNCHANGED <<row, met, sends>>
    BY <1>10 DEF WorkerQueryFails
  <2> QED BY <2>1 DEF Contract!Ends, Contract!Proceed
<1>11. CASE Crash
  <2>1. UNCHANGED <<row, met, sends>>
    BY <1>11 DEF Crash
  <2>2. CASE wpc \in {"none", "done"}
    BY <1>11, <2>1, <2>2 DEF Crash, Halted
  <2>3. CASE wpc \notin {"none", "done"}
    BY <1>11, <2>1, <2>3 DEF Crash, Contract!Ends, Contract!Proceed
  <2> QED BY <2>2, <2>3
<1>12. CASE Boot
  <2>1. wpc \in {"none", "done"} /\ UNCHANGED <<met, sends, wpc>>
    BY <1>12 DEF Boot, DownIsOver
  <2>2. CASE row.status = "PROCESSING"
    <3>1. row'.status = "FAILED"
      BY <1>12, <2>2 DEF Boot, TypeOK, Entity
    <3> QED BY <2>1, <2>2, <3>1 DEF Contract!Settles, Contract!Proceed
  <2>3. CASE row.status # "PROCESSING"
    BY <1>12, <2>1, <2>3 DEF Boot, Halted
  <2> QED BY <2>2, <2>3
<1>13. ASSUME NEW c \in Cancellers, CancelReads(c) \/ CancelSaveFails(c) PROVE Goal
  BY <1>13 DEF CancelReads, CancelSaveFails, Halted
<1>14. ASSUME NEW c \in Cancellers, CancelSignals(c) PROVE Goal
  <2>1. UNCHANGED <<row, wpc, sends>> /\ (Halted' <=> Halted \/ met'[c] \in {"marking", "running"})
    BY <1>14, HaltedStays DEF CancelSignals
  <2>2. CASE wpc \in {"none", "done"}
    <3>1. met' = met \/ met' = [met EXCEPT ![c] = IF wpc = "none" THEN "early" ELSE "late"]
      BY <1>14, <2>2 DEF CancelSignals
    <3>2. met[c] = "none" /\ met \in [Cancellers -> {"none", "early", "marking", "running", "late"}]
      BY <1>14 DEF CancelSignals, MetOnSignal, TypeOK
    <3>3. met'[c] \in {"none", "early", "late"}
      BY <3>1, <3>2
    <3> QED BY <2>1, <3>3 DEF Halted
  <2>3. CASE wpc \notin {"none", "done"}
    <3>1. CASE met'[c] \in {"marking", "running"}
      BY <2>1, <2>3, <3>1 DEF Contract!Halts, Contract!Proceed, Halted
    <3>2. CASE met'[c] \notin {"marking", "running"}
      BY <2>1, <3>2 DEF Halted
    <3> QED BY <3>1, <3>2
  <2> QED BY <2>2, <2>3
<1>15. ASSUME NEW c \in Cancellers, CancelSaved(c) PROVE Goal
  <2>1. /\ row'.status = "CANCELLED" /\ row.status # "NONE"
        /\ UNCHANGED <<wpc, met, sends>>
    BY <1>15 DEF CancelSaved, StatusFollowsLoop
  <2>2. CASE wpc \in {"none", "done"}
    BY <2>1, <2>2 DEF Contract!Settles, Contract!Proceed
  <2>3. CASE wpc \notin {"none", "done"}
    BY <2>1, <2>3 DEF Contract!Reports, Contract!Proceed
  <2> QED BY <2>2, <2>3
<1>16. CASE UNCHANGED vars
  BY <1>16 DEF vars, Halted
<1> QED
  BY <1>1, <1>2, <1>4, <1>5, <1>6, <1>7, <1>8, <1>9, <1>10, <1>11, <1>12, <1>13, <1>14,
     <1>15, <1>16 DEF Next, WorkerStep, CancelStep

LEMMA ContractStarts == Init => Contract!Start
  BY DEF Init, Fresh, Contract!Start

(* However cancels, rejected queries and ends of the process fall between   *)
(* the steps of processBatch, a batch keeps its contract: its messages are  *)
(* handed over in order and once, none once a cancel has met the worker,    *)
(* COMPLETED is said only of a whole run that no cancel met, and a batch    *)
(* that is over sends nothing more.                                        *)
THEOREM BatchMeetsContract == Spec => MeetsContract
  BY ContractInit, ContractStep, ContractStarts, ContractRefines, PTL
     DEF Spec, MeetsContract, Contract!Spec
-----------------------------------------------------------------------------
(* A cancel that met the running worker.  As long as the database answers  *)
(* and the process lives, the flag stays lowered until the loop is left    *)
(* with CANCELLED, and every later save of the row says so too.            *)
MetRunning == \E c \in Cancellers : met[c] = "running"

CancelHolds ==
  saveFailures = 0 /\ crashes = 0 /\ MetRunning
    => /\ wpc \notin {"none", "find", "found", "mark", "abort"}
       /\ wpc \in {"send", "save", "sleep"} => flag = "cancel"
       /\ wpc = "final" => mem.status = "CANCELLED"
       /\ wpc = "done" => row.status = "CANCELLED"

StickInv == ContractInv /\ CancelHolds

LEMMA StickInit == Init => StickInv
  BY ContractInit DEF Init, StickInv, CancelHolds, MetRunning

LEMMA StickStep == StickInv /\ [Next]_vars => StickInv'
<1> SUFFICES ASSUME StickInv, [Next]_vars, saveFailures' = 0, crashes' = 0, MetRunning'
             PROVE  /\ wpc' \notin {"none", "find", "found", "mark", "abort"}
                    /\ wpc' \in {"send", "save", "sleep"} => flag' = "cancel"
                    /\ wpc' = "final" => mem'.status = "CANCELLED"
                    /\ wpc' = "done" => row'.status = "CANCELLED"
  BY ContractStep DEF StickInv, CancelHolds
<1> DEFINE Goal == /\ wpc' \notin {"none", "find", "found", "mark", "abort"}
                   /\ wpc' \in {"send", "save", "sleep"} => flag' = "cancel"
                   /\ wpc' = "final" => mem'.status = "CANCELLED"
                   /\ wpc' = "done" => row'.status = "CANCELLED"
<1>0. TypeOK /\ CreatedOnce /\ MetOnSignal /\ StatusFollowsLoop /\ CancelHolds
  BY DEF StickInv, ContractInv, OnceInv
<1> USE <1>0
(* No step but a signal makes a cancel meet the worker, and none takes back *)
(* a rejected query or an end of the process.                              *)
<1>a. ASSUME met' = met, saveFailures' = saveFailures, crashes' = crashes
      PROVE  /\ wpc \notin {"none", "find", "found", "mark", "abort"}
             /\ wpc \in {"send", "save", "sleep"} => flag = "cancel"
             /\ wpc = "final" => mem.status = "CANCELLED"
             /\ wpc = "done" => row.status = "CANCELLED"
  BY <1>a DEF MetRunning, CancelHolds
<1>b. ASSUME NEW m, WaysOn(m), wpc \in {"mark", "send", "save", "sleep"},
             UNCHANGED <<flag, met, saveFailures, crashes>>
      PROVE  Goal
  <2>1. flag = "cancel"
    BY <1>a, <1>b
  <2> QED BY <1>b, <2>1 DEF WaysOn, SendsNext, Sleeps, Finishes
<1>1. CASE Create \/ WorkerReads \/ WorkerMarks \/ AbortSaved
  BY <1>1, <1>a DEF Create, WorkerReads, WorkerMarks, AbortSaved, CreatedOnce
<1>2. CASE MarkSaved
  BY <1>2, <1>a DEF MarkSaved
<1>3. ASSUME NEW ok \in BOOLEAN, SendReturns(ok) PROVE Goal
  <2> DEFINE done == [Counted(ok) EXCEPT !.index = at]
  <2>1. \/ WaysOn(done)
        \/ wpc' = "save" /\ mem' = done /\ at' = at /\ sends' = sends
    BY <1>3, AnswerWays
  <2> HIDE DEF done
  <2>2. CASE WaysOn(done)
    BY <1>b, <1>3, <2>2 DEF SendReturns
  <2>3. CASE wpc' = "save" /\ mem' = done /\ at' = at /\ sends' = sends
    BY <1>a, <1>3, <2>3 DEF SendReturns
  <2> QED BY <2>1, <2>2, <2>3
<1>4. CASE ProgressSaved
  BY <1>4, <1>b, PauseWays DEF ProgressSaved, TypeOK
<1>5. CASE Wake
  BY <1>5, <1>b, GoOnWays DEF Wake, WaysOn, TypeOK
<1>6. CASE FinalSaved
  BY <1>6, <1>a DEF FinalSaved
<1>7. CASE WorkerQueryFails
  <2>1. saveFailures' > 0
    BY <1>7 DEF WorkerQueryFails, TypeOK
  <2> QED BY <2>1
<1>8. CASE Crash
  <2>1. crashes' > 0
    BY <1>8 DEF Crash, TypeOK
  <2> QED BY <2>1
<1>9. CASE Boot
  BY <1>9, <1>a DEF Boot
<1>10. ASSUME NEW c \in Cancellers, CancelReads(c) PROVE Goal
  BY <1>10, <1>a DEF CancelReads
<1>11. ASSUME NEW c \in Cancellers, CancelSignals(c) PROVE Goal
  <2>1. /\ UNCHANGED <<row, wpc, mem, saveFailures, crashes>>
        /\ flag' = flag \/ flag' = "cancel"
    BY <1>11 DEF CancelSignals
  <2>2. CASE MetRunning
    BY <2>1, <2>2 DEF CancelHolds
  <2>3. CASE ~MetRunning
    <3>1. \A d \in Cancellers : d # c => met'[d] = met[d]
      BY <1>11 DEF CancelSignals, TypeOK
    <3>2. met'[c] = "running" /\ met[c] # "running"
      BY <2>3, <3>1 DEF MetRunning
    <3>3. /\ flag' = "cancel"
          /\ met' = [met EXCEPT ![c] =
                       CASE wpc \in {"none", "find", "found"} -> "early"
                         [] wpc = "mark" -> "marking"
                         [] wpc \in {"abort", "final", "done"} -> "late"
                         [] OTHER -> "running"]
      BY <1>11, <3>2 DEF CancelSignals
    <3>4. met'[c] = CASE wpc \in {"none", "find", "found"} -> "early"
                      [] wpc = "mark" -> "marking"
                      [] wpc \in {"abort", "final", "done"} -> "late"
                      [] OTHER -> "running"
      BY <3>3 DEF TypeOK
    <3>5. wpc \notin {"none", "find", "found", "mark", "abort", "final", "done"}
      BY <3>2, <3>4
    <3> QED BY <2>1, <3>3, <3>5
  <2> QED BY <2>2, <2>3
<1>12. ASSUME NEW c \in Cancellers, CancelSaved(c) PROVE Goal
  <2>1. row'.status = "CANCELLED"
    BY <1>12 DEF CancelSaved, StatusFollowsLoop
  <2> QED BY <1>12, <1>a, <2>1 DEF CancelSaved
<1>13. ASSUME NEW c \in Cancellers, CancelSaveFails(c) PROVE Goal
  <2>1. saveFailures' > 0
    BY <1>13 DEF CancelSaveFails, TypeOK
  <2> QED BY <2>1
<1>14. CASE UNCHANGED vars
  BY <1>14, <1>a DEF vars
<1> QED
  BY <1>1, <1>2, <1>3, <1>4, <1>5, <1>6, <1>7, <1>8, <1>9, <1>10, <1>11, <1>12, <1>13, <1>14
     DEF Next, WorkerStep, CancelStep

(* A cancel that met the running worker is the last word on the batch: the  *)
(* worker's final save says CANCELLED too, and no other cancel's or the     *)
(* restart's brings the batch back.                                         *)
THEOREM CancelStays == Spec => []CancelSticks
<1>1. StickInv => CancelSticks
  BY DEF StickInv, CancelHolds, MetRunning, CancelSticks
<1> QED BY StickInit, StickStep, <1>1, PTL DEF Spec
-----------------------------------------------------------------------------
(* The counters against the engine: up to message i, what was sent or       *)
(* refused adds up to i, and as many were sent as the engine accepted.      *)
Tallied(m, i) ==
  /\ m.sent + m.failed = i
  /\ accepted \subseteq 1..i /\ m.sent = Cardinality(accepted)

Tally ==
  /\ wpc \in {"none", "find"}
       => /\ row.sent = 0 /\ row.failed = 0
          /\ \A c \in Cancellers : snap[c].sent = 0 /\ snap[c].failed = 0
  /\ wpc \in {"found", "mark"} => mem.sent = 0 /\ mem.failed = 0
  /\ wpc \in {"none", "find", "found", "mark"} => accepted = {}
  /\ wpc = "send" => Tallied(mem, at - 1)
  /\ wpc \in {"save", "sleep"} => Tallied(mem, at)
  /\ wpc = "final" /\ mem.status = "COMPLETED" => Tallied(mem, N)
  /\ row.status = "COMPLETED" => wpc = "done" /\ Tallied(row, N)

TallyInv == ContractInv /\ Tally

LEMMA AcceptedNone == Cardinality({}) = 0
  BY FS_EmptySet

LEMMA AcceptedOneMore ==
  ASSUME NEW i \in 1..N, accepted \subseteq 1..(i - 1)
  PROVE  /\ accepted \cup {i} \subseteq 1..i
         /\ Cardinality(accepted \cup {i}) = Cardinality(accepted) + 1
<1>1. IsFiniteSet(accepted)
  BY FS_Interval, FS_Subset, 1 \in Int, i - 1 \in Int
<1>2. i \notin accepted
  OBVIOUS
<1> QED BY <1>1, <1>2, FS_AddElement

LEMMA TallyInit == Init => TallyInv
<1> SUFFICES ASSUME Init PROVE Tally
  BY ContractInit DEF TallyInv
<1> QED BY DEF Init, Fresh, Tally

LEMMA TallyStep == TallyInv /\ [Next]_vars => TallyInv'
<1> SUFFICES ASSUME TallyInv, [Next]_vars PROVE Tally'
  BY ContractStep DEF TallyInv
<1>0. /\ TypeOK /\ NothingBegun /\ CreatedOnce /\ MetOnSignal
      /\ StatusFollowsLoop /\ DownIsOver /\ Tally
  BY DEF TallyInv, ContractInv, OnceInv
<1> USE <1>0
(* The loop goes on from a tallied message, whether or not it has saved its *)
(* copy, which says PROCESSING.                                             *)
<1>a. ASSUME NEW m \in Entity, WaysOn(m), wpc \in {"mark", "send", "save", "sleep"},
             m.sent + m.failed = at, accepted' \subseteq 1..at, m.sent = Cardinality(accepted'),
             row' = row \/ (row' = mem /\ mem.status = "PROCESSING")
      PROVE  Tally'
  <2>1. row'.status # "COMPLETED"
    BY <1>a DEF Tally
  <2>2. CASE SendsNext(m)
    <3>1. wpc' = "send" /\ mem' = m /\ at' = at + 1
      BY <2>2 DEF SendsNext
    <3>2. at' - 1 = at
      BY <3>1 DEF TypeOK
    <3>3. Tallied(mem, at - 1)'
      BY <1>a, <3>1, <3>2 DEF Tallied
    <3> QED BY <2>1, <3>1, <3>3 DEF Tally
  <2>3. CASE Sleeps(m)
    <3>1. wpc' = "sleep" /\ mem' = m /\ at' = at
      BY <2>3 DEF Sleeps
    <3>2. Tallied(mem, at)'
      BY <1>a, <3>1 DEF Tallied
    <3> QED BY <2>1, <3>1, <3>2 DEF Tally
  <2>4. CASE Finishes(m)
    <3>1. wpc' = "final" /\ mem'.sent = m.sent /\ mem'.failed = m.failed
      BY <2>4 DEF Finishes
    <3>2. mem'.status = "COMPLETED" => at = N
      BY <2>4 DEF Finishes, TypeOK
    <3>3. mem'.status = "COMPLETED" => Tallied(mem, N)'
      BY <1>a, <3>1, <3>2 DEF Tallied
    <3> QED BY <2>1, <3>1, <3>3 DEF Tally
  <2> QED BY <1>a, <2>2, <2>3, <2>4 DEF WaysOn
<1>1. CASE Create
  <2>1. /\ row'.status = "PENDING" /\ row'.sent = row.sent /\ row'.failed = row.failed
        /\ wpc = "none"
    BY <1>1 DEF Create, TypeOK, Entity, CreatedOnce
  <2> QED BY <1>1, <2>1 DEF Create, Tally
<1>2. CASE WorkerReads
  BY <1>2 DEF WorkerReads, Tally
<1>3. CASE WorkerMarks
  <2>1. mem'.sent = mem.sent /\ mem'.failed = mem.failed
    BY <1>3 DEF WorkerMarks, TypeOK, Entity
  <2> QED BY <1>3, <2>1 DEF WorkerMarks, Tally
<1>4. CASE MarkSaved
  <2>1. /\ at = 0 /\ mem.index = 0 /\ mem.status = "PROCESSING" /\ mem \in Entity
        /\ mem.sent = 0 /\ mem.failed = 0 /\ accepted = {}
    BY <1>4 DEF MarkSaved, NothingBegun, StatusFollowsLoop, TypeOK, Tally
  <2>2. CASE GoOn(mem, mem.index + 1)
    <3>1. WaysOn(mem)
      BY <2>1, <2>2, GoOnWays DEF WaysOn, TypeOK
    <3>2. accepted' = {}
      BY <1>4, <2>1 DEF MarkSaved
    <3> QED BY <1>a, <1>4, <2>1, <3>1, <3>2, AcceptedNone DEF MarkSaved
  <2>3. CASE /\ mem' = [mem EXCEPT !.status = "FAILED"] /\ wpc' = "abort"
             /\ UNCHANGED <<at, sends>>
    BY <1>4, <2>1, <2>3 DEF MarkSaved, Tally
  <2> QED BY <1>4, <2>2, <2>3 DEF MarkSaved
<1>5. CASE AbortSaved
  BY <1>5 DEF AbortSaved, Tally, StatusFollowsLoop
<1>6. ASSUME NEW ok \in BOOLEAN, SendReturns(ok) PROVE Tally'
  <2> DEFINE done == [Counted(ok) EXCEPT !.index = at]
  <2>1. /\ done \in Entity
        /\ done.sent = Counted(ok).sent /\ done.failed = Counted(ok).failed
        /\ \/ WaysOn(done)
           \/ wpc' = "save" /\ mem' = done /\ at' = at /\ sends' = sends
    BY <1>6, AnswerWays
  <2>2. /\ wpc = "send" /\ row' = row /\ at \in 1..N /\ Tallied(mem, at - 1)
        /\ accepted' = IF ok THEN accepted \cup {at} ELSE accepted
        /\ mem.sent \in Nat /\ mem.failed \in Nat
    BY <1>6 DEF SendReturns, TypeOK, Tally, Entity
  <2> HIDE DEF done
  <2>3. done.sent + done.failed = at
    BY <2>1, <2>2 DEF Counted, Tallied
  <2>4. accepted' \subseteq 1..at /\ done.sent = Cardinality(accepted')
    <3>1. CASE ok
      BY <2>1, <2>2, <3>1, AcceptedOneMore DEF Counted, Tallied
    <3>2. CASE ~ok
      BY <2>1, <2>2, <3>2 DEF Counted, Tallied
    <3> QED BY <3>1, <3>2
  <2>5. CASE WaysOn(done)
    BY <1>a, <2>1, <2>2, <2>3, <2>4, <2>5
  <2>6. CASE wpc' = "save" /\ mem' = done /\ at' = at /\ sends' = sends
    <3>1. Tallied(mem, at)'
      BY <2>3, <2>4, <2>6 DEF Tallied
    <3> QED BY <2>2, <2>6, <3>1 DEF Tally
  <2> QED BY <2>1, <2>5, <2>6
<1>7. CASE ProgressSaved
  <2>1. WaysOn(mem) /\ mem.status = "PROCESSING" /\ mem \in Entity /\ Tallied(mem, at)
    BY <1>7, PauseWays DEF ProgressSaved, StatusFollowsLoop, TypeOK, Tally
  <2>2. wpc = "save" /\ row' = mem /\ accepted' = accepted
    BY <1>7 DEF ProgressSaved
  <2> QED BY <1>a, <2>1, <2>2 DEF Tallied
<1>8. CASE Wake
  <2>1. WaysOn(mem) /\ mem \in Entity /\ Tallied(mem, at)
    BY <1>8, GoOnWays DEF Wake, WaysOn, TypeOK, Tally
  <2>2. wpc = "sleep" /\ row' = row /\ accepted' = accepted
    BY <1>8 DEF Wake
  <2> QED BY <1>a, <2>1, <2>2 DEF Tallied
<1>9. CASE FinalSaved
  <2>1. /\ wpc = "final" /\ wpc' = "done" /\ row' = mem /\ accepted' = accepted
    BY <1>9 DEF FinalSaved
  <2> QED BY <2>1 DEF Tally, Tallied
<1>10. CASE WorkerQueryFails
  <2>1. wpc # "done" /\ wpc' = "done" /\ UNCHANGED <<row, accepted>>
    BY <1>10 DEF WorkerQueryFails
  <2> QED BY <2>1 DEF Tally, Tallied
<1>11. CASE Crash
  <2>1. wpc' \in {wpc, "done"} /\ UNCHANGED <<row, mem, at, snap, accepted>>
    BY <1>11 DEF Crash
  <2>2. wpc' # wpc => wpc # "done" /\ wpc' = "done"
    BY <1>11 DEF Crash
  <2> QED BY <2>1, <2>2 DEF Tally, Tallied
<1>12. CASE Boot
  <2>1. /\ row'.sent = row.sent /\ row'.failed = row.failed
        /\ row'.status \in {row.status, "FAILED"}
    BY <1>12 DEF Boot, TypeOK, Entity
  <2> QED BY <1>12, <2>1 DEF Boot, Tally, Tallied
<1>13. ASSUME NEW c \in Cancellers, CancelReads(c) PROVE Tally'
  <2>1. \A d \in Cancellers : snap'[d] = row \/ snap'[d] = snap[d]
    BY <1>13 DEF CancelReads, TypeOK
  <2>2. UNCHANGED <<row, wpc, mem, at, accepted>>
    BY <1>13 DEF CancelReads
  <2> QED BY <2>1, <2>2 DEF Tally, Tallied
<1>14. ASSUME NEW c \in Cancellers, CancelSignals(c) PROVE Tally'
  <2>1. \A d \in Cancellers : snap'[d].sent = snap[d].sent /\ snap'[d].failed = snap[d].failed
    <3> DEFINE cancelled == [Reconcile(snap[c]) EXCEPT !.status = "CANCELLED"]
    <3>1. cancelled.sent = snap[c].sent /\ cancelled.failed = snap[c].failed
      BY DEF Reconcile
    <3>2. snap' = snap \/ snap' = [snap EXCEPT ![c] = cancelled]
      BY <1>14 DEF CancelSignals
    <3> HIDE DEF cancelled
    <3> QED BY <3>1, <3>2 DEF TypeOK
  <2>2. UNCHANGED <<row, wpc, mem, at, accepted>>
    BY <1>14 DEF CancelSignals
  <2> QED BY <2>1, <2>2 DEF Tally, Tallied
<1>15. ASSUME NEW c \in Cancellers, CancelSaved(c) PROVE Tally'
  <2>1. /\ row' = snap[c] /\ row'.status = "CANCELLED"
        /\ UNCHANGED <<wpc, mem, at, snap, accepted>>
    BY <1>15 DEF CancelSaved, StatusFollowsLoop
  <2> QED BY <2>1 DEF Tally, Tallied
<1>16. ASSUME NEW c \in Cancellers, CancelSaveFails(c) PROVE Tally'
  BY <1>16 DEF CancelSaveFails, Tally, Tallied
<1>17. CASE UNCHANGED vars
  BY <1>17 DEF vars, Tally, Tallied
<1> QED
  BY <1>1, <1>2, <1>3, <1>4, <1>5, <1>6, <1>7, <1>8, <1>9, <1>10, <1>11, <1>12, <1>13, <1>14,
     <1>15, <1>16, <1>17 DEF Next, WorkerStep, CancelStep

(* A row that says COMPLETED stands for a batch every message of which was  *)
(* sent or refused, and its `sent` is what the engine accepted: neither a   *)
(* cancel's copy nor the restart ever leaves a COMPLETED row with counters  *)
(* of another moment.                                                       *)
THEOREM CompletedMeansComplete == Spec => []CompletedIsComplete
<1>1. TallyInv => CompletedIsComplete
  BY DEF TallyInv, Tally, Tallied, CompletedIsComplete
<1> QED BY TallyInit, TallyStep, <1>1, PTL DEF Spec
=============================================================================
