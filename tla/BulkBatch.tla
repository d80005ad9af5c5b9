----------------------------- MODULE BulkBatch -----------------------------
(***************************************************************************)
(* One bulk batch of modules/message/bulk-message.service.ts: createBatch, *)
(* the processBatch run it spawns, cancelBatch calls against it, and the   *)
(* restart that fails orphaned batches.  Batches share nothing but maps    *)
(* keyed by their id, so one batch is the whole component.                 *)
(*                                                                         *)
(* An action is the code between two awaits.  batchRepository.save writes  *)
(* the whole entity, so the row becomes whatever copy its writer held: the *)
(* worker's `mem`, or the snapshot a cancel read.                          *)
(***************************************************************************)
EXTENDS Integers, FiniteSets

CONSTANTS
  N,               \* messages in the batch
  SaveEvery,       \* progress is saved every so many messages (10 in the code)
  Cancellers,      \* cancelBatch calls
  MaxCrashes,      \* bound: ends of the process
  MaxSaveFailures  \* bound: queries the database rejects

ASSUME ConstantsAssumption ==
  /\ N \in Nat /\ SaveEvery \in Nat \ {0}
  /\ MaxCrashes \in Nat /\ MaxSaveFailures \in Nat

VARIABLES
  row,          \* the batch's row; status "NONE" before createBatch
  flag,         \* this.processingBatches.get(batch.id), "none" when absent
  stopOnError,  \* the batch's option
  wpc,          \* the await processBatch is suspended at
  mem,          \* processBatch's copy of the entity
  at,           \* the message the loop is at, from 1
  cpc,          \* the await each cancelBatch call is suspended at
  snap,         \* the copy of the entity each cancelBatch call holds
  proc,         \* "up", or "down" after a crash
  crashes,      \* ends of the process so far
  saveFailures, \* queries the database rejected so far
  sends,        \* history: engine calls made per message
  accepted,     \* history: messages the engine accepted
  met           \* history: where each cancel's signal met the worker

vars == <<row, flag, stopOnError, wpc, mem, at, cpc, snap, proc, crashes,
          saveFailures, sends, accepted, met>>

Statuses == {"NONE", "PENDING", "PROCESSING", "COMPLETED", "CANCELLED", "FAILED"}
Terminal == {"COMPLETED", "CANCELLED", "FAILED"}
Entity   == [status : Statuses, sent : Nat, failed : Nat, pending : Int, cancelled : Int,
             index : 0..N, results : Nat]
Fresh    == [status |-> "NONE", sent |-> 0, failed |-> 0, pending |-> N, cancelled |-> 0,
             index |-> 0, results |-> 0]
WorkerAt == {"none", "find", "found", "mark", "abort", "send", "save", "sleep", "final", "done"}

(* The type invariant: among others, the loop never looks past the last     *)
(* message.  `pending` may fall below zero: a cancel that comes first       *)
(* leaves it at zero for a worker that then counts it down.                 *)
TypeOK ==
  /\ row \in Entity /\ mem \in Entity /\ snap \in [Cancellers -> Entity]
  /\ flag \in {"none", "run", "cancel"}
  /\ stopOnError \in BOOLEAN
  /\ wpc \in WorkerAt /\ at \in 0..N
  /\ wpc \in {"send", "save", "sleep"} => at \in 1..N
  /\ cpc \in [Cancellers -> {"idle", "found", "save", "done"}]
  /\ proc \in {"up", "down"}
  /\ crashes \in 0..MaxCrashes /\ saveFailures \in 0..MaxSaveFailures
  /\ sends \in [1..N -> Nat] /\ accepted \in SUBSET (1..N)
  /\ met \in [Cancellers -> {"none", "early", "marking", "running", "late"}]

Init ==
  /\ row = Fresh /\ mem = Fresh /\ snap = [c \in Cancellers |-> Fresh]
  /\ flag = "none" /\ stopOnError \in BOOLEAN
  /\ wpc = "none" /\ at = 0
  /\ cpc = [c \in Cancellers |-> "idle"]
  /\ proc = "up" /\ crashes = 0 /\ saveFailures = 0
  /\ sends = [m \in 1..N |-> 0] /\ accepted = {}
  /\ met = [c \in Cancellers |-> "none"]

-----------------------------------------------------------------------------
(* createBatch: the row is saved PENDING and processBatch spawned. *)
Create ==
  /\ proc = "up" /\ row.status = "NONE"
  /\ row' = [row EXCEPT !.status = "PENDING"]
  /\ wpc' = "find"
  /\ UNCHANGED <<flag, stopOnError, mem, at, cpc, snap, proc, crashes, saveFailures, sends,
                 accepted, met>>

-----------------------------------------------------------------------------
(* processBatch. *)

MutantCompletedOverCancel(isCancelled, stoppedOnError, m) ==
  IF stoppedOnError THEN "FAILED" ELSE "COMPLETED"

MutantStopIsCompletion(isCancelled, stoppedOnError, m) ==
  IF isCancelled THEN "CANCELLED" ELSE IF m.sent = 0 THEN "FAILED" ELSE "COMPLETED"

(* resolveFinalBatchStatus: a cancellation wins over everything. *)
FinalStatus(isCancelled, stoppedOnError, m) ==
  CASE isCancelled -> "CANCELLED"
    [] ~isCancelled /\ stoppedOnError -> "FAILED"
    [] ~isCancelled /\ ~stoppedOnError /\ m.failed > 0 /\ m.sent = 0 -> "FAILED"
    [] OTHER -> "COMPLETED"

MutantKeepsPending(m) == [m EXCEPT !.cancelled = m.pending]

(* The counters of a batch nothing more of which will be sent. *)
Reconcile(m) ==
  [status |-> m.status, sent |-> m.sent, failed |-> m.failed, pending |-> 0,
   cancelled |-> m.pending, index |-> m.index, results |-> m.results]

(* The loop is over: the final status, then the final save.  The flag is    *)
(* read here, before the save is awaited.                                   *)
Finalize(m, stoppedOnError) ==
  LET isCancelled == flag # "run"
      final       == [m EXCEPT !.status = FinalStatus(isCancelled, stoppedOnError, m)]
  IN  /\ mem' = IF isCancelled THEN Reconcile(final) ELSE final
      /\ wpc' = "final"
      /\ UNCHANGED <<at, sends>>

MutantNoFlagCheck(m, k) ==
  IF k <= N
  THEN /\ mem' = m /\ at' = k /\ wpc' = "send"
       /\ sends' = [sends EXCEPT ![k] = @ + 1]
  ELSE Finalize(m, FALSE)

MutantOnePastTheEnd(m, k) ==
  IF k <= N + 1 /\ flag = "run"
  THEN /\ mem' = m /\ at' = k /\ wpc' = "send"
       /\ sends' = IF k <= N THEN [sends EXCEPT ![k] = @ + 1] ELSE sends
  ELSE Finalize(m, FALSE)

(* The head of the loop at message k: send it, unless the batch is over or  *)
(* cancelled.                                                               *)
GoOn(m, k) ==
  IF k <= N /\ flag = "run"
  THEN /\ mem' = m /\ at' = k /\ wpc' = "send"
       /\ sends' = [sends EXCEPT ![k] = @ + 1]
  ELSE Finalize(m, FALSE)

(* The tail of the loop's round: pause before the next message. *)
Pause(m) ==
  IF at < N /\ flag = "run"
  THEN mem' = m /\ wpc' = "sleep" /\ UNCHANGED <<at, sends>>
  ELSE GoOn(m, at + 1)

WorkerReads ==
  /\ wpc = "find"
  /\ mem' = row /\ wpc' = "found"
  /\ UNCHANGED <<row, flag, stopOnError, at, cpc, snap, proc, crashes, saveFailures, sends,
                 accepted, met>>

(* The read has returned: raise the flag, whatever it was, and save         *)
(* PROCESSING, whatever the row is by now.                                  *)
WorkerMarks ==
  /\ wpc = "found"
  /\ flag' = "run"
  /\ mem' = [mem EXCEPT !.status = "PROCESSING"] /\ wpc' = "mark"
  /\ UNCHANGED <<row, stopOnError, at, cpc, snap, proc, crashes, saveFailures, sends,
                 accepted, met>>

(* PROCESSING is saved; the session's engine may be gone by now. *)
MarkSaved ==
  /\ wpc = "mark"
  /\ row' = mem
  /\ \/ GoOn(mem, mem.index + 1)
     \/ /\ mem' = [mem EXCEPT !.status = "FAILED"] /\ wpc' = "abort"
        /\ UNCHANGED <<at, sends>>
  /\ UNCHANGED <<flag, stopOnError, cpc, snap, proc, crashes, saveFailures, accepted, met>>

(* No engine: FAILED is saved, and the flag is left behind. *)
AbortSaved ==
  /\ wpc = "abort"
  /\ row' = mem /\ wpc' = "done"
  /\ UNCHANGED <<flag, stopOnError, mem, at, cpc, snap, proc, crashes, saveFailures, sends,
                 accepted, met>>

(* The engine answered for message `at`.  Progress is saved now and then;   *)
(* a failure under stopOnError leaves the loop without advancing the index. *)
Counted(ok) ==
  [status |-> mem.status,
   sent    |-> IF ok THEN mem.sent + 1 ELSE mem.sent,
   failed  |-> IF ok THEN mem.failed ELSE mem.failed + 1,
   pending |-> mem.pending - 1, cancelled |-> mem.cancelled,
   index   |-> mem.index, results |-> mem.results + 1]

SendReturns(ok) ==
  LET done == [Counted(ok) EXCEPT !.index = at]
  IN  /\ wpc = "send"
      /\ accepted' = IF ok THEN accepted \cup {at} ELSE accepted
      /\ IF ~ok /\ stopOnError THEN Finalize(Counted(ok), TRUE)
         ELSE IF (at - 1) % SaveEvery = 0 \/ at = N
         THEN mem' = done /\ wpc' = "save" /\ UNCHANGED <<at, sends>>
         ELSE Pause(done)
      /\ UNCHANGED <<row, flag, stopOnError, cpc, snap, proc, crashes, saveFailures, met>>

ProgressSaved ==
  /\ wpc = "save"
  /\ row' = mem
  /\ Pause(mem)
  /\ UNCHANGED <<flag, stopOnError, cpc, snap, proc, crashes, saveFailures, accepted, met>>

Wake ==
  /\ wpc = "sleep"
  /\ GoOn(mem, at + 1)
  /\ UNCHANGED <<row, flag, stopOnError, cpc, snap, proc, crashes, saveFailures, accepted, met>>

FinalSaved ==
  /\ wpc = "final"
  /\ row' = mem /\ flag' = "none" /\ wpc' = "done"
  /\ UNCHANGED <<stopOnError, mem, at, cpc, snap, proc, crashes, saveFailures, sends,
                 accepted, met>>

(* A query the database rejects ends processBatch, its error logged. *)
WorkerQueryFails ==
  /\ wpc \in {"find", "mark", "abort", "save", "final"}
  /\ saveFailures < MaxSaveFailures
  /\ saveFailures' = saveFailures + 1
  /\ wpc' = "done"
  /\ UNCHANGED <<row, flag, stopOnError, mem, at, cpc, snap, proc, crashes, sends, accepted, met>>

-----------------------------------------------------------------------------
(* cancelBatch. *)
CancelReads(c) ==
  /\ proc = "up" /\ cpc[c] = "idle" /\ row.status # "NONE"
  /\ snap' = [snap EXCEPT ![c] = row]
  /\ cpc' = [cpc EXCEPT ![c] = "found"]
  /\ UNCHANGED <<row, flag, stopOnError, wpc, mem, at, proc, crashes, saveFailures, sends,
                 accepted, met>>

(* A batch already over - but not a failed one - is refused; otherwise the  *)
(* worker is signalled and the snapshot rewritten.                          *)
CancelSignals(c) ==
  /\ cpc[c] = "found"
  /\ IF snap[c].status \in {"COMPLETED", "CANCELLED"}
     THEN cpc' = [cpc EXCEPT ![c] = "done"] /\ UNCHANGED <<flag, snap, met>>
     ELSE /\ flag' = "cancel"
          /\ snap' = [snap EXCEPT ![c] = [Reconcile(@) EXCEPT !.status = "CANCELLED"]]
          /\ cpc' = [cpc EXCEPT ![c] = "save"]
          /\ met' = [met EXCEPT ![c] =
                       CASE wpc \in {"none", "find", "found"} -> "early"
                         [] wpc = "mark" -> "marking"
                         [] wpc \in {"abort", "final", "done"} -> "late"
                         [] OTHER -> "running"]
  /\ UNCHANGED <<row, stopOnError, wpc, mem, at, proc, crashes, saveFailures, sends, accepted>>

CancelSaved(c) ==
  /\ cpc[c] = "save"
  /\ row' = snap[c]
  /\ cpc' = [cpc EXCEPT ![c] = "done"]
  /\ UNCHANGED <<flag, stopOnError, wpc, mem, at, snap, proc, crashes, saveFailures, sends,
                 accepted, met>>

(* The save is rejected: the call fails, and its signal stays.              *)
CancelSaveFails(c) ==
  /\ cpc[c] = "save" /\ saveFailures < MaxSaveFailures
  /\ saveFailures' = saveFailures + 1
  /\ cpc' = [cpc EXCEPT ![c] = "done"]
  /\ UNCHANGED <<row, flag, stopOnError, wpc, mem, at, snap, proc, crashes, sends, accepted, met>>

-----------------------------------------------------------------------------
(* The process ends; the next one fails the batch it finds PROCESSING, and  *)
(* does not resume it.                                                      *)
Crash ==
  /\ proc = "up" /\ crashes < MaxCrashes
  /\ crashes' = crashes + 1
  /\ proc' = "down"
  /\ flag' = "none"
  /\ wpc' = IF wpc = "none" THEN "none" ELSE "done"
  /\ cpc' = [c \in Cancellers |-> IF cpc[c] = "idle" THEN "idle" ELSE "done"]
  /\ UNCHANGED <<row, stopOnError, mem, at, snap, saveFailures, sends, accepted, met>>

MutantResume ==
  /\ proc = "down"
  /\ proc' = "up"
  /\ wpc' = IF row.status = "PROCESSING" THEN "find" ELSE wpc
  /\ UNCHANGED <<row, flag, stopOnError, mem, at, cpc, snap, crashes, saveFailures, sends,
                 accepted, met>>

MutantForgetOrphans ==
  /\ proc = "down"
  /\ proc' = "up"
  /\ UNCHANGED <<row, flag, stopOnError, wpc, mem, at, cpc, snap, crashes, saveFailures, sends,
                 accepted, met>>

Boot ==
  /\ proc = "down"
  /\ proc' = "up"
  /\ row' = IF row.status = "PROCESSING" THEN [row EXCEPT !.status = "FAILED"] ELSE row
  /\ UNCHANGED <<flag, stopOnError, wpc, mem, at, cpc, snap, crashes, saveFailures, sends,
                 accepted, met>>

-----------------------------------------------------------------------------
WorkerStep ==
  \/ WorkerReads \/ WorkerMarks \/ MarkSaved \/ AbortSaved
  \/ \E ok \in BOOLEAN : SendReturns(ok)
  \/ ProgressSaved \/ Wake \/ FinalSaved

CancelStep(c) == CancelReads(c) \/ CancelSignals(c) \/ CancelSaved(c) \/ CancelSaveFails(c)

Next ==
  \/ Create \/ WorkerStep \/ WorkerQueryFails \/ Crash \/ Boot
  \/ \E c \in Cancellers : CancelStep(c)

Spec == Init /\ [][Next]_vars

(* The engine answers, the timer of a pause fires, the database applies     *)
(* what it does not reject, and a process that ended is started again.      *)
Fairness == WF_vars(WorkerStep) /\ WF_vars(Boot)
FairSpec == Spec /\ Fairness

-----------------------------------------------------------------------------
(* Properties.                                                             *)

(* Every copy of the batch - the row, the worker's, a cancel's - accounts   *)
(* for each of its messages once, and keeps one result per answer, unless   *)
(* a cancel came before the worker had marked the batch (the worker then    *)
(* counts a zeroed `pending` down, and a second cancel copies it).          *)
Balanced(m) == /\ m.sent + m.failed + m.pending + m.cancelled = N
               /\ m.results = m.sent + m.failed

CountersBalance ==
  (\A c \in Cancellers : met[c] # "early")
    => Balanced(row) /\ Balanced(mem) /\ \A c \in Cancellers : Balanced(snap[c])

(* No message is handed to the engine twice, restarts included: a batch cut *)
(* short is failed, not resumed.                                            *)
NeverSentTwice == \A m \in 1..N : sends[m] <= 1

(* A row that says COMPLETED stands for a batch every message of which was  *)
(* sent or refused by the engine.                                           *)
CompletedIsComplete ==
  row.status = "COMPLETED" => row.sent + row.failed = N /\ row.sent = Cardinality(accepted)

(* A cancel that met the running worker and returned stays: the worker's    *)
(* last save does not bring the batch back.                                 *)
CancelSticks ==
  wpc = "done" /\ saveFailures = 0 /\ crashes = 0
    /\ (\E c \in Cancellers : cpc[c] = "done" /\ met[c] = "running")
    => row.status = "CANCELLED"

(* A batch being processed does not stay so, whatever the engine answers    *)
(* and wherever the process ends - unless the database rejected a query.    *)
ProcessingEnds == row.status = "PROCESSING" ~> row.status \in Terminal \/ saveFailures > 0

(* Whatever cancels, rejected queries and ends of the process do, the batch *)
(* keeps the contract of BatchContract: messages in order and once each,    *)
(* none once a cancel has met the worker, COMPLETED only for a whole run    *)
(* that no cancel met, one run, and nothing sent after it.                  *)
Contract == INSTANCE BatchContract WITH
  Size    <- N,
  status  <- row.status,
  running <- wpc \notin {"none", "done"},
  halted  <- (\E c \in Cancellers : met[c] \in {"marking", "running"}),
  handed  <- sends

MeetsContract == Contract!Spec

(* What the comment on resolveFinalBatchStatus says: a cancellation must    *)
(* win over the PROCESSING the worker holds.  At its weakest: a batch one   *)
(* cancelBatch of which returned does not end up COMPLETED.                 *)
CancelWins ==
  wpc = "done" /\ saveFailures = 0 /\ crashes = 0
    /\ (\A c \in Cancellers : cpc[c] \in {"idle", "done"})
    /\ (\E c \in Cancellers : cpc[c] = "done" /\ met[c] # "none")
    => row.status # "COMPLETED"
=============================================================================
