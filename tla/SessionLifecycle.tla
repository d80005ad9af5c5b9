-------------------------- MODULE SessionLifecycle --------------------------
(***************************************************************************)
(* The life of ONE session in modules/session/session.service.ts: the API  *)
(* calls start, stop and delete, the reconnect timer and executeReconnect, *)
(* the engine callbacks, the fire-and-forget status writes, and the        *)
(* process itself (boot, graceful shutdown, crash).  Every map of the      *)
(* service is keyed by the session id, so sessions do not interact and one *)
(* session is the whole component.                                         *)
(*                                                                         *)
(* An action is the code between two awaits.  An async function in flight  *)
(* is a record in `task`; its `pc` names the await it is suspended at:     *)
(*    start      hook, mark, init                                          *)
(*    reconnect  close, mark, init, undo                                   *)
(*    stop       close, mark                                               *)
(*    delete     close, hook                                               *)
(* The read of the row that opens each call is taken with the code that    *)
(* follows it.                                                             *)
(***************************************************************************)
EXTENDS Integers, Sequences, FiniteSets

CONSTANTS
  Engines,           \* engine incarnations; a closed, unreferenced one is reused
  Calls,             \* slots for API calls in flight
  Reconnects,        \* slots for executeReconnect runs in flight
  None,              \* "no engine" / "no task"
  MaxAttempts,       \* maxReconnectAttempts of the session's config
  DestroyMayReject,  \* TRUE: whatsapp-web.js (destroy() propagates); FALSE: Baileys
  OrderedWrites,     \* TRUE: one connection, statements in order; FALSE: a pool
  AutoStart,         \* the environment variable AUTO_START_SESSIONS
  MaxWrites,         \* bound: status writes on their way to the database
  MaxStuck,          \* bound: engines that would not close, at a time
  MaxLeaked,         \* bound: timers nobody can cancel any more
  MaxCrashes         \* bound: ends of the process

Tasks == Calls \cup Reconnects

ASSUME ConstantsAssumption ==
  /\ None \notin Engines \cup Tasks
  /\ Calls \cap Reconnects = {}
  /\ MaxAttempts \in Nat
  /\ DestroyMayReject \in BOOLEAN /\ OrderedWrites \in BOOLEAN /\ AutoStart \in BOOLEAN
  /\ MaxWrites \in Nat /\ MaxStuck \in Nat /\ MaxLeaked \in Nat /\ MaxCrashes \in Nat

VARIABLES
  proc,      \* "booting", "up", "closing" (onModuleDestroy), "down"
  row,       \* the status column of the session's row, or "gone"
  paired,    \* the row has a phone number
  engine,    \* this.engines.get(id)
  est,       \* what each engine incarnation is doing
  stuck,     \* engines whose close failed: they may be still there
  stopping,  \* this.stoppingSessions.has(id)
  rs,        \* this.reconnectStates.get(id); `armed`: its timer is pending
  leaked,    \* pending reconnect timers no reconnect state refers to
  task,      \* the async functions in flight
  writes,    \* status UPDATEs issued and not yet applied
  err,       \* this.sessionErrors.has(id)
  crashes,   \* ends of the process so far
  wanted,    \* history: FALSE once a stop/delete returned that no start overlapped
  overlap    \* history: a lifecycle call overlapped other work, a timer leaked, or an
             \* engine that would not close was let go

vars == <<proc, row, paired, engine, est, stuck, stopping, rs, leaked, task,
          writes, err, crashes, wanted, overlap>>

(* QR_READY and AUTHENTICATING are one status here: the code treats them alike. *)
Statuses     == {"CREATED", "INITIALIZING", "PAIRING", "READY", "DISCONNECTED", "FAILED"}
EngineStates == {"closed", "created", "initializing", "ready", "down", "failed"}
Live         == {"initializing", "ready"}
NoState      == [on |-> FALSE, attempts |-> 0, armed |-> FALSE]
Idle         == [op |-> "idle", pc |-> "none", eng |-> None, clean |-> FALSE]

ReconnectState == [on : BOOLEAN, attempts : 0..MaxAttempts, armed : BOOLEAN]
Write        == [st : Statuses, by : Tasks \cup {None}]
Task         == [op : {"idle", "start", "stop", "delete", "reconnect"},
                 pc : {"none", "hook", "mark", "init", "close", "undo"},
                 eng : Engines \cup {None}, clean : BOOLEAN]

(* The type invariant. *)
TypeOK ==
  /\ proc \in {"booting", "up", "closing", "down"}
  /\ row \in Statuses \cup {"gone"}
  /\ paired \in BOOLEAN
  /\ engine \in Engines \cup {None}
  /\ est \in [Engines -> EngineStates]
  /\ stuck \in SUBSET Engines
  /\ stopping \in BOOLEAN
  /\ rs \in ReconnectState
  /\ leaked \in Nat
  /\ task \in [Tasks -> Task]
  /\ \A t \in Tasks : task[t].pc \in {"close", "undo"} => task[t].eng # None
  /\ writes \in Seq(Write)
  /\ err \in BOOLEAN
  /\ crashes \in 0..MaxCrashes
  /\ wanted \in BOOLEAN
  /\ overlap \in BOOLEAN

Init ==
  /\ proc = "up"
  /\ row = "CREATED"
  /\ paired = FALSE
  /\ engine = None
  /\ est = [e \in Engines |-> "closed"]
  /\ stuck = {}
  /\ stopping = FALSE
  /\ rs = NoState
  /\ leaked = 0
  /\ task = [t \in Tasks |-> Idle]
  /\ writes = <<>>
  /\ err = FALSE
  /\ crashes = 0
  /\ wanted = FALSE
  /\ overlap = FALSE

-----------------------------------------------------------------------------
(* Helpers.                                                                *)

Running(op)      == \E t \in Tasks : task[t].op = op
NothingInFlight  == \A t \in Tasks : task[t] = Idle
Goto(t, p)       == task' = [task EXCEPT ![t] = [op |-> @.op, pc |-> p, eng |-> @.eng,
                                                   clean |-> @.clean]]
Finish(t)        == task' = [task EXCEPT ![t] = Idle]

(* `void this.updateStatus(...)`.  Of two equal writes in a row, the second *)
(* changes nothing, so one stands for both.                                 *)
Put(ws, s) ==
  LET w == [st |-> s, by |-> None]
  IN  IF ws # <<>> /\ ws[Len(ws)] = w THEN ws ELSE Append(ws, w)

(* `await this.updateStatus(...)` in task t. *)
PutAwaited(ws, s, t) == Append(ws, [st |-> s, by |-> t])

Room(n) == Len(writes) + n <= MaxWrites

(* What an engine's own teardown reports: setStatus(DISCONNECTED), except   *)
(* for an engine whose initialize() has not run (no client, no callbacks)   *)
(* or that is closed already.                                               *)
PutClosed(ws, e) == IF est[e] \in {"created", "closed"} THEN ws ELSE Put(ws, "DISCONNECTED")

(* The browser would not close.  Only an initialized engine has one.        *)
WontClose(e) ==
  /\ DestroyMayReject /\ est[e] \notin {"created", "closed"}
  /\ Cardinality(stuck \cup {e}) <= MaxStuck

Free == {e \in Engines : /\ est[e] = "closed" /\ engine # e
                         /\ \A t \in Tasks : task[t].eng # e}

(* Mutants: what a plausible slip in the definition that follows would do.  *)
MutantUnboundedReconnect(ws, er) ==
  IF ~rs.on THEN UNCHANGED <<rs, leaked, overlap>> /\ writes' = ws /\ err' = er
  ELSE /\ leaked' = (IF rs.armed THEN leaked + 1 ELSE leaked) /\ leaked' <= MaxLeaked
       /\ overlap' = (overlap \/ rs.armed)
       /\ rs' = [on |-> TRUE, attempts |-> rs.attempts + 1, armed |-> TRUE]
       /\ writes' = ws /\ err' = er

MutantSilentGiveUp(ws, er) ==
  IF ~rs.on \/ rs.attempts >= MaxAttempts
  THEN UNCHANGED <<rs, leaked, overlap>> /\ writes' = ws /\ err' = er
  ELSE /\ leaked' = (IF rs.armed THEN leaked + 1 ELSE leaked) /\ leaked' <= MaxLeaked
       /\ overlap' = (overlap \/ rs.armed)
       /\ rs' = [on |-> TRUE, attempts |-> rs.attempts + 1, armed |-> TRUE]
       /\ writes' = ws /\ err' = er

(* scheduleReconnect, after the writes ws were issued.  Assigning           *)
(* `state.timer` while a timer is pending makes that timer uncancellable.   *)
ScheduleReconnect(ws, er) ==
  IF ~rs.on
  THEN UNCHANGED <<rs, leaked, overlap>> /\ writes' = ws /\ err' = er
  ELSE IF rs.attempts >= MaxAttempts
  THEN UNCHANGED <<rs, leaked, overlap>> /\ writes' = Put(ws, "FAILED") /\ err' = TRUE
  ELSE /\ leaked' = IF rs.armed THEN leaked + 1 ELSE leaked
       /\ leaked' <= MaxLeaked
       /\ overlap' = (overlap \/ rs.armed)
       /\ rs' = [on |-> TRUE, attempts |-> rs.attempts + 1, armed |-> TRUE]
       /\ writes' = ws /\ err' = er

(* initializeEngine up to its first await: the new engine is registered,    *)
(* the failure reason cleared and INITIALIZING written.  `closed` are the   *)
(* engines torn down just before.                                           *)
InitializeEngine(t, op, e, ws, closed) ==
  /\ e \in Free
  /\ engine' = e
  /\ est' = [x \in Engines |-> IF x = e THEN "created"
                               ELSE IF x \in closed THEN "closed" ELSE est[x]]
  /\ stuck' = stuck \ (closed \cup {e})
  /\ err' = FALSE
  /\ writes' = PutAwaited(ws, "INITIALIZING", t)
  /\ task' = [task EXCEPT ![t] = [op |-> op, pc |-> "mark", eng |-> e, clean |-> FALSE]]

-----------------------------------------------------------------------------
(* API calls.                                                              *)

(* Mutant of BeginStart: the already-started check is missing. *)
MutantStartTwice(c) ==
  /\ task[c] = Idle
  /\ stopping' = FALSE
  /\ task' = [t \in Tasks |-> IF t = c THEN [Idle EXCEPT !.op = "start", !.pc = "hook"]
                                       ELSE [task[t] EXCEPT !.clean = FALSE]]
  /\ wanted' = TRUE

(* start() up to the hook: rejected when an engine is registered; clears    *)
(* the teardown mark.                                                       *)
BeginStart(c) ==
  /\ task[c] = Idle
  /\ engine = None
  /\ stopping' = FALSE
  /\ task' = [t \in Tasks |-> IF t = c THEN [Idle EXCEPT !.op = "start", !.pc = "hook"]
                                       ELSE [task[t] EXCEPT !.clean = FALSE]]
  /\ wanted' = TRUE

StartCall(c) ==
  /\ proc = "up"
  /\ row # "gone"
  /\ BeginStart(c)
  /\ overlap' = (overlap \/ ~NothingInFlight \/ leaked > 0)
  /\ UNCHANGED <<proc, row, paired, engine, est, stuck, rs, leaked, writes, err, crashes>>

(* The session:starting hook returned: a fresh reconnect state, an engine.  *)
StartHookDone(c, e) ==
  /\ task[c].op = "start" /\ task[c].pc = "hook"
  /\ Room(1)
  /\ rs' = [on |-> TRUE, attempts |-> 0, armed |-> FALSE]
  /\ leaked' = (IF rs.armed THEN leaked + 1 ELSE leaked) /\ leaked' <= MaxLeaked
  /\ InitializeEngine(c, "start", e, writes, {})
  /\ UNCHANGED <<proc, row, paired, stopping, crashes, wanted, overlap>>

(* Mutant of Teardown: cancelReconnect is not called. *)
MutantNoCancel(c, op, next) ==
  /\ proc = "up" /\ task[c] = Idle /\ row # "gone"
  /\ stopping' = TRUE
  /\ task' = [task EXCEPT ![c] =
                [op |-> op, pc |-> IF engine = None THEN next ELSE "close",
                 eng |-> engine, clean |-> ~Running("start")]]
  /\ overlap' = (overlap \/ ~NothingInFlight)
  /\ UNCHANGED <<proc, row, paired, engine, est, stuck, rs, leaked, err, crashes, wanted>>

(* stop() and delete() up to the first await: mark, cancel the reconnect,   *)
(* look the engine up.                                                      *)
Teardown(c, op, next) ==
  /\ proc = "up" /\ task[c] = Idle /\ row # "gone"
  /\ stopping' = TRUE
  /\ rs' = NoState
  /\ task' = [task EXCEPT ![c] =
                [op |-> op, pc |-> IF engine = None THEN next ELSE "close",
                 eng |-> engine, clean |-> ~Running("start")]]
  /\ overlap' = (overlap \/ ~NothingInFlight)
  /\ UNCHANGED <<proc, row, paired, engine, est, stuck, leaked, err, crashes, wanted>>

StopCall(c) ==
  /\ Room(1)
  /\ Teardown(c, "stop", "mark")
  /\ writes' = IF engine = None THEN PutAwaited(writes, "DISCONNECTED", c) ELSE writes

(* engine.disconnect() returned.  Whatever engine the map holds by now is   *)
(* removed.                                                                 *)
StopClosed(c) ==
  /\ task[c].op = "stop" /\ task[c].pc = "close"
  /\ Room(2)
  /\ est' = [est EXCEPT ![task[c].eng] = "closed"]
  /\ stuck' = stuck \ {task[c].eng}
  /\ engine' = None
  /\ writes' = PutAwaited(PutClosed(writes, task[c].eng), "DISCONNECTED", c)
  /\ Goto(c, "mark")
  /\ UNCHANGED <<proc, row, paired, stopping, rs, leaked, err, crashes, wanted, overlap>>

(* disconnect() swallowed the failure of the browser to close: stop() goes  *)
(* on all the same, and the browser may be alive.                           *)
StopCloseFails(c) ==
  /\ task[c].op = "stop" /\ task[c].pc = "close"
  /\ WontClose(task[c].eng)
  /\ Room(2)
  /\ stuck' = stuck \cup {task[c].eng}
  /\ engine' = None
  /\ writes' = PutAwaited(PutClosed(writes, task[c].eng), "DISCONNECTED", c)
  /\ Goto(c, "mark")
  /\ overlap' = TRUE
  /\ UNCHANGED <<proc, row, paired, est, stopping, rs, leaked, err, crashes, wanted>>

DeleteCall(c) ==
  /\ Teardown(c, "delete", "hook")
  /\ UNCHANGED writes

DeleteClosed(c) ==
  /\ task[c].op = "delete" /\ task[c].pc = "close"
  /\ Room(1)
  /\ est' = [est EXCEPT ![task[c].eng] = "closed"]
  /\ stuck' = stuck \ {task[c].eng}
  /\ engine' = None
  /\ writes' = PutClosed(writes, task[c].eng)
  /\ Goto(c, "hook")
  /\ UNCHANGED <<proc, row, paired, stopping, rs, leaked, err, crashes, wanted, overlap>>

(* engine.destroy() rejected: delete() rejects and undoes nothing.          *)
DeleteCloseFails(c) ==
  /\ task[c].op = "delete" /\ task[c].pc = "close"
  /\ WontClose(task[c].eng)
  /\ stuck' = stuck \cup {task[c].eng}
  /\ Finish(c)
  /\ UNCHANGED <<proc, row, paired, engine, est, stopping, rs, leaked, writes, err,
                 crashes, wanted, overlap>>

(* The session:deleted hook returned and the row is removed.                *)
DeleteRow(c) ==
  /\ task[c].op = "delete" /\ task[c].pc = "hook"
  /\ row' = "gone"
  /\ wanted' = (wanted /\ ~task[c].clean)
  /\ Finish(c)
  /\ UNCHANGED <<proc, paired, engine, est, stuck, stopping, rs, leaked, writes, err,
                 crashes, overlap>>

-----------------------------------------------------------------------------
(* The reconnect.                                                          *)

(* A reconnect timer fires - the one the reconnect state holds, or a leaked *)
(* one - and executeReconnect runs up to its first await.                   *)
ConsumeTimer ==
  \/ rs.armed /\ rs' = [rs EXCEPT !.armed = FALSE] /\ UNCHANGED leaked
  \/ leaked > 0 /\ leaked' = leaked - 1 /\ UNCHANGED rs

(* The session was stopped or deleted: don't resurrect it. *)
TimerIgnored ==
  /\ proc # "down" /\ stopping
  /\ ConsumeTimer
  /\ UNCHANGED <<proc, row, paired, engine, est, stuck, stopping, task, writes, err,
                 crashes, wanted, overlap>>

(* Mutant of TimerFires: the stopping check is missing. *)
MutantTimerResurrects(r) ==
  /\ proc # "down" /\ task[r] = Idle
  /\ engine # None
  /\ ConsumeTimer
  /\ task' = [task EXCEPT ![r] = [op |-> "reconnect", pc |-> "close", eng |-> engine,
                                  clean |-> FALSE]]
  /\ overlap' = (overlap \/ ~NothingInFlight)
  /\ UNCHANGED <<proc, row, paired, engine, est, stuck, stopping, writes, err, crashes,
                 wanted>>

TimerFires(r) ==
  /\ proc # "down" /\ ~stopping /\ task[r] = Idle
  /\ engine # None
  /\ ConsumeTimer
  /\ task' = [task EXCEPT ![r] = [op |-> "reconnect", pc |-> "close", eng |-> engine,
                                  clean |-> FALSE]]
  /\ overlap' = (overlap \/ ~NothingInFlight)
  /\ UNCHANGED <<proc, row, paired, engine, est, stuck, stopping, writes, err, crashes,
                 wanted>>

(* The same with no engine registered: straight to initializeEngine. *)
TimerFiresBare(r, e) ==
  /\ proc # "down" /\ ~stopping /\ task[r] = Idle
  /\ engine = None
  /\ Room(1)
  /\ ConsumeTimer
  /\ InitializeEngine(r, "reconnect", e, writes, {})
  /\ overlap' = (overlap \/ ~NothingInFlight)
  /\ UNCHANGED <<proc, row, paired, stopping, crashes, wanted>>

(* The old engine is destroyed; whatever the map holds by now is dropped    *)
(* from it, and a new engine takes its place.                               *)
OldEngineClosed(r, e) ==
  /\ task[r].op = "reconnect" /\ task[r].pc = "close"
  /\ Room(2)
  /\ InitializeEngine(r, "reconnect", e, PutClosed(writes, task[r].eng), {task[r].eng})
  /\ UNCHANGED <<proc, row, paired, stopping, rs, leaked, crashes, wanted, overlap>>

(* destroy() rejected - of the old engine, or of one resurrected during a   *)
(* teardown: the catch schedules another attempt.                           *)
ReconnectCloseFails(r) ==
  /\ task[r].op = "reconnect" /\ task[r].pc \in {"close", "undo"}
  /\ WontClose(task[r].eng)
  /\ Room(1)
  /\ stuck' = stuck \cup {task[r].eng}
  /\ ScheduleReconnect(writes, err)
  /\ Finish(r)
  /\ UNCHANGED <<proc, row, paired, engine, est, stopping, crashes, wanted>>

(* engine.initialize() resolved in start(). *)
StartDone(c) ==
  /\ task[c].op = "start" /\ task[c].pc = "init"
  /\ Finish(c)
  /\ UNCHANGED <<proc, row, paired, engine, est, stuck, stopping, rs, leaked, writes, err,
                 crashes, wanted, overlap>>

(* Mutant of ReconnectDone: no check after the await. *)
MutantNoPostInitCheck(r) ==
  /\ task[r].op = "reconnect" /\ task[r].pc = "init"
  /\ Finish(r)
  /\ UNCHANGED <<proc, row, paired, engine, est, stuck, stopping, rs, leaked, writes, err,
                 crashes, wanted, overlap>>

(* engine.initialize() resolved in executeReconnect: if the session is      *)
(* being torn down, destroy the engine the map holds.                       *)
ReconnectDone(r) ==
  /\ task[r].op = "reconnect" /\ task[r].pc = "init"
  /\ task' = [task EXCEPT ![r] = IF stopping /\ engine # None
                                 THEN [op |-> "reconnect", pc |-> "undo", eng |-> engine, clean |-> FALSE]
                                 ELSE Idle]
  /\ UNCHANGED <<proc, row, paired, engine, est, stuck, stopping, rs, leaked, writes, err,
                 crashes, wanted, overlap>>

UndoClosed(r) ==
  /\ task[r].op = "reconnect" /\ task[r].pc = "undo"
  /\ Room(1)
  /\ est' = [est EXCEPT ![task[r].eng] = "closed"]
  /\ stuck' = stuck \ {task[r].eng}
  /\ engine' = None
  /\ writes' = PutClosed(writes, task[r].eng)
  /\ Finish(r)
  /\ UNCHANGED <<proc, row, paired, stopping, rs, leaked, err, crashes, wanted, overlap>>

(* engine.initialize() threw, after setStatus(FAILED) and onError.  The     *)
(* engine stays in the map; executeReconnect schedules another attempt.     *)
InitFails(t) ==
  /\ task[t].pc = "init"
  /\ Room(2)
  /\ est' = [est EXCEPT ![task[t].eng] = IF @ = "closed" THEN @ ELSE "failed"]
  /\ IF task[t].op = "reconnect"
       THEN ScheduleReconnect(Put(writes, "FAILED"), TRUE)
       ELSE UNCHANGED <<rs, leaked, overlap>> /\ writes' = Put(writes, "FAILED") /\ err' = TRUE
  /\ Finish(t)
  /\ UNCHANGED <<proc, row, paired, engine, stuck, stopping, crashes, wanted>>

-----------------------------------------------------------------------------
(* The engine's callbacks: a status write, and what else the service does.  *)

EngineReports(e, from, to, s) ==
  /\ est[e] \in from
  /\ Room(2)
  /\ est' = [est EXCEPT ![e] = to]
  /\ UNCHANGED <<proc, row, paired, engine, stuck, stopping, task, crashes, wanted>>

(* QR code or authentication: progress towards READY. *)
EnginePairing(e) ==
  /\ EngineReports(e, {"initializing"}, "initializing", "PAIRING")
  /\ writes' = Put(writes, "PAIRING")
  /\ UNCHANGED <<rs, leaked, err, overlap>>

(* onReady: the attempts start over and the failure reason goes. *)
EngineReady(e) ==
  /\ EngineReports(e, {"initializing"}, "ready", "READY")
  /\ rs' = [rs EXCEPT !.attempts = 0]
  /\ err' = FALSE
  /\ writes' = Put(writes, "READY")
  /\ UNCHANGED <<leaked, overlap>>

(* A transient drop Baileys redials by itself. *)
EngineRedials(e) ==
  /\ EngineReports(e, {"ready"}, "initializing", "INITIALIZING")
  /\ writes' = Put(writes, "INITIALIZING")
  /\ UNCHANGED <<rs, leaked, err, overlap>>

(* onDisconnected: the engine gives up the connection, the service takes    *)
(* over.                                                                    *)
EngineDrops(e) ==
  /\ EngineReports(e, Live, "down", "DISCONNECTED")
  /\ ScheduleReconnect(Put(writes, "DISCONNECTED"), err)

(* Mutant of EngineFails: the reason is not kept. *)
MutantForgetsReason(e) ==
  /\ EngineReports(e, Live, "failed", "FAILED")
  /\ writes' = Put(writes, "FAILED")
  /\ UNCHANGED <<rs, leaked, err, overlap>>

(* onError without a throw: authentication failure, redials exhausted.      *)
EngineFails(e) ==
  /\ EngineReports(e, Live, "failed", "FAILED")
  /\ err' = TRUE
  /\ writes' = Put(writes, "FAILED")
  /\ UNCHANGED <<rs, leaked, overlap>>

-----------------------------------------------------------------------------
(* The database applies a status write.  A task that awaited it goes on:    *)
(* stop() returns; start() and executeReconnect call engine.initialize(),   *)
(* which clears whatever an earlier disconnect() left in the engine and     *)
(* reports INITIALIZING once more.                                          *)
RemoveWrite(i) == SubSeq(writes, 1, i - 1) \o SubSeq(writes, i + 1, Len(writes))

ApplyWrite(i) ==
  LET w    == writes[i]
      init == w.by # None /\ task[w.by].op # "stop"
  IN  /\ OrderedWrites => i = 1
      /\ row' = IF row = "gone" THEN row ELSE w.st
      /\ paired' = (paired \/ (w.st = "READY" /\ row # "gone"))
      /\ writes' = IF init THEN Put(RemoveWrite(i), "INITIALIZING") ELSE RemoveWrite(i)
      /\ task' = CASE w.by = None -> task
                   [] init        -> [task EXCEPT ![w.by].pc = "init"]
                   [] OTHER       -> [task EXCEPT ![w.by] = Idle]
      /\ est' = IF init THEN [est EXCEPT ![task[w.by].eng] = "initializing"] ELSE est
      /\ wanted' = (wanted /\ ~(w.by # None /\ ~init /\ task[w.by].clean))
      /\ UNCHANGED <<proc, engine, stuck, stopping, rs, leaked, err, crashes, overlap>>

-----------------------------------------------------------------------------
(* The process.                                                            *)

(* onModuleDestroy: cancel the timer the reconnect state holds, drop the    *)
(* states ...                                                               *)
Shutdown ==
  /\ proc = "up"
  /\ crashes < MaxCrashes
  /\ proc' = "closing"
  /\ rs' = NoState
  /\ UNCHANGED <<row, paired, engine, est, stuck, stopping, leaked, task, writes, err,
                 crashes, wanted, overlap>>

(* ... then destroy the registered engine, ...                              *)
ShutdownClosed ==
  /\ proc = "closing" /\ engine # None
  /\ Room(1)
  /\ est' = [est EXCEPT ![engine] = "closed"]
  /\ stuck' = stuck \ {engine}
  /\ writes' = PutClosed(writes, engine)
  /\ engine' = None
  /\ UNCHANGED <<proc, row, paired, stopping, rs, leaked, task, err, crashes, wanted, overlap>>

(* ... or let it go when that failed or took too long.                      *)
ShutdownCloseFails ==
  /\ proc = "closing" /\ engine # None /\ WontClose(engine)
  /\ stuck' = stuck \cup {engine}
  /\ engine' = None
  /\ overlap' = TRUE
  /\ UNCHANGED <<proc, row, paired, est, stopping, rs, leaked, task, writes, err, crashes, wanted>>

(* The process ends, after a shutdown or without one.  All that is in       *)
(* memory goes, the writes not yet applied with it.                         *)
ProcessEnds ==
  /\ proc # "down"
  /\ crashes < MaxCrashes
  /\ crashes' = crashes + 1
  /\ proc' = "down"
  /\ engine' = None /\ est' = [e \in Engines |-> "closed"] /\ stuck' = {}
  /\ stopping' = FALSE /\ rs' = NoState /\ leaked' = 0
  /\ task' = [t \in Tasks |-> Idle]
  /\ writes' = <<>> /\ err' = FALSE
  /\ wanted' = FALSE /\ overlap' = FALSE
  /\ UNCHANGED <<row, paired>>

(* Mutant of Boot: READY is missing from the statuses reset. *)
MutantBootKeepsReady(c) ==
  LET reset == IF row \in {"INITIALIZING", "PAIRING"} THEN "DISCONNECTED" ELSE row
  IN  /\ proc = "down"
      /\ proc' = "booting"
      /\ row' = reset
      /\ IF AutoStart /\ paired /\ reset = "DISCONNECTED"
           THEN BeginStart(c)
           ELSE UNCHANGED <<stopping, task, wanted>>
      /\ UNCHANGED <<paired, engine, est, stuck, rs, leaked, writes, err, crashes, overlap>>

(* onModuleInit resets the statuses only a running engine can justify;      *)
(* onApplicationBootstrap starts a session that was linked before.          *)
Boot(c) ==
  LET reset == IF row \in {"READY", "INITIALIZING", "PAIRING"} THEN "DISCONNECTED" ELSE row
  IN  /\ proc = "down"
      /\ proc' = "booting"
      /\ row' = reset
      /\ IF AutoStart /\ paired /\ reset = "DISCONNECTED"
           THEN BeginStart(c)
           ELSE UNCHANGED <<stopping, task, wanted>>
      /\ UNCHANGED <<paired, engine, est, stuck, rs, leaked, writes, err, crashes, overlap>>

(* The server listens once the automatic start has returned. *)
BootDone ==
  /\ proc = "booting" /\ ~Running("start")
  /\ proc' = "up"
  /\ UNCHANGED <<row, paired, engine, est, stuck, stopping, rs, leaked, task, writes, err,
                 crashes, wanted, overlap>>

-----------------------------------------------------------------------------
ApiStep ==
  \E c \in Calls :
    \/ StartCall(c) \/ StopCall(c) \/ StopClosed(c) \/ StopCloseFails(c) \/ StartDone(c)
    \/ DeleteCall(c) \/ DeleteClosed(c) \/ DeleteCloseFails(c) \/ DeleteRow(c)
    \/ \E e \in Engines : StartHookDone(c, e)

ReconnectStep ==
  \/ TimerIgnored
  \/ \E r \in Reconnects :
       \/ TimerFires(r) \/ ReconnectCloseFails(r) \/ ReconnectDone(r) \/ UndoClosed(r)
       \/ \E e \in Engines : TimerFiresBare(r, e) \/ OldEngineClosed(r, e)

EngineStep ==
  \/ \E t \in Tasks : InitFails(t)
  \/ \E e \in Engines : \/ EnginePairing(e) \/ EngineReady(e) \/ EngineRedials(e)
                         \/ EngineDrops(e) \/ EngineFails(e)

ProcessStep ==
  \/ Shutdown \/ ShutdownClosed \/ ShutdownCloseFails \/ ProcessEnds \/ BootDone
  \/ \E c \in Calls : Boot(c)

Next ==
  \/ ApiStep \/ ReconnectStep \/ EngineStep \/ ProcessStep
  \/ \E i \in 1..Len(writes) : ApplyWrite(i)

Spec == Init /\ [][Next]_vars

-----------------------------------------------------------------------------
(* Properties.                                                             *)

Reconnecting == \E r \in Reconnects : task[r] # Idle

(* After a stop() or delete() that no start() overlapped has returned, and  *)
(* until the next start(), the reconnect state is gone: no callback of a    *)
(* lingering engine can schedule a reconnect.                               *)
StopHolds == ~wanted => ~rs.on /\ ~rs.armed /\ ~Running("start")

(* Nor does executeReconnect begin then: a timer nobody could cancel meets  *)
(* the teardown mark.                                                       *)
NoReconnectAfterStop ==
  [][\A r \in Reconnects : task[r].op = "idle" /\ task'[r].op # "idle" => wanted]_vars

(* ... and once the executeReconnect runs still in flight have ended, the   *)
(* engine map holds no engine of the session - except one whose             *)
(* initialize() threw, or whose destroy() rejected.                         *)
StopWins ==
  ~wanted /\ ~Reconnecting /\ engine # None =>
     est[engine] = "failed" \/ engine \in stuck

(* A row that says READY, with no write on its way, has a connected engine  *)
(* behind it - across stops, reconnects, shutdowns and crashes.             *)
NoGhostReady ==
  proc = "up" /\ row = "READY" /\ writes = <<>> /\ NothingInFlight =>
     \E e \in Engines : est[e] = "ready"

(* A session whose engine lost its connection is not silently left          *)
(* DISCONNECTED: unless a stop or delete marked it since the last start, a  *)
(* reconnect is on its way or the row says FAILED.                          *)
NeverStuckDown ==
  proc = "up" /\ ~stopping /\ NothingInFlight /\ writes = <<>>
    /\ engine # None /\ row = "DISCONNECTED"
    => rs.armed \/ leaked > 0 \/ est[engine] # "down"

(* Two engines of one session are connected at once only if a start, stop   *)
(* or delete overlapped other work of the session, a reconnect was          *)
(* scheduled twice, or an engine that would not close was let go.           *)
OneEngineUnlessOverlap ==
  ~overlap => Cardinality({e \in Engines : est[e] \in Live}) <= 1

(* A FAILED row has a reason to show, unless the process was restarted.     *)
FailedExplained ==
  proc = "up" /\ crashes = 0 /\ row = "FAILED" /\ writes = <<>> /\ NothingInFlight => err

(* What the comment on stoppingSessions says of stop() and delete(): no     *)
(* engine of a session that was torn down stays connected.                  *)
StoppedIsDead ==
  ~wanted /\ NothingInFlight => \A e \in Engines : est[e] \in Live => e \in stuck
=============================================================================
