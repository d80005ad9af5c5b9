----------------------- MODULE SessionLifecycleProofs -----------------------
(***************************************************************************)
(* What holds of SessionLifecycle for any number of engines, calls,        *)
(* reconnects, attempts and crashes: the types, and that a completed stop   *)
(* or delete shuts the reconnect machinery down; then, of the engines and   *)
(* the row, that a stop wins, a row is true of the engine behind it, and    *)
(* one engine is connected at a time.                                      *)
(***************************************************************************)
EXTENDS SessionLifecycle, FiniteSetTheorems, TLAPS

(* A call that may still end a session cleanly owns the teardown: nothing   *)
(* has started the session since it marked it.                              *)
CleanTeardown ==
  \A t \in Tasks : task[t].clean =>
     /\ stopping /\ ~rs.on /\ ~rs.armed
     /\ \A u \in Tasks : task[u].op # "start"

(* While the session is not wanted, a timer that is still pending meets the *)
(* teardown mark.                                                           *)
TimersGuarded == ~wanted => stopping \/ leaked = 0

Inv == TypeOK /\ StopHolds /\ CleanTeardown /\ TimersGuarded

(* The part of the type invariant that speaks of tasks, by name.            *)
TasksTyped ==
  /\ task \in [Tasks -> Task]
  /\ \A t \in Tasks : task[t].pc \in {"close", "undo"} => task[t].eng # None

-----------------------------------------------------------------------------
(* The three ways to edit the list of writes keep it a list of writes.      *)
LEMMA WritesTyped ==
  ASSUME NEW ws \in Seq(Write), NEW s \in Statuses
  PROVE  /\ Put(ws, s) \in Seq(Write)
         /\ \A t \in Tasks : PutAwaited(ws, s, t) \in Seq(Write)
         /\ \A e \in Engines \cup {None} : PutClosed(ws, e) \in Seq(Write)
<1>1. /\ [st |-> s, by |-> None] \in Write
      /\ [st |-> "DISCONNECTED", by |-> None] \in Write
      /\ \A t \in Tasks : [st |-> s, by |-> t] \in Write
  BY DEF Write, Statuses
<1>2. \A w \in Write : Append(ws, w) \in Seq(Write)
  OBVIOUS
<1> QED
  BY <1>1, <1>2 DEF Put, PutAwaited, PutClosed

LEMMA RemoveTyped ==
  ASSUME writes \in Seq(Write), NEW i \in 1..Len(writes)
  PROVE  RemoveWrite(i) \in Seq(Write) /\ writes[i] \in Write
  BY DEF RemoveWrite

(* initializeEngine and scheduleReconnect, the two helpers with effects.    *)
LEMMA InitializeTyped ==
  ASSUME TypeOK, NEW t \in Tasks, NEW op \in {"start", "reconnect"}, NEW e \in Engines,
         NEW ws \in Seq(Write), NEW closed, InitializeEngine(t, op, e, ws, closed)
  PROVE  /\ engine' \in Engines \cup {None} /\ est' \in [Engines -> EngineStates]
         /\ stuck' \in SUBSET Engines /\ err' \in BOOLEAN
         /\ writes' \in Seq(Write) /\ TasksTyped'
<1>1. writes' \in Seq(Write)
  BY WritesTyped DEF InitializeEngine, Statuses
<1>2. TasksTyped'
  BY DEF InitializeEngine, TypeOK, Task, TasksTyped
<1> QED
  BY <1>1, <1>2 DEF InitializeEngine, TypeOK, EngineStates

(* The edits of the reconnect state. *)
LEMMA ReconnectStateTyped ==
  /\ NoState \in ReconnectState
  /\ \A a \in 0..MaxAttempts : [on |-> TRUE, attempts |-> a, armed |-> TRUE] \in ReconnectState
  /\ [on |-> TRUE, attempts |-> 0, armed |-> FALSE] \in ReconnectState
  /\ \A r \in ReconnectState : /\ [r EXCEPT !.armed = FALSE] \in ReconnectState
                               /\ [r EXCEPT !.attempts = 0] \in ReconnectState
<1>1. 0 \in 0..MaxAttempts
  BY ConstantsAssumption
<1>2. NoState \in ReconnectState
  BY <1>1 DEF NoState, ReconnectState
<1>3. \A a \in 0..MaxAttempts : [on |-> TRUE, attempts |-> a, armed |-> TRUE] \in ReconnectState
  BY DEF ReconnectState
<1>4. [on |-> TRUE, attempts |-> 0, armed |-> FALSE] \in ReconnectState
  BY <1>1 DEF ReconnectState
<1>5. \A r \in ReconnectState : [r EXCEPT !.armed = FALSE] \in ReconnectState
  BY DEF ReconnectState
<1>6. \A r \in ReconnectState : [r EXCEPT !.attempts = 0] \in ReconnectState
  BY <1>1 DEF ReconnectState
<1> QED
  BY <1>2, <1>3, <1>4, <1>5, <1>6

LEMMA ScheduleTyped ==
  ASSUME TypeOK, NEW ws \in Seq(Write), NEW er \in BOOLEAN, ScheduleReconnect(ws, er)
  PROVE  /\ rs' \in ReconnectState
         /\ leaked' \in Nat /\ overlap' \in BOOLEAN
         /\ writes' \in Seq(Write) /\ err' \in BOOLEAN
<1>1. Put(ws, "FAILED") \in Seq(Write)
  BY WritesTyped DEF Statuses
<1>2. ASSUME rs.on, ~(rs.attempts >= MaxAttempts)
      PROVE  rs.attempts + 1 \in 0..MaxAttempts
  BY <1>2, ConstantsAssumption DEF TypeOK, ReconnectState
<1>3. CASE ~rs.on
  BY <1>3 DEF ScheduleReconnect, TypeOK
<1>4. CASE rs.on /\ rs.attempts >= MaxAttempts
  BY <1>1, <1>4 DEF ScheduleReconnect, TypeOK
<1>5. CASE rs.on /\ ~(rs.attempts >= MaxAttempts)
  <2>1. rs' \in ReconnectState
    BY <1>2, <1>5, ReconnectStateTyped DEF ScheduleReconnect
  <2>2. overlap' = (overlap \/ rs.armed) /\ overlap' \in BOOLEAN
    BY <1>5 DEF ScheduleReconnect
  <2> QED
    BY <2>1, <2>2, <1>5 DEF ScheduleReconnect, TypeOK
<1> QED
  BY <1>3, <1>4, <1>5

(* Every step keeps the types. *)
LEMMA TypeStep ==
  ASSUME TypeOK, [Next]_vars
  PROVE  TypeOK'
<1> USE DEF TypeOK
<1>0. /\ Calls \subseteq Tasks /\ Reconnects \subseteq Tasks
      /\ \A t \in Tasks : task[t] \in Task /\ task[t].eng \in Engines \cup {None}
      /\ Idle \in Task /\ Idle.pc = "none" /\ Idle.op = "idle"
      /\ TasksTyped
  BY DEF Tasks, Task, Idle, TasksTyped
<1>a. ASSUME NEW t \in Tasks, Finish(t)
      PROVE  TasksTyped'
  BY <1>0, <1>a DEF Finish, TasksTyped
<1>b. ASSUME NEW t \in Tasks, NEW p \in {"mark", "hook"}, Goto(t, p)
      PROVE  TasksTyped'
  <2> DEFINE new == [op |-> task[t].op, pc |-> p, eng |-> task[t].eng, clean |-> task[t].clean]
  <2>1. new \in Task /\ new.pc = p
    BY <1>0 DEF Task
  <2>2. task' = [task EXCEPT ![t] = new]
    BY <1>b DEF Goto
  <2> HIDE DEF new
  <2> QED
    BY <2>1, <2>2, <1>0 DEF TasksTyped
<1>1. ASSUME NEW c \in Calls, BeginStart(c)
      PROVE  TasksTyped' /\ stopping' \in BOOLEAN /\ wanted' \in BOOLEAN
  <2>1. TasksTyped'
    BY <1>0, <1>1 DEF BeginStart, Idle, Task, TasksTyped
  <2> QED
    BY <2>1, <1>1 DEF BeginStart
<1>2. ASSUME NEW c \in Calls, StartCall(c)
      PROVE  TypeOK'
  BY <1>1, <1>2 DEF StartCall, TasksTyped
<1>3. ASSUME NEW c \in Calls, NEW e \in Engines, StartHookDone(c, e)
      PROVE  TypeOK'
  BY <1>0, <1>3, InitializeTyped, ReconnectStateTyped DEF StartHookDone, TasksTyped
<1>4. ASSUME NEW c \in Calls, NEW op \in {"stop", "delete"}, NEW next \in {"mark", "hook"},
             Teardown(c, op, next), writes' \in Seq(Write)
      PROVE  TypeOK'
  <2>1. TasksTyped'
    BY <1>0, <1>4 DEF Teardown, Task, TasksTyped
  <2> QED
    BY <2>1, <1>4, ReconnectStateTyped DEF Teardown, TasksTyped
<1>5. ASSUME NEW c \in Calls, StopCall(c)
      PROVE  TypeOK'
  <2>1. writes' \in Seq(Write)
    BY <1>0, <1>5, WritesTyped DEF StopCall, Statuses
  <2> QED
    BY <2>1, <1>4, <1>5 DEF StopCall
<1>6. ASSUME NEW c \in Calls, DeleteCall(c)
      PROVE  TypeOK'
  BY <1>4, <1>6 DEF DeleteCall
<1>7. ASSUME NEW c \in Calls, StopClosed(c)
      PROVE  TypeOK'
  <2>1. PutClosed(writes, task[c].eng) \in Seq(Write)
    BY <1>0, WritesTyped DEF Statuses
  <2>2. writes' \in Seq(Write)
    BY <2>1, <1>0, <1>7, WritesTyped DEF StopClosed, Statuses
  <2>3. TasksTyped'
    BY <1>0, <1>7, <1>b DEF StopClosed
  <2> QED
    BY <2>2, <2>3, <1>7 DEF StopClosed, EngineStates, TasksTyped
<1>27. ASSUME NEW c \in Calls, StopCloseFails(c)
      PROVE  TypeOK'
  <2>1. PutClosed(writes, task[c].eng) \in Seq(Write)
    BY <1>0, WritesTyped DEF Statuses
  <2>2. writes' \in Seq(Write)
    BY <2>1, <1>0, <1>27, WritesTyped DEF StopCloseFails, Statuses
  <2>3. TasksTyped'
    BY <1>0, <1>27, <1>b DEF StopCloseFails
  <2>4. task[c].eng \in Engines
    BY <1>0, <1>27, ConstantsAssumption DEF StopCloseFails, WontClose
  <2> QED
    BY <2>2, <2>3, <2>4, <1>27 DEF StopCloseFails, TasksTyped
<1>8. ASSUME NEW c \in Calls, DeleteClosed(c)
      PROVE  TypeOK'
  <2>1. writes' \in Seq(Write)
    BY <1>0, <1>8, WritesTyped DEF DeleteClosed, Statuses
  <2>2. TasksTyped'
    BY <1>0, <1>8, <1>b DEF DeleteClosed
  <2> QED
    BY <2>1, <2>2, <1>8 DEF DeleteClosed, EngineStates, TasksTyped
<1>9. ASSUME NEW c \in Calls, DeleteCloseFails(c)
      PROVE  TypeOK'
  <2>1. TasksTyped'
    BY <1>0, <1>9, <1>a DEF DeleteCloseFails
  <2> QED
    BY <2>1, <1>0, <1>9 DEF DeleteCloseFails, TasksTyped
<1>10. ASSUME NEW c \in Calls, DeleteRow(c) \/ StartDone(c)
       PROVE  TypeOK'
  <2>1. TasksTyped'
    BY <1>0, <1>10, <1>a DEF DeleteRow, StartDone
  <2> QED
    BY <2>1, <1>10 DEF DeleteRow, StartDone, TasksTyped
<1>11. ASSUME ConsumeTimer
       PROVE  /\ rs' \in ReconnectState
              /\ leaked' \in Nat
  <2>1. CASE rs.armed /\ rs' = [rs EXCEPT !.armed = FALSE] /\ UNCHANGED leaked
    BY <2>1, ReconnectStateTyped
  <2>2. CASE leaked > 0 /\ leaked' = leaked - 1 /\ UNCHANGED rs
    BY <2>2
  <2> QED
    BY <2>1, <2>2, <1>11 DEF ConsumeTimer
<1>12. ASSUME TimerIgnored
       PROVE  TypeOK'
  BY <1>11, <1>12 DEF TimerIgnored
<1>13. ASSUME NEW r \in Reconnects, TimerFires(r)
       PROVE  TypeOK'
  <2>1. TasksTyped'
    BY <1>0, <1>13 DEF TimerFires, Task, TasksTyped
  <2> QED
    BY <2>1, <1>11, <1>13 DEF TimerFires, TasksTyped
<1>14. ASSUME NEW r \in Reconnects, NEW e \in Engines, TimerFiresBare(r, e)
       PROVE  TypeOK'
  BY <1>0, <1>11, <1>14, InitializeTyped DEF TimerFiresBare, TasksTyped
<1>15. ASSUME NEW r \in Reconnects, NEW e \in Engines, OldEngineClosed(r, e)
       PROVE  TypeOK'
  <2>1. PutClosed(writes, task[r].eng) \in Seq(Write)
    BY <1>0, WritesTyped DEF Statuses
  <2> QED
    BY <2>1, <1>0, <1>15, InitializeTyped DEF OldEngineClosed, TasksTyped
<1>16. ASSUME NEW r \in Reconnects, ReconnectCloseFails(r)
       PROVE  TypeOK'
  <2>1. TasksTyped'
    BY <1>0, <1>16, <1>a DEF ReconnectCloseFails
  <2>2. task[r].eng \in Engines
    BY <1>0, <1>16 DEF ReconnectCloseFails
  <2> QED
    BY <2>1, <2>2, <1>16, ScheduleTyped DEF ReconnectCloseFails, TasksTyped
<1>17. ASSUME NEW r \in Reconnects, ReconnectDone(r)
       PROVE  TypeOK'
  <2>1. TasksTyped'
    BY <1>0, <1>17 DEF ReconnectDone, Task, TasksTyped
  <2> QED
    BY <2>1, <1>17 DEF ReconnectDone, TasksTyped
<1>18. ASSUME NEW r \in Reconnects, UndoClosed(r)
       PROVE  TypeOK'
  <2>1. writes' \in Seq(Write)
    BY <1>0, <1>18, WritesTyped DEF UndoClosed, Statuses
  <2>2. TasksTyped'
    BY <1>0, <1>18, <1>a DEF UndoClosed
  <2> QED
    BY <2>1, <2>2, <1>18 DEF UndoClosed, EngineStates, TasksTyped
<1>19. ASSUME NEW t \in Tasks, InitFails(t)
       PROVE  TypeOK'
  <2>1. TasksTyped'
    BY <1>0, <1>19, <1>a DEF InitFails
  <2>2. Put(writes, "FAILED") \in Seq(Write)
    BY WritesTyped DEF Statuses
  <2>3. /\ rs' \in ReconnectState
        /\ leaked' \in Nat /\ overlap' \in BOOLEAN
        /\ writes' \in Seq(Write) /\ err' \in BOOLEAN
    BY <2>2, <1>19, ScheduleTyped DEF InitFails
  <2>4. est' \in [Engines -> EngineStates]
    BY <1>19 DEF InitFails, EngineStates
  <2> QED
    BY <2>1, <2>3, <2>4, <1>19 DEF InitFails, TasksTyped
<1>20. ASSUME NEW e \in Engines,
              \/ EnginePairing(e) \/ EngineReady(e) \/ EngineRedials(e) \/ EngineFails(e)
       PROVE  TypeOK'
  <2>1. writes' \in Seq(Write)
    BY <1>20, WritesTyped DEF EnginePairing, EngineReady, EngineRedials, EngineFails, Statuses
  <2> QED
    BY <2>1, <1>20, ReconnectStateTyped
    DEF EnginePairing, EngineReady, EngineRedials, EngineFails, EngineReports, EngineStates
<1>21. ASSUME NEW e \in Engines, EngineDrops(e)
       PROVE  TypeOK'
  <2>1. Put(writes, "DISCONNECTED") \in Seq(Write)
    BY WritesTyped DEF Statuses
  <2> QED
    BY <2>1, <1>21, ScheduleTyped DEF EngineDrops, EngineReports, EngineStates
<1>22. ASSUME NEW i \in 1..Len(writes), ApplyWrite(i)
       PROVE  TypeOK'
  <2>1. RemoveWrite(i) \in Seq(Write) /\ writes[i] \in Write
    BY RemoveTyped
  <2>2. writes' \in Seq(Write)
    BY <2>1, <1>22, WritesTyped DEF ApplyWrite, Statuses
  <2>3. writes[i].by \in Tasks \cup {None} /\ writes[i].st \in Statuses
    BY <2>1 DEF Write
  <2>4. TasksTyped'
    BY <2>3, <1>0, <1>22 DEF ApplyWrite, Task, TasksTyped
  <2>5. est' \in [Engines -> EngineStates] /\ row' \in Statuses \cup {"gone"}
    BY <2>3, <1>22 DEF ApplyWrite, EngineStates
  <2> QED
    BY <2>2, <2>4, <2>5, <1>22 DEF ApplyWrite, TasksTyped
<1>23. ASSUME Shutdown \/ ShutdownClosed \/ ShutdownCloseFails \/ BootDone
       PROVE  TypeOK'
  <2>1. writes' \in Seq(Write)
    BY <1>23, WritesTyped DEF Shutdown, ShutdownClosed, ShutdownCloseFails, BootDone, Statuses
  <2> QED
    BY <2>1, <1>23, ReconnectStateTyped
    DEF Shutdown, ShutdownClosed, ShutdownCloseFails, BootDone, EngineStates
<1>24. ASSUME ProcessEnds
       PROVE  TypeOK'
  <2>1. writes' \in Seq(Write) /\ crashes' \in 0..MaxCrashes
    BY <1>24, ConstantsAssumption DEF ProcessEnds
  <2>2. TasksTyped'
    BY <1>0, <1>24 DEF ProcessEnds, TasksTyped
  <2> QED
    BY <2>1, <2>2, <1>24, ReconnectStateTyped DEF ProcessEnds, EngineStates, TasksTyped
<1>25. ASSUME NEW c \in Calls, Boot(c)
       PROVE  TypeOK'
  BY <1>0, <1>1, <1>25 DEF Boot, TasksTyped, Statuses
<1>26. CASE UNCHANGED vars
  BY <1>26 DEF vars
<1> QED
  BY <1>2, <1>3, <1>5, <1>6, <1>7, <1>8, <1>9, <1>10, <1>12, <1>13, <1>14, <1>15, <1>16, <1>17,
     <1>18, <1>19, <1>20, <1>21, <1>22, <1>23, <1>24, <1>25, <1>26, <1>27
  DEF Next, ApiStep, ReconnectStep, EngineStep, ProcessStep

LEMMA InitTyped == Init => TypeOK
<1> SUFFICES ASSUME Init PROVE TypeOK
  OBVIOUS
<1>1. crashes \in 0..MaxCrashes /\ rs \in ReconnectState
  BY ConstantsAssumption, ReconnectStateTyped DEF Init
<1>2. task \in [Tasks -> Task] /\ \A t \in Tasks : task[t].pc = "none"
  BY DEF Init, Idle, Task
<1>3. est \in [Engines -> EngineStates] /\ writes \in Seq(Write)
  BY DEF Init, EngineStates
<1> QED
  BY <1>1, <1>2, <1>3 DEF Init, TypeOK, Statuses

(* The service never leaves its states: in particular no reconnect state    *)
(* ever counts more attempts than maxReconnectAttempts.                     *)
THEOREM TypeCorrect == Spec => []TypeOK
  BY InitTyped, TypeStep, PTL DEF Spec

-----------------------------------------------------------------------------
(* A calm step starts nothing and marks nothing: it may end tasks, move     *)
(* them on, begin a reconnect, schedule one if there is a reconnect state.  *)
Calm ==
  /\ \A t \in Tasks : /\ task'[t].clean => task[t].clean
                      /\ task'[t].op = "start" => task[t].op = "start"
  /\ UNCHANGED <<stopping, wanted>>
  /\ rs'.on => rs.on
  /\ rs'.armed => rs.armed \/ rs.on
  /\ leaked' <= leaked \/ rs.on

LEMMA CalmStep ==
  ASSUME Inv, TypeOK', Calm
  PROVE  StopHolds' /\ CleanTeardown' /\ TimersGuarded'
<1>1. StopHolds'
  BY DEF Inv, Calm, StopHolds, Running
<1>2. CleanTeardown'
  BY DEF Inv, Calm, CleanTeardown
<1>3. TimersGuarded'
  BY DEF Inv, Calm, StopHolds, TimersGuarded, TypeOK
<1> QED
  BY <1>1, <1>2, <1>3

LEMMA ScheduleCalm ==
  ASSUME TypeOK, NEW ws, NEW er, ScheduleReconnect(ws, er)
  PROVE  /\ rs'.on => rs.on
         /\ rs'.armed => rs.armed \/ rs.on
         /\ leaked' <= leaked \/ rs.on
  BY DEF ScheduleReconnect, TypeOK

LEMMA InvStep ==
  ASSUME Inv, [Next]_vars
  PROVE  Inv'
<1> USE DEF Inv
<1>0. /\ TypeOK /\ TypeOK'
      /\ Calls \subseteq Tasks /\ Reconnects \subseteq Tasks
      /\ \A t \in Tasks : task[t] \in Task
      /\ Idle.op = "idle" /\ Idle.clean = FALSE /\ NoState.on = FALSE /\ NoState.armed = FALSE
      /\ leaked \in Nat
  BY TypeStep DEF TypeOK, Tasks, Idle, NoState
<1>1. ASSUME Calm PROVE Inv'
  BY <1>0, <1>1, CalmStep
<1>a. ASSUME NEW t \in Tasks, Finish(t)
      PROVE  \A u \in Tasks : /\ task'[u].clean => task[u].clean
                              /\ task'[u].op = "start" => task[u].op = "start"
  BY <1>0, <1>a DEF Finish, TypeOK
<1>b. ASSUME NEW t \in Tasks, NEW p \in {"mark", "hook"}, Goto(t, p)
      PROVE  \A u \in Tasks : /\ task'[u].clean => task[u].clean
                              /\ task'[u].op = "start" => task[u].op = "start"
  BY <1>0, <1>b DEF Goto, TypeOK
<1>c. ASSUME NEW r \in Reconnects, NEW e, NEW ws, NEW closed,
             InitializeEngine(r, "reconnect", e, ws, closed)
      PROVE  \A u \in Tasks : /\ task'[u].clean => task[u].clean
                              /\ task'[u].op = "start" => task[u].op = "start"
  BY <1>0, <1>c DEF InitializeEngine, TypeOK
<1>d. ASSUME ConsumeTimer
      PROVE  /\ rs'.on => rs.on
             /\ rs'.armed => rs.armed \/ rs.on
             /\ leaked' <= leaked
  BY <1>0, <1>d DEF ConsumeTimer, TypeOK, ReconnectState
<1>2. ASSUME NEW c \in Calls, BeginStart(c), UNCHANGED <<rs, leaked>>
      PROVE  Inv'
  BY <1>0, <1>2 DEF BeginStart, TypeOK, StopHolds, CleanTeardown, TimersGuarded
<1>3. ASSUME NEW c \in Calls, NEW e \in Engines, StartHookDone(c, e)
      PROVE  Inv'
  <2>1. wanted' /\ \A t \in Tasks : ~task[t].clean
    BY <1>0, <1>3 DEF StartHookDone, StopHolds, Running, CleanTeardown
  <2>2. \A t \in Tasks : ~task'[t].clean
    BY <2>1, <1>0, <1>3 DEF StartHookDone, InitializeEngine, TypeOK
  <2> QED
    BY <2>1, <2>2, <1>0 DEF StopHolds, CleanTeardown, TimersGuarded
<1>4. ASSUME NEW c \in Calls, NEW op \in {"stop", "delete"}, NEW next, Teardown(c, op, next)
      PROVE  Inv'
  <2>1. /\ stopping' /\ ~rs'.on /\ ~rs'.armed /\ UNCHANGED wanted
        /\ \A t \in Tasks : task'[t].op = "start" => task[t].op = "start"
        /\ \A t \in Tasks : task'[t].clean => task[t].clean \/ ~Running("start")
    BY <1>0, <1>4 DEF Teardown, TypeOK
  <2>2. StopHolds'
    BY <2>1 DEF StopHolds, Running
  <2>3. CleanTeardown'
    BY <2>1 DEF CleanTeardown, Running
  <2> QED
    BY <2>1, <2>2, <2>3, <1>0 DEF TimersGuarded
<1>5. ASSUME NEW c \in Calls, DeleteRow(c)
      PROVE  Inv'
  <2>1. \A u \in Tasks : /\ task'[u].clean => task[u].clean
                         /\ task'[u].op = "start" => task[u].op = "start"
    BY <1>0, <1>5, <1>a DEF DeleteRow
  <2>2. UNCHANGED <<stopping, rs, leaked>> /\ (~wanted' => ~wanted \/ task[c].clean)
    BY <1>5 DEF DeleteRow
  <2> QED
    BY <2>1, <2>2, <1>0 DEF StopHolds, Running, CleanTeardown, TimersGuarded
<1>6. ASSUME NEW c \in Calls, \/ StopClosed(c) \/ StopCloseFails(c) \/ DeleteClosed(c)
                              \/ DeleteCloseFails(c) \/ StartDone(c)
      PROVE  Inv'
  <2>1. \A u \in Tasks : /\ task'[u].clean => task[u].clean
                         /\ task'[u].op = "start" => task[u].op = "start"
    BY <1>0, <1>6, <1>a, <1>b
    DEF StopClosed, StopCloseFails, DeleteClosed, DeleteCloseFails, StartDone
  <2> QED
    BY <2>1, <1>0, <1>1, <1>6
    DEF StopClosed, StopCloseFails, DeleteClosed, DeleteCloseFails, StartDone, Calm
<1>7. ASSUME TimerIgnored
      PROVE  Inv'
  BY <1>0, <1>1, <1>d, <1>7 DEF TimerIgnored, Calm
<1>8. ASSUME NEW r \in Reconnects, TimerFires(r)
      PROVE  Inv'
  <2>1. \A u \in Tasks : /\ task'[u].clean => task[u].clean
                         /\ task'[u].op = "start" => task[u].op = "start"
    BY <1>0, <1>8 DEF TimerFires, TypeOK
  <2> QED
    BY <2>1, <1>1, <1>d, <1>8 DEF TimerFires, Calm
<1>9. ASSUME NEW r \in Reconnects, NEW e \in Engines,
             TimerFiresBare(r, e) \/ OldEngineClosed(r, e)
      PROVE  Inv'
  <2>1. \A u \in Tasks : /\ task'[u].clean => task[u].clean
                         /\ task'[u].op = "start" => task[u].op = "start"
    BY <1>c, <1>9 DEF TimerFiresBare, OldEngineClosed
  <2> QED
    BY <2>1, <1>0, <1>1, <1>d, <1>9 DEF TimerFiresBare, OldEngineClosed, Calm
<1>10. ASSUME NEW r \in Reconnects, ReconnectCloseFails(r)
       PROVE  Inv'
  <2>1. \A u \in Tasks : /\ task'[u].clean => task[u].clean
                         /\ task'[u].op = "start" => task[u].op = "start"
    BY <1>0, <1>10, <1>a DEF ReconnectCloseFails
  <2> QED
    BY <2>1, <1>0, <1>1, <1>10, ScheduleCalm DEF ReconnectCloseFails, Calm
<1>11. ASSUME NEW r \in Reconnects, ReconnectDone(r) \/ UndoClosed(r)
       PROVE  Inv'
  <2>1. \A u \in Tasks : /\ task'[u].clean => task[u].clean
                         /\ task'[u].op = "start" => task[u].op = "start"
    BY <1>0, <1>11, <1>a DEF ReconnectDone, UndoClosed, TypeOK, Task
  <2> QED
    BY <2>1, <1>0, <1>1, <1>11 DEF ReconnectDone, UndoClosed, Calm
<1>12. ASSUME NEW t \in Tasks, InitFails(t)
       PROVE  Inv'
  <2>1. \A u \in Tasks : /\ task'[u].clean => task[u].clean
                         /\ task'[u].op = "start" => task[u].op = "start"
    BY <1>0, <1>12, <1>a DEF InitFails
  <2>2. (rs'.on => rs.on) /\ (rs'.armed => rs.armed \/ rs.on) /\ (leaked' <= leaked \/ rs.on)
    <3>1. CASE task[t].op = "reconnect"
      BY <3>1, <1>0, <1>12, ScheduleCalm DEF InitFails
    <3>2. CASE task[t].op # "reconnect"
      BY <3>2, <1>0, <1>12 DEF InitFails
    <3> QED
      BY <3>1, <3>2
  <2> QED
    BY <2>1, <2>2, <1>1, <1>12 DEF InitFails, Calm
<1>13. ASSUME NEW e \in Engines,
              \/ EnginePairing(e) \/ EngineReady(e) \/ EngineRedials(e) \/ EngineFails(e)
       PROVE  Inv'
  <2>1. (rs'.on => rs.on) /\ (rs'.armed => rs.armed) /\ UNCHANGED leaked
    BY <1>0, <1>13 DEF EnginePairing, EngineReady, EngineRedials, EngineFails, TypeOK, ReconnectState
  <2>2. UNCHANGED <<task, stopping, wanted>>
    BY <1>13 DEF EnginePairing, EngineReady, EngineRedials, EngineFails, EngineReports
  <2> QED
    BY <2>1, <2>2, <1>0, <1>1 DEF Calm
<1>14. ASSUME NEW e \in Engines, EngineDrops(e)
       PROVE  Inv'
  BY <1>0, <1>1, <1>14, ScheduleCalm DEF EngineDrops, EngineReports, Calm
<1>15. ASSUME NEW i \in 1..Len(writes), ApplyWrite(i)
       PROVE  Inv'
  <2>1. writes[i].by \in Tasks \cup {None} /\ None \notin Tasks
    BY <1>0, RemoveTyped, ConstantsAssumption DEF TypeOK, Write
  <2>2. \A u \in Tasks : /\ task'[u].clean => task[u].clean
                         /\ task'[u].op = "start" => task[u].op = "start"
    BY <2>1, <1>0, <1>15, SMTT(30) DEF ApplyWrite, TypeOK
  <2>3. /\ UNCHANGED <<stopping, rs, leaked>>
        /\ ~wanted' => ~wanted \/ \E t \in Tasks : task[t].clean
    BY <2>1, <1>15 DEF ApplyWrite
  <2> QED
    BY <2>2, <2>3, <1>0 DEF StopHolds, Running, CleanTeardown, TimersGuarded
<1>16. ASSUME ShutdownClosed \/ ShutdownCloseFails \/ BootDone \/ Shutdown
       PROVE  Inv'
  BY <1>0, <1>1, <1>16 DEF ShutdownClosed, ShutdownCloseFails, BootDone, Shutdown, Calm
<1>17. ASSUME ProcessEnds
       PROVE  Inv'
  <2>1. \A t \in Tasks : task'[t].op = "idle" /\ ~task'[t].clean
    BY <1>0, <1>17 DEF ProcessEnds
  <2> QED
    BY <2>1, <1>0, <1>17 DEF ProcessEnds, StopHolds, Running, CleanTeardown, TimersGuarded
<1>18. ASSUME NEW c \in Calls, Boot(c)
       PROVE  Inv'
  BY <1>0, <1>1, <1>2, <1>18 DEF Boot, Calm
<1>19. CASE UNCHANGED vars
  BY <1>0, <1>1, <1>19 DEF vars, Calm
<1>20. ASSUME NEW c \in Calls, StartCall(c) \/ StopCall(c) \/ DeleteCall(c)
       PROVE  Inv'
  BY <1>2, <1>4, <1>20 DEF StartCall, StopCall, DeleteCall
<1> QED
  BY <1>3, <1>5, <1>6, <1>7, <1>8, <1>9, <1>10, <1>11, <1>12, <1>13, <1>14, <1>15, <1>16, <1>17,
     <1>18, <1>19, <1>20
  DEF Next, ApiStep, ReconnectStep, EngineStep, ProcessStep

LEMMA InitInv == Init => Inv
<1>1. Init => TypeOK
  BY InitTyped
<1> QED
  BY <1>1 DEF Init, Inv, StopHolds, CleanTeardown, TimersGuarded, Running, Idle, NoState

LEMMA InvHolds == Spec => []Inv
  BY InitInv, InvStep, PTL DEF Spec

(* A completed stop or delete holds: until the next start the service keeps *)
(* no reconnect state, whatever a lingering engine or a late answer does.   *)
THEOREM StopHoldsAlways == Spec => []StopHolds
  BY InvHolds, PTL DEF Inv

(* ... and executeReconnect never begins: every timer, also one that can no *)
(* longer be cancelled, meets the teardown mark.                            *)
THEOREM NeverReconnectsAfterStop == Spec => NoReconnectAfterStop
<1> DEFINE Quiet == \A r \in Reconnects : task[r].op = "idle" => task'[r].op = "idle"
<1>1. ASSUME Inv, [Next]_vars
      PROVE  \/ Quiet
             \/ wanted
  <2> USE <1>1 DEF Inv
  <2>0. /\ Calls \subseteq Tasks /\ Reconnects \subseteq Tasks /\ Calls \cap Reconnects = {}
        /\ None \notin Reconnects /\ task \in [Tasks -> Task] /\ Idle.op = "idle"
    BY ConstantsAssumption DEF TypeOK, Tasks, Idle
  <2>a. ASSUME NEW t \in Tasks, Finish(t)
        PROVE  Quiet
    BY <2>0, <2>a DEF Finish
  <2>b. ASSUME NEW t \in Tasks, NEW p \in {"mark", "hook"}, Goto(t, p)
        PROVE  Quiet
    BY <2>0, <2>b DEF Goto
  <2>1. ASSUME NEW r \in Reconnects,
               TimerFires(r) \/ \E e \in Engines : TimerFiresBare(r, e)
        PROVE  wanted
    <3>1. ~stopping /\ (rs.armed \/ leaked > 0)
      BY <2>1 DEF TimerFires, TimerFiresBare, ConsumeTimer
    <3> QED
      BY <3>1 DEF StopHolds, TimersGuarded, TypeOK
  <2>2. ASSUME NEW c \in Calls,
               \/ StartCall(c) \/ StopCall(c) \/ DeleteCall(c) \/ Boot(c)
               \/ \E e \in Engines : StartHookDone(c, e)
        PROVE  Quiet
    <3>1. CASE BeginStart(c)
      BY <3>1, <2>0 DEF BeginStart
    <3>2. CASE \E op \in {"stop", "delete"}, next \in {"mark", "hook"} : Teardown(c, op, next)
      BY <3>2, <2>0 DEF Teardown
    <3>3. CASE \E e \in Engines : StartHookDone(c, e)
      BY <3>3, <2>0 DEF StartHookDone, InitializeEngine
    <3>4. CASE UNCHANGED task
      BY <3>4
    <3> QED
      BY <3>1, <3>2, <3>3, <3>4, <2>2 DEF StartCall, StopCall, DeleteCall, Boot
  <2>3. ASSUME NEW c \in Calls,
               \/ StopClosed(c) \/ StopCloseFails(c) \/ StartDone(c) \/ DeleteClosed(c)
               \/ DeleteCloseFails(c) \/ DeleteRow(c)
        PROVE  Quiet
    BY <2>0, <2>3, <2>a, <2>b
    DEF StopClosed, StopCloseFails, StartDone, DeleteClosed, DeleteCloseFails, DeleteRow
  <2>4. ASSUME NEW r \in Reconnects,
               \/ ReconnectCloseFails(r) \/ ReconnectDone(r) \/ UndoClosed(r)
               \/ \E e \in Engines : OldEngineClosed(r, e)
        PROVE  Quiet
    BY <2>0, <2>4, <2>a DEF ReconnectCloseFails, ReconnectDone, UndoClosed, OldEngineClosed,
                            InitializeEngine
  <2>5. ASSUME \/ TimerIgnored \/ EngineStep \/ Shutdown \/ ShutdownClosed \/ ShutdownCloseFails
               \/ BootDone \/ UNCHANGED vars
        PROVE  Quiet
    BY <2>0, <2>5, <2>a DEF TimerIgnored, EngineStep, InitFails, EnginePairing, EngineReady,
         EngineRedials, EngineDrops, EngineFails, EngineReports, Shutdown, ShutdownClosed,
         ShutdownCloseFails, BootDone, vars
  <2>6. ASSUME ProcessEnds
        PROVE  Quiet
    BY <2>0, <2>6 DEF ProcessEnds
  <2>7. ASSUME NEW i \in 1..Len(writes), ApplyWrite(i)
        PROVE  Quiet
    <3>1. writes[i].by \in Tasks \cup {None}
      BY RemoveTyped DEF TypeOK, Write
    <3> QED
      BY <3>1, <2>0, <2>7, ConstantsAssumption DEF ApplyWrite
  <2> QED
    BY <2>1, <2>2, <2>3, <2>4, <2>5, <2>6, <2>7
    DEF Next, ApiStep, ReconnectStep, ProcessStep
<1>2. ASSUME Inv, [Next]_vars
      PROVE  [\A r \in Reconnects : task[r].op = "idle" /\ task'[r].op # "idle" => wanted]_vars
  BY <1>1, <1>2
<1> QED
  BY <1>2, InvHolds, PTL DEF Spec, NoReconnectAfterStop

-----------------------------------------------------------------------------
(* The engines and the row.                                                *)

(* The awaits at which each call can be, and who makes which call.          *)
TaskShape ==
  \A t \in Tasks :
     /\ task[t].op = "idle" => task[t].pc = "none"
     /\ task[t].op = "start" => t \in Calls /\ task[t].pc \in {"hook", "mark", "init"}
     /\ task[t].op = "stop" => t \in Calls /\ task[t].pc \in {"close", "mark"}
     /\ task[t].op = "delete" => t \in Calls /\ task[t].pc \in {"close", "hook"}
     /\ task[t].op = "reconnect" =>
           t \in Reconnects /\ task[t].pc \in {"close", "mark", "init", "undo"}

(* An awaited write belongs to a task that waits for it, and a task waits   *)
(* for one write at a time.                                                 *)
Awaited(ws) == {t \in Tasks : \E i \in 1..Len(ws) : ws[i].by = t}
Once(ws) ==
  \A i, j \in 1..Len(ws) : ws[i].by # None /\ ws[i].by = ws[j].by => i = j
Awaiting == Once(writes) /\ \A t \in Awaited(writes) : task[t].pc = "mark"

FlowInv == Inv /\ TaskShape /\ Awaiting

(* Every close of an engine also drops the engine map's entry.              *)
MapOpen == engine # None => est[engine] # "closed"

(* The engine map holds an engine nobody looks after any more.              *)
Abandoned ==
  /\ engine # None
  /\ est[engine] # "failed" /\ engine \notin stuck
  /\ \A r \in Reconnects : task[r].op = "reconnect" => task[r].eng # engine

(* A stop that will be clean has dropped its engine, or has returned.       *)
Ending == ~wanted \/ \E t \in Tasks : task[t].clean /\ task[t].pc # "close"

(* From then on no engine that is registered goes without a reconnect that  *)
(* will take it down again.                                                 *)
Settled == Ending => ~Abandoned

(* Without the teardown mark, a session not wanted is one whose process     *)
(* has just started: nothing is in flight.                                  *)
Fresh == ~wanted /\ ~stopping => \A r \in Reconnects : task[r].op = "idle"

StopInv == FlowInv /\ MapOpen /\ Settled /\ Fresh

-----------------------------------------------------------------------------
(* With the process down nothing of the session is left in memory.          *)
Quiescent ==
  proc = "down" =>
     /\ engine = None /\ rs = NoState /\ leaked = 0 /\ writes = <<>>
     /\ \A t \in Tasks : task[t].op = "idle"
     /\ \A e \in Engines : est[e] = "closed"

(* What the row will say once the writes on their way have been applied.    *)
LastStatus == IF writes = <<>> THEN row ELSE writes[Len(writes)].st

ReadyBacked ==
  proc # "down" /\ LastStatus = "READY" => \E e \in Engines : est[e] = "ready"
FailedBacked == crashes = 0 /\ LastStatus = "FAILED" => err

RowInv == FlowInv /\ Quiescent /\ ReadyBacked /\ FailedBacked

(* While no teardown marks the session, it has a reconnect state as soon as *)
(* it has an engine, a timer or a reconnect - or a start that will make one.*)
Hooked == \E t \in Tasks : task[t].op = "start" /\ task[t].pc = "hook"
StateKept ==
  /\ rs.armed => rs.on
  /\ proc # "closing" /\ ~stopping /\ ~rs.on =>
        \/ Hooked
        \/ /\ engine = None /\ leaked = 0
           /\ \A r \in Reconnects : task[r].op = "idle"

(* A lost connection is in somebody's hands.                                *)
DropHandled ==
  proc # "closing" /\ ~stopping /\ engine # None /\ LastStatus = "DISCONNECTED" =>
     \/ est[engine] # "down" \/ rs.armed \/ leaked > 0
     \/ \E r \in Reconnects : /\ task[r].op = "reconnect" /\ task[r].pc = "close"
                              /\ task[r].eng = engine
     \/ Hooked

DownInv == FlowInv /\ Quiescent /\ StateKept /\ DropHandled

-----------------------------------------------------------------------------
(* The parts of OneEngineUnlessOverlap's invariant.                         *)
IsLive(e) == est[e] \in Live

Alone == \A t, u \in Tasks : task[t].op # "idle" /\ task[u].op # "idle" => t = u

(* While a task prepares an engine, no other is connected.                  *)
Preparing ==
  \A t \in Tasks : task[t].op \in {"start", "reconnect"} =>
     /\ task[t].pc # "init" => \A e \in Engines : ~IsLive(e)
     /\ task[t].pc = "init" => \A e \in Engines : IsLive(e) => e = task[t].eng

(* A timer is pending only once the connection is lost, and only while      *)
(* nothing else prepares an engine.                                         *)
TimerAlone ==
  /\ leaked = 0
  /\ rs.armed => /\ rs.on
                 /\ \A e \in Engines : ~IsLive(e)
                 /\ \A t \in Tasks : task[t].op \in {"start", "reconnect"} => task[t].pc = "init"

Unstopped ==
  \A t \in Tasks : /\ task[t].op = "reconnect" => ~stopping /\ task[t].pc # "undo"
                   /\ task[t].op \in {"stop", "delete"} => ~rs.on

(* Until the shutdown, the connected engine is the registered one.          *)
Registered ==
  proc # "closing" =>
     /\ \A e \in Engines : IsLive(e) => e = engine
     /\ \A t \in Tasks : task[t].pc = "close" => task[t].eng = engine
     /\ \A t \in Tasks : task[t].op \in {"start", "reconnect"} /\ task[t].pc # "hook"
                            => task[t].eng = engine
     /\ engine = None => ~rs.on

AtMostOne == \A e, f \in Engines : IsLive(e) /\ IsLive(f) => e = f

Orderly == Alone /\ Preparing /\ TimerAlone /\ Unstopped /\ Registered /\ AtMostOne

OneInv == FlowInv /\ Quiescent /\ (~overlap => Orderly)

-----------------------------------------------------------------------------
(* What the edits of the list of writes do: who is awaited, and what the    *)
(* last write says.                                                         *)
LEMMA PutKeeps ==
  ASSUME NEW ws \in Seq(Write), NEW s \in Statuses
  PROVE  /\ Put(ws, s) \in Seq(Write) /\ Put(ws, s) # <<>>
         /\ Put(ws, s)[Len(Put(ws, s))].st = s
         /\ Awaited(Put(ws, s)) \subseteq Awaited(ws)
         /\ Once(ws) => Once(Put(ws, s))
<1> DEFINE w == [st |-> s, by |-> None]
           new == Append(ws, w)
<1>1. w \in Write /\ w.st = s /\ w.by = None
  BY DEF Write
<1>2. /\ new \in Seq(Write) /\ Len(new) = Len(ws) + 1 /\ Len(ws) \in Nat
      /\ new[Len(ws) + 1] = w /\ \A i \in 1..Len(ws) : new[i] = ws[i]
  BY <1>1
<1>3. CASE ws # <<>> /\ ws[Len(ws)] = w
  BY <1>3, <1>1 DEF Put
<1>4. CASE ~(ws # <<>> /\ ws[Len(ws)] = w)
  <2> HIDE DEF w, new
  <2>1. Put(ws, s) = new
    BY <1>4 DEF Put, w, new
  <2>2. Awaited(new) \subseteq Awaited(ws)
    BY <1>1, <1>2, ConstantsAssumption DEF Awaited
  <2>3. Once(ws) => Once(new)
    BY <1>1, <1>2 DEF Once
  <2>4. new # <<>>
    BY <1>2
  <2> QED
    BY <2>1, <2>2, <2>3, <2>4, <1>1, <1>2
<1> QED
  BY <1>3, <1>4

LEMMA PutAwaitedKeeps ==
  ASSUME NEW ws \in Seq(Write), NEW s \in Statuses, NEW t \in Tasks
  PROVE  /\ PutAwaited(ws, s, t) \in Seq(Write) /\ PutAwaited(ws, s, t) # <<>>
         /\ PutAwaited(ws, s, t)[Len(PutAwaited(ws, s, t))].st = s
         /\ Awaited(PutAwaited(ws, s, t)) \subseteq Awaited(ws) \cup {t}
         /\ Once(ws) /\ t \notin Awaited(ws) => Once(PutAwaited(ws, s, t))
<1> DEFINE w == [st |-> s, by |-> t]
           new == Append(ws, w)
<1>1. w \in Write /\ w.st = s /\ w.by = t
  BY DEF Write
<1>2. /\ new \in Seq(Write) /\ Len(new) = Len(ws) + 1 /\ Len(ws) \in Nat
      /\ new[Len(ws) + 1] = w /\ \A i \in 1..Len(ws) : new[i] = ws[i]
  BY <1>1
<1> HIDE DEF w, new
<1>3. PutAwaited(ws, s, t) = new
  BY DEF PutAwaited, w, new
<1>4. Awaited(new) \subseteq Awaited(ws) \cup {t}
  BY <1>1, <1>2 DEF Awaited
<1>5. Once(ws) /\ t \notin Awaited(ws) => Once(new)
  BY <1>1, <1>2 DEF Once, Awaited
<1>6. new # <<>>
  BY <1>2
<1> QED
  BY <1>1, <1>2, <1>3, <1>4, <1>5, <1>6

LEMMA PutClosedKeeps ==
  ASSUME NEW ws \in Seq(Write), NEW e
  PROVE  /\ PutClosed(ws, e) \in Seq(Write)
         /\ Awaited(PutClosed(ws, e)) \subseteq Awaited(ws)
         /\ Once(ws) => Once(PutClosed(ws, e))
         /\ \/ PutClosed(ws, e) = ws /\ est[e] \in {"created", "closed"}
            \/ /\ PutClosed(ws, e) # <<>>
               /\ PutClosed(ws, e)[Len(PutClosed(ws, e))].st = "DISCONNECTED"
  BY PutKeeps DEF PutClosed, Statuses

LEMMA RemoveKeeps ==
  ASSUME writes \in Seq(Write), NEW i \in 1..Len(writes), Once(writes)
  PROVE  /\ RemoveWrite(i) \in Seq(Write) /\ Once(RemoveWrite(i))
         /\ Awaited(RemoveWrite(i)) \subseteq Awaited(writes) \ {writes[i].by}
         /\ RemoveWrite(i) = <<>> => Len(writes) = 1
         /\ RemoveWrite(i) # <<>> /\ i = 1 =>
               RemoveWrite(i)[Len(RemoveWrite(i))] = writes[Len(writes)]
<1> DEFINE n == Len(writes)
           new == RemoveWrite(i)
           at(j) == IF j < i THEN j ELSE j + 1
<1>1. /\ n \in Nat /\ i \in 1..n
      /\ new \in Seq(Write) /\ Len(new) = n - 1
      /\ \A j \in 1..(n - 1) : new[j] = writes[at(j)]
  <2> DEFINE front == SubSeq(writes, 1, i - 1)
             back  == SubSeq(writes, i + 1, n)
  <2>1. n \in Nat /\ i \in 1..n
    OBVIOUS
  <2>2. /\ front \in Seq(Write) /\ Len(front) = i - 1
        /\ \A j \in 1..(i - 1) : front[j] = writes[j]
    BY <2>1
  <2>3. /\ back \in Seq(Write) /\ Len(back) = n - i
        /\ \A j \in 1..(n - i) : back[j] = writes[j + i]
    BY <2>1
  <2> HIDE DEF front, back, n
  <2>4. new = front \o back
    BY DEF RemoveWrite, front, back, n
  <2>5. new \in Seq(Write) /\ Len(new) = n - 1
    BY <2>1, <2>2, <2>3, <2>4
  <2>6. ASSUME NEW j \in 1..(n - 1)
        PROVE  new[j] = writes[at(j)]
    <3> HIDE DEF new
    <3>1. CASE j < i
      BY <3>1, <2>1, <2>2, <2>3, <2>4
    <3>2. CASE ~(j < i)
      <4>1. j - (i - 1) \in 1..(n - i) /\ j > Len(front)
        BY <3>2, <2>1, <2>2
      <4>2. new[j] = back[j - (i - 1)]
        BY <4>1, <2>1, <2>2, <2>3, <2>4
      <4>3. back[j - (i - 1)] = writes[j - (i - 1) + i]
        BY <4>1, <2>3
      <4>4. j - (i - 1) + i = j + 1
        BY <2>1
      <4> QED
        BY <4>2, <4>3, <4>4, <3>2
    <3> QED
      BY <3>1, <3>2
  <2> QED
    BY <2>1, <2>5, <2>6
<1>2. /\ \A j \in 1..(n - 1) : at(j) \in 1..n /\ at(j) # i
      /\ \A j, k \in 1..(n - 1) : at(j) = at(k) => j = k
  BY <1>1
<1> HIDE DEF at, new, n
<1>4. Once(new)
  <2> SUFFICES ASSUME NEW j \in 1..(n - 1), NEW k \in 1..(n - 1),
                      new[j].by # None, new[j].by = new[k].by
               PROVE  j = k
    BY <1>1 DEF Once
  <2>1. at(j) = at(k)
    BY <1>1, <1>2 DEF Once, n
  <2> QED
    BY <2>1, <1>2
<1>5. Awaited(new) \subseteq Awaited(writes) \ {writes[i].by}
  <2> SUFFICES ASSUME NEW t \in Tasks, NEW j \in 1..(n - 1), new[j].by = t
               PROVE  t \in Awaited(writes) /\ t # writes[i].by
    BY <1>1 DEF Awaited
  <2>1. writes[at(j)].by = t /\ at(j) \in 1..n /\ at(j) # i
    BY <1>1, <1>2
  <2>2. t # None
    BY ConstantsAssumption
  <2> QED
    BY <2>1, <2>2, <1>1 DEF Awaited, Once, n
<1>6. new = <<>> => n = 1
  BY <1>1
<1>7. ASSUME new # <<>>, i = 1
      PROVE  new[Len(new)] = writes[n]
  <2>1. n - 1 \in 1..(n - 1) /\ Len(new) = n - 1
    BY <1>1, <1>7
  <2>2. at(n - 1) = n
    BY <2>1, <1>1, <1>7 DEF at
  <2> QED
    BY <2>1, <2>2, <1>1
<1> QED
  BY <1>1, <1>4, <1>5, <1>6, <1>7 DEF new, n

-----------------------------------------------------------------------------
(* Every call stays at its own awaits, and awaited writes at their tasks.   *)
Waits == \A t \in Tasks : task[t].pc = "mark" => task'[t].pc = "mark"

LEMMA SetupFlows ==
  ASSUME FlowInv, NEW t \in Tasks, NEW op \in {"start", "reconnect"}, NEW e \in Engines,
         NEW ws \in Seq(Write), NEW closed, InitializeEngine(t, op, e, ws, closed),
         Once(ws), Awaited(ws) \subseteq Awaited(writes), task[t].pc # "mark",
         op = "start" => t \in Calls, op = "reconnect" => t \in Reconnects
  PROVE  TaskShape' /\ Awaiting'
<1> DEFINE new == [op |-> op, pc |-> "mark", eng |-> e, clean |-> FALSE]
<1>1. /\ task \in [Tasks -> Task] /\ task' = [task EXCEPT ![t] = new]
      /\ writes' = PutAwaited(ws, "INITIALIZING", t)
  BY DEF InitializeEngine, FlowInv, Inv, TypeOK
<1>2. /\ \A u \in Tasks : task'[u] = IF u = t THEN new ELSE task[u]
      /\ new.op = op /\ new.pc = "mark"
  BY <1>1
<1> HIDE DEF new
<1>3. TaskShape'
  BY <1>2 DEF FlowInv, TaskShape
<1>4. t \notin Awaited(ws) /\ "INITIALIZING" \in Statuses
  BY DEF FlowInv, Awaiting, Statuses
<1>5. Once(writes') /\ Awaited(writes') \subseteq Awaited(writes) \cup {t}
  BY <1>1, <1>4, PutAwaitedKeeps
<1>6. Awaiting'
  BY <1>2, <1>5 DEF FlowInv, Awaiting, Awaited
<1> QED
  BY <1>3, <1>6

LEMMA ScheduleFlows ==
  ASSUME NEW ws \in Seq(Write), NEW er, ScheduleReconnect(ws, er), Once(ws)
  PROVE  /\ Once(writes') /\ Awaited(writes') \subseteq Awaited(ws)
         /\ writes' = ws \/ (writes' = Put(ws, "FAILED") /\ err')
  BY PutKeeps DEF ScheduleReconnect, Statuses

LEMMA FlowStep ==
  ASSUME FlowInv, [Next]_vars
  PROVE  FlowInv'
<1> USE DEF FlowInv
<1>0. /\ Inv' /\ TypeOK /\ TypeOK'
      /\ Calls \subseteq Tasks /\ Reconnects \subseteq Tasks /\ Calls \cap Reconnects = {}
      /\ None \notin Tasks
      /\ task \in [Tasks -> Task] /\ writes \in Seq(Write) /\ Once(writes)
      /\ Idle.op = "idle" /\ Idle.pc = "none"
      /\ {"CREATED", "INITIALIZING", "PAIRING", "READY", "DISCONNECTED", "FAILED"} = Statuses
  BY InvStep, ConstantsAssumption DEF Inv, TypeOK, Tasks, Idle, Statuses, Awaiting
<1>w. ASSUME Waits, Once(writes'), Awaited(writes') \subseteq Awaited(writes)
      PROVE  Awaiting'
  BY <1>w DEF Awaiting, Waits, Awaited
<1>k. ASSUME UNCHANGED task, Once(writes'), Awaited(writes') \subseteq Awaited(writes)
      PROVE  FlowInv'
  BY <1>0, <1>k, <1>w DEF TaskShape, Waits
<1>f. ASSUME NEW t \in Tasks, Finish(t), task[t].pc # "mark"
      PROVE  TaskShape' /\ Waits
  <2>1. \A u \in Tasks : task'[u] = IF u = t THEN Idle ELSE task[u]
    BY <1>0, <1>f DEF Finish
  <2> QED
    BY <2>1, <1>0, <1>f DEF TaskShape, Waits
<1>1. ASSUME NEW c \in Calls, BeginStart(c), UNCHANGED writes
      PROVE  FlowInv'
  <2>1. \A t \in Tasks : /\ t = c => task'[t].op = "start" /\ task'[t].pc = "hook"
                         /\ t # c => task'[t].op = task[t].op /\ task'[t].pc = task[t].pc
    <3>1. \A t \in Tasks : t # c => task'[t] = [task[t] EXCEPT !.clean = FALSE]
      BY <1>1 DEF BeginStart
    <3>2. task'[c].op = "start" /\ task'[c].pc = "hook"
      BY <1>0, <1>1 DEF BeginStart, Idle
    <3> QED
      BY <3>1, <3>2, <1>0 DEF TypeOK, Task
  <2>2. TaskShape' /\ Waits
    BY <2>1, <1>0, <1>1 DEF TaskShape, Waits, BeginStart
  <2> QED
    BY <2>2, <1>0, <1>1, <1>w
<1>2. ASSUME NEW c \in Calls, NEW e \in Engines, StartHookDone(c, e)
      PROVE  FlowInv'
  <2>1. InitializeEngine(c, "start", e, writes, {}) /\ task[c].pc = "hook"
    BY <1>2 DEF StartHookDone
  <2> QED
    BY <2>1, <1>0, SetupFlows
<1>3. ASSUME NEW c \in Calls, StopCall(c)
      PROVE  FlowInv'
  <2> DEFINE new == [op |-> "stop", pc |-> IF engine = None THEN "mark" ELSE "close",
                     eng |-> engine, clean |-> ~Running("start")]
  <2>1. /\ task' = [task EXCEPT ![c] = new] /\ task[c] = Idle
        /\ writes' = IF engine = None THEN PutAwaited(writes, "DISCONNECTED", c) ELSE writes
    BY <1>3 DEF StopCall, Teardown
  <2>2. /\ \A u \in Tasks : task'[u] = IF u = c THEN new ELSE task[u]
        /\ new.op = "stop" /\ new.pc = IF engine = None THEN "mark" ELSE "close"
    BY <2>1, <1>0
  <2> HIDE DEF new
  <2>3. TaskShape' /\ c \notin Awaited(writes)
    BY <2>1, <2>2, <1>0 DEF TaskShape, Awaiting
  <2>4. /\ Once(writes')
        /\ Awaited(writes') \subseteq Awaited(writes) \cup (IF engine = None THEN {c} ELSE {})
    BY <2>1, <2>3, <1>0, PutAwaitedKeeps
  <2>5. Awaiting'
    BY <2>2, <2>3, <2>4, <1>0 DEF Awaiting, Awaited
  <2> QED
    BY <2>3, <2>5, <1>0
<1>4. ASSUME NEW c \in Calls, DeleteCall(c)
      PROVE  FlowInv'
  <2> DEFINE new == [op |-> "delete", pc |-> IF engine = None THEN "hook" ELSE "close",
                     eng |-> engine, clean |-> ~Running("start")]
  <2>1. task' = [task EXCEPT ![c] = new] /\ task[c] = Idle /\ UNCHANGED writes
    BY <1>4 DEF DeleteCall, Teardown
  <2>2. /\ \A u \in Tasks : task'[u] = IF u = c THEN new ELSE task[u]
        /\ new.op = "delete" /\ new.pc = IF engine = None THEN "hook" ELSE "close"
    BY <2>1, <1>0
  <2> HIDE DEF new
  <2>3. TaskShape' /\ Waits
    BY <2>1, <2>2, <1>0 DEF TaskShape, Waits
  <2> QED
    BY <2>1, <2>3, <1>0, <1>w
<1>5. ASSUME NEW c \in Calls, StopClosed(c) \/ StopCloseFails(c)
      PROVE  FlowInv'
  <2> DEFINE new == [op |-> task[c].op, pc |-> "mark", eng |-> task[c].eng, clean |-> task[c].clean]
             ws  == PutClosed(writes, task[c].eng)
  <2>1. /\ task' = [task EXCEPT ![c] = new] /\ writes' = PutAwaited(ws, "DISCONNECTED", c)
        /\ task[c].op = "stop" /\ task[c].pc = "close"
    BY <1>5 DEF StopClosed, StopCloseFails, Goto
  <2>2. /\ \A u \in Tasks : task'[u] = IF u = c THEN new ELSE task[u]
        /\ new.op = "stop" /\ new.pc = "mark"
    BY <2>1, <1>0
  <2>3. ws \in Seq(Write) /\ Once(ws) /\ Awaited(ws) \subseteq Awaited(writes)
    BY <1>0, PutClosedKeeps
  <2> HIDE DEF new, ws
  <2>4. TaskShape' /\ c \notin Awaited(ws)
    BY <2>1, <2>2, <2>3, <1>0 DEF TaskShape, Awaiting
  <2>5. Once(writes') /\ Awaited(writes') \subseteq Awaited(writes) \cup {c}
    BY <2>1, <2>3, <2>4, <1>0, PutAwaitedKeeps
  <2>6. Awaiting'
    BY <2>2, <2>5, <1>0 DEF Awaiting, Awaited
  <2> QED
    BY <2>4, <2>6, <1>0
<1>6. ASSUME NEW c \in Calls, DeleteClosed(c)
      PROVE  FlowInv'
  <2> DEFINE new == [op |-> task[c].op, pc |-> "hook", eng |-> task[c].eng, clean |-> task[c].clean]
  <2>1. /\ task' = [task EXCEPT ![c] = new] /\ writes' = PutClosed(writes, task[c].eng)
        /\ task[c].op = "delete" /\ task[c].pc = "close"
    BY <1>6 DEF DeleteClosed, Goto
  <2>2. /\ \A u \in Tasks : task'[u] = IF u = c THEN new ELSE task[u]
        /\ new.op = "delete" /\ new.pc = "hook"
    BY <2>1, <1>0
  <2> HIDE DEF new
  <2>3. TaskShape' /\ Waits
    BY <2>1, <2>2, <1>0 DEF TaskShape, Waits
  <2>4. Once(writes') /\ Awaited(writes') \subseteq Awaited(writes)
    BY <2>1, <1>0, PutClosedKeeps
  <2> QED
    BY <2>3, <2>4, <1>0, <1>w
<1>7. ASSUME NEW c \in Calls, DeleteCloseFails(c) \/ DeleteRow(c) \/ StartDone(c)
      PROVE  FlowInv'
  <2>1. Finish(c) /\ task[c].pc # "mark" /\ UNCHANGED writes
    BY <1>7 DEF DeleteCloseFails, DeleteRow, StartDone
  <2> QED
    BY <2>1, <1>0, <1>f, <1>w
<1>8. ASSUME NEW r \in Reconnects, TimerFires(r)
      PROVE  FlowInv'
  <2> DEFINE new == [op |-> "reconnect", pc |-> "close", eng |-> engine, clean |-> FALSE]
  <2>1. task' = [task EXCEPT ![r] = new] /\ task[r] = Idle /\ UNCHANGED writes
    BY <1>8 DEF TimerFires
  <2>2. /\ \A u \in Tasks : task'[u] = IF u = r THEN new ELSE task[u]
        /\ new.op = "reconnect" /\ new.pc = "close"
    BY <2>1, <1>0
  <2> HIDE DEF new
  <2>3. TaskShape' /\ Waits
    BY <2>1, <2>2, <1>0 DEF TaskShape, Waits
  <2> QED
    BY <2>1, <2>3, <1>0, <1>w
<1>9. ASSUME NEW r \in Reconnects, NEW e \in Engines, TimerFiresBare(r, e)
      PROVE  FlowInv'
  <2>1. InitializeEngine(r, "reconnect", e, writes, {}) /\ task[r] = Idle
    BY <1>9 DEF TimerFiresBare
  <2> QED
    BY <2>1, <1>0, SetupFlows
<1>10. ASSUME NEW r \in Reconnects, NEW e \in Engines, OldEngineClosed(r, e)
       PROVE  FlowInv'
  <2> DEFINE ws == PutClosed(writes, task[r].eng)
  <2>1. InitializeEngine(r, "reconnect", e, ws, {task[r].eng}) /\ task[r].pc = "close"
    BY <1>10 DEF OldEngineClosed
  <2>2. ws \in Seq(Write) /\ Once(ws) /\ Awaited(ws) \subseteq Awaited(writes)
    BY <1>0, PutClosedKeeps
  <2> HIDE DEF ws
  <2> QED
    BY <2>1, <2>2, <1>0, SetupFlows
<1>11. ASSUME NEW r \in Reconnects, ReconnectCloseFails(r)
       PROVE  FlowInv'
  <2>1. Finish(r) /\ task[r].pc # "mark" /\ ScheduleReconnect(writes, err)
    BY <1>11 DEF ReconnectCloseFails
  <2>2. Once(writes') /\ Awaited(writes') \subseteq Awaited(writes)
    BY <2>1, <1>0, ScheduleFlows
  <2> QED
    BY <2>1, <2>2, <1>0, <1>f, <1>w
<1>12. ASSUME NEW r \in Reconnects, ReconnectDone(r)
       PROVE  FlowInv'
  <2> DEFINE new == IF stopping /\ engine # None
                    THEN [op |-> "reconnect", pc |-> "undo", eng |-> engine, clean |-> FALSE]
                    ELSE Idle
  <2>1. task' = [task EXCEPT ![r] = new] /\ task[r].pc = "init" /\ UNCHANGED writes
    BY <1>12 DEF ReconnectDone
  <2>2. /\ \A u \in Tasks : task'[u] = IF u = r THEN new ELSE task[u]
        /\ new = Idle \/ (new.op = "reconnect" /\ new.pc = "undo")
    BY <2>1, <1>0
  <2> HIDE DEF new
  <2>3. TaskShape' /\ Waits
    BY <2>1, <2>2, <1>0 DEF TaskShape, Waits
  <2> QED
    BY <2>1, <2>3, <1>0, <1>w
<1>13. ASSUME NEW r \in Reconnects, UndoClosed(r)
       PROVE  FlowInv'
  <2>1. Finish(r) /\ task[r].pc # "mark" /\ writes' = PutClosed(writes, task[r].eng)
    BY <1>13 DEF UndoClosed
  <2>2. Once(writes') /\ Awaited(writes') \subseteq Awaited(writes)
    BY <2>1, <1>0, PutClosedKeeps
  <2> QED
    BY <2>1, <2>2, <1>0, <1>f, <1>w
<1>14. ASSUME NEW t \in Tasks, InitFails(t)
       PROVE  FlowInv'
  <2> DEFINE ws == Put(writes, "FAILED")
  <2>1. /\ Finish(t) /\ task[t].pc # "mark"
        /\ ScheduleReconnect(ws, TRUE) \/ writes' = ws
    BY <1>14 DEF InitFails
  <2>2. ws \in Seq(Write) /\ Once(ws) /\ Awaited(ws) \subseteq Awaited(writes)
    BY <1>0, PutKeeps
  <2> HIDE DEF ws
  <2>3. Once(writes') /\ Awaited(writes') \subseteq Awaited(writes)
    BY <2>1, <2>2, ScheduleFlows
  <2> QED
    BY <2>1, <2>3, <1>0, <1>f, <1>w
<1>15. ASSUME NEW e \in Engines,
              \/ EnginePairing(e) \/ EngineReady(e) \/ EngineRedials(e) \/ EngineFails(e)
       PROVE  FlowInv'
  <2>1. UNCHANGED task /\ \E s \in Statuses : writes' = Put(writes, s)
    BY <1>0, <1>15 DEF EnginePairing, EngineReady, EngineRedials, EngineFails, EngineReports
  <2> QED
    BY <2>1, <1>0, <1>k, PutKeeps
<1>16. ASSUME NEW e \in Engines, EngineDrops(e)
       PROVE  FlowInv'
  <2> DEFINE ws == Put(writes, "DISCONNECTED")
  <2>1. UNCHANGED task /\ ScheduleReconnect(ws, err)
    BY <1>16 DEF EngineDrops, EngineReports
  <2>2. ws \in Seq(Write) /\ Once(ws) /\ Awaited(ws) \subseteq Awaited(writes)
    BY <1>0, PutKeeps
  <2> HIDE DEF ws
  <2>3. Once(writes') /\ Awaited(writes') \subseteq Awaited(writes)
    BY <2>1, <2>2, ScheduleFlows
  <2> QED
    BY <2>1, <2>3, <1>k
<1>17. ASSUME NEW i \in 1..Len(writes), ApplyWrite(i)
       PROVE  FlowInv'
  <2> DEFINE w    == writes[i]
             rest == RemoveWrite(i)
  <2>1. w \in Write /\ w.by \in Tasks \cup {None}
    BY <1>0, RemoveTyped DEF Write
  <2>2. /\ rest \in Seq(Write) /\ Once(rest)
        /\ Awaited(rest) \subseteq Awaited(writes) \ {w.by}
    BY <1>0, RemoveKeeps
  <2>3. CASE w.by = None
    <3>1. writes' = rest /\ UNCHANGED task
      BY <2>3, <1>17 DEF ApplyWrite
    <3> QED
      BY <3>1, <2>2, <1>k
  <2>4. CASE w.by \in Tasks
    <3> DEFINE t == w.by
    <3>1. t \in Awaited(writes) /\ task[t].pc = "mark" /\ t # None
      BY <2>4, <1>0 DEF Awaited, Awaiting
    <3>2. CASE task[t].op = "stop"
      <4>1. writes' = rest /\ task' = [task EXCEPT ![t] = Idle]
        BY <3>1, <3>2, <2>4, <1>17 DEF ApplyWrite
      <4>2. \A u \in Tasks : task'[u] = IF u = t THEN Idle ELSE task[u]
        BY <4>1, <2>4, <1>0
      <4> HIDE DEF w, rest
      <4>3. TaskShape' /\ Awaiting'
        BY <4>1, <4>2, <2>2, <1>0 DEF TaskShape, Awaiting, Awaited
      <4> QED
        BY <4>3, <1>0
    <3>3. CASE task[t].op # "stop"
      <4>1. /\ writes' = Put(rest, "INITIALIZING")
            /\ task' = [task EXCEPT ![t].pc = "init"]
        BY <3>1, <3>3, <2>4, <1>17 DEF ApplyWrite
      <4>2. /\ \A u \in Tasks : u # t => task'[u] = task[u]
            /\ task'[t].op = task[t].op /\ task'[t].pc = "init"
        BY <4>1, <2>4, <1>0
      <4>3. task[t].op \in {"start", "reconnect"}
        BY <3>1, <3>3, <2>4, <1>0 DEF TaskShape, Task
      <4> HIDE DEF w
      <4>4. Once(writes') /\ Awaited(writes') \subseteq Awaited(writes) \ {t}
        BY <4>1, <2>2, <1>0, PutKeeps
      <4>5. TaskShape'
        BY <4>2, <4>3, <2>4, <1>0 DEF TaskShape
      <4>6. Awaiting'
        BY <4>2, <4>4, <2>4, <1>0 DEF Awaiting, Awaited
      <4> QED
        BY <4>5, <4>6, <1>0
    <3> QED
      BY <3>2, <3>3
  <2> QED
    BY <2>1, <2>3, <2>4
<1>18. ASSUME ShutdownClosed
       PROVE  FlowInv'
  BY <1>0, <1>18, <1>k, PutClosedKeeps DEF ShutdownClosed
<1>19. ASSUME ProcessEnds
       PROVE  FlowInv'
  <2>1. (\A t \in Tasks : task'[t] = Idle) /\ writes' = <<>>
    BY <1>19 DEF ProcessEnds
  <2>2. Once(writes') /\ Awaited(writes') = {}
    BY <2>1 DEF Once, Awaited
  <2> QED
    BY <2>1, <2>2, <1>0 DEF TaskShape, Awaiting
<1>20. ASSUME TimerIgnored \/ Shutdown \/ ShutdownCloseFails \/ BootDone \/ UNCHANGED vars
       PROVE  FlowInv'
  BY <1>0, <1>20, <1>k DEF TimerIgnored, Shutdown, ShutdownCloseFails, BootDone, vars
<1>21. ASSUME NEW c \in Calls, StartCall(c) \/ Boot(c)
       PROVE  FlowInv'
  BY <1>0, <1>1, <1>21, <1>k DEF StartCall, Boot
<1> QED
  BY <1>2, <1>3, <1>4, <1>5, <1>6, <1>7, <1>8, <1>9, <1>10, <1>11, <1>12, <1>13, <1>14, <1>15,
     <1>16, <1>17, <1>18, <1>19, <1>20, <1>21
  DEF Next, ApiStep, ReconnectStep, EngineStep, ProcessStep

-----------------------------------------------------------------------------
(* A stop wins.                                                            *)

LEMMA StopStep ==
  ASSUME StopInv, [Next]_vars
  PROVE  StopInv'
<1> USE DEF StopInv
<1>0. /\ FlowInv /\ FlowInv' /\ Inv /\ TypeOK /\ TypeOK'
      /\ TaskShape /\ CleanTeardown /\ StopHolds
      /\ Calls \subseteq Tasks /\ Reconnects \subseteq Tasks /\ Calls \cap Reconnects = {}
      /\ None \notin Engines \cup Tasks
      /\ task \in [Tasks -> Task] /\ est \in [Engines -> EngineStates]
      /\ engine \in Engines \cup {None}
      /\ Idle.op = "idle" /\ Idle.pc = "none" /\ Idle.clean = FALSE /\ NoState.on = FALSE
  BY FlowStep, ConstantsAssumption DEF FlowInv, Inv, TypeOK, Tasks, Idle, NoState
<1> DEFINE Quiet == \A r \in Reconnects : task'[r].op # "idle" => task[r].op # "idle"
<1>q. ASSUME Quiet, UNCHANGED <<wanted, stopping>>
      PROVE  Fresh'
  BY <1>q DEF Fresh
<1>g. ASSUME engine' = None
      PROVE  MapOpen' /\ Settled'
  BY <1>g DEF MapOpen, Settled, Abandoned
<1>s. ASSUME ~Ending' \/ Ending, ~Abandoned' \/ Abandoned
      PROVE  Settled'
  BY <1>s DEF Settled
<1>c. ASSUME Running("start") PROVE ~Ending
  BY <1>0, <1>c DEF Running, CleanTeardown, StopHolds, Ending
<1>f. ASSUME NEW t \in Tasks, Finish(t)
      PROVE  /\ Quiet
             /\ \A u \in Tasks : task'[u] = IF u = t THEN Idle ELSE task[u]
             /\ UNCHANGED wanted => ~Ending' \/ Ending
  BY <1>0, <1>f DEF Finish, Ending
<1>1. ASSUME NEW c \in Calls, BeginStart(c), UNCHANGED <<engine, est>>
      PROVE  StopInv'
  <2>1. wanted' /\ \A t \in Tasks : ~task'[t].clean
    BY <1>0, <1>1 DEF BeginStart, TypeOK
  <2>2. MapOpen' /\ Fresh' /\ Settled'
    BY <2>1, <1>1 DEF MapOpen, Fresh, Settled, Ending
  <2> QED
    BY <2>2, <1>0
<1>2. ASSUME NEW c \in Calls, NEW e \in Engines, StartHookDone(c, e)
      PROVE  StopInv'
  <2>1. /\ Running("start") /\ UNCHANGED <<wanted, stopping>>
        /\ InitializeEngine(c, "start", e, writes, {})
    BY <1>0, <1>2 DEF StartHookDone, Running
  <2>2. ~Ending /\ \A u \in Tasks : task'[u].clean => task'[u] = task[u]
    BY <2>1, <1>0, <1>c DEF InitializeEngine
  <2>3. ~Ending'
    BY <2>1, <2>2 DEF Ending
  <2>4. Quiet /\ MapOpen'
    BY <2>1, <1>0 DEF InitializeEngine, MapOpen
  <2> QED
    BY <2>1, <2>3, <2>4, <1>0, <1>q DEF Settled
<1>3. ASSUME NEW c \in Calls, NEW op \in {"stop", "delete"}, NEW next, Teardown(c, op, next)
      PROVE  StopInv'
  <2> DEFINE new == [op |-> op, pc |-> IF engine = None THEN next ELSE "close",
                     eng |-> engine, clean |-> ~Running("start")]
  <2>1. /\ task' = [task EXCEPT ![c] = new] /\ stopping'
        /\ UNCHANGED <<wanted, engine, est, stuck>> /\ task[c] = Idle
    BY <1>3 DEF Teardown
  <2>2. /\ \A u \in Tasks : task'[u] = IF u = c THEN new ELSE task[u]
        /\ new.op = op /\ (new.pc = "close" \/ engine = None)
    BY <2>1, <1>0
  <2> HIDE DEF new
  <2>3. MapOpen' /\ Fresh'
    BY <2>1 DEF MapOpen, Fresh
  <2>4. CASE engine = None
    BY <2>1, <2>3, <2>4, <1>0, <1>g
  <2>5. CASE engine # None
    <3>1. ~Ending' \/ Ending
      BY <2>1, <2>2, <2>5, <1>0 DEF Ending
    <3>2. ~Abandoned' \/ Abandoned
      BY <2>1, <2>2, <1>0 DEF Abandoned
    <3> QED
      BY <3>1, <3>2, <2>3, <1>0, <1>s
  <2> QED
    BY <2>4, <2>5
<1>4. ASSUME NEW c \in Calls, StopClosed(c) \/ StopCloseFails(c) \/ DeleteClosed(c)
      PROVE  StopInv'
  <2>1. engine' = None /\ UNCHANGED <<wanted, stopping>> /\ (Goto(c, "mark") \/ Goto(c, "hook"))
    BY <1>4 DEF StopClosed, StopCloseFails, DeleteClosed
  <2>2. Quiet
    BY <2>1, <1>0 DEF Goto
  <2> QED
    BY <2>1, <2>2, <1>0, <1>g, <1>q
<1>5. ASSUME NEW c \in Calls, DeleteCloseFails(c) \/ StartDone(c)
      PROVE  StopInv'
  <2>1. /\ Finish(c) /\ UNCHANGED <<wanted, stopping, engine, est>>
        /\ stuck \subseteq stuck' /\ task[c].op # "reconnect"
    BY <1>5 DEF DeleteCloseFails, StartDone
  <2>2. ~Abandoned' \/ Abandoned
    BY <2>1, <1>0, <1>f DEF Abandoned
  <2> QED
    BY <2>1, <2>2, <1>0, <1>f, <1>q, <1>s DEF MapOpen
<1>6. ASSUME NEW c \in Calls, DeleteRow(c)
      PROVE  StopInv'
  <2>1. /\ Finish(c) /\ UNCHANGED <<stopping, engine, est, stuck>>
        /\ task[c].pc = "hook" /\ task[c].op = "delete"
        /\ wanted' = (wanted /\ ~task[c].clean)
    BY <1>6 DEF DeleteRow
  <2>2. ~Ending' \/ Ending
    BY <2>1, <1>0, <1>f DEF Ending
  <2>3. ~Abandoned' \/ Abandoned
    BY <2>1, <1>0, <1>f DEF Abandoned
  <2>4. Fresh'
    BY <2>1, <1>0, <1>f DEF Fresh, CleanTeardown
  <2> QED
    BY <2>1, <2>2, <2>3, <2>4, <1>0, <1>s DEF MapOpen
<1>t. ASSUME ConsumeTimer, ~stopping
      PROVE  wanted
  BY <1>0, <1>t DEF ConsumeTimer, Inv, StopHolds, TimersGuarded, TypeOK
<1>7. ASSUME NEW r \in Reconnects, TimerFires(r)
      PROVE  StopInv'
  <2> DEFINE new == [op |-> "reconnect", pc |-> "close", eng |-> engine, clean |-> FALSE]
  <2>1. /\ task' = [task EXCEPT ![r] = new] /\ UNCHANGED <<wanted, engine, est>>
        /\ ConsumeTimer /\ ~stopping
    BY <1>7 DEF TimerFires
  <2>2. task'[r].op = "reconnect" /\ task'[r].eng = engine
    BY <2>1, <1>0
  <2>3. wanted' /\ ~Abandoned'
    BY <2>1, <2>2, <1>t DEF Abandoned
  <2> QED
    BY <2>1, <2>3, <1>0 DEF MapOpen, Settled, Fresh
<1>i. ASSUME NEW r \in Reconnects, NEW e \in Engines, NEW ws, NEW closed,
             InitializeEngine(r, "reconnect", e, ws, closed)
      PROVE  MapOpen' /\ Settled'
  <2>1. /\ task'[r].op = "reconnect" /\ task'[r].eng = e /\ engine' = e
        /\ est'[e] = "created"
    BY <1>0, <1>i DEF InitializeEngine
  <2> QED
    BY <2>1 DEF MapOpen, Settled, Abandoned
<1>8. ASSUME NEW r \in Reconnects, NEW e \in Engines, TimerFiresBare(r, e)
      PROVE  StopInv'
  <2>1. wanted'
    BY <1>8, <1>t DEF TimerFiresBare
  <2> QED
    BY <2>1, <1>0, <1>8, <1>i DEF TimerFiresBare, Fresh
<1>9. ASSUME NEW r \in Reconnects, NEW e \in Engines, OldEngineClosed(r, e)
      PROVE  StopInv'
  <2>1. /\ task[r].op = "reconnect" /\ UNCHANGED <<wanted, stopping>>
        /\ InitializeEngine(r, "reconnect", e, PutClosed(writes, task[r].eng), {task[r].eng})
    BY <1>9 DEF OldEngineClosed
  <2>2. Quiet
    BY <2>1, <1>0 DEF InitializeEngine
  <2> QED
    BY <2>1, <2>2, <1>0, <1>i, <1>q
<1>10. ASSUME NEW r \in Reconnects, ReconnectCloseFails(r)
       PROVE  StopInv'
  <2>1. /\ Finish(r) /\ UNCHANGED <<wanted, stopping, engine, est>>
        /\ stuck' = stuck \cup {task[r].eng}
    BY <1>10 DEF ReconnectCloseFails
  <2>2. ~Abandoned' \/ Abandoned
    BY <2>1, <1>0, <1>f DEF Abandoned
  <2> QED
    BY <2>1, <2>2, <1>0, <1>f, <1>q, <1>s DEF MapOpen
<1>11. ASSUME NEW r \in Reconnects, ReconnectDone(r)
       PROVE  StopInv'
  <2> DEFINE new == IF stopping /\ engine # None
                    THEN [op |-> "reconnect", pc |-> "undo", eng |-> engine, clean |-> FALSE]
                    ELSE Idle
  <2>1. /\ task' = [task EXCEPT ![r] = new] /\ task[r].op = "reconnect"
        /\ UNCHANGED <<wanted, stopping, engine, est, stuck>>
    BY <1>11 DEF ReconnectDone
  <2>2. /\ \A u \in Tasks : task'[u] = IF u = r THEN new ELSE task[u]
        /\ IF stopping /\ engine # None THEN new.op = "reconnect" /\ new.eng = engine
                                        ELSE new.op = "idle"
        /\ ~new.clean
    BY <2>1, <1>0
  <2> HIDE DEF new
  <2>3. Quiet /\ (~Ending' \/ Ending)
    BY <2>1, <2>2, <1>0 DEF Ending
  <2>4. Settled'
    <3>1. CASE stopping \/ engine = None
      BY <3>1, <2>1, <2>2, <1>0 DEF Settled, Abandoned
    <3>2. CASE ~stopping
      BY <3>2, <2>1, <2>3, <1>0 DEF Settled, Ending, Fresh, CleanTeardown
    <3> QED
      BY <3>1, <3>2
  <2> QED
    BY <2>1, <2>3, <2>4, <1>0, <1>q DEF MapOpen
<1>12. ASSUME NEW r \in Reconnects, UndoClosed(r)
       PROVE  StopInv'
  <2>1. Finish(r) /\ UNCHANGED <<wanted, stopping>> /\ engine' = None
    BY <1>12 DEF UndoClosed
  <2> QED
    BY <2>1, <1>0, <1>f, <1>g, <1>q
<1>13. ASSUME NEW t \in Tasks, InitFails(t)
       PROVE  StopInv'
  <2>1. /\ Finish(t) /\ UNCHANGED <<wanted, stopping, engine, stuck>>
        /\ est' = [est EXCEPT ![task[t].eng] = IF @ = "closed" THEN @ ELSE "failed"]
    BY <1>13 DEF InitFails
  <2>2. \A e \in Engines : /\ est[e] # "closed" => est'[e] # "closed"
                           /\ est[e] # "closed" /\ e = task[t].eng => est'[e] = "failed"
                           /\ est[e] = "failed" => est'[e] = "failed"
    BY <2>1, <1>0
  <2>3. MapOpen'
    BY <2>1, <2>2, <1>0 DEF MapOpen
  <2>4. ~Abandoned' \/ Abandoned
    BY <2>1, <2>2, <1>0, <1>f DEF Abandoned, MapOpen
  <2> QED
    BY <2>1, <2>3, <2>4, <1>0, <1>f, <1>q, <1>s
<1>14. ASSUME NEW e \in Engines, NEW from \in SUBSET Live, NEW to \in EngineStates \ {"closed"},
              NEW s, EngineReports(e, from, to, s)
       PROVE  StopInv'
  <2>1. /\ UNCHANGED <<wanted, stopping, engine, stuck, task>> /\ est[e] \in Live
        /\ est' = [est EXCEPT ![e] = to]
    BY <1>14 DEF EngineReports
  <2>2. MapOpen'
    BY <2>1, <1>0 DEF MapOpen
  <2>3. ~Abandoned' \/ Abandoned
    BY <2>1, <1>0 DEF Abandoned, Live
  <2>4. Quiet /\ (~Ending' \/ Ending)
    BY <2>1 DEF Ending
  <2> QED
    BY <2>1, <2>2, <2>3, <2>4, <1>0, <1>q, <1>s
<1>15. ASSUME EngineStep
       PROVE  StopInv'
  <2>1. /\ {"initializing"} \in SUBSET Live /\ {"ready"} \in SUBSET Live /\ Live \in SUBSET Live
        /\ {"initializing", "ready", "down", "failed"} \subseteq EngineStates \ {"closed"}
    BY DEF Live, EngineStates
  <2> QED
    BY <2>1, <1>13, <1>14, <1>15
    DEF EngineStep, EnginePairing, EngineReady, EngineRedials, EngineDrops, EngineFails
<1>16. ASSUME NEW i \in 1..Len(writes), ApplyWrite(i)
       PROVE  StopInv'
  <2> DEFINE t == writes[i].by
  <2>1. /\ t \in Tasks \cup {None} /\ (t # None => task[t].pc = "mark")
        /\ UNCHANGED <<engine, stuck, stopping>>
    <3>1. writes \in Seq(Write) /\ writes[i].by \in Tasks \cup {None}
      BY <1>0, RemoveTyped DEF TypeOK, Write
    <3> QED
      BY <3>1, <1>0, <1>16 DEF ApplyWrite, FlowInv, Awaiting, Awaited
  <2> HIDE DEF t
  <2>2. CASE t = None
    <3>1. UNCHANGED <<task, est, wanted>>
      BY <2>2, <1>0, <1>16 DEF ApplyWrite, t, TypeOK
    <3> QED
      BY <3>1, <2>1, <1>0, <1>q, <1>s DEF Ending, Abandoned, MapOpen
  <2>3. CASE t # None /\ task[t].op = "stop"
    <3>1. /\ task' = [task EXCEPT ![t] = Idle] /\ UNCHANGED est
          /\ wanted' = (wanted /\ ~task[t].clean)
      BY <2>3, <1>16 DEF ApplyWrite, t
    <3>2. /\ \A u \in Tasks : task'[u] = IF u = t THEN Idle ELSE task[u]
          /\ t \in Tasks
      BY <3>1, <2>1, <2>3, <1>0
    <3>3. ~Ending' \/ Ending
      BY <3>1, <3>2, <2>1, <2>3, <1>0 DEF Ending
    <3>4. ~Abandoned' \/ Abandoned
      BY <3>1, <3>2, <2>1, <2>3, <1>0 DEF Abandoned
    <3>5. Fresh'
      BY <3>1, <3>2, <2>1, <1>0 DEF Fresh, CleanTeardown
    <3> QED
      BY <3>1, <3>3, <3>4, <3>5, <2>1, <1>0, <1>s DEF MapOpen
  <2>4. CASE t # None /\ task[t].op # "stop"
    <3>1. /\ task' = [task EXCEPT ![t].pc = "init"] /\ UNCHANGED wanted
          /\ est' = [est EXCEPT ![task[t].eng] = "initializing"]
      BY <2>4, <1>0, <1>16 DEF ApplyWrite, t, TypeOK
    <3>2. /\ t \in Tasks
          /\ \A u \in Tasks : /\ u # t => task'[u] = task[u]
                              /\ task'[u].op = task[u].op /\ task'[u].eng = task[u].eng
                              /\ task'[u].clean = task[u].clean
      BY <3>1, <2>1, <2>4, <1>0
    <3>3. task[t].op \in {"start", "reconnect"}
      BY <3>2, <2>1, <2>4, <1>0 DEF TaskShape, Task
    <3>4. ~Ending' \/ Ending
      BY <3>1, <3>2, <2>1, <2>4 DEF Ending
    <3>5. MapOpen' /\ Quiet
      BY <3>1, <3>2, <2>1, <1>0 DEF MapOpen
    <3>6. Settled'
      <4>1. CASE task[t].op = "start"
        <5>1. ~Ending
          BY <4>1, <3>2, <1>c DEF Running
        <5> QED
          BY <5>1, <3>4 DEF Settled
      <4>2. CASE task[t].op = "reconnect"
        <5>1. t \in Reconnects
          BY <4>2, <3>2, <1>0 DEF TaskShape
        <5>2. ~Abandoned' \/ Abandoned
          BY <5>1, <4>2, <3>1, <3>2, <2>1, <1>0 DEF Abandoned
        <5> QED
          BY <5>2, <3>4, <1>s
      <4> QED
        BY <4>1, <4>2, <3>3
    <3> QED
      BY <3>1, <3>5, <3>6, <2>1, <1>0, <1>q
  <2> QED
    BY <2>2, <2>3, <2>4
<1>17. ASSUME ShutdownClosed \/ ShutdownCloseFails
       PROVE  StopInv'
  <2>1. UNCHANGED <<wanted, stopping, task>> /\ engine' = None
    BY <1>17 DEF ShutdownClosed, ShutdownCloseFails
  <2> QED
    BY <2>1, <1>0, <1>g, <1>q
<1>18. ASSUME ProcessEnds
       PROVE  StopInv'
  <2>1. engine' = None /\ \A r \in Reconnects : task'[r].op = "idle"
    BY <1>0, <1>18 DEF ProcessEnds
  <2> QED
    BY <2>1, <1>0, <1>g DEF Fresh
<1>19. ASSUME UNCHANGED <<wanted, stopping, task, engine, est, stuck>>
       PROVE  StopInv'
  BY <1>0, <1>19, <1>q, <1>s DEF Ending, Abandoned, MapOpen
<1>20. ASSUME TimerIgnored \/ Shutdown \/ BootDone \/ UNCHANGED vars
       PROVE  StopInv'
  BY <1>19, <1>20 DEF TimerIgnored, Shutdown, BootDone, vars
<1>21. ASSUME NEW c \in Calls, StartCall(c) \/ StopCall(c) \/ DeleteCall(c) \/ Boot(c)
       PROVE  StopInv'
  BY <1>1, <1>3, <1>19, <1>21 DEF StartCall, StopCall, DeleteCall, Boot
<1> QED
  BY <1>2, <1>4, <1>5, <1>6, <1>7, <1>8, <1>9, <1>10, <1>11, <1>12, <1>15, <1>16,
     <1>17, <1>18, <1>20, <1>21
  DEF Next, ApiStep, ReconnectStep, ProcessStep

LEMMA InitFlows == Init => FlowInv
<1> SUFFICES ASSUME Init PROVE FlowInv
  OBVIOUS
<1>1. \A t \in Tasks : task[t].op = "idle" /\ task[t].pc = "none"
  BY DEF Init, Idle
<1>2. Once(writes) /\ Awaited(writes) = {}
  BY DEF Init, Once, Awaited
<1> QED
  BY <1>1, <1>2, InitInv DEF FlowInv, TaskShape, Awaiting

(* After a stop() or delete() that no start overlapped, and once the        *)
(* reconnects it met have ended, the map of the service holds no engine     *)
(* that could still come up: executeReconnect destroys the one it made.     *)
THEOREM StopAlwaysWins == Spec => []StopWins
<1>1. Init => StopInv
  BY InitFlows DEF Init, StopInv, MapOpen, Settled, Abandoned, Fresh, Idle, Tasks
<1>2. StopInv => StopWins
  BY DEF StopInv, Settled, Ending, Abandoned, StopWins, Reconnecting, Idle
<1> QED
  BY <1>1, <1>2, StopStep, PTL DEF Spec

-----------------------------------------------------------------------------
(* With the process down, nothing of the session is left in memory.         *)

LEMMA DownWaits ==
  ASSUME FlowInv, Quiescent, proc = "down", Next
  PROVE  \E c \in Calls : Boot(c)
<1>0. /\ Calls \subseteq Tasks /\ Reconnects \subseteq Tasks /\ writes = <<>> /\ Len(writes) = 0
      /\ \A t \in Tasks : task[t].op = "idle" /\ task[t].pc = "none"
      /\ \A e \in Engines : est[e] \notin Live
  BY DEF FlowInv, TaskShape, Quiescent, Tasks, Live
<1>1. ASSUME ApiStep PROVE FALSE
  BY <1>0, <1>1 DEF ApiStep, StartCall, StopCall, StopClosed, StopCloseFails, StartDone, DeleteCall,
       DeleteClosed, DeleteCloseFails, DeleteRow, StartHookDone, Teardown
<1>2. ASSUME ReconnectStep PROVE FALSE
  BY <1>0, <1>2 DEF ReconnectStep, TimerIgnored, TimerFires, ReconnectCloseFails, ReconnectDone,
       UndoClosed, TimerFiresBare, OldEngineClosed
<1>3. ASSUME EngineStep PROVE FALSE
  BY <1>0, <1>3 DEF EngineStep, InitFails, EnginePairing, EngineReady, EngineRedials, EngineDrops,
       EngineFails, EngineReports, Live
<1>4. ASSUME Shutdown \/ ShutdownClosed \/ ShutdownCloseFails \/ ProcessEnds \/ BootDone PROVE FALSE
  BY <1>4 DEF Shutdown, ShutdownClosed, ShutdownCloseFails, ProcessEnds, BootDone
<1>5. ~\E i \in 1..Len(writes) : ApplyWrite(i)
  BY <1>0
<1> QED
  BY <1>1, <1>2, <1>3, <1>4, <1>5 DEF Next, ProcessStep

LEMMA QuiescentStep ==
  ASSUME FlowInv, Quiescent, [Next]_vars
  PROVE  Quiescent'
<1>1. CASE UNCHANGED vars
  BY <1>1 DEF vars, Quiescent
<1>2. CASE Next /\ proc = "down"
  BY <1>2, DownWaits DEF Boot, Quiescent
<1>3. CASE ProcessEnds
  BY <1>3 DEF ProcessEnds, Quiescent, Idle
<1>4. CASE Next /\ proc # "down" /\ ~ProcessEnds
  <2>1. ASSUME ApiStep PROVE proc' = proc
    BY <2>1 DEF ApiStep, StartCall, StopCall, StopClosed, StopCloseFails, StartDone, DeleteCall,
         DeleteClosed, DeleteCloseFails, DeleteRow, StartHookDone, Teardown
  <2>2. ASSUME ReconnectStep PROVE proc' = proc
    BY <2>2 DEF ReconnectStep, TimerIgnored, TimerFires, ReconnectCloseFails, ReconnectDone,
         UndoClosed, TimerFiresBare, OldEngineClosed
  <2>3. ASSUME EngineStep PROVE proc' = proc
    BY <2>3 DEF EngineStep, InitFails, EnginePairing, EngineReady, EngineRedials, EngineDrops,
         EngineFails, EngineReports
  <2>4. ASSUME \/ Shutdown \/ ShutdownClosed \/ ShutdownCloseFails \/ BootDone
               \/ \E c \in Calls : Boot(c)
        PROVE  proc' # "down"
    BY <2>4 DEF Shutdown, ShutdownClosed, ShutdownCloseFails, BootDone, Boot
  <2>5. ASSUME \E i \in 1..Len(writes) : ApplyWrite(i) PROVE proc' = proc
    BY <2>5 DEF ApplyWrite
  <2> QED
    BY <2>1, <2>2, <2>3, <2>4, <2>5, <1>4 DEF Next, ProcessStep, Quiescent
<1> QED
  BY <1>1, <1>2, <1>3, <1>4

-----------------------------------------------------------------------------
(* The row is true of the engine behind it.                                *)

(* One more status write decides what the row will say; so does an awaited  *)
(* one.  A closed engine has said DISCONNECTED, or had nothing to say.      *)
LEMMA LastWritten ==
  ASSUME NEW ws \in Seq(Write), NEW s \in Statuses
  PROVE  /\ writes' = Put(ws, s) => LastStatus' = s
         /\ \A t \in Tasks : writes' = PutAwaited(ws, s, t) => LastStatus' = s
         /\ \A e : writes' = PutClosed(ws, e) =>
                      \/ LastStatus' = "DISCONNECTED"
                      \/ writes' = ws /\ est[e] \in {"created", "closed"}
<1>1. Put(ws, s) # <<>> /\ Put(ws, s)[Len(Put(ws, s))].st = s
  BY PutKeeps
<1>2. \A t \in Tasks : /\ PutAwaited(ws, s, t) # <<>>
                        /\ PutAwaited(ws, s, t)[Len(PutAwaited(ws, s, t))].st = s
  BY PutAwaitedKeeps
<1>3. \A e : \/ PutClosed(ws, e) = ws /\ est[e] \in {"created", "closed"}
             \/ /\ PutClosed(ws, e) # <<>>
                /\ PutClosed(ws, e)[Len(PutClosed(ws, e))].st = "DISCONNECTED"
  BY PutClosedKeeps
<1>4. \A x : writes' = x /\ x # <<>> => LastStatus' = x[Len(x)].st
  BY DEF LastStatus
<1> QED
  BY <1>1, <1>2, <1>3, <1>4

(* Writes applied in order leave what the row will say as it is, or the row *)
(* is gone, or initialize() has begun and said INITIALIZING.                *)
LEMMA LastApplied ==
  ASSUME OrderedWrites, FlowInv, NEW i \in 1..Len(writes), ApplyWrite(i)
  PROVE  \/ LastStatus' \in {"gone", "INITIALIZING"}
         \/ LastStatus' = LastStatus /\ UNCHANGED est
<1>1. /\ i = 1 /\ writes # <<>>
      /\ row' = IF row = "gone" THEN row ELSE writes[1].st
      /\ \/ writes' = Put(RemoveWrite(1), "INITIALIZING")
         \/ writes' = RemoveWrite(1) /\ UNCHANGED est
  BY DEF ApplyWrite
<1>2. /\ RemoveWrite(1) \in Seq(Write)
      /\ RemoveWrite(1) = <<>> => Len(writes) = 1
      /\ RemoveWrite(1) # <<>> =>
            RemoveWrite(1)[Len(RemoveWrite(1))] = writes[Len(writes)]
  BY <1>1, RemoveKeeps DEF FlowInv, Inv, TypeOK, Awaiting
<1>3. CASE writes' = Put(RemoveWrite(1), "INITIALIZING")
  BY <1>2, <1>3, LastWritten DEF Statuses
<1>4. CASE writes' = RemoveWrite(1) /\ UNCHANGED est
  BY <1>1, <1>2, <1>4 DEF LastStatus
<1> QED
  BY <1>1, <1>3, <1>4

LEMMA RowStep ==
  ASSUME OrderedWrites, RowInv, [Next]_vars
  PROVE  RowInv'
<1> USE DEF RowInv
<1>0. /\ FlowInv /\ FlowInv' /\ Quiescent /\ Quiescent'
      /\ Calls \subseteq Tasks /\ Reconnects \subseteq Tasks
      /\ est \in [Engines -> EngineStates] /\ writes \in Seq(Write) /\ crashes \in Nat
      /\ {"CREATED", "INITIALIZING", "PAIRING", "READY", "DISCONNECTED", "FAILED"} = Statuses
  BY FlowStep, QuiescentStep, ConstantsAssumption DEF FlowInv, Inv, TypeOK, Tasks, Statuses
<1> DEFINE StillReady == \A e \in Engines : est[e] = "ready" => est'[e] = "ready"
<1>n. ASSUME LastStatus' \notin {"READY", "FAILED"}
      PROVE  RowInv'
  BY <1>0, <1>n DEF ReadyBacked, FailedBacked
<1>u. ASSUME LastStatus' = LastStatus, StillReady, err => err', UNCHANGED crashes,
             proc = "down" => proc' = "down"
      PROVE  RowInv'
  BY <1>0, <1>u DEF ReadyBacked, FailedBacked
<1>x. ASSUME LastStatus' = "FAILED", err'
      PROVE  RowInv'
  BY <1>0, <1>x DEF ReadyBacked, FailedBacked
<1>s. ASSUME NEW ws \in Seq(Write), NEW er, ScheduleReconnect(ws, er)
      PROVE  \/ LastStatus' = "FAILED" /\ err'
             \/ writes' = ws /\ err' = er
  BY <1>0, <1>s, LastWritten DEF ScheduleReconnect
<1>1. ASSUME NEW t \in Tasks, NEW op, NEW e \in Engines, NEW ws \in Seq(Write), NEW closed,
             InitializeEngine(t, op, e, ws, closed)
      PROVE  RowInv'
  <2>1. LastStatus' = "INITIALIZING"
    BY <1>0, <1>1, LastWritten DEF InitializeEngine
  <2> QED
    BY <2>1, <1>n
<1>2. ASSUME \/ ShutdownCloseFails
             \/ \E c \in Calls : \/ StartCall(c) \/ DeleteCall(c) \/ DeleteCloseFails(c)
                                 \/ StartDone(c)
      PROVE  RowInv'
  BY <1>0, <1>2, <1>u DEF StartCall, DeleteCall, Teardown, DeleteCloseFails, StartDone,
                          ShutdownCloseFails, LastStatus
<1>3. ASSUME NEW c \in Calls, StopCall(c)
      PROVE  RowInv'
  <2>1. CASE writes' = PutAwaited(writes, "DISCONNECTED", c)
    <3>1. LastStatus' = "DISCONNECTED"
      BY <2>1, <1>0, LastWritten
    <3> QED
      BY <3>1, <1>n
  <2>2. CASE writes' = writes
    BY <2>2, <1>3, <1>u DEF StopCall, Teardown, LastStatus
  <2> QED
    BY <2>1, <2>2, <1>3 DEF StopCall
<1>4. ASSUME NEW c \in Calls, StopClosed(c) \/ StopCloseFails(c)
      PROVE  RowInv'
  <2>1. PutClosed(writes, task[c].eng) \in Seq(Write)
    BY <1>0, PutClosedKeeps
  <2>2. LastStatus' = "DISCONNECTED"
    BY <2>1, <1>0, <1>4, LastWritten DEF StopClosed, StopCloseFails, Statuses
  <2> QED
    BY <2>2, <1>n
<1>5. ASSUME NEW e, writes' = PutClosed(writes, e), est' = [est EXCEPT ![e] = "closed"],
             UNCHANGED <<proc, row, err, crashes>>
      PROVE  RowInv'
  <2>1. CASE LastStatus' = "DISCONNECTED"
    BY <2>1, <1>n
  <2>2. CASE writes' = writes /\ est[e] \in {"created", "closed"}
    <3>1. StillReady
      BY <2>2, <1>0, <1>5
    <3> QED
      BY <3>1, <2>2, <1>5, <1>u DEF LastStatus
  <2> QED
    BY <2>1, <2>2, <1>0, <1>5, LastWritten
<1>6. ASSUME ShutdownClosed \/ \E t \in Tasks : DeleteClosed(t) \/ UndoClosed(t)
      PROVE  RowInv'
  BY <1>5, <1>6 DEF DeleteClosed, UndoClosed, ShutdownClosed
<1>7. ASSUME NEW c \in Calls, DeleteRow(c)
      PROVE  RowInv'
  <2>1. LastStatus' = "gone" \/ LastStatus' = LastStatus
    BY <1>7 DEF DeleteRow, LastStatus
  <2> QED
    BY <2>1, <1>7, <1>n, <1>u DEF DeleteRow
<1>8. ASSUME TimerIgnored \/ \E r \in Reconnects : TimerFires(r) \/ ReconnectDone(r)
      PROVE  RowInv'
  BY <1>8, <1>u DEF TimerIgnored, TimerFires, ReconnectDone, LastStatus
<1>9. ASSUME NEW r \in Reconnects, ReconnectCloseFails(r)
      PROVE  RowInv'
  <2>1. /\ ScheduleReconnect(writes, err) /\ UNCHANGED <<proc, row, est, crashes>>
    BY <1>9 DEF ReconnectCloseFails
  <2>2. CASE LastStatus' = "FAILED" /\ err'
    BY <2>2, <1>x
  <2>3. CASE writes' = writes /\ err' = err
    BY <2>1, <2>3, <1>u DEF LastStatus
  <2> QED
    BY <2>1, <2>2, <2>3, <1>0, <1>s
<1>10. ASSUME NEW t \in Tasks, InitFails(t)
       PROVE  RowInv'
  <2> DEFINE ws == Put(writes, "FAILED")
  <2>1. /\ ws \in Seq(Write) /\ (writes' = ws => LastStatus' = "FAILED")
    BY <1>0, PutKeeps, LastWritten
  <2>2. ScheduleReconnect(ws, TRUE) \/ (writes' = ws /\ err' = TRUE)
    BY <1>10 DEF InitFails
  <2> HIDE DEF ws
  <2>3. CASE ScheduleReconnect(ws, TRUE)
    <3>1. \/ LastStatus' = "FAILED" /\ err'
          \/ writes' = ws /\ err' = TRUE
      BY <2>1, <2>3, <1>s
    <3> QED
      BY <3>1, <2>1, <1>x
  <2>4. CASE writes' = ws /\ err' = TRUE
    BY <2>1, <2>4, <1>x
  <2> QED
    BY <2>2, <2>3, <2>4
<1>11. ASSUME NEW e \in Engines, EnginePairing(e) \/ EngineRedials(e)
       PROVE  RowInv'
  <2>1. LastStatus' \in {"PAIRING", "INITIALIZING"}
    BY <1>0, <1>11, LastWritten DEF EnginePairing, EngineRedials
  <2> QED
    BY <2>1, <1>n
<1>12. ASSUME NEW e \in Engines, EngineReady(e)
       PROVE  RowInv'
  <2>1. LastStatus' = "READY" /\ est'[e] = "ready"
    BY <1>0, <1>12, LastWritten DEF EngineReady, EngineReports
  <2> QED
    BY <2>1, <1>0 DEF ReadyBacked, FailedBacked
<1>13. ASSUME NEW e \in Engines, EngineFails(e)
       PROVE  RowInv'
  <2>1. LastStatus' = "FAILED" /\ err'
    BY <1>0, <1>13, LastWritten DEF EngineFails
  <2> QED
    BY <2>1, <1>x
<1>14. ASSUME NEW e \in Engines, EngineDrops(e)
       PROVE  RowInv'
  <2> DEFINE ws == Put(writes, "DISCONNECTED")
  <2>1. /\ ws \in Seq(Write) /\ (writes' = ws => LastStatus' = "DISCONNECTED")
        /\ ScheduleReconnect(ws, err)
    BY <1>0, <1>14, PutKeeps, LastWritten DEF EngineDrops
  <2> HIDE DEF ws
  <2>2. LastStatus' = "DISCONNECTED" \/ (LastStatus' = "FAILED" /\ err')
    BY <2>1, <1>s
  <2> QED
    BY <2>2, <1>n, <1>x
<1>15. ASSUME NEW i \in 1..Len(writes), ApplyWrite(i)
       PROVE  RowInv'
  <2>1. CASE LastStatus' \in {"gone", "INITIALIZING"}
    BY <2>1, <1>n
  <2>2. CASE LastStatus' = LastStatus /\ UNCHANGED est
    BY <2>2, <1>15, <1>u DEF ApplyWrite
  <2> QED
    BY <2>1, <2>2, <1>0, <1>15, LastApplied
<1>16. ASSUME Shutdown \/ BootDone \/ UNCHANGED vars
       PROVE  RowInv'
  BY <1>16, <1>u DEF Shutdown, BootDone, vars, LastStatus
<1>17. ASSUME ProcessEnds
       PROVE  RowInv'
  <2>1. proc' = "down" /\ crashes' # 0
    BY <1>0, <1>17 DEF ProcessEnds
  <2> QED
    BY <2>1, <1>0 DEF ReadyBacked, FailedBacked
<1>18. ASSUME NEW c \in Calls, Boot(c)
       PROVE  RowInv'
  <2>1. /\ writes = <<>> /\ writes' = <<>> /\ UNCHANGED <<est, err, crashes>>
        /\ row' # "READY" /\ (row' = "FAILED" => row = "FAILED")
    BY <1>0, <1>18 DEF Boot, Quiescent
  <2> QED
    BY <2>1, <1>0 DEF ReadyBacked, FailedBacked, LastStatus
<1>19. ASSUME NEW t \in Tasks, NEW e \in Engines,
              StartHookDone(t, e) \/ TimerFiresBare(t, e) \/ OldEngineClosed(t, e)
       PROVE  RowInv'
  <2>1. PutClosed(writes, task[t].eng) \in Seq(Write)
    BY <1>0, PutClosedKeeps
  <2> QED
    BY <2>1, <1>0, <1>1, <1>19 DEF StartHookDone, TimerFiresBare, OldEngineClosed
<1> QED
  BY <1>0, <1>2, <1>3, <1>4, <1>6, <1>7, <1>8, <1>9, <1>10, <1>11, <1>12, <1>13, <1>14, <1>15,
     <1>16, <1>17, <1>18, <1>19
  DEF Next, ApiStep, ReconnectStep, EngineStep, ProcessStep

LEMMA InitRow == Init => RowInv
  BY InitFlows DEF Init, RowInv, Quiescent, ReadyBacked, FailedBacked, LastStatus

(* With one database connection, a row at rest that says READY has a        *)
(* connected engine behind it - across stops, reconnects and restarts.      *)
THEOREM NoGhostWhenOrdered == OrderedWrites => (Spec => []NoGhostReady)
<1> SUFFICES ASSUME OrderedWrites PROVE Spec => []NoGhostReady
  OBVIOUS
<1>1. RowInv /\ [Next]_vars => RowInv'
  BY RowStep
<1>2. RowInv => NoGhostReady
  BY DEF RowInv, ReadyBacked, LastStatus, NoGhostReady
<1> QED
  BY <1>1, <1>2, InitRow, PTL DEF Spec

(* With one database connection, a FAILED row keeps the reason it can show. *)
THEOREM FailureExplained == OrderedWrites => (Spec => []FailedExplained)
<1> SUFFICES ASSUME OrderedWrites PROVE Spec => []FailedExplained
  OBVIOUS
<1>1. RowInv /\ [Next]_vars => RowInv'
  BY RowStep
<1>2. RowInv => FailedExplained
  BY DEF RowInv, FailedBacked, LastStatus, FailedExplained
<1> QED
  BY <1>1, <1>2, InitRow, PTL DEF Spec

-----------------------------------------------------------------------------
(* A lost connection is followed up.                                       *)

LEMMA ScheduleEffect ==
  ASSUME TypeOK, NEW ws \in Seq(Write), NEW er, ScheduleReconnect(ws, er), rs.armed => rs.on
  PROVE  /\ rs'.on = rs.on /\ (rs'.armed => rs'.on) /\ (rs.armed => rs'.armed)
         /\ leaked > 0 => leaked' > 0
         /\ ~rs.on => UNCHANGED <<rs, leaked>>
         /\ rs.on => rs'.armed \/ LastStatus' = "FAILED"
         /\ LastStatus' = "FAILED" \/ writes' = ws
<1>0. leaked \in Nat /\ rs.on \in BOOLEAN /\ "FAILED" \in Statuses
  BY DEF TypeOK, ReconnectState, Statuses
<1>1. CASE ~rs.on
  BY <1>1 DEF ScheduleReconnect
<1>2. CASE rs.on /\ rs.attempts >= MaxAttempts
  <2>1. UNCHANGED <<rs, leaked>> /\ writes' = Put(ws, "FAILED")
    BY <1>2 DEF ScheduleReconnect
  <2>2. LastStatus' = "FAILED"
    BY <2>1, <1>0, LastWritten
  <2> QED
    BY <2>1, <2>2, <1>2
<1>3. CASE rs.on /\ ~(rs.attempts >= MaxAttempts)
  <2>1. /\ rs'.on = TRUE /\ rs'.armed = TRUE /\ writes' = ws
        /\ leaked' = IF rs.armed THEN leaked + 1 ELSE leaked
    BY <1>3 DEF ScheduleReconnect
  <2>2. rs'.on = rs.on
    BY <2>1, <1>0, <1>3
  <2>3. leaked > 0 => leaked' > 0
    BY <2>1, <1>0
  <2> QED
    BY <2>1, <2>2, <2>3, <1>3
<1> QED
  BY <1>1, <1>2, <1>3

LEMMA DownStep ==
  ASSUME OrderedWrites, DownInv, [Next]_vars
  PROVE  DownInv'
<1> USE DEF DownInv
<1>0. /\ FlowInv /\ FlowInv' /\ Quiescent /\ Quiescent' /\ TypeOK /\ TypeOK' /\ TaskShape
      /\ Calls \subseteq Tasks /\ Reconnects \subseteq Tasks /\ Calls \cap Reconnects = {}
      /\ None \notin Tasks \cup Engines
      /\ task \in [Tasks -> Task] /\ est \in [Engines -> EngineStates] /\ writes \in Seq(Write)
      /\ leaked \in Nat /\ rs \in ReconnectState /\ engine \in Engines \cup {None}
      /\ Idle.op = "idle" /\ Idle.pc = "none" /\ NoState.on = FALSE /\ NoState.armed = FALSE
      /\ {"CREATED", "INITIALIZING", "PAIRING", "READY", "DISCONNECTED", "FAILED"} = Statuses
  BY FlowStep, QuiescentStep, ConstantsAssumption
  DEF FlowInv, Inv, TypeOK, Tasks, Statuses, Idle, NoState
(* What a step that starts no reconnect and ends no hook leaves alone. *)
<1> DEFINE Keeps ==
             \A t \in Tasks : /\ task[t].op = "start" /\ task[t].pc = "hook" => task'[t] = task[t]
                              /\ task[t].op = "reconnect" /\ task[t].pc = "close" => task'[t] = task[t]
                              /\ task'[t].op = "reconnect" => task[t].op = "reconnect"
<1>a. Reconnects \subseteq Tasks /\ \A r \in Reconnects : task[r].op \in {"idle", "reconnect"}
  BY <1>0 DEF TaskShape, Task
<1>b. \A r \in Reconnects : task'[r].op \in {"idle", "reconnect"}
  BY <1>0 DEF FlowInv, TaskShape, TypeOK, Inv, Task
<1>k. ASSUME \A t \in Tasks : /\ task[t].op = "start" /\ task[t].pc = "hook" => task'[t] = task[t]
                              /\ task'[t].op = "reconnect" => task[t].op = "reconnect",
             UNCHANGED stopping, proc' = proc \/ (proc = "booting" /\ proc' = "up"),
             rs'.on = rs.on, rs'.armed => rs'.on, engine = None => engine' = None,
             ~rs.on => leaked' = leaked
      PROVE  StateKept'
  BY <1>a, <1>b, <1>k DEF StateKept, Hooked
<1>d. ASSUME Keeps, UNCHANGED <<stopping, engine>>,
             proc' = proc \/ (proc = "booting" /\ proc' = "up"),
             LastStatus' = "DISCONNECTED" => LastStatus = "DISCONNECTED",
             engine \in Engines /\ est'[engine] = "down" => est[engine] = "down",
             rs.armed => rs'.armed, leaked > 0 => leaked' > 0
      PROVE  DropHandled'
  BY <1>0, <1>d DEF DropHandled, Hooked
<1>e. ASSUME engine' = None \/ stopping' \/ LastStatus' # "DISCONNECTED"
      PROVE  DropHandled'
  BY <1>e DEF DropHandled
<1>f. ASSUME NEW t \in Tasks, Finish(t)
      PROVE  \A u \in Tasks : task'[u] = IF u = t THEN Idle ELSE task[u]
  BY <1>0, <1>f DEF Finish
<1>i. ASSUME NEW r \in Reconnects, task[r].op = "reconnect", proc # "closing", ~stopping, ~rs.on
      PROVE  Hooked
  BY <1>i DEF StateKept
<1>1. ASSUME NEW c \in Calls, BeginStart(c), UNCHANGED rs
      PROVE  DownInv'
  <2>1. task'[c].op = "start" /\ task'[c].pc = "hook"
    BY <1>0, <1>1 DEF BeginStart, Idle
  <2>2. Hooked'
    BY <2>1, <1>0 DEF Hooked
  <2> QED
    BY <2>2, <1>0, <1>1 DEF StateKept, DropHandled
<1>n. ASSUME NEW t \in Tasks, NEW op, NEW e \in Engines, NEW ws, NEW closed,
             InitializeEngine(t, op, e, ws, closed),
             task[t].op # "start" \/ task[t].pc # "hook"
      PROVE  DropHandled' /\ (Hooked => Hooked')
  <2>1. engine' = e /\ est'[e] = "created" /\ \A u \in Tasks : u # t => task'[u] = task[u]
    BY <1>0, <1>n DEF InitializeEngine
  <2> QED
    BY <2>1, <1>n DEF DropHandled, Hooked
<1>2. ASSUME NEW c \in Calls, NEW e \in Engines, StartHookDone(c, e)
      PROVE  DownInv'
  <2>1. engine' = e /\ est'[e] = "created" /\ rs'.on
    BY <1>2 DEF StartHookDone, InitializeEngine
  <2> QED
    BY <2>1, <1>0 DEF StateKept, DropHandled
<1>3. ASSUME NEW c \in Calls, NEW op, NEW next, Teardown(c, op, next)
      PROVE  DownInv'
  <2>1. stopping' /\ rs' = NoState
    BY <1>3 DEF Teardown
  <2> QED
    BY <2>1, <1>0, <1>e DEF StateKept
<1>4. ASSUME NEW c \in Calls, StopClosed(c) \/ StopCloseFails(c) \/ DeleteClosed(c)
      PROVE  DownInv'
  <2>1. /\ engine' = None /\ UNCHANGED <<proc, stopping, rs, leaked>>
        /\ task[c].pc = "close" /\ task[c].op \in {"stop", "delete"}
        /\ Goto(c, "mark") \/ Goto(c, "hook")
    BY <1>4 DEF StopClosed, StopCloseFails, DeleteClosed
  <2>2. Keeps
    BY <2>1, <1>0 DEF Goto
  <2> QED
    BY <2>1, <2>2, <1>0, <1>e, <1>k DEF StateKept
<1>5. ASSUME NEW c \in Calls, DeleteCloseFails(c) \/ StartDone(c) \/ DeleteRow(c)
      PROVE  DownInv'
  <2>1. /\ Finish(c) /\ UNCHANGED <<proc, stopping, rs, leaked, engine, est>>
        /\ task[c].op = "start" => task[c].pc = "init"
        /\ task[c].op # "reconnect"
        /\ LastStatus' = LastStatus \/ LastStatus' = "gone"
    BY <1>5 DEF DeleteCloseFails, StartDone, DeleteRow, LastStatus
  <2>2. Keeps
    BY <2>1, <1>0, <1>f
  <2> QED
    BY <2>1, <2>2, <1>0, <1>d, <1>k DEF StateKept
<1>c. ASSUME ConsumeTimer
      PROVE  /\ rs'.on = rs.on /\ (rs'.armed => rs'.on)
             /\ rs.on \/ leaked > 0
  BY <1>0, <1>c DEF ConsumeTimer, StateKept, ReconnectState
<1>6. ASSUME TimerIgnored
      PROVE  DownInv'
  <2>1. stopping' /\ (rs'.armed => rs'.on)
    BY <1>6, <1>c DEF TimerIgnored
  <2> QED
    BY <2>1, <1>0, <1>e DEF StateKept
<1>7. ASSUME NEW r \in Reconnects, TimerFires(r)
      PROVE  DownInv'
  <2> DEFINE new == [op |-> "reconnect", pc |-> "close", eng |-> engine, clean |-> FALSE]
  <2>1. /\ task' = [task EXCEPT ![r] = new] /\ UNCHANGED <<proc, stopping, engine>>
        /\ task[r] = Idle /\ engine # None /\ ConsumeTimer
    BY <1>7 DEF TimerFires
  <2>2. /\ \A u \in Tasks : task'[u] = IF u = r THEN new ELSE task[u]
        /\ new.op = "reconnect" /\ new.pc = "close" /\ new.eng = engine
    BY <2>1, <1>0
  <2> HIDE DEF new
  <2>3. DropHandled'
    BY <2>1, <2>2, <1>0 DEF DropHandled
  <2>4. StateKept'
    BY <2>1, <2>2, <1>0, <1>c DEF StateKept, Hooked
  <2> QED
    BY <2>3, <2>4, <1>0
<1>8. ASSUME NEW r \in Reconnects, NEW e \in Engines, TimerFiresBare(r, e)
      PROVE  DownInv'
  <2>1. /\ InitializeEngine(r, "reconnect", e, writes, {}) /\ task[r] = Idle
        /\ ConsumeTimer /\ UNCHANGED <<proc, stopping>>
    BY <1>8 DEF TimerFiresBare
  <2>2. DropHandled' /\ (Hooked => Hooked')
    BY <2>1, <1>0, <1>n
  <2>3. StateKept'
    BY <2>1, <2>2, <1>0, <1>c DEF StateKept
  <2> QED
    BY <2>2, <2>3, <1>0
<1>9. ASSUME NEW r \in Reconnects, NEW e \in Engines, OldEngineClosed(r, e)
      PROVE  DownInv'
  <2>1. /\ InitializeEngine(r, "reconnect", e, PutClosed(writes, task[r].eng), {task[r].eng})
        /\ task[r].op = "reconnect" /\ UNCHANGED <<proc, stopping, rs>>
    BY <1>9 DEF OldEngineClosed
  <2>2. DropHandled' /\ (Hooked => Hooked')
    BY <2>1, <1>0, <1>n
  <2>3. StateKept'
    BY <2>1, <2>2, <1>0, <1>i DEF StateKept
  <2> QED
    BY <2>2, <2>3, <1>0
<1>10. ASSUME NEW r \in Reconnects, ReconnectCloseFails(r)
       PROVE  DownInv'
  <2>1. /\ Finish(r) /\ task[r].op = "reconnect" /\ ScheduleReconnect(writes, err)
        /\ UNCHANGED <<proc, stopping, engine, row>>
    BY <1>10 DEF ReconnectCloseFails
  <2>2. Hooked => Hooked'
    BY <2>1, <1>0, <1>f DEF Hooked
  <2>3. /\ rs'.on = rs.on /\ (rs'.armed => rs'.on)
        /\ rs.on => rs'.armed \/ LastStatus' = "FAILED"
    BY <2>1, <1>0, ScheduleEffect DEF StateKept
  <2>4. StateKept'
    BY <2>1, <2>2, <2>3, <1>i DEF StateKept
  <2>5. DropHandled'
    BY <2>1, <2>2, <2>3, <1>i DEF DropHandled
  <2> QED
    BY <2>4, <2>5, <1>0
<1>11. ASSUME NEW r \in Reconnects, ReconnectDone(r)
       PROVE  DownInv'
  <2> DEFINE new == IF stopping /\ engine # None
                    THEN [op |-> "reconnect", pc |-> "undo", eng |-> engine, clean |-> FALSE]
                    ELSE Idle
  <2>1. /\ task' = [task EXCEPT ![r] = new] /\ task[r].op = "reconnect" /\ task[r].pc = "init"
        /\ UNCHANGED <<proc, row, est, writes, stopping, engine, rs, leaked>>
    BY <1>11 DEF ReconnectDone
  <2>2. \A u \in Tasks : task'[u] = IF u = r THEN new ELSE task[u]
    BY <2>1, <1>0
  <2> HIDE DEF new
  <2>3. Keeps
    BY <2>1, <2>2
  <2> QED
    BY <2>1, <2>3, <1>0, <1>d, <1>k DEF StateKept, LastStatus
<1>12. ASSUME NEW r \in Reconnects, UndoClosed(r)
       PROVE  DownInv'
  <2>1. /\ Finish(r) /\ task[r].op = "reconnect" /\ engine' = None
        /\ UNCHANGED <<proc, stopping, rs, leaked>>
    BY <1>12 DEF UndoClosed
  <2>2. \A t \in Tasks : /\ task[t].op = "start" /\ task[t].pc = "hook" => task'[t] = task[t]
                         /\ task'[t].op = "reconnect" => task[t].op = "reconnect"
    BY <2>1, <1>0, <1>f
  <2> QED
    BY <2>1, <2>2, <1>0, <1>e, <1>k DEF StateKept
<1>13. ASSUME NEW t \in Tasks, InitFails(t)
       PROVE  DownInv'
  <2> DEFINE ws == Put(writes, "FAILED")
  <2>1. /\ Finish(t) /\ task[t].pc = "init" /\ UNCHANGED <<proc, stopping, engine>>
        /\ \/ ScheduleReconnect(ws, TRUE)
           \/ UNCHANGED <<rs, leaked>> /\ writes' = ws
    BY <1>13 DEF InitFails
  <2>2. ws \in Seq(Write) /\ (writes' = ws => LastStatus' = "FAILED")
    BY <1>0, PutKeeps, LastWritten
  <2> HIDE DEF ws
  <2>3. /\ LastStatus' = "FAILED" /\ rs'.on = rs.on /\ (rs'.armed => rs'.on)
        /\ ~rs.on => leaked' = leaked
    BY <2>1, <2>2, <1>0, ScheduleEffect DEF StateKept
  <2>4. Keeps
    BY <2>1, <1>0, <1>f
  <2> QED
    BY <2>1, <2>3, <2>4, <1>0, <1>e, <1>k
<1>14. ASSUME NEW e \in Engines,
              \/ EnginePairing(e) \/ EngineReady(e) \/ EngineRedials(e) \/ EngineFails(e)
       PROVE  DownInv'
  <2>1. \E s \in Statuses \ {"DISCONNECTED"} : writes' = Put(writes, s)
    BY <1>0, <1>14 DEF EnginePairing, EngineReady, EngineRedials, EngineFails
  <2>2. LastStatus' # "DISCONNECTED"
    BY <2>1, <1>0, LastWritten
  <2>3. /\ UNCHANGED <<task, proc, stopping, engine, leaked>>
        /\ rs'.on = rs.on /\ rs'.armed = rs.armed
    BY <1>0, <1>14
    DEF EnginePairing, EngineReady, EngineRedials, EngineFails, EngineReports, ReconnectState
  <2> QED
    BY <2>2, <2>3, <1>0, <1>e, <1>k DEF StateKept
<1>15. ASSUME NEW e \in Engines, EngineDrops(e)
       PROVE  DownInv'
  <2> DEFINE ws == Put(writes, "DISCONNECTED")
  <2>1. ScheduleReconnect(ws, err) /\ UNCHANGED <<task, proc, stopping, engine>>
    BY <1>15 DEF EngineDrops, EngineReports
  <2>2. ws \in Seq(Write)
    BY <1>0, PutKeeps
  <2> HIDE DEF ws
  <2>3. /\ rs'.on = rs.on /\ (rs'.armed => rs'.on)
        /\ ~rs.on => leaked' = leaked
        /\ rs.on => rs'.armed \/ LastStatus' = "FAILED"
    BY <2>1, <2>2, <1>0, ScheduleEffect DEF StateKept
  <2>4. StateKept'
    BY <2>1, <2>3, <1>0, <1>k
  <2>5. DropHandled'
    BY <2>1, <2>3 DEF StateKept, DropHandled, Hooked
  <2> QED
    BY <2>4, <2>5, <1>0
<1>16. ASSUME NEW i \in 1..Len(writes), ApplyWrite(i)
       PROVE  DownInv'
  <2> DEFINE t == writes[i].by
  <2>1. /\ t \in Tasks \cup {None} /\ (t # None => task[t].pc = "mark")
        /\ UNCHANGED <<engine, stopping, proc, rs, leaked>>
    <3>1. writes[i].by \in Tasks \cup {None}
      BY <1>0, RemoveTyped DEF TypeOK, Write
    <3> QED
      BY <3>1, <1>0, <1>16 DEF ApplyWrite, FlowInv, Awaiting, Awaited
  <2>2. \/ UNCHANGED task
        \/ t # None /\ task' = [task EXCEPT ![t].pc = "init"]
        \/ t # None /\ task' = [task EXCEPT ![t] = Idle]
    BY <1>16 DEF ApplyWrite
  <2> HIDE DEF t
  <2>3. Keeps
    <3>1. CASE UNCHANGED task
      BY <3>1
    <3>2. CASE t # None /\ task' = [task EXCEPT ![t].pc = "init"]
      <4>1. \A u \in Tasks : /\ u # t => task'[u] = task[u]
                             /\ task'[u].op = task[u].op
        BY <3>2, <1>0
      <4> QED
        BY <4>1, <3>2, <2>1
    <3>3. CASE t # None /\ task' = [task EXCEPT ![t] = Idle]
      <4>1. \A u \in Tasks : task'[u] = IF u = t THEN Idle ELSE task[u]
        BY <3>3, <1>0
      <4> QED
        BY <4>1, <3>3, <2>1, <1>0
    <3> QED
      BY <3>1, <3>2, <3>3, <2>2
  <2>4. StateKept'
    BY <2>1, <2>3, <1>0, <1>k DEF StateKept
  <2>5. CASE LastStatus' \in {"gone", "INITIALIZING"}
    BY <2>4, <2>5, <1>0, <1>e
  <2>6. CASE LastStatus' = LastStatus /\ UNCHANGED est
    BY <2>1, <2>3, <2>4, <2>6, <1>0, <1>d
  <2> QED
    BY <2>5, <2>6, <1>0, <1>16, LastApplied
<1>17. ASSUME Shutdown \/ ShutdownClosed \/ ShutdownCloseFails
       PROVE  DownInv'
  <2>1. proc' = "closing" /\ (rs' = NoState \/ rs' = rs)
    BY <1>17 DEF Shutdown, ShutdownClosed, ShutdownCloseFails
  <2> QED
    BY <2>1, <1>0 DEF StateKept, DropHandled
<1>18. ASSUME ProcessEnds
       PROVE  DownInv'
  <2>1. /\ engine' = None /\ leaked' = 0 /\ rs' = NoState
        /\ \A t \in Tasks : task'[t].op = "idle"
    BY <1>0, <1>18 DEF ProcessEnds
  <2> QED
    BY <2>1, <1>0, <1>e DEF StateKept
<1>19. ASSUME BootDone \/ UNCHANGED vars
       PROVE  DownInv'
  BY <1>0, <1>19, <1>d, <1>k DEF BootDone, vars, StateKept, LastStatus
<1>20. ASSUME NEW c \in Calls, Boot(c)
       PROVE  DownInv'
  <2>1. CASE BeginStart(c)
    BY <2>1, <1>1, <1>20 DEF Boot
  <2>2. CASE UNCHANGED task
    BY <2>2, <1>0, <1>20, <1>e DEF Boot, Quiescent, StateKept
  <2> QED
    BY <2>1, <2>2, <1>20 DEF Boot
<1>21. ASSUME NEW c \in Calls, StartCall(c) \/ StopCall(c) \/ DeleteCall(c)
       PROVE  DownInv'
  BY <1>1, <1>3, <1>21 DEF StartCall, StopCall, DeleteCall
<1> QED
  BY <1>2, <1>4, <1>5, <1>6, <1>7, <1>8, <1>9, <1>10, <1>11, <1>12, <1>13, <1>14, <1>15, <1>16,
     <1>17, <1>18, <1>19, <1>20, <1>21
  DEF Next, ApiStep, ReconnectStep, EngineStep, ProcessStep

(* With one database connection, a session whose engine lost its connection *)
(* is not left DISCONNECTED unless a teardown marked it: a timer is pending *)
(* or the row says FAILED - however the calls and the reconnects overlap.   *)
THEOREM DropsFollowedUp == OrderedWrites => (Spec => []NeverStuckDown)
<1> SUFFICES ASSUME OrderedWrites PROVE Spec => []NeverStuckDown
  OBVIOUS
<1>1. Init => DownInv
  BY InitFlows DEF Init, DownInv, Quiescent, StateKept, DropHandled, NoState, Idle, Tasks
<1>2. DownInv /\ [Next]_vars => DownInv'
  BY DownStep
<1>3. DownInv => NeverStuckDown
  <2> SUFFICES ASSUME DownInv, NothingInFlight PROVE NeverStuckDown
    BY DEF NeverStuckDown
  <2>1. ~Hooked /\ \A r \in Reconnects : task[r].op # "reconnect"
    BY DEF NothingInFlight, Hooked, Idle, Tasks
  <2> QED
    BY <2>1 DEF DownInv, DropHandled, LastStatus, NeverStuckDown
<1> QED
  BY <1>1, <1>2, <1>3, PTL DEF Spec

-----------------------------------------------------------------------------
(* One engine at a time.                                                   *)

(* Only the end of the process forgets that calls overlapped.               *)
LEMMA OverlapLasts ==
  ASSUME TypeOK, [Next]_vars, ~ProcessEnds, ~overlap'
  PROVE  ~overlap
<1>0. overlap \in BOOLEAN
  BY DEF TypeOK
<1>1. ASSUME NEW ws, NEW er, ScheduleReconnect(ws, er) PROVE ~overlap
  BY <1>0, <1>1 DEF ScheduleReconnect
<1>2. CASE UNCHANGED vars
  BY <1>2 DEF vars
<1>3. CASE ApiStep
  BY <1>3 DEF ApiStep, StartCall, StopCall, StopClosed, StopCloseFails, StartDone, DeleteCall,
       DeleteClosed, DeleteCloseFails, DeleteRow, StartHookDone, Teardown
<1>4. CASE ReconnectStep
  BY <1>1, <1>4 DEF ReconnectStep, TimerIgnored, TimerFires, ReconnectCloseFails, ReconnectDone,
       UndoClosed, TimerFiresBare, OldEngineClosed
<1>5. CASE EngineStep
  BY <1>1, <1>5 DEF EngineStep, InitFails, EnginePairing, EngineReady, EngineRedials, EngineDrops,
       EngineFails, EngineReports
<1>6. CASE ProcessStep
  BY <1>6 DEF ProcessStep, Shutdown, ShutdownClosed, ShutdownCloseFails, BootDone, Boot
<1>7. CASE \E i \in 1..Len(writes) : ApplyWrite(i)
  BY <1>7 DEF ApplyWrite
<1> QED
  BY <1>2, <1>3, <1>4, <1>5, <1>6, <1>7 DEF Next

LEMMA OneStep ==
  ASSUME OneInv, [Next]_vars
  PROVE  OneInv'
<1> USE DEF OneInv
<1>0. /\ FlowInv /\ FlowInv' /\ Quiescent /\ Quiescent' /\ TypeOK /\ TypeOK'
      /\ TaskShape /\ TaskShape'
      /\ Calls \subseteq Tasks /\ Reconnects \subseteq Tasks /\ Calls \cap Reconnects = {}
      /\ None \notin Tasks \cup Engines
      /\ task \in [Tasks -> Task] /\ est \in [Engines -> EngineStates] /\ writes \in Seq(Write)
      /\ leaked \in Nat /\ rs \in ReconnectState /\ engine \in Engines \cup {None}
      /\ overlap \in BOOLEAN
      /\ Idle.op = "idle" /\ Idle.pc = "none" /\ NoState.on = FALSE /\ NoState.armed = FALSE
  BY FlowStep, QuiescentStep, ConstantsAssumption DEF FlowInv, Inv, TypeOK, Tasks, Idle, NoState
<1>p. CASE ProcessEnds
  <2>1. /\ \A t \in Tasks : task'[t].op = "idle" /\ task'[t].pc = "none"
        /\ \A e \in Engines : est'[e] \notin Live
        /\ rs' = NoState /\ leaked' = 0
    BY <1>0, <1>p DEF ProcessEnds, Live
  <2>2. Orderly'
    BY <2>1, <1>0
    DEF Orderly, Alone, Preparing, TimerAlone, Unstopped, Registered, AtMostOne, IsLive
  <2> QED
    BY <2>2, <1>0
<1> SUFFICES ASSUME ~ProcessEnds, ~overlap' PROVE Orderly'
  BY <1>0, <1>p
<1>o. ~overlap /\ Orderly
  BY <1>0, OverlapLasts
<1> USE DEF Orderly
(* The three shapes a step takes: it leaves the tasks alone, ends the only  *)
(* one, or begins one when there is none.                                   *)
<1>g. ASSUME \A e \in Engines : est'[e] \in Live => est[e] \in Live,
             UNCHANGED <<task, stopping, engine, leaked>>,
             proc' = proc \/ (proc = "booting" /\ proc' = "up"),
             rs'.on = rs.on, rs'.armed => rs.armed
      PROVE  Orderly'
  BY <1>0, <1>o, <1>g
  DEF Alone, Preparing, TimerAlone, Unstopped, Registered, AtMostOne, IsLive
<1>h. ASSUME \A t \in Tasks : task'[t].op = "idle",
             \A e \in Engines : est'[e] \in Live => est[e] \in Live,
             UNCHANGED <<engine, proc, leaked>>, rs'.on = rs.on,
             rs'.armed => rs.armed \/ (rs.on /\ \A e \in Engines : est'[e] \notin Live)
      PROVE  Orderly'
  <2>1. \A t \in Tasks : task'[t].pc = "none"
    BY <1>0, <1>h DEF TaskShape
  <2> QED
    BY <2>1, <1>0, <1>o, <1>h
    DEF Alone, Preparing, TimerAlone, Unstopped, Registered, AtMostOne, IsLive
<1>i. ASSUME NothingInFlight
      PROVE  \A t \in Tasks : task[t].op = "idle" /\ task[t].pc = "none"
  BY <1>0, <1>i DEF NothingInFlight
<1>j. ASSUME NEW t \in Tasks, task[t].op # "idle"
      PROVE  \A u \in Tasks : u # t => task[u].op = "idle" /\ task[u].pc = "none"
  BY <1>0, <1>o, <1>j DEF Alone, TaskShape
<1>f. ASSUME NEW t \in Tasks, task[t].op # "idle", Finish(t)
      PROVE  \A u \in Tasks : task'[u].op = "idle"
  BY <1>0, <1>f, <1>j DEF Finish
<1>1. ASSUME NEW c \in Calls, BeginStart(c), \A t \in Tasks : task[t].op = "idle",
             \A e \in Engines : est'[e] \notin Live, engine' = None, ~rs'.on, ~rs'.armed, leaked' = 0
      PROVE  Orderly'
  <2>1. /\ task'[c].op = "start" /\ task'[c].pc = "hook"
        /\ \A u \in Tasks : u # c => task'[u].op = "idle"
    BY <1>0, <1>1 DEF BeginStart, Idle, Task
  <2>2. \A u \in Tasks : u # c => task'[u].pc = "none"
    BY <2>1, <1>0 DEF TaskShape
  <2> QED
    BY <2>1, <2>2, <1>1
    DEF Alone, Preparing, TimerAlone, Unstopped, Registered, AtMostOne, IsLive
<1>2. ASSUME NEW t \in Tasks, NEW op \in {"start", "reconnect"}, NEW e \in Engines, NEW ws,
             NEW closed, InitializeEngine(t, op, e, ws, closed),
             \A u \in Tasks : u # t => task[u].op = "idle" /\ task[u].pc = "none",
             \A x \in Engines : est[x] \notin Live,
             ~rs'.armed, leaked' = 0, op = "reconnect" => ~stopping'
      PROVE  Orderly'
  <2> DEFINE new == [op |-> op, pc |-> "mark", eng |-> e, clean |-> FALSE]
  <2>1. task' = [task EXCEPT ![t] = new] /\ engine' = e /\ engine' # None
    BY <1>0, <1>2 DEF InitializeEngine
  <2>2. /\ \A u \in Tasks : task'[u] = IF u = t THEN new ELSE task[u]
        /\ new.op = op /\ new.pc = "mark" /\ new.eng = e
    BY <2>1, <1>0
  <2> HIDE DEF new
  <2>3. \A x \in Engines : est'[x] \notin Live
    BY <1>0, <1>2 DEF InitializeEngine, Live
  <2> QED
    BY <2>1, <2>2, <2>3, <1>2
    DEF Alone, Preparing, TimerAlone, Unstopped, Registered, AtMostOne, IsLive
<1>3. ASSUME NEW c \in Calls, StartCall(c)
      PROVE  Orderly'
  <2>1. /\ NothingInFlight /\ leaked' = leaked /\ BeginStart(c) /\ engine = None
        /\ UNCHANGED <<engine, est, rs>> /\ proc = "up"
    BY <1>3 DEF StartCall, BeginStart
  <2>2. leaked = 0 /\ ~rs.on /\ ~rs.armed /\ \A e \in Engines : est[e] \notin Live
    BY <2>1, <1>0, <1>o DEF TimerAlone, Registered, IsLive
  <2> QED
    BY <2>1, <2>2, <1>1, <1>i
<1>4. ASSUME NEW c \in Calls, NEW e \in Engines, StartHookDone(c, e)
      PROVE  Orderly'
  <2>1. /\ InitializeEngine(c, "start", e, writes, {}) /\ ~rs'.armed
        /\ task[c].op = "start" /\ task[c].pc = "hook"
        /\ leaked' = IF rs.armed THEN leaked + 1 ELSE leaked
    BY <1>4 DEF StartHookDone
  <2>2. ~rs.armed /\ leaked = 0 /\ \A x \in Engines : est[x] \notin Live
    BY <2>1, <1>0, <1>o DEF TimerAlone, Preparing, IsLive
  <2> QED
    BY <2>1, <2>2, <1>0, <1>2, <1>j
<1>5. ASSUME NEW c \in Calls, NEW op \in {"stop", "delete"}, NEW next \in {"mark", "hook"},
             Teardown(c, op, next)
      PROVE  Orderly'
  <2> DEFINE new == [op |-> op, pc |-> IF engine = None THEN next ELSE "close",
                     eng |-> engine, clean |-> ~Running("start")]
  <2>1. /\ task' = [task EXCEPT ![c] = new] /\ NothingInFlight /\ rs' = NoState
        /\ UNCHANGED <<proc, engine, est, leaked>>
    BY <1>5 DEF Teardown
  <2>2. /\ \A u \in Tasks : task'[u] = IF u = c THEN new ELSE task[u]
        /\ new.op = op /\ new.eng = engine
    BY <2>1, <1>0
  <2> HIDE DEF new
  <2> QED
    BY <2>1, <2>2, <1>0, <1>i, <1>o
    DEF Alone, Preparing, TimerAlone, Unstopped, Registered, AtMostOne, IsLive
<1>6. ASSUME NEW c \in Calls, StopClosed(c) \/ DeleteClosed(c)
      PROVE  Orderly'
  <2>1. /\ engine' = None /\ UNCHANGED <<proc, stopping, rs, leaked>>
        /\ task[c].pc = "close" /\ task[c].op \in {"stop", "delete"}
        /\ est' = [est EXCEPT ![task[c].eng] = "closed"]
        /\ Goto(c, "mark") \/ Goto(c, "hook")
    BY <1>6 DEF StopClosed, DeleteClosed
  <2>2. /\ \A u \in Tasks : u # c => task'[u].op = "idle" /\ task'[u].pc = "none"
        /\ task'[c].op = task[c].op /\ task'[c].pc # "close"
    BY <2>1, <1>0, <1>j DEF Goto
  <2>3. ~rs.on /\ ~rs.armed
    BY <2>1, <1>0, <1>o DEF Unstopped, TimerAlone
  <2>4. \A e \in Engines : /\ est'[e] \in Live => est[e] \in Live
                           /\ e = task[c].eng => est'[e] \notin Live
    BY <2>1, <1>0 DEF Live
  <2>5. proc # "closing" => \A e \in Engines : est'[e] \notin Live
    BY <2>1, <2>4, <1>0, <1>o DEF Registered, IsLive
  <2>6. AtMostOne'
    BY <2>4, <1>o DEF AtMostOne, IsLive
  <2> QED
    BY <2>1, <2>2, <2>3, <2>5, <2>6, <1>o
    DEF Alone, Preparing, TimerAlone, Unstopped, Registered, IsLive
<1>7. ASSUME NEW c \in Calls, DeleteCloseFails(c) \/ DeleteRow(c) \/ StartDone(c)
      PROVE  Orderly'
  <2>1. /\ Finish(c) /\ task[c].op # "idle"
        /\ UNCHANGED <<proc, engine, est, rs, leaked>>
    BY <1>7 DEF DeleteCloseFails, DeleteRow, StartDone
  <2> QED
    BY <2>1, <1>0, <1>f, <1>h
<1>t. ASSUME ConsumeTimer
      PROVE  /\ rs.armed /\ rs'.on = rs.on /\ ~rs'.armed /\ leaked' = 0 /\ UNCHANGED leaked
             /\ \A e \in Engines : est[e] \notin Live
  <2>1. leaked = 0
    BY <1>o DEF TimerAlone
  <2>2. rs.armed /\ rs' = [rs EXCEPT !.armed = FALSE] /\ UNCHANGED leaked
    BY <2>1, <1>t DEF ConsumeTimer
  <2>3. rs'.on = rs.on /\ rs'.armed = FALSE
    BY <2>2, <1>0 DEF ReconnectState
  <2> QED
    BY <2>1, <2>2, <2>3, <1>o DEF TimerAlone, IsLive
<1>8. ASSUME TimerIgnored
      PROVE  Orderly'
  BY <1>8, <1>g, <1>t DEF TimerIgnored
<1>9. ASSUME NEW r \in Reconnects, TimerFires(r)
      PROVE  Orderly'
  <2> DEFINE new == [op |-> "reconnect", pc |-> "close", eng |-> engine, clean |-> FALSE]
  <2>1. /\ task' = [task EXCEPT ![r] = new] /\ NothingInFlight /\ ConsumeTimer
        /\ UNCHANGED <<proc, engine, est, stopping>> /\ ~stopping /\ engine # None
    BY <1>9 DEF TimerFires
  <2>2. /\ \A u \in Tasks : task'[u] = IF u = r THEN new ELSE task[u]
        /\ new.op = "reconnect" /\ new.pc = "close" /\ new.eng = engine
    BY <2>1, <1>0
  <2> HIDE DEF new
  <2> QED
    BY <2>1, <2>2, <1>0, <1>i, <1>o, <1>t
    DEF Alone, Preparing, TimerAlone, Unstopped, Registered, AtMostOne, IsLive
<1>10. ASSUME NEW r \in Reconnects, NEW e \in Engines, TimerFiresBare(r, e)
       PROVE  Orderly'
  <2>1. /\ InitializeEngine(r, "reconnect", e, writes, {}) /\ NothingInFlight /\ ConsumeTimer
        /\ ~stopping'
    BY <1>10 DEF TimerFiresBare
  <2> QED
    BY <2>1, <1>0, <1>2, <1>i, <1>t
<1>11. ASSUME NEW r \in Reconnects, NEW e \in Engines, OldEngineClosed(r, e)
       PROVE  Orderly'
  <2>1. /\ InitializeEngine(r, "reconnect", e, PutClosed(writes, task[r].eng), {task[r].eng})
        /\ task[r].op = "reconnect" /\ task[r].pc = "close"
        /\ UNCHANGED <<stopping, rs, leaked>>
    BY <1>11 DEF OldEngineClosed
  <2>2. /\ ~rs.armed /\ leaked = 0 /\ ~stopping /\ \A x \in Engines : est[x] \notin Live
    BY <2>1, <1>0, <1>o DEF TimerAlone, Preparing, Unstopped, IsLive
  <2> QED
    BY <2>1, <2>2, <1>0, <1>2, <1>j
<1>s. ASSUME NEW ws, NEW er, ScheduleReconnect(ws, er)
      PROVE  /\ rs'.on = rs.on /\ leaked' = leaked
             /\ rs'.armed => rs.armed \/ rs.on
  <2>1. CASE ~rs.on \/ rs.attempts >= MaxAttempts
    BY <2>1, <1>s DEF ScheduleReconnect
  <2>2. CASE rs.on /\ ~(rs.attempts >= MaxAttempts)
    <3>1. /\ rs'.on = TRUE /\ overlap' = (overlap \/ rs.armed)
          /\ leaked' = IF rs.armed THEN leaked + 1 ELSE leaked
      BY <2>2, <1>s DEF ScheduleReconnect
    <3>2. ~rs.armed /\ rs.on = TRUE
      BY <3>1, <2>2, <1>0 DEF ReconnectState
    <3> QED
      BY <3>1, <3>2
  <2> QED
    BY <2>1, <2>2
<1>12. ASSUME NEW r \in Reconnects, ReconnectCloseFails(r)
       PROVE  Orderly'
  <2>1. /\ Finish(r) /\ task[r].op = "reconnect" /\ task[r].pc \in {"close", "undo"}
        /\ UNCHANGED <<proc, engine, est>> /\ ScheduleReconnect(writes, err)
    BY <1>12 DEF ReconnectCloseFails
  <2>2. \A e \in Engines : est[e] \notin Live
    BY <2>1, <1>0, <1>o DEF Preparing, Unstopped, IsLive
  <2> QED
    BY <2>1, <2>2, <1>0, <1>f, <1>h, <1>s
<1>13. ASSUME NEW r \in Reconnects, ReconnectDone(r)
       PROVE  Orderly'
  <2>1. /\ task[r].op = "reconnect" /\ UNCHANGED <<proc, engine, est, rs, leaked>>
        /\ task' = [task EXCEPT ![r] = IF stopping /\ engine # None
                       THEN [op |-> "reconnect", pc |-> "undo", eng |-> engine, clean |-> FALSE]
                       ELSE Idle]
    BY <1>13 DEF ReconnectDone
  <2>2. ~stopping
    BY <2>1, <1>0, <1>o DEF Unstopped
  <2>3. Finish(r)
    BY <2>1, <2>2 DEF Finish
  <2> QED
    BY <2>1, <2>3, <1>0, <1>f, <1>h
<1>14. ASSUME NEW r \in Reconnects
       PROVE  ~UndoClosed(r)
  BY <1>0, <1>o DEF UndoClosed, Unstopped
<1>15. ASSUME NEW t \in Tasks, InitFails(t)
       PROVE  Orderly'
  <2>1. /\ Finish(t) /\ task[t].pc = "init" /\ UNCHANGED <<proc, engine>>
        /\ est' = [est EXCEPT ![task[t].eng] = IF @ = "closed" THEN @ ELSE "failed"]
        /\ ScheduleReconnect(Put(writes, "FAILED"), TRUE) \/ UNCHANGED <<rs, leaked>>
    BY <1>15 DEF InitFails
  <2>2. task[t].op \in {"start", "reconnect"}
    BY <2>1, <1>0 DEF TaskShape, Task
  <2>3. \A e \in Engines : est'[e] \notin Live
    <3> TAKE e \in Engines
    <3>1. est[e] \in Live => e = task[t].eng
      BY <2>1, <2>2, <1>o DEF Preparing, IsLive
    <3> QED
      BY <3>1, <2>1, <1>0 DEF Live
  <2>4. /\ rs'.on = rs.on /\ leaked' = leaked
        /\ rs'.armed => rs.armed \/ rs.on
    BY <2>1, <1>s
  <2> QED
    BY <2>1, <2>2, <2>3, <2>4, <1>f, <1>h
<1>16. ASSUME NEW e \in Engines,
              \/ EnginePairing(e) \/ EngineReady(e) \/ EngineRedials(e) \/ EngineFails(e)
       PROVE  Orderly'
  <2>1. /\ est[e] \in Live /\ UNCHANGED <<task, proc, stopping, engine, leaked>>
        /\ \E to : est' = [est EXCEPT ![e] = to]
        /\ rs' = rs \/ rs' = [rs EXCEPT !.attempts = 0]
    BY <1>16 DEF EnginePairing, EngineReady, EngineRedials, EngineFails, EngineReports, Live
  <2>2. rs'.on = rs.on /\ rs'.armed = rs.armed
    BY <2>1, <1>0 DEF ReconnectState
  <2>3. \A x \in Engines : est'[x] \in Live => est[x] \in Live
    BY <2>1, <1>0
  <2> QED
    BY <2>1, <2>2, <2>3, <1>g
<1>17. ASSUME NEW e \in Engines, EngineDrops(e)
       PROVE  Orderly'
  <2>1. /\ est[e] \in Live /\ est' = [est EXCEPT ![e] = "down"]
        /\ UNCHANGED <<task, proc, stopping, engine>>
        /\ ScheduleReconnect(Put(writes, "DISCONNECTED"), err)
    BY <1>17 DEF EngineDrops, EngineReports
  <2>2. \A x \in Engines : est'[x] \notin Live
    <3> TAKE x \in Engines
    <3>1. est[x] \in Live => x = e
      BY <2>1, <1>o DEF AtMostOne, IsLive
    <3> QED
      BY <3>1, <2>1, <1>0 DEF Live
  <2>3. \A t \in Tasks : task[t].op \in {"start", "reconnect"} => task[t].pc = "init"
    BY <2>1, <1>o DEF Preparing, IsLive
  <2>4. rs'.on = rs.on /\ leaked' = leaked /\ (rs'.armed => rs.on)
    BY <2>1, <1>o, <1>s DEF TimerAlone
  <2> QED
    BY <2>1, <2>2, <2>3, <2>4, <1>0, <1>o
    DEF Alone, Preparing, TimerAlone, Unstopped, Registered, AtMostOne, IsLive
<1>18. ASSUME NEW i \in 1..Len(writes), ApplyWrite(i)
       PROVE  Orderly'
  <2> DEFINE t == writes[i].by
  <2>1. /\ t \in Tasks \cup {None} /\ (t # None => task[t].pc = "mark")
        /\ UNCHANGED <<engine, stopping, proc, rs, leaked>>
    <3>1. writes[i].by \in Tasks \cup {None}
      BY <1>0, RemoveTyped DEF TypeOK, Write
    <3> QED
      BY <3>1, <1>0, <1>18 DEF ApplyWrite, FlowInv, Awaiting, Awaited
  <2> HIDE DEF t
  <2>2. CASE t = None
    <3>1. UNCHANGED <<task, est>>
      BY <2>2, <1>18 DEF ApplyWrite, t
    <3> QED
      BY <3>1, <2>1, <1>g
  <2>3. CASE t # None /\ task[t].op = "stop"
    <3>1. Finish(t) /\ UNCHANGED est
      BY <2>3, <1>18 DEF ApplyWrite, Finish, t
    <3> QED
      BY <3>1, <2>1, <2>3, <1>f, <1>h
  <2>4. CASE t # None /\ task[t].op # "stop"
    <3>1. /\ task' = [task EXCEPT ![t].pc = "init"]
          /\ est' = [est EXCEPT ![task[t].eng] = "initializing"]
      BY <2>4, <1>18 DEF ApplyWrite, t
    <3>2. /\ t \in Tasks /\ task[t].op \in {"start", "reconnect"}
          /\ \A u \in Tasks : u # t => task'[u] = task[u] /\ task'[u].op = "idle" /\ task'[u].pc = "none"
          /\ task'[t].op = task[t].op /\ task'[t].pc = "init" /\ task'[t].eng = task[t].eng
      <4>1. t \in Tasks /\ task[t].op \in {"start", "reconnect"}
        BY <2>1, <2>4, <1>0 DEF TaskShape, Task
      <4> QED
        BY <4>1, <3>1, <1>0, <1>j
    <3>3. ~rs.armed /\ \A e \in Engines : est[e] \notin Live
      BY <3>2, <2>1, <2>4, <1>o DEF TimerAlone, Preparing, IsLive
    <3>4. \A e \in Engines : est'[e] \in Live => e = task[t].eng
      BY <3>1, <3>3, <1>0
    <3>5. proc # "closing" => task[t].eng = engine
      BY <3>2, <2>1, <2>4, <1>o DEF Registered
    <3>6. proc # "closing" /\ engine = None => ~rs.on
      BY <1>o DEF Registered
    <3>7. leaked = 0 /\ (task[t].op = "reconnect" => ~stopping)
      BY <3>2, <1>o DEF TimerAlone, Unstopped
    <3> QED
      BY <3>2, <3>3, <3>4, <3>5, <3>6, <3>7, <2>1
      DEF Alone, Preparing, TimerAlone, Unstopped, Registered, AtMostOne, IsLive
  <2> QED
    BY <2>2, <2>3, <2>4
<1>19. ASSUME Shutdown
       PROVE  Orderly'
  <2>1. rs' = NoState /\ proc' = "closing" /\ UNCHANGED <<task, est, stopping, engine, leaked>>
    BY <1>19 DEF Shutdown
  <2> QED
    BY <2>1, <1>0, <1>o
    DEF Alone, Preparing, TimerAlone, Unstopped, Registered, AtMostOne, IsLive
<1>20. ASSUME ShutdownClosed
       PROVE  Orderly'
  <2>1. /\ proc' = "closing" /\ UNCHANGED <<task, stopping, rs, leaked>>
        /\ est' = [est EXCEPT ![engine] = "closed"]
    BY <1>20 DEF ShutdownClosed
  <2>2. \A e \in Engines : est'[e] \in Live => est[e] \in Live
    BY <2>1, <1>0 DEF Live
  <2> QED
    BY <2>1, <2>2, <1>o
    DEF Alone, Preparing, TimerAlone, Unstopped, Registered, AtMostOne, IsLive
<1>24. ASSUME ShutdownCloseFails \/ \E c \in Calls : StopCloseFails(c)
       PROVE  FALSE
  BY <1>24 DEF ShutdownCloseFails, StopCloseFails
<1>21. ASSUME NEW c \in Calls, Boot(c)
       PROVE  Orderly'
  <2>1. /\ UNCHANGED <<engine, est, rs, leaked>> /\ engine = None /\ rs = NoState /\ leaked = 0
        /\ \A t \in Tasks : task[t].op = "idle" /\ task[t].pc = "none"
        /\ \A e \in Engines : est[e] \notin Live
    BY <1>0, <1>21 DEF Boot, Quiescent, TaskShape, Live
  <2>2. CASE BeginStart(c)
    BY <2>1, <2>2, <1>0, <1>1
  <2>3. CASE UNCHANGED task
    BY <2>1, <2>3, <1>0
    DEF Alone, Preparing, TimerAlone, Unstopped, Registered, AtMostOne, IsLive
  <2> QED
    BY <2>2, <2>3, <1>21 DEF Boot
<1>22. ASSUME BootDone \/ UNCHANGED vars
       PROVE  Orderly'
  BY <1>22, <1>g DEF BootDone, vars
<1>23. ASSUME NEW c \in Calls, StopCall(c) \/ DeleteCall(c)
       PROVE  Orderly'
  BY <1>5, <1>23 DEF StopCall, DeleteCall
<1> QED
  BY <1>3, <1>4, <1>6, <1>7, <1>8, <1>9, <1>10, <1>11, <1>12, <1>13, <1>14, <1>15, <1>16, <1>17,
     <1>18, <1>19, <1>20, <1>21, <1>22, <1>23, <1>24
  DEF Next, ApiStep, ReconnectStep, EngineStep, ProcessStep

(* Two engines of a session are connected at once only if calls, reconnects *)
(* or timers of the session overlapped - in any number of each -, or if a   *)
(* stop or a shutdown let go of an engine that would not close.             *)
THEOREM OneEngineAtATime == Spec => []OneEngineUnlessOverlap
<1>1. Init => OneInv
  BY InitFlows DEF Init, OneInv, Orderly, Quiescent, Alone, Preparing, TimerAlone, Unstopped,
       Registered, AtMostOne, IsLive, Live, NoState, Idle, Tasks
<1>2. OneInv /\ [Next]_vars => OneInv'
  BY OneStep
<1>3. OneInv => OneEngineUnlessOverlap
  <2> SUFFICES ASSUME OneInv, ~overlap
               PROVE  Cardinality({e \in Engines : est[e] \in Live}) <= 1
    BY DEF OneEngineUnlessOverlap
  <2> DEFINE S == {e \in Engines : est[e] \in Live}
  <2>1. \A e, f \in S : e = f
    BY DEF OneInv, Orderly, AtMostOne, IsLive
  <2>2. S = {} \/ \E e : S = {e}
    BY <2>1
  <2> HIDE DEF S
  <2>3. Cardinality(S) = 0 \/ Cardinality(S) = 1
    BY <2>2, FS_EmptySet, FS_Singleton
  <2> QED
    BY <2>3 DEF S
<1> QED
  BY <1>1, <1>2, <1>3, PTL DEF Spec
=============================================================================
