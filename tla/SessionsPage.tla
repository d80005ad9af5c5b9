------------------------------ MODULE SessionsPage -----------------------------
(***************************************************************************)
(* The dashboard's sessions page (Sessions.tsx over useWebSocket.ts): its   *)
(* list, written by the answers of the requests it makes and by the live    *)
(* events of the socket, and its QR dialog, written by the request that     *)
(* opens it and by a poll every 5 s.  A handler that ends writes the list   *)
(* it saw when it was clicked, changed in one place.  Of a session only its *)
(* status is kept, "down" being created, idle and disconnected, "starting"  *)
(* what it is until a QR was scanned; toasts, search and the other dialogs  *)
(* are left out.                                                           *)
(***************************************************************************)
EXTENDS Naturals, Sequences

CONSTANTS
  WaSessions,
  Requests,       \* bound: requests that may be under way at a time, from 1 on
  MaxMoves        \* bound: clicks, polls, changes at the gateway, lost connections

VARIABLES
  server,         \* the gateway's sessions
  sessions,       \* the page's list
  loading,        \* while it is set, nothing can be clicked
  socket,         \* the connection of useWebSocket
  events,         \* session.status events under way
  qrData,         \* the QR dialog
  currentName,    \* currentSessionName: the ref
  request,        \* what each request is for, and how far it is
  overtaken,      \* history: a handler undid a later change of the list
  missed,         \* history: the page was not told of a change since its last list
  mixed,          \* history: a dialog was opened while another session was polled for
  moves

sessionsPageVars == <<server, sessions, loading, socket, events, qrData, currentName, request,
                      overtaken, missed, mixed, moves>>

-----------------------------------------------------------------------------
(* A session that was deleted is "gone": another may have its name, not its *)
(* id.                                                                     *)
Statuses == {"absent", "down", "starting", "ready", "failed"}
Lists == [WaSessions -> Statuses]
Closed == [of |-> "none", name |-> ""]
Free == [kind |-> "free"]
Busy(r) == request[r] # Free
NextFree(r) == ~Busy(r) /\ \A k \in Requests : k < r => Busy(k)
PageKinds == {"fetch", "create", "delete", "start", "stop", "show", "poll"}

Request == [
  kind : PageKinds, of : WaSessions \cup {"none"}, then : {"none", "show", "showUnlessReady"},
  pc : {"asked", "answered", "checked"}, ok : BOOLEAN,
  list : Lists, touched : SUBSET WaSessions, stale : BOOLEAN]

TypeOK ==
  /\ server \in [WaSessions -> Statuses \cup {"gone"}] /\ sessions \in Lists /\ loading \in BOOLEAN
  /\ socket \in {"down", "subscribed"}
  /\ events \in Seq([of : WaSessions, status : Statuses])
  /\ qrData \in [of : WaSessions, name : WaSessions \cup {""}] \cup {Closed}
  /\ currentName \in WaSessions \cup {""}
  /\ request \in [Requests -> Request \cup {Free}]
  /\ \A r \in Requests :
       Busy(r) /\ (request[r].kind # "fetch" \/ request[r].then # "none") => request[r].of \in WaSessions
  /\ overtaken \in BOOLEAN /\ missed \in BOOLEAN /\ mixed \in BOOLEAN

Listed == [s \in WaSessions |-> IF server[s] = "gone" THEN "absent" ELSE server[s]]
First == CHOOSE s \in WaSessions : TRUE
Nothing == [s \in WaSessions |-> "absent"]
Handlers == {"create", "delete", "start", "stop"}

(* `list` is the list a handler was clicked in, or the one a fetch answers; *)
(* `then` what follows.  `touched` and `stale` are history: the sessions    *)
(* that the page wrote since that list was taken, and whether it missed a   *)
(* change since.                                                           *)
Asked(kind, s, then) ==
  [kind |-> kind, of |-> s, then |-> then, pc |-> "asked", ok |-> TRUE,
   list |-> IF kind \in Handlers THEN sessions ELSE Nothing, touched |-> {}, stale |-> FALSE]

HasList(q) == q # Free /\ (q.kind \in Handlers \/ (q.kind = "fetch" /\ q.pc = "answered"))

Touched(requests, written, lost) ==
  [r \in Requests |-> IF ~HasList(requests[r]) THEN requests[r]
     ELSE [requests[r] EXCEPT !.touched = @ \cup written, !.stale = @ \/ lost]]

(* The page is mounted: it fetches the list, and connects its socket.  (The *)
(* sessions are alike: the first of them stands for any.)                   *)
Init ==
  /\ \E st \in {"absent", "ready"} :
       server = [s \in WaSessions |-> IF s = First THEN st ELSE "down"]
  /\ sessions = Nothing /\ loading = TRUE
  /\ socket = "down" /\ events = <<>> /\ qrData = Closed /\ currentName = ""
  /\ request = [r \in Requests |-> IF r = 1 THEN Asked("fetch", "none", "none") ELSE Free]
  /\ overtaken = FALSE /\ missed = TRUE /\ mixed = FALSE /\ moves = 0

-----------------------------------------------------------------------------
Moves == moves < MaxMoves /\ moves' = moves + 1

(* A status changes at the gateway: the room is told, if the page is in it. *)
Tells(s, status, requests) ==
  /\ server' = [server EXCEPT ![s] = status]
  /\ IF socket = "subscribed"
     THEN events' = Append(events, [of |-> s, status |-> status]) /\ request' = requests
          /\ UNCHANGED missed
     ELSE missed' = TRUE /\ request' = Touched(requests, {}, TRUE) /\ UNCHANGED events

Follows == [starting |-> {"ready", "failed"}, ready |-> {"down", "failed"}]

ServerChanges(s, status) ==
  /\ Moves
  /\ server[s] \in DOMAIN Follows /\ status \in Follows[server[s]]
  /\ Tells(s, status, request)
  /\ UNCHANGED <<sessions, loading, socket, qrData, currentName, overtaken, mixed>>

(* useWebSocket: the connection, with the subscription once it is there, and *)
(* its loss, with the events under way.  Nothing is fetched again afterwards. *)
SocketMoves ==
  /\ \/ socket = "down" /\ socket' = "subscribed" /\ UNCHANGED <<events, missed, moves, request>>
     \/ /\ socket # "down" /\ Moves
        /\ socket' = "down" /\ events' = <<>>
        /\ missed' = (missed \/ events # <<>>)
        /\ request' = Touched(request, {}, events # <<>>)
  /\ UNCHANGED <<server, sessions, loading, qrData, currentName, overtaken, mixed>>

(* Mutant: the handler writes the status the session moves to, if it moves  *)
(* to one that is shown in colour.                                         *)
MutantColours(e) == IF e.status \in {"ready", "failed"} THEN [sessions EXCEPT ![e.of] = e.status] ELSE sessions

(* onSessionStatus, for a session in the list.                              *)
Applied(e) == IF sessions[e.of] = "absent" THEN sessions ELSE [sessions EXCEPT ![e.of] = e.status]

EventArrives ==
  /\ events # <<>> /\ events' = Tail(events)
  /\ sessions' = Applied(Head(events))
  /\ missed' = (missed \/ sessions[Head(events).of] = "absent")
  /\ LET lost == sessions[Head(events).of] = "absent"
         now == Touched(request, {Head(events).of}, lost)
     IN  IF Head(events).status = "failed"
         THEN \E r \in Requests :
                /\ NextFree(r) /\ loading' = TRUE
                /\ request' = [now EXCEPT ![r] = Asked("fetch", "none", "none")]
         ELSE request' = now /\ UNCHANGED loading
  /\ UNCHANGED <<server, socket, qrData, currentName, overtaken, mixed, moves>>

-----------------------------------------------------------------------------
(* What the user clicks.  The dialog covers the page.                       *)
Offered(kind, s) ==
  CASE kind = "create" -> sessions[s] = "absent"
    [] kind = "delete" -> sessions[s] # "absent"
    [] kind = "start"  -> sessions[s] \in {"down", "failed"}
    [] kind = "stop"   -> sessions[s] \in {"ready", "starting"}
    [] kind = "show"   -> sessions[s] = "starting"

PollsOther(s) == \E r \in Requests : Busy(r) /\ request[r].kind = "poll" /\ request[r].of # s
Opens(s) == qrData' = [of |-> s, name |-> s] /\ currentName' = s /\ mixed' = (mixed \/ PollsOther(s))

Clicks(r, kind, s) ==
  /\ Moves
  /\ NextFree(r) /\ ~loading /\ qrData = Closed /\ Offered(kind, s)
  /\ request' = [request EXCEPT ![r] = Asked(kind, s, "none")]
  /\ IF kind = "show" THEN Opens(s) ELSE UNCHANGED <<qrData, currentName, mixed>>
  /\ UNCHANGED <<server, sessions, loading, socket, events, overtaken, missed>>

(* The ref keeps its name.                                                  *)
Closes ==
  /\ qrData # Closed /\ ~loading /\ qrData' = Closed
  /\ UNCHANGED <<server, sessions, loading, socket, events, currentName, request, overtaken,
                 missed, mixed, moves>>

(* The interval of the dialog; it is not asked for a session that is READY. *)
PollTicks(r) ==
  /\ Moves /\ qrData # Closed /\ NextFree(r)
  /\ IF sessions[qrData.of] = "ready"
     THEN qrData' = Closed /\ currentName' = "" /\ UNCHANGED request
     ELSE /\ request' = [request EXCEPT ![r] = Asked("poll", qrData.of, "none")]
          /\ UNCHANGED <<qrData, currentName>>
  /\ UNCHANGED <<server, sessions, loading, socket, events, overtaken, missed, mixed>>

-----------------------------------------------------------------------------
(* The gateway answers.  A refusal changes nothing.                         *)
Answered(r, ok) == [request EXCEPT ![r].pc = "answered", ![r].ok = ok]

Refused(q) ==
  \/ q.kind = "create" /\ server[q.of] # "absent"
  \/ q.kind = "delete" /\ server[q.of] = "gone"
  \/ q.kind = "start"  /\ server[q.of] \notin {"down", "failed"}
  \/ q.kind = "stop"   /\ server[q.of] = "gone"

Answers(r) ==
  LET q == request[r]
      s == q.of
      Unmoved == UNCHANGED <<server, events, missed>>
  IN  /\ Busy(r) /\ q.pc = "asked"
      /\ \/ /\ q.kind = "fetch" /\ Unmoved
            /\ request' = [request EXCEPT ![r].pc = "answered", ![r].list = Listed,
                                          ![r].touched = {}, ![r].stale = FALSE]
         \/ /\ q.kind \in {"show", "poll"} /\ Unmoved
            /\ \E ok \in BOOLEAN : (ok => server[s] = "starting") /\ request' = Answered(r, ok)
         \/ /\ q.kind = "create" /\ server[s] = "absent"
            /\ server' = [server EXCEPT ![s] = "down"] /\ UNCHANGED <<events, missed>>
            /\ request' = Answered(r, TRUE)
         \/ /\ q.kind = "delete" /\ server[s] # "gone"
            /\ server' = [server EXCEPT ![s] = "gone"] /\ UNCHANGED <<events, missed>>
            /\ request' = Answered(r, TRUE)
         \/ /\ q.kind = "start" /\ server[s] \in {"down", "failed"}
            /\ Tells(s, "starting", Answered(r, TRUE))
         \/ /\ q.kind = "stop" /\ server[s] # "gone"
            /\ Tells(s, "down", Answered(r, TRUE))
         \/ /\ Refused(q) /\ Unmoved
            /\ request' = Answered(r, FALSE)
      /\ UNCHANGED <<sessions, loading, socket, qrData, currentName, overtaken, mixed, moves>>

-----------------------------------------------------------------------------
(* The list that a handler writes, over a change that came after its own.   *)
Undoes(list, touched) == \E s \in touched : list[s] # sessions[s]

Asks(r, kind, s, then, requests) == request' = [requests EXCEPT ![r] = Asked(kind, s, then)]
Ended(r, requests) == request' = [requests EXCEPT ![r] = Free]

(* fetchSessions ends, in success or not; handleStart goes on to the dialog. *)
FetchLands(r) ==
  LET q == request[r] IN
  /\ Busy(r) /\ q.kind = "fetch" /\ q.pc = "answered" /\ loading' = FALSE
  /\ \E ok \in BOOLEAN :
       LET now == IF ok THEN Touched(request, WaSessions, FALSE) ELSE request
       IN  /\ IF ok
              THEN /\ sessions' = q.list
                   /\ overtaken' = (q.touched # {} /\ (overtaken \/ Undoes(q.list, q.touched)))
                   /\ missed' = q.stale
              ELSE UNCHANGED <<sessions, overtaken, missed>>
           /\ IF q.then = "show" \/ (q.then = "showUnlessReady" /\ ~(ok /\ q.list[q.of] = "ready"))
              THEN Opens(q.of) /\ Asks(r, "show", q.of, "none", now)
              ELSE Ended(r, now) /\ UNCHANGED <<qrData, currentName, mixed>>
  /\ UNCHANGED <<server, socket, events, moves>>

WritesStatus == [create |-> "down", delete |-> "absent", start |-> "starting", stop |-> "down"]

(* Mutant: a session that was deleted stays on the list.                    *)
MutantKeepsRow(q) == IF q.kind = "delete" THEN q.list ELSE [q.list EXCEPT ![q.of] = WritesStatus[q.kind]]

HandlerList(q) == [q.list EXCEPT ![q.of] = WritesStatus[q.kind]]

(* handleCreate, handleDelete, handleStart, handleStop.                     *)
HandlerLands(r) ==
  LET q == request[r]
      list == HandlerList(q)
      now == IF q.ok THEN Touched(request, {q.of}, FALSE) ELSE request
  IN
  /\ Busy(r) /\ q.kind \in Handlers /\ q.pc = "answered"
  /\ IF q.ok THEN sessions' = list /\ overtaken' = (overtaken \/ Undoes(list, q.touched))
     ELSE UNCHANGED <<sessions, overtaken>>
  /\ \/ /\ q.kind = "start" /\ loading' = TRUE
        /\ Asks(r, "fetch", q.of, IF q.ok THEN "show" ELSE "showUnlessReady", now)
     \/ /\ q.kind = "stop" /\ ~q.ok /\ loading' = TRUE
        /\ Asks(r, "fetch", "none", "none", now)
     \/ /\ q.kind \in {"create", "delete"} \/ (q.kind = "stop" /\ q.ok)
        /\ Ended(r, now) /\ UNCHANGED loading
  /\ UNCHANGED <<server, socket, events, qrData, currentName, missed, mixed, moves>>

(* Mutant: the dialog takes its name from the ref, as the poll does.        *)
MutantNameOfRef(s) == [of |-> s, name |-> currentName]

ShownAgain(s) == [of |-> s, name |-> s]

(* The rest of handleShowQR: a failure leaves the dialog to the poll.       *)
ShowLands(r) ==
  LET q == request[r] IN
  /\ Busy(r) /\ q.kind = "show" /\ q.pc = "answered"
  /\ IF q.ok
     THEN /\ qrData' = ShownAgain(q.of) /\ currentName' = ShownAgain(q.of).name
          /\ mixed' = (mixed \/ PollsOther(q.of))
     ELSE UNCHANGED <<qrData, currentName, mixed>>
  /\ Ended(r, request)
  /\ UNCHANGED <<server, sessions, loading, socket, events, overtaken, missed, moves>>

(* The rest of fetchQR.  Without a QR it asks for the session, and gives up *)
(* unless that is still on its way.                                        *)
PollLands(r) ==
  LET q == request[r] IN
  /\ Busy(r) /\ q.kind = "poll"
  /\ \/ /\ q.pc = "answered" /\ q.ok
        /\ qrData' = [of |-> q.of, name |-> currentName]
        /\ Ended(r, request) /\ UNCHANGED <<currentName, loading>>
     \/ /\ q.pc = "answered" /\ ~q.ok
        /\ request' = [request EXCEPT ![r].pc = "checked", ![r].ok = (server[q.of] = "starting")]
        /\ UNCHANGED <<qrData, currentName, loading>>
     \/ /\ q.pc = "checked" /\ q.ok
        /\ Ended(r, request) /\ UNCHANGED <<qrData, currentName, loading>>
     \/ /\ q.pc = "checked" /\ ~q.ok
        /\ qrData' = Closed /\ currentName' = "" /\ loading' = TRUE
        /\ Asks(r, "fetch", "none", "none", request)
  /\ UNCHANGED <<server, sessions, socket, events, overtaken, missed, mixed, moves>>

Next ==
  \/ SocketMoves \/ EventArrives \/ Closes
  \/ \E s \in WaSessions, status \in Statuses : ServerChanges(s, status)
  \/ \E r \in Requests :
       \/ Answers(r) \/ FetchLands(r) \/ HandlerLands(r) \/ ShowLands(r) \/ PollLands(r) \/ PollTicks(r)
       \/ \E s \in WaSessions, kind \in {"create", "delete", "start", "stop", "show"} : Clicks(r, kind, s)

-----------------------------------------------------------------------------
(* Properties.                                                             *)

(* With nothing under way and the socket subscribed, the list is that of    *)
(* the gateway, unless a handler undid a later change or a change was told  *)
(* to nobody since the last fetch.                                         *)
QuietListIsTrue ==
  /\ \A r \in Requests : ~Busy(r)
  /\ events = <<>> /\ socket = "subscribed" /\ ~overtaken /\ ~missed
  => sessions = Listed

(* The dialog has the name of the session whose QR it shows, unless it was  *)
(* opened while another session was being polled for.                      *)
DialogIsNamed == qrData # Closed /\ ~mixed => qrData.name \in {qrData.of, ""}

-----------------------------------------------------------------------------
(* Inductive invariants.                                                   *)
Told(s) == \E i \in 1..Len(events) : events[i].of = s
Read(r) == Busy(r) /\ request[r].kind = "fetch" /\ request[r].pc = "answered"
Handles(r) == Busy(r) /\ request[r].kind \in Handlers
Did(r, kinds, s) ==
  /\ Busy(r) /\ request[r].kind \in kinds /\ request[r].of = s
  /\ request[r].pc = "answered" /\ request[r].ok
Deleting(s) == \E r \in Requests : Did(r, {"delete"}, s)
Creating(s) == \E r \in Requests : Did(r, {"create"}, s)

(* A session that is listed as p is so at the gateway, or will be listed so *)
(* by what is under way.                                                   *)
Settles(s, p) ==
  \/ server[s] = "gone" /\ p = "absent"
  \/ server[s] # "gone" /\ (Told(s) \/ p = server[s])
  \/ Deleting(s) \/ (Creating(s) /\ p = "absent")

(* The last event of a session under way tells what the session is.         *)
EventsEndTrue ==
  /\ socket = "down" => events = <<>>
  /\ \A i \in 1..Len(events) :
       LET s == events[i].of
       IN  server[s] \in {"gone", events[i].status} \/ \E j \in (i + 1)..Len(events) : events[j].of = s

(* Nothing is under way for a session that the gateway never had.           *)
AbsentIsUnknown ==
  \A s \in WaSessions : server[s] = "absent" =>
    /\ sessions[s] = "absent" /\ ~Told(s) /\ ~Creating(s)
    /\ \A r \in Requests :
         /\ (Read(r) \/ Handles(r)) => request[r].list[s] = "absent"
         /\ Handles(r) /\ request[r].of = s => request[r].kind = "create"

(* Until the page writes a session that it created, nothing else has it.    *)
CreatedIsNew ==
  \A r \in Requests : \A s \in WaSessions :
    Did(r, {"create"}, s) /\ s \notin request[r].touched =>
      /\ server[s] = "down" /\ sessions[s] = "absent" /\ ~Told(s)
      /\ \A k \in Requests : Handles(k) =>
           /\ request[k].list[s] = "absent"
           /\ request[k].of = s => request[k].kind = "create"

(* What is deleted stays off the list once the handler has taken it off.    *)
DeletedStaysOff ==
  /\ \A r \in Requests : \A s \in WaSessions : Did(r, {"delete"}, s) => server[s] = "gone"
  /\ \A s \in WaSessions : server[s] = "gone" /\ ~Deleting(s) =>
       /\ ~overtaken => sessions[s] = "absent"
       /\ \A r \in Requests : Read(r) /\ s \notin request[r].touched => request[r].list[s] = "absent"

(* A handler's list differs from the page's where the page was written.     *)
HandlersKeepUp ==
  \A r \in Requests : Handles(r) =>
    /\ ~overtaken => \A s \in WaSessions \ request[r].touched : request[r].list[s] = sessions[s]
    /\ request[r].kind # "create" => request[r].list[request[r].of] # "absent"

(* What a start or stop changed is still to be told, or was lost.           *)
ChangeIsTold ==
  \A r \in Requests : \A s \in WaSessions :
    Did(r, {"start", "stop"}, s) /\ s \notin request[r].touched =>
      \/ Told(s)
      \/ missed /\ \A k \in Requests : Read(k) /\ s \in request[k].touched => request[k].stale

(* The list of a fetch that missed nothing is true where it will be kept,    *)
(* of two of them the later was touched and missed less, and the page's own *)
(* is true if it missed nothing.                                           *)
ListsSettle ==
  /\ \A r \in Requests : Read(r) /\ ~request[r].stale =>
       \A s \in WaSessions :
         (s \notin request[r].touched \/ (~overtaken /\ request[r].list[s] = sessions[s])) =>
           Settles(s, request[r].list[s])
  /\ ~missed /\ ~overtaken => \A s \in WaSessions : Settles(s, sessions[s])

FetchesAreOrdered ==
  \A r, k \in Requests : Read(r) /\ Read(k) =>
    \/ request[r].touched \subseteq request[k].touched /\ (request[r].stale => request[k].stale)
    \/ request[k].touched \subseteq request[r].touched /\ (request[k].stale => request[r].stale)

(* Polls are for the session whose name the ref has, or it has none.        *)
RefIsNamed ==
  ~mixed =>
    /\ qrData # Closed => {qrData.name, currentName} \subseteq {qrData.of, ""}
    /\ \A r \in Requests : Busy(r) /\ request[r].kind = "poll" => currentName \in {request[r].of, ""}

ListInv ==
  /\ TypeOK /\ EventsEndTrue /\ AbsentIsUnknown /\ CreatedIsNew /\ DeletedStaysOff
  /\ HandlersKeepUp /\ ChangeIsTold /\ ListsSettle /\ FetchesAreOrdered /\ RefIsNamed
===============================================================================
