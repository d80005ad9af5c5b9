-------------------------- MODULE BaileysConnection --------------------------
(***************************************************************************)
(* One BaileysAdapter (engine/adapters/baileys.adapter.ts), from            *)
(* initialize to the end of its session: the socket it holds, the updates   *)
(* of that socket's connection, and the adapter's own reconnection.         *)
(*                                                                         *)
(* The library is external: a socket opens or closes, asks for a QR code to *)
(* be scanned while it is opening, and is silent once it was ended.  That   *)
(* a socket which neither opens nor closes is closed in the end is the      *)
(* library's timeout.  Rendering the QR code as an image takes an await,    *)
(* in which everything else may happen.  What is sent, read or mapped is    *)
(* left out: an operation checks that the engine is ready, prepares (loads  *)
(* a file, looks a message up) and then uses the socket.                    *)
(***************************************************************************)
EXTENDS Naturals

CONSTANTS
  MaxReconnects,  \* MAX_RECONNECT_ATTEMPTS
  MaxOpens        \* bound: connections that open

VARIABLES
  engineStatus,   \* this.status
  sock,           \* this.sock
  sockets,        \* how many sockets there have been
  rendering,      \* the sockets whose QR code is being rendered
  connecting, reconnectTimer, reconnectAttempts, intentionalClose,
  opens,
  stop,           \* the disconnect, destroy or logout that ends the session
  operation,      \* whether an operation is between its check and its send
  late,           \* history: an image or a failure came after its connection
  sentLate        \* history: an operation reached a socket after the end

baileysVars == <<engineStatus, sock, sockets, rendering, connecting, reconnectTimer,
                 reconnectAttempts, intentionalClose, opens, stop, operation, late, sentLate>>

EngineStatuses == {"DISCONNECTED", "INITIALIZING", "QR_READY", "READY", "FAILED"}

(* The socket that is held, and those whose QR code is being rendered, are  *)
(* among those there have been.                                            *)
Numbered ==
  /\ sockets \in Nat /\ rendering \subseteq 1..sockets
  /\ sock # "none" => sockets # 0

(* The type invariant.                                                     *)
TypeOK ==
  /\ engineStatus \in EngineStatuses
  /\ sock \in {"none", "opening", "open", "dead"}
  /\ Numbered
  /\ connecting \in BOOLEAN /\ reconnectTimer \in BOOLEAN
  /\ reconnectAttempts \in 0..MaxReconnects
  /\ intentionalClose \in BOOLEAN
  /\ opens \in 0..MaxOpens
  /\ stop \in {"no", "logout", "done"}
  /\ operation \in BOOLEAN /\ late \in BOOLEAN /\ sentLate \in BOOLEAN

(* initialize, to the first await of its connect.                           *)
Init ==
  /\ engineStatus = "INITIALIZING" /\ connecting = TRUE
  /\ sock = "none" /\ sockets = 0 /\ rendering = {}
  /\ reconnectTimer = FALSE /\ reconnectAttempts = 0 /\ intentionalClose = FALSE
  /\ opens = 0 /\ stop = "no" /\ operation = FALSE
  /\ late = FALSE /\ sentLate = FALSE

-----------------------------------------------------------------------------
(* connectInner after its awaits.                                           *)
SocketMade ==
  /\ connecting
  /\ connecting' = FALSE
  /\ IF intentionalClose
     THEN UNCHANGED <<sock, sockets, engineStatus>>
     ELSE sock' = "opening" /\ sockets' = sockets + 1 /\ engineStatus' = "INITIALIZING"
  /\ UNCHANGED <<rendering, reconnectTimer, reconnectAttempts, intentionalClose, opens, stop,
                 operation, late, sentLate>>

(* The library, the files of the credentials or the version cannot be had.  *)
ConnectFails ==
  /\ connecting
  /\ connecting' = FALSE
  /\ engineStatus' = "FAILED"
  /\ late' = (late \/ intentionalClose)
  /\ UNCHANGED <<sock, sockets, rendering, reconnectTimer, reconnectAttempts, intentionalClose,
                 opens, stop, operation, sentLate>>

MutantStaysReady ==
  /\ reconnectTimer
  /\ reconnectTimer' = FALSE
  /\ connecting' = (connecting \/ ~intentionalClose)
  /\ UNCHANGED <<engineStatus, sock, sockets, rendering, reconnectAttempts, intentionalClose, opens,
                 stop, operation, late, sentLate>>

MutantSkipsIfReady ==
  /\ reconnectTimer
  /\ reconnectTimer' = FALSE
  /\ IF intentionalClose \/ connecting \/ engineStatus = "READY"
     THEN UNCHANGED <<connecting, engineStatus>>
     ELSE connecting' = TRUE /\ engineStatus' = "INITIALIZING"
  /\ UNCHANGED <<sock, sockets, rendering, reconnectAttempts, intentionalClose, opens, stop,
                 operation, late, sentLate>>

(* The timer's callback, and connect to its first await.                    *)
TimerFires ==
  /\ reconnectTimer
  /\ reconnectTimer' = FALSE
  /\ IF intentionalClose \/ connecting
     THEN UNCHANGED <<connecting, engineStatus>>
     ELSE connecting' = TRUE /\ engineStatus' = "INITIALIZING"
  /\ UNCHANGED <<sock, sockets, rendering, reconnectAttempts, intentionalClose, opens, stop,
                 operation, late, sentLate>>

-----------------------------------------------------------------------------
(* handleConnectionUpdate.                                                  *)
QrArrives ==
  /\ sock = "opening"
  /\ rendering' = rendering \cup {sockets}
  /\ UNCHANGED <<engineStatus, sock, sockets, connecting, reconnectTimer, reconnectAttempts,
                 intentionalClose, opens, stop, operation, late, sentLate>>

(* handleQrCode looks at nothing when it has the image.                     *)
QrRendered ==
  \E s \in rendering :
    /\ rendering' = rendering \ {s}
    /\ engineStatus' = "QR_READY"
    /\ late' = (late \/ s # sockets \/ sock # "opening")
    /\ UNCHANGED <<sock, sockets, connecting, reconnectTimer, reconnectAttempts, intentionalClose,
                   opens, stop, operation, sentLate>>

Opens ==
  /\ sock = "opening" /\ opens < MaxOpens
  /\ opens' = opens + 1
  /\ sock' = "open" /\ engineStatus' = "READY" /\ reconnectAttempts' = 0
  /\ UNCHANGED <<sockets, rendering, connecting, reconnectTimer, intentionalClose, stop, operation,
                 late, sentLate>>

(* A close that was asked for, or that logged the device out, is final.     *)
ClosesForGood ==
  /\ sock \in {"opening", "open"}
  /\ sock' = "dead" /\ engineStatus' = "DISCONNECTED"
  /\ UNCHANGED <<sockets, rendering, connecting, reconnectTimer, reconnectAttempts,
                 intentionalClose, opens, stop, operation, late, sentLate>>

MutantRetriesOnceMore ==
  /\ sock \in {"opening", "open"} /\ ~intentionalClose
  /\ sock' = "dead"
  /\ IF reconnectAttempts > MaxReconnects
     THEN engineStatus' = "FAILED" /\ UNCHANGED <<reconnectAttempts, reconnectTimer>>
     ELSE /\ reconnectAttempts' = reconnectAttempts + 1
          /\ reconnectTimer' = TRUE
          /\ UNCHANGED engineStatus
  /\ UNCHANGED <<sockets, rendering, connecting, intentionalClose, opens, stop, operation, late,
                 sentLate>>

(* Any other close is retried; the status is left as it is until then.      *)
Drops ==
  /\ sock \in {"opening", "open"} /\ ~intentionalClose
  /\ sock' = "dead"
  /\ IF reconnectAttempts >= MaxReconnects
     THEN engineStatus' = "FAILED" /\ UNCHANGED <<reconnectAttempts, reconnectTimer>>
     ELSE /\ reconnectAttempts' = reconnectAttempts + 1
          /\ reconnectTimer' = TRUE
          /\ UNCHANGED engineStatus
  /\ UNCHANGED <<sockets, rendering, connecting, intentionalClose, opens, stop, operation, late,
                 sentLate>>

-----------------------------------------------------------------------------
(* The session's calls.                                                     *)
MutantKeepsDialling ==
  /\ reconnectTimer' = FALSE /\ UNCHANGED intentionalClose
  /\ sock' = "none" /\ engineStatus' = "DISCONNECTED" /\ stop' = "done"
  /\ UNCHANGED <<sockets, rendering, connecting, reconnectAttempts, opens, operation, late, sentLate>>

(* disconnect and destroy, which do the same.                               *)
disconnect ==
  /\ intentionalClose' = TRUE /\ reconnectTimer' = FALSE
  /\ sock' = "none" /\ engineStatus' = "DISCONNECTED" /\ stop' = "done"
  /\ UNCHANGED <<sockets, rendering, connecting, reconnectAttempts, opens, operation, late, sentLate>>

logoutBegins ==
  /\ stop = "no"
  /\ intentionalClose' = TRUE /\ reconnectTimer' = FALSE /\ stop' = "logout"
  /\ UNCHANGED <<engineStatus, sock, sockets, rendering, connecting, reconnectAttempts, opens,
                 operation, late, sentLate>>

(* sock.logout() has answered, or failed and the socket was ended.          *)
logoutEnds ==
  /\ stop = "logout"
  /\ sock' = "none" /\ engineStatus' = "DISCONNECTED" /\ stop' = "done"
  /\ UNCHANGED <<sockets, rendering, connecting, reconnectTimer, reconnectAttempts,
                 intentionalClose, opens, operation, late, sentLate>>

(* ensureReady, then what the operation needs before the socket.            *)
ensureReady ==
  /\ ~operation /\ engineStatus = "READY" /\ sock # "none"
  /\ operation' = TRUE
  /\ UNCHANGED <<engineStatus, sock, sockets, rendering, connecting, reconnectTimer,
                 reconnectAttempts, intentionalClose, opens, stop, late, sentLate>>

(* this.sock as it is by now: a dead or missing one makes the call fail.     *)
UsesSocket ==
  /\ operation
  /\ operation' = FALSE
  /\ sentLate' = (sentLate \/ (sock = "open" /\ stop = "done"))
  /\ UNCHANGED <<engineStatus, sock, sockets, rendering, connecting, reconnectTimer,
                 reconnectAttempts, intentionalClose, opens, stop, late>>

SocketSettles == Opens \/ ClosesForGood \/ Drops

OpeningSettles == sock = "opening" /\ SocketSettles

Next ==
  \/ SocketMade \/ ConnectFails \/ TimerFires
  \/ QrArrives \/ QrRendered \/ SocketSettles
  \/ disconnect \/ logoutBegins \/ logoutEnds
  \/ ensureReady \/ UsesSocket

(* A promise of the library settles, a timer fires, and a socket that is    *)
(* opening opens or is closed by its timeout.                               *)
Spec ==
  /\ Init /\ [][Next]_baileysVars
  /\ WF_baileysVars(SocketMade \/ ConnectFails)
  /\ WF_baileysVars(TimerFires)
  /\ WF_baileysVars(OpeningSettles)
  /\ WF_baileysVars(logoutEnds)

-----------------------------------------------------------------------------
(* Properties.                                                             *)

(* Once the session was ended there is no socket and no timer, nothing that *)
(* was being prepared is sent, and the status is DISCONNECTED unless the    *)
(* image of an earlier QR code or the failure of an earlier connect came    *)
(* after the end (nothing checks them).                                     *)
StopIsFinal ==
  stop = "done" =>
    /\ sock = "none" /\ ~reconnectTimer /\ ~sentLate
    /\ engineStatus = "DISCONNECTED" \/ late

(* READY with no open connection is shown only while the timer of the next  *)
(* attempt runs or a logout is under way; and an open connection is shown   *)
(* as READY unless a late image of a QR code hides it.                      *)
ReadyIsOpen ==
  /\ engineStatus = "READY" => sock = "open" \/ reconnectTimer \/ stop = "logout"
  /\ sock = "open" => engineStatus = "READY" \/ late

(* A connection that dropped comes back, is reported as given up, or its    *)
(* session is ended, unless a late image hides the report: the adapter does *)
(* not retry for ever, and never just stops retrying.                       *)
Dropped == sock = "dead"
Settled == sock = "open" \/ engineStatus \in {"FAILED", "DISCONNECTED"} \/ late

DropIsSettled == Dropped ~> Settled

(* Why: a close that was asked for is marked before anything is ended, the  *)
(* timer is only set where the socket died, and no second socket is made    *)
(* beside one that lives.                                                  *)
OneAtATime ==
  /\ stop # "no" <=> intentionalClose
  /\ reconnectTimer => sock = "dead" /\ ~connecting /\ ~intentionalClose
  /\ connecting => sock \in {"none", "dead"}

StopInv == TypeOK /\ OneAtATime /\ ~sentLate /\ StopIsFinal /\ ReadyIsOpen
=============================================================================
