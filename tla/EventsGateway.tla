----------------------------- MODULE EventsGateway -----------------------------
(***************************************************************************)
(* The WebSocket gateway (modules/events/events.gateway.ts) over the key it *)
(* asks about: a connection and every subscription on it run ApiKeyUsage's  *)
(* validateApiKey, like any HTTP request, and act on what it answers.       *)
(*                                                                         *)
(* The sockets here carry the one key, or none.  The framework starts to    *)
(* deliver a socket's messages before its handleConnection has returned,    *)
(* and starts the handler of one while that of another awaits.  A topic is  *)
(* a session, or "*" for all of them; every second update of the key lifts  *)
(* its scope, the others narrow it to some sessions.  Which events of a     *)
(* topic are chosen, pings, malformed messages and what is emitted are left *)
(* out.                                                                     *)
(***************************************************************************)
EXTENDS ApiKeyUsage

CONSTANTS
  Sockets,
  Topics,         \* sessions, and "*"
  Kept            \* the sessions an update that narrows the key lists

VARIABLES
  socket,         \* the connections and the rooms each is in
  request         \* what each call in flight is for

gatewayVars == <<vars, socket, request>>

(* `known` is client.data.rawApiKey.  A room remembers, as a history, what  *)
(* was granted and revoked when its subscribe arrived.                      *)
Room    == [topic : Topics, granted : Nat, revoked : BOOLEAN]
Socket  == [pc : {"new", "open", "closed"}, known : BOOLEAN, rooms : SUBSET Room]
Http    == [what : {"http"}]
Asked   == [what : {"connect"}, socket : Sockets]
             \cup [what : {"subscribe"}, socket : Sockets, room : Room]

(* The type invariant. *)
GatewayTypeOK ==
  /\ TypeOK
  /\ socket \in [Sockets -> Socket]
  /\ \A c \in Calls : request[c] \in Http \cup Asked

NoRequest == [what |-> "http"]
Unused    == [pc |-> "new", known |-> FALSE, rooms |-> {}]

GatewayInit ==
  /\ Init
  /\ socket = [k \in Sockets |-> Unused]
  /\ request = [c \in Calls |-> NoRequest]

Open(k) == socket[k].pc = "open"

-----------------------------------------------------------------------------
(* What a key may subscribe to.                                            *)
isSessionSubscriptionAllowed(grants, topic) ==
  grants % 2 = 0 \/ (topic # "*" /\ topic \in Kept)

Closed(s) == [s EXCEPT !.pc = "closed", !.known = FALSE, !.rooms = {}]

(* A socket asked, and is still there to be answered. *)
Heard(c) == request[c].what # "http" /\ Open(request[c].socket)

MutantNoScope(c) ==
  LET r == request[c]
  IN  \/ ~Heard(c) /\ UNCHANGED socket
      \/ /\ Heard(c) /\ r.what = "connect"
         /\ socket' = [socket EXCEPT ![r.socket].known = TRUE]
      \/ /\ Heard(c) /\ r.what = "subscribe"
         /\ socket' = [socket EXCEPT ![r.socket].rooms = @ \cup {r.room}]

(* validateApiKey has returned the key: handleConnection keeps it, and      *)
(* handleSubscribe joins the room if the scope in that copy allows it.      *)
Accepted(c) ==
  LET r == request[c]
  IN  \/ ~Heard(c) /\ UNCHANGED socket
      \/ /\ Heard(c) /\ r.what = "connect"
         /\ socket' = [socket EXCEPT ![r.socket].known = TRUE]
      \/ /\ Heard(c) /\ r.what = "subscribe"
         /\ socket' = IF isSessionSubscriptionAllowed(call[c].copy.grants, r.room.topic)
                      THEN [socket EXCEPT ![r.socket].rooms = @ \cup {r.room}]
                      ELSE socket

(* It has thrown: the client is told so and disconnected.                   *)
TurnedAway(c) ==
  socket' = IF request[c].what = "http" THEN socket
            ELSE [socket EXCEPT ![request[c].socket] = Closed(@)]

(* The steps of validateApiKey and of the key's changes, with what the      *)
(* gateway does at the end of those that it awaits.                         *)
Returns(c) ==
  /\ \/ Accumulates(c) /\ Accepted(c)
     \/ Written(c) /\ Accepted(c)
     \/ Refused(c) /\ TurnedAway(c)
     \/ WriteFails(c) /\ TurnedAway(c)
  /\ request' = [request EXCEPT ![c] = NoRequest]

Proceeds(c) ==
  /\ Flushes(c) \/ Updates(c) \/ Revokes(c) \/ Deletes(c)
  /\ UNCHANGED <<socket, request>>

HttpCall(c, kind) ==
  /\ Read(c, kind)
  /\ UNCHANGED <<socket, request>>

-----------------------------------------------------------------------------
(* handleConnection.                                                       *)
Connects(k, c) ==
  /\ socket[k].pc = "new"
  /\ Read(c, "validate")
  /\ socket' = [socket EXCEPT ![k].pc = "open"]
  /\ request' = [request EXCEPT ![c] = [what |-> "connect", socket |-> k]]

(* ... of a client that brings no key. *)
ConnectsBare(k) ==
  /\ socket[k].pc = "new"
  /\ socket' = [socket EXCEPT ![k] = Closed(@)]
  /\ UNCHANGED <<vars, request>>

RoomNow(t) == [topic |-> t, granted |-> granted, revoked |-> revoked]

MutantTrustsSocket(k, c, t) ==
  /\ Open(k) /\ socket[k].known /\ call[c].pc = "idle"
  /\ socket' = [socket EXCEPT ![k].rooms = @ \cup {RoomNow(t)}]
  /\ UNCHANGED <<vars, request>>

(* handleSubscribe, which validates the key again.                          *)
Subscribes(k, c, t) ==
  /\ Open(k) /\ socket[k].known
  /\ Read(c, "validate")
  /\ request' = [request EXCEPT ![c] = [what |-> "subscribe", socket |-> k, room |-> RoomNow(t)]]
  /\ UNCHANGED socket

(* The handshake's validation is not back yet: there is no key to validate, *)
(* and the client is told that its key is no longer valid.                  *)
SubscribesEarly(k) ==
  /\ Open(k) /\ ~socket[k].known
  /\ socket' = [socket EXCEPT ![k] = Closed(@)]
  /\ UNCHANGED <<vars, request>>

(* handleUnsubscribe, which has nothing to await.                           *)
Unsubscribes(k, t) ==
  /\ Open(k) /\ socket[k].rooms # {}
  /\ socket' = [socket EXCEPT ![k].rooms = {r \in @ : t # "*" /\ r.topic # t}]
  /\ UNCHANGED <<vars, request>>

Disconnects(k) ==
  /\ Open(k)
  /\ socket' = [socket EXCEPT ![k] = Closed(@)]
  /\ UNCHANGED <<vars, request>>

ProcessEnds ==
  /\ Crash
  /\ socket' = [k \in Sockets |-> IF Open(k) THEN Closed(socket[k]) ELSE socket[k]]
  /\ request' = [c \in Calls |-> NoRequest]

GatewayNext ==
  \/ \E c \in Calls :
       \/ \E kind \in Kinds : HttpCall(c, kind)
       \/ Proceeds(c) \/ Returns(c)
       \/ \E k \in Sockets : Connects(k, c) \/ (\E t \in Topics : Subscribes(k, c, t))
  \/ \E k \in Sockets : \/ ConnectsBare(k) \/ SubscribesEarly(k) \/ Disconnects(k)
                        \/ \E t \in Topics : Unsubscribes(k, t)
  \/ Tick /\ UNCHANGED <<socket, request>>
  \/ ProcessEnds

GatewaySpec == GatewayInit /\ [][GatewayNext]_gatewayVars

-----------------------------------------------------------------------------
(* Properties.                                                             *)

(* While no call writes the row under another's copy, every room a socket   *)
(* is in was open to the key as it stood when the subscribe arrived: not    *)
(* revoked by then, and within the scope it had been given by then.  (What  *)
(* the key may do later is another matter: rooms outlive a revoke.)         *)
RoomsWereGranted ==
  ~overtaken => \A k \in Sockets : \A r \in socket[k].rooms :
    ~r.revoked /\ isSessionSubscriptionAllowed(r.granted, r.topic)
=============================================================================
