------------------------------- MODULE OmegaLogin -------------------------------
(***************************************************************************)
(* One user of the Omega panel: logins, the tokens they hand out, the check *)
(* of a token that opens every request, logouts (omega-auth.service.ts,     *)
(* omega-auth.guard.ts) and an administrator's changes of the user          *)
(* (updateUser in omega-admin.service.ts).  Login and updateUser read the   *)
(* user's row, await, and save it whole.  Passwords are compared, and roles *)
(* decided, without a state; the clock only makes tokens expire.            *)
(***************************************************************************)
EXTENDS Naturals

CONSTANTS
  Tokens,         \* tokens that logins hand out
  Callers         \* slots for requests in flight

VARIABLES
  userStatus,     \* the user's row: ACTIVE or SUSPENDED
  tokens,         \* omega_auth_sessions
  caller,         \* the requests in flight
  dead,           \* history: tokens that were logged out, or that expired
  ordered,        \* history: the status the last update of the user left
  undone          \* history: the row was saved under another request's copy

loginVars == <<userStatus, tokens, caller, dead, ordered, undone>>

UserStatuses == {"ACTIVE", "SUSPENDED"}
CallerPc == {"idle", "login", "lastLogin", "update", "token", "user", "accepted"}

(* `barred` is history: the user's suspension had returned when the request *)
(* arrived, and was not lifted since.                                       *)
Caller == [pc : CallerPc, token : Tokens, copy : UserStatuses, barred : BOOLEAN]

(* The type invariant. *)
TypeOK ==
  /\ userStatus \in UserStatuses /\ ordered \in UserStatuses
  /\ tokens \subseteq Tokens /\ dead \subseteq Tokens
  /\ caller \in [Callers -> Caller]
  /\ undone \in BOOLEAN

NoCall == [pc |-> "idle", token |-> CHOOSE t \in Tokens : TRUE, copy |-> "ACTIVE",
           barred |-> FALSE]

(* ensureDefaultUser or createUser has saved the user.                      *)
Init ==
  /\ userStatus = "ACTIVE" /\ ordered = "ACTIVE"
  /\ tokens = {} /\ dead = {}
  /\ caller = [c \in Callers |-> NoCall]
  /\ undone = FALSE

Idle(c)    == caller[c].pc = "idle"
Ends(c)    == caller' = [caller EXCEPT ![c] = NoCall]
Goes(c, v) == caller' = [caller EXCEPT ![c] = v]

saveUser(c, status) ==
  /\ userStatus' = status
  /\ undone' = (undone \/ \E d \in Callers \ {c} : caller[d].pc \in {"login", "lastLogin", "update"})

(* The last update that returned suspended the user.                        *)
Suspended == ordered = "SUSPENDED"

-----------------------------------------------------------------------------
(* login: the password matched the row that was read.  (A suspended user is *)
(* refused at once.)                                                        *)
LoginBegins(c, t) ==
  /\ Idle(c) /\ userStatus = "ACTIVE"
  /\ t \notin tokens \cup dead /\ \A d \in Callers : Idle(d) \/ caller[d].token # t
  /\ Goes(c, [pc |-> "login", token |-> t, copy |-> userStatus, barred |-> FALSE])
  /\ UNCHANGED <<userStatus, tokens, dead, ordered, undone>>

TokenSaved(c) ==
  /\ caller[c].pc = "login"
  /\ tokens' = tokens \cup {caller[c].token}
  /\ Goes(c, [caller[c] EXCEPT !.pc = "lastLogin"])
  /\ UNCHANGED <<userStatus, dead, ordered, undone>>

(* lastLoginAt is set, and the copy saved; the client gets the token.       *)
LoggedIn(c) ==
  /\ caller[c].pc = "lastLogin"
  /\ saveUser(c, caller[c].copy)
  /\ Ends(c)
  /\ UNCHANGED <<tokens, dead, ordered>>

UpdateBegins(c, status) ==
  /\ Idle(c)
  /\ Goes(c, [NoCall EXCEPT !.pc = "update", !.copy = status])
  /\ UNCHANGED <<userStatus, tokens, dead, ordered, undone>>

Updated(c) ==
  /\ caller[c].pc = "update"
  /\ saveUser(c, caller[c].copy)
  /\ ordered' = caller[c].copy
  /\ caller' = [d \in Callers |->
       IF d = c THEN NoCall
       ELSE [caller[d] EXCEPT !.barred = @ /\ caller[c].copy = "SUSPENDED"]]
  /\ UNCHANGED <<tokens, dead>>

-----------------------------------------------------------------------------
(* validateSessionToken: the token's row, then the user's.                  *)
RequestBegins(c, t) ==
  /\ Idle(c)
  /\ IF t \in tokens
     THEN Goes(c, [NoCall EXCEPT !.pc = "user", !.token = t, !.barred = Suspended])
     ELSE UNCHANGED caller
  /\ UNCHANGED <<userStatus, tokens, dead, ordered, undone>>

MutantTokenIsEnough(c) ==
  /\ caller[c].pc = "user"
  /\ Goes(c, [caller[c] EXCEPT !.pc = "accepted"])
  /\ UNCHANGED <<userStatus, tokens, dead, ordered, undone>>

UserKnown(c) ==
  /\ caller[c].pc = "user"
  /\ IF userStatus = "SUSPENDED" THEN Ends(c)
     ELSE Goes(c, [caller[c] EXCEPT !.pc = "accepted"])
  /\ UNCHANGED <<userStatus, tokens, dead, ordered, undone>>

(* The handler the guard let in: a logout deletes the token it came with.   *)
Handled(c) ==
  /\ caller[c].pc = "accepted"
  /\ \/ UNCHANGED <<tokens, dead>>
     \/ tokens' = tokens \ {caller[c].token} /\ dead' = dead \cup {caller[c].token}
  /\ Ends(c)
  /\ UNCHANGED <<userStatus, ordered, undone>>

(* expiresAt passes: the row stays, and no request finds it any more.       *)
Expires(t) ==
  /\ t \in tokens
  /\ tokens' = tokens \ {t} /\ dead' = dead \cup {t}
  /\ UNCHANGED <<userStatus, caller, ordered, undone>>

Rejected(c) ==
  /\ ~Idle(c) /\ Ends(c)
  /\ UNCHANGED <<userStatus, tokens, dead, ordered, undone>>

Next ==
  \/ \E c \in Callers :
       \/ \E t \in Tokens : LoginBegins(c, t) \/ RequestBegins(c, t)
       \/ TokenSaved(c) \/ LoggedIn(c)
       \/ \E status \in UserStatuses : UpdateBegins(c, status)
       \/ Updated(c) \/ UserKnown(c) \/ Handled(c) \/ Rejected(c)
  \/ \E t \in Tokens : Expires(t)

Spec == Init /\ [][Next]_loginVars

-----------------------------------------------------------------------------
(* Properties.                                                             *)

(* A request that arrives after the user was suspended is not served, with  *)
(* whatever token, also one from a login that was under way then, as long   *)
(* as no login or update saves its copy of the user over another's.         *)
SuspendedStayOut ==
  \A c \in Callers : caller[c].pc = "accepted" /\ ~undone => ~caller[c].barred

(* Why: a writer's copy is the row as long as nobody wrote it meanwhile, and *)
(* a request is barred only while the last update says SUSPENDED.           *)
Writing(c) == caller[c].pc \in {"login", "lastLogin"}

BarInv ==
  /\ TypeOK
  /\ ~undone => userStatus = ordered /\ \A c \in Callers : Writing(c) => caller[c].copy = userStatus
  /\ \A c \in Callers : caller[c].barred /\ caller[c].pc = "user" => ordered = "SUSPENDED"
  /\ SuspendedStayOut
=============================================================================
