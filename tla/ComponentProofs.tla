----------------------------- MODULE ComponentProofs -----------------------------
(***************************************************************************)
(* What Components promises of the engine adapters, the Omega layer, a      *)
(* guarded route, the translation extension, the Baileys message store and  *)
(* the incoming messages, for every value of the constants.  Each component *)
(* has an inductive invariant, beside its properties; the composition takes *)
(* the steps of one component only, so its properties follow from those of  *)
(* the components.                                                         *)
(***************************************************************************)
EXTENDS Components, FiniteSetTheorems, TLAPS

-----------------------------------------------------------------------------
(* The whatsapp-web.js adapter.                                            *)

LEMMA WwebjsStep == Wwebjs!EndInv /\ [Wwebjs!Next]_(Wwebjs!wwebjsVars) => Wwebjs!EndInv'
<1> SUFFICES ASSUME Wwebjs!EndInv, [Wwebjs!Next]_(Wwebjs!wwebjsVars)
             PROVE  Wwebjs!EndInv'
  OBVIOUS
<1> USE DEF Wwebjs!EndInv, Wwebjs!TypeOK
<1>1. CASE Wwebjs!BrowserUp
  BY <1>1 DEF Wwebjs!BrowserUp, Wwebjs!Ways
<1>2. CASE Wwebjs!InitReturns
  BY <1>2 DEF Wwebjs!InitReturns
<1>3. CASE Wwebjs!InitFails
  BY <1>3 DEF Wwebjs!InitFails, Wwebjs!Reports
<1>4. CASE Wwebjs!OnQr
  BY <1>4 DEF Wwebjs!OnQr
<1>5. CASE Wwebjs!QrRendered
  BY <1>5 DEF Wwebjs!QrRendered, Wwebjs!Reports
<1>6. CASE Wwebjs!OnAuthenticated
  BY <1>6 DEF Wwebjs!OnAuthenticated, Wwebjs!Reports
<1>7. CASE Wwebjs!OnReady
  BY <1>7 DEF Wwebjs!OnReady, Wwebjs!Reports, Wwebjs!Ways
<1>8. CASE Wwebjs!OnDisconnected
  BY <1>8 DEF Wwebjs!OnDisconnected, Wwebjs!Reports
<1>9. CASE Wwebjs!OnAuthFailure
  BY <1>9 DEF Wwebjs!OnAuthFailure, Wwebjs!Reports
<1>10. ASSUME NEW way \in Wwebjs!Ways, Wwebjs!EndBegins(way)
       PROVE  Wwebjs!EndInv'
  BY <1>10 DEF Wwebjs!EndBegins, Wwebjs!Ways
<1>11. CASE Wwebjs!EndReturns
  BY <1>11 DEF Wwebjs!EndReturns, Wwebjs!Reports, Wwebjs!Ways
<1>12. CASE Wwebjs!ensureReady \/ Wwebjs!FindsChat \/ Wwebjs!NotFound
  BY <1>12 DEF Wwebjs!ensureReady, Wwebjs!FindsChat, Wwebjs!NotFound, Wwebjs!Operates, Wwebjs!Ways
<1>13. CASE Wwebjs!UsesClient \/ Wwebjs!ActsOnFound \/ Wwebjs!ReadsOn
  BY <1>13 DEF Wwebjs!UsesClient, Wwebjs!ActsOnFound, Wwebjs!ReadsOn, Wwebjs!Ways
<1>14. CASE UNCHANGED Wwebjs!wwebjsVars
  BY <1>14 DEF Wwebjs!wwebjsVars
<1> QED
  BY <1>1, <1>2, <1>3, <1>4, <1>5, <1>6, <1>7, <1>8, <1>9, <1>10, <1>11, <1>12, <1>13, <1>14
  DEF Wwebjs!Next

LEMMA WwebjsInit == Wwebjs!Init => Wwebjs!EndInv
  BY DEF Wwebjs!Init, Wwebjs!EndInv, Wwebjs!TypeOK, Wwebjs!Ways

-----------------------------------------------------------------------------
(* The Baileys adapter.                                                    *)

LEMMA BaileysNumbered == Baileys!Numbered /\ [Baileys!Next]_(Baileys!baileysVars) => Baileys!Numbered'
<1> SUFFICES ASSUME Baileys!Numbered, [Baileys!Next]_(Baileys!baileysVars)
             PROVE  Baileys!Numbered'
  OBVIOUS
<1> USE DEF Baileys!Numbered
<1>1. CASE Baileys!SocketMade
  BY <1>1 DEF Baileys!SocketMade
<1>2. CASE Baileys!QrArrives
  BY <1>2 DEF Baileys!QrArrives
<1>3. CASE Baileys!QrRendered
  BY <1>3 DEF Baileys!QrRendered
<1> QED
  BY <1>1, <1>2, <1>3
  DEF Baileys!Next, Baileys!SocketSettles, Baileys!baileysVars, Baileys!ConnectFails,
      Baileys!TimerFires, Baileys!Opens, Baileys!ClosesForGood, Baileys!Drops, Baileys!disconnect,
      Baileys!logoutBegins, Baileys!logoutEnds, Baileys!ensureReady, Baileys!UsesSocket

LEMMA BaileysTypes ==
  Baileys!TypeOK /\ [Baileys!Next]_(Baileys!baileysVars) => Baileys!TypeOK'
<1> SUFFICES ASSUME Baileys!TypeOK, [Baileys!Next]_(Baileys!baileysVars)
             PROVE  Baileys!TypeOK'
  OBVIOUS
<1> USE AdaptersAssumption DEF Baileys!TypeOK, Baileys!EngineStatuses
<1>0. Baileys!Numbered'
  BY BaileysNumbered
<1>1. CASE Baileys!SocketMade
  BY <1>0, <1>1 DEF Baileys!SocketMade
<1>2. CASE Baileys!ConnectFails
  BY <1>0, <1>2 DEF Baileys!ConnectFails
<1>3. CASE Baileys!TimerFires
  BY <1>0, <1>3 DEF Baileys!TimerFires
<1>4. CASE Baileys!QrArrives
  BY <1>0, <1>4 DEF Baileys!QrArrives
<1>5. CASE Baileys!QrRendered
  BY <1>0, <1>5 DEF Baileys!QrRendered
<1>6. CASE Baileys!Opens
  BY <1>0, <1>6 DEF Baileys!Opens
<1>7. CASE Baileys!ClosesForGood
  BY <1>0, <1>7 DEF Baileys!ClosesForGood
<1>8. CASE Baileys!Drops
  <2>1. \A n \in 0..MaxReconnects : n >= MaxReconnects \/ n + 1 \in 0..MaxReconnects
    BY AdaptersAssumption
  <2> QED
    BY <1>0, <1>8, <2>1 DEF Baileys!Drops
<1>9. CASE Baileys!disconnect
  BY <1>0, <1>9 DEF Baileys!disconnect
<1>10. CASE Baileys!logoutBegins
  BY <1>0, <1>10 DEF Baileys!logoutBegins
<1>11. CASE Baileys!logoutEnds
  BY <1>0, <1>11 DEF Baileys!logoutEnds
<1>12. CASE Baileys!ensureReady
  BY <1>0, <1>12 DEF Baileys!ensureReady
<1>13. CASE Baileys!UsesSocket
  BY <1>0, <1>13 DEF Baileys!UsesSocket
<1>14. CASE UNCHANGED Baileys!baileysVars
  BY <1>0, <1>14 DEF Baileys!baileysVars
<1> QED
  BY <1>1, <1>2, <1>3, <1>4, <1>5, <1>6, <1>7, <1>8, <1>9, <1>10, <1>11, <1>12, <1>13, <1>14
  DEF Baileys!Next, Baileys!SocketSettles

LEMMA BaileysStep ==
  Baileys!StopInv /\ [Baileys!Next]_(Baileys!baileysVars) => Baileys!StopInv'
<1> SUFFICES ASSUME Baileys!StopInv, [Baileys!Next]_(Baileys!baileysVars)
             PROVE  Baileys!StopInv'
  OBVIOUS
<1> USE DEF Baileys!StopInv, Baileys!OneAtATime, Baileys!StopIsFinal, Baileys!ReadyIsOpen
<1>0. Baileys!TypeOK'
  BY BaileysTypes
<1>1. CASE Baileys!SocketMade
  BY <1>0, <1>1 DEF Baileys!SocketMade
<1>2. CASE Baileys!ConnectFails
  BY <1>0, <1>2 DEF Baileys!ConnectFails
<1>3. CASE Baileys!TimerFires
  BY <1>0, <1>3 DEF Baileys!TimerFires
<1>4. CASE Baileys!QrArrives
  BY <1>0, <1>4 DEF Baileys!QrArrives
<1>5. CASE Baileys!QrRendered
  \* v1 is engineStatus, v2 sock, v12 late.
  <2>1. v2 # "opening" => v12'
    BY <1>5 DEF Baileys!QrRendered
  <2>2. v1' = "QR_READY" /\ UNCHANGED <<v2, v5, v6, v8, v10, v13>>
    BY <1>5 DEF Baileys!QrRendered
  <2> QED
    BY <1>0, <2>1, <2>2
<1>6. CASE Baileys!Opens
  BY <1>0, <1>6 DEF Baileys!Opens
<1>7. CASE Baileys!ClosesForGood
  BY <1>0, <1>7 DEF Baileys!ClosesForGood
<1>8. CASE Baileys!Drops
  BY <1>0, <1>8 DEF Baileys!Drops
<1>9. CASE Baileys!disconnect
  BY <1>0, <1>9 DEF Baileys!disconnect
<1>10. CASE Baileys!logoutBegins
  BY <1>0, <1>10 DEF Baileys!logoutBegins
<1>11. CASE Baileys!logoutEnds
  BY <1>0, <1>11 DEF Baileys!logoutEnds
<1>12. CASE Baileys!ensureReady
  BY <1>0, <1>12 DEF Baileys!ensureReady
<1>13. CASE Baileys!UsesSocket
  BY <1>0, <1>13 DEF Baileys!UsesSocket
<1>14. CASE UNCHANGED Baileys!baileysVars
  BY <1>0, <1>14 DEF Baileys!baileysVars
<1> QED
  BY <1>1, <1>2, <1>3, <1>4, <1>5, <1>6, <1>7, <1>8, <1>9, <1>10, <1>11, <1>12, <1>13, <1>14
  DEF Baileys!Next, Baileys!SocketSettles

LEMMA BaileysInit == Baileys!Init => Baileys!StopInv
<1> SUFFICES ASSUME Baileys!Init
             PROVE  Baileys!StopInv
  OBVIOUS
<1> USE DEF Baileys!Init
<1>1. Baileys!Numbered
  BY DEF Baileys!Numbered
<1>2. 0 \in 0..MaxReconnects /\ 0 \in 0..MaxOpens
  BY AdaptersAssumption
<1>3. Baileys!TypeOK
  BY <1>1, <1>2 DEF Baileys!TypeOK, Baileys!EngineStatuses
<1> QED
  BY <1>3 DEF Baileys!StopInv, Baileys!OneAtATime, Baileys!StopIsFinal, Baileys!ReadyIsOpen

-----------------------------------------------------------------------------
(* Both: an engine that was stopped stays down.                            *)

AdaptersInv ==
  /\ part = "baileys" => Baileys!StopInv
  /\ part = "wwebjs"  => Wwebjs!EndInv

LEMMA AdaptersStep == AdaptersInv /\ [Next]_componentVars => AdaptersInv'
<1> SUFFICES ASSUME AdaptersInv, [Next]_componentVars
             PROVE  AdaptersInv'
  OBVIOUS
<1>1. part' = part
  BY DEF Next, componentVars
<1>2. CASE part = "baileys"
  <2>1. [Baileys!Next]_(Baileys!baileysVars)
    BY <1>2 DEF Next, componentVars, Baileys!baileysVars
  <2> QED
    BY <1>1, <1>2, <2>1, BaileysStep DEF AdaptersInv
<1>3. CASE part = "wwebjs"
  <2>1. [Wwebjs!Next]_(Wwebjs!wwebjsVars)
    BY <1>3 DEF Next, componentVars, Wwebjs!wwebjsVars
  <2> QED
    BY <1>1, <1>3, <2>1, WwebjsStep DEF AdaptersInv
<1> QED
  BY <1>1, <1>2, <1>3 DEF AdaptersInv

(* The inductive invariants of the two adapters hold of every behaviour.    *)
THEOREM AdaptersAreKept == Spec => []AdaptersInv
<1>1. Init => AdaptersInv
  BY BaileysInit, WwebjsInit DEF Init, AdaptersInv
<1> QED
  BY <1>1, AdaptersStep, PTL DEF Spec

(* An engine that was stopped has no socket, browser or timer, and sends    *)
(* nothing that was under way; one that reports READY is connected.         *)
THEOREM EnginesStayDown == Spec => []StoppedEnginesStayDown
<1>1. AdaptersInv => StoppedEnginesStayDown
  BY DEF AdaptersInv, StoppedEnginesStayDown, Baileys!StopInv, Wwebjs!EndInv, Wwebjs!StopIsFinal
<1> QED
  BY <1>1, AdaptersAreKept, PTL
-----------------------------------------------------------------------------
(* The panel's user: who was suspended stays out.                          *)

LEMMA LoginStep == Login!BarInv /\ [Login!Next]_(Login!loginVars) => Login!BarInv'
<1> SUFFICES ASSUME Login!BarInv, [Login!Next]_(Login!loginVars)
             PROVE  Login!BarInv'
  OBVIOUS
<1>0. Login!NoCall \in Login!Caller /\ Login!NoCall.pc = "idle" /\ Login!NoCall.barred = FALSE
  BY LoginAssumption DEF Login!NoCall, Login!Caller, Login!CallerPc, Login!UserStatuses
<1> USE <1>0 DEF Login!BarInv, Login!TypeOK, Login!Writing, Login!SuspendedStayOut, Login!Caller,
    Login!CallerPc, Login!UserStatuses, Login!Goes, Login!Ends, Login!Idle
<1>1. ASSUME NEW c \in Callers, NEW t \in Tokens, Login!LoginBegins(c, t)
      PROVE  Login!BarInv'
  BY <1>1 DEF Login!LoginBegins
<1>2. ASSUME NEW c \in Callers, NEW t \in Tokens, Login!RequestBegins(c, t)
      PROVE  Login!BarInv'
  <2>1. CASE UNCHANGED Login!loginVars
    BY <2>1 DEF Login!loginVars
  <2>2. ~UNCHANGED Login!loginVars =>
          Login!Goes(c, [Login!NoCall EXCEPT !.pc = "user", !.token = t, !.barred = Login!Suspended])
    BY <1>2 DEF Login!RequestBegins, Login!loginVars
  <2>3. Login!Suspended \in BOOLEAN
    BY DEF Login!Suspended
  <2> DEFINE begun == [Login!NoCall EXCEPT !.pc = "user", !.token = t, !.barred = Login!Suspended]
  <2>4. /\ begun \in Login!Caller /\ begun.pc = "user"
        /\ begun.barred => Login!Suspended
    BY <2>3
  <2> HIDE DEF begun
  <2>5. CASE Login!Goes(c, begun)
    BY <1>2, <2>4, <2>5 DEF Login!RequestBegins, Login!Suspended
  <2> QED
    BY <2>1, <2>2, <2>5 DEF begun
<1>3. ASSUME NEW c \in Callers, Login!TokenSaved(c)
      PROVE  Login!BarInv'
  BY <1>3 DEF Login!TokenSaved
<1>4. ASSUME NEW c \in Callers, Login!LoggedIn(c)
      PROVE  Login!BarInv'
  BY <1>4 DEF Login!LoggedIn, Login!saveUser
<1>5. ASSUME NEW c \in Callers, NEW status \in Login!UserStatuses, Login!UpdateBegins(c, status)
      PROVE  Login!BarInv'
  BY <1>5 DEF Login!UpdateBegins
<1>6. ASSUME NEW c \in Callers, Login!Updated(c)
      PROVE  Login!BarInv'
  BY <1>6 DEF Login!Updated, Login!saveUser
<1>7. ASSUME NEW c \in Callers, Login!UserKnown(c)
      PROVE  Login!BarInv'
  BY <1>7 DEF Login!UserKnown
<1>8. ASSUME NEW c \in Callers, Login!Handled(c)
      PROVE  Login!BarInv'
  BY <1>8 DEF Login!Handled
<1>9. ASSUME NEW c \in Callers, Login!Rejected(c)
      PROVE  Login!BarInv'
  BY <1>9 DEF Login!Rejected
<1>10. ASSUME NEW t \in Tokens, Login!Expires(t)
       PROVE  Login!BarInv'
  BY <1>10 DEF Login!Expires
<1>11. CASE UNCHANGED Login!loginVars
  BY <1>11 DEF Login!loginVars
<1> QED
  BY <1>1, <1>2, <1>3, <1>4, <1>5, <1>6, <1>7, <1>8, <1>9, <1>10, <1>11 DEF Login!Next

LEMMA LoginInit == Login!Init => Login!BarInv
<1>1. Login!NoCall \in Login!Caller /\ Login!NoCall.pc = "idle" /\ Login!NoCall.barred = FALSE
  BY LoginAssumption DEF Login!NoCall, Login!Caller, Login!CallerPc, Login!UserStatuses
<1> QED
  BY <1>1
  DEF Login!Init, Login!BarInv, Login!TypeOK, Login!Writing, Login!SuspendedStayOut,
      Login!UserStatuses

-----------------------------------------------------------------------------
(* A guarded route.  First what the table of routes has in common: the      *)
(* roles a guard knows, and that no route writes for just any key, but the  *)
(* one that checks a key.                                                  *)
Paths == {"session", "another", "nothing"}

Fits(r) ==
  /\ r.guard = "key"   => r.role \in {"any", "operator", "admin"}
  /\ r.guard = "omega" => r.role \in {"everyone", "staff", "super"} /\ r.path = "nothing"
  /\ r.guard \in {"key", "open", "omega"} /\ r.path \in Paths
  /\ r.does = "writes" /\ r.name \notin {"validate", "logout"} =>
       \/ r.guard = "key" /\ r.role # "any"
       \/ r.guard = "omega" /\ r.role # "everyone"

LEMMA ReadsFit == \A path \in Paths : \A of, names : \A r \in Access!Reads(of, names, path) : Fits(r)
  BY DEF Access!Reads, Access!Route, Fits

LEMMA ForFits ==
  \A role \in {"operator", "admin"}, path \in Paths : \A of, names :
    \A r \in Access!For(role, of, names, path) : Fits(r)
  BY DEF Access!For, Access!Route, Fits

LEMMA ShowsFit ==
  \A role \in {"operator", "admin"}, path \in Paths : \A of, names :
    \A r \in Access!Shows(role, of, names, path) : Fits(r)
  BY DEF Access!Shows, Access!Route, Fits

LEMMA OpenFits == \A of, names : \A r \in Access!Open(of, names) : Fits(r)
  BY DEF Access!Open, Access!Route, Fits, Paths

LEMMA StaffFits ==
  \A roles \in {"everyone", "staff", "super"}, does \in {"reads", "writes"} : \A of, names :
    does = "reads" \/ roles # "everyone" \/ names = {"logout"} => \A r \in Access!Staff(roles, of, names, does) : Fits(r)
  BY DEF Access!Staff, Access!Route, Fits, Paths

LEMMA RoutesFit == \A r \in Access!Routes : Fits(r)
<1> USE ReadsFit, ForFits, ShowsFit DEF Paths
<1>1. \A r \in Access!MessageReads \cup Access!MessageSends \cup Access!MessageActions
                 \cup Access!MessageBatches : Fits(r)
  BY DEF Access!MessageReads, Access!MessageSends, Access!MessageActions, Access!MessageBatches
<1>2. \A r \in Access!SessionRoutes \cup Access!SessionChatRoutes : Fits(r)
  BY DEF Access!SessionRoutes, Access!SessionChatRoutes
<1>3. \A r \in Access!GroupRoutes \cup Access!ContactRoutes \cup Access!ChannelRoutes
                 \cup Access!LabelRoutes : Fits(r)
  BY DEF Access!GroupRoutes, Access!ContactRoutes, Access!ChannelRoutes, Access!LabelRoutes
<1>4. \A r \in Access!CatalogRoutes \cup Access!StatusRoutes \cup Access!TemplateRoutes : Fits(r)
  BY DEF Access!CatalogRoutes, Access!StatusRoutes, Access!TemplateRoutes
<1>5. \A r \in Access!WebhookRoutes \cup Access!WebhookList \cup Access!KeyRoutes : Fits(r)
  BY DEF Access!WebhookRoutes, Access!WebhookList, Access!KeyRoutes
<1>6. \A r \in Access!KeyCheck : Fits(r)
  BY DEF Access!KeyCheck, Access!For, Access!Route, Fits
<1>7. \A r \in Access!PluginRoutes \cup Access!SettingsRoutes \cup Access!AuditRoutes
                 \cup Access!StatsRoutes : Fits(r)
  BY DEF Access!PluginRoutes, Access!SettingsRoutes, Access!AuditRoutes, Access!StatsRoutes
<1>8. \A r \in Access!HealthRoutes \cup Access!MetricsRoutes \cup Access!InfraRoutes : Fits(r)
  BY OpenFits DEF Access!HealthRoutes, Access!MetricsRoutes, Access!InfraRoutes
<1>9. \A r \in Access!OmegaAuthRoutes \cup Access!OmegaAdminRoutes : Fits(r)
  BY OpenFits, StaffFits DEF Access!OmegaAuthRoutes, Access!OmegaAdminRoutes
<1> QED
  BY <1>1, <1>2, <1>3, <1>4, <1>5, <1>6, <1>7, <1>8, <1>9 DEF Access!Routes

(* A request that is somewhere on its way: what changes with its step.      *)
LEMMA CarriedGoes ==
  ASSUME NEW q \in Access!Request, NEW pc \in Access!Pc \ {"idle"}
  PROVE  LET moved == [q EXCEPT !.pc = pc]
         IN  /\ moved \in Access!Request /\ moved # Access!NoRequest
             /\ moved.pc = pc /\ moved.route = q.route /\ moved.param = q.param
             /\ moved.copy = q.copy /\ moved.user = q.user
  BY DEF Access!Request, Access!NoRequest, Access!Pc

(* Below, v1 is the key, v2 the request, v3 what was seen of the key, and   *)
(* v5 what happened.                                                       *)
LEMMA RouteStep == Access!GuardInv /\ [Access!Next]_(Access!routeVars) => Access!GuardInv'
<1> SUFFICES ASSUME Access!GuardInv, [Access!Next]_(Access!routeVars)
             PROVE  Access!GuardInv'
  OBVIOUS
<1> USE DEF Access!GuardInv, Access!Records, Access!Ends
<1>1. ASSUME NEW r \in Access!Routes, NEW u \in Access!OmegaUserRoles \cup {"none"},
             NEW p \in Access!ParamsOf(r), Access!Arrives(r, p, u), v2 = Access!NoRequest
      PROVE  Access!GuardInv'
  <2>1. p \in Access!Params /\ r.guard \in {"key", "open", "omega"}
    BY RoutesFit DEF Fits, Paths, Access!ParamsOf, Access!Params
  <2>2. /\ v2' \in Access!Request /\ v2' # Access!NoRequest
        /\ v2'.route = r /\ v2'.param = p /\ v2'.copy = v1 /\ v2'.user = u
        /\ v2'.pc = IF r.guard = "open" THEN "handler" ELSE IF u # "none" THEN "roles" ELSE "key"
    BY <1>1, <2>1 DEF Access!Arrives, Access!Request, Access!NoRequest, Access!Pc
  <2>3. Access!Guarded(v2')
    BY <1>1, <2>1, <2>2 DEF Access!Arrives, Access!Guarded, Access!Guarded
  <2> QED
    BY <1>1, <2>2, <2>3 DEF Access!Arrives
<1>2. CASE Access!KeyRead
  <2>1. /\ v2' \in Access!Request /\ v2' # Access!NoRequest
        /\ v2'.route = v2.route /\ v2'.param = v2.param /\ v2'.copy = v1 /\ v2'.user = v2.user
        /\ v2'.pc = "read"
    BY <1>2 DEF Access!KeyRead, Access!Request, Access!NoRequest, Access!Pc
  <2>2. Access!Guarded(v2')
    BY <1>2, <2>1 DEF Access!KeyRead, Access!Guarded
  <2> QED
    BY <1>2, <2>1, <2>2 DEF Access!KeyRead
<1>3. CASE Access!canActivate
  <2>1. CASE Access!Passes(v2) /\ Access!Goes("handler") /\ UNCHANGED v3
    <3>1. /\ v2' \in Access!Request /\ v2' # Access!NoRequest
          /\ v2'.route = v2.route /\ v2'.param = v2.param /\ v2'.copy = v2.copy
          /\ v2'.user = v2.user /\ v2'.pc = "handler"
      BY <1>3, <2>1, CarriedGoes DEF Access!canActivate, Access!Goes, Access!Pc
    <3>2. v2.user = "none"
      BY <1>3 DEF Access!canActivate, Access!Guarded
    <3>3. Access!Guarded(v2')
      BY <2>1, <3>1, <3>2 DEF Access!Guarded, Access!Passes, Access!Valid
    <3> QED
      BY <1>3, <2>1, <3>1, <3>3 DEF Access!canActivate
  <2>2. CASE Access!Ends
    BY <1>3, <2>2 DEF Access!canActivate
  <2> QED
    BY <1>3, <2>1, <2>2 DEF Access!canActivate
<1>4. CASE Access!RolesChecked
  <2>1. CASE Access!HasRole(v2) /\ Access!Goes("handler") /\ UNCHANGED v3
    <3>1. /\ v2' \in Access!Request /\ v2' # Access!NoRequest
          /\ v2'.route = v2.route /\ v2'.param = v2.param /\ v2'.copy = v2.copy
          /\ v2'.user = v2.user /\ v2'.pc = "handler"
      BY <1>4, <2>1, CarriedGoes DEF Access!RolesChecked, Access!Goes, Access!Pc
    <3>2. v2.user # "none"
      BY <1>4 DEF Access!RolesChecked, Access!Guarded
    <3>3. Access!Guarded(v2')
      BY <2>1, <3>1, <3>2 DEF Access!Guarded, Access!HasRole
    <3> QED
      BY <1>4, <2>1, <3>1, <3>3 DEF Access!RolesChecked
  <2>2. CASE Access!Ends
    BY <1>4, <2>2 DEF Access!RolesChecked
  <2> QED
    BY <1>4, <2>1, <2>2 DEF Access!RolesChecked
<1>5. CASE Access!Throws
  BY <1>5 DEF Access!Throws
<1>6. CASE Access!Succeeds
  <2>1. CASE Access!Goes("audit") /\ v5' = v5 \cup {v2.route} /\ UNCHANGED v3
    <3>1. /\ v2' \in Access!Request /\ v2' # Access!NoRequest
          /\ v2'.route = v2.route /\ v2'.param = v2.param /\ v2'.copy = v2.copy
          /\ v2'.user = v2.user /\ v2'.pc = "audit"
      BY <1>6, <2>1, CarriedGoes DEF Access!Succeeds, Access!Goes, Access!Pc
    <3>2. Access!Guarded(v2')
      BY <1>6, <3>1 DEF Access!Succeeds, Access!Guarded, Access!HasRole, Access!Passes, Access!Valid
    <3>3. v2.route \in Access!Routes
      BY <1>6 DEF Access!Succeeds, Access!Request
    <3> QED
      BY <1>6, <2>1, <3>1, <3>2, <3>3 DEF Access!Succeeds
  <2>2. CASE Access!Ends /\ UNCHANGED v5
    BY <1>6, <2>2 DEF Access!Succeeds
  <2> QED
    BY <1>6, <2>1, <2>2 DEF Access!Succeeds
<1>7. CASE Access!LogEnds
  BY <1>7 DEF Access!LogEnds
<1>8. CASE Access!cleanup
  BY <1>8 DEF Access!cleanup
<1>9. ASSUME NEW k \in Access!Key, Access!KeyChanges(k)
      PROVE  Access!GuardInv'
  BY <1>9 DEF Access!KeyChanges
<1>10. CASE UNCHANGED Access!routeVars
  BY <1>10 DEF Access!routeVars
<1> QED
  BY <1>1, <1>2, <1>3, <1>4, <1>5, <1>6, <1>7, <1>8, <1>9, <1>10 DEF Access!Next

LEMMA RouteInit == Access!Init => Access!GuardInv
  BY DEF Access!Init, Access!GuardInv

(* The types: those of the request and of the key are in GuardInv.          *)
LEMMA RouteTypes ==
  Access!GuardInv /\ Access!GuardInv' /\ Access!TypeOK /\ [Access!Next]_(Access!routeVars) => Access!TypeOK'
<1> SUFFICES ASSUME Access!GuardInv, Access!GuardInv', Access!TypeOK,
                    [Access!Next]_(Access!routeVars)
             PROVE  Access!TypeOK'
  OBVIOUS
<1>1. v1' \in Access!Key /\ (v2' = Access!NoRequest \/ v2' \in Access!Request)
  BY DEF Access!GuardInv
<1> DEFINE Rest == /\ v3' \subseteq Access!Key /\ v4' \cup v5' \cup v6' \subseteq Access!Audited
                   /\ v7' \in 0..MaxRequests /\ v8' \in 0..MaxKeyChanges
<1>2. Rest
  <2>1. /\ v1 \in Access!Key /\ v3 \subseteq Access!Key /\ v4 \cup v5 \cup v6 \subseteq Access!Audited
        /\ v7 \in 0..MaxRequests /\ v8 \in 0..MaxKeyChanges
        /\ v2 # Access!NoRequest /\ v2.pc = "audit" => v2.route \in v5
    BY DEF Access!TypeOK, Access!GuardInv
  <2>2. MaxRequests \in Nat /\ MaxKeyChanges \in Nat
    BY RouteAssumption
  <2>3. ASSUME NEW r, NEW u, NEW p, Access!Arrives(r, p, u)
        PROVE  Rest
    BY <2>1, <2>2, <2>3 DEF Access!Arrives
  <2>4. CASE Access!KeyRead
    BY <2>1, <2>4 DEF Access!KeyRead, Access!Records
  <2>5. CASE Access!canActivate
    BY <2>1, <2>5 DEF Access!canActivate, Access!Records, Access!Ends
  <2>6. CASE Access!RolesChecked
    BY <2>1, <2>6 DEF Access!RolesChecked, Access!Records, Access!Ends
  <2>7. CASE Access!Throws
    BY <2>1, <2>7 DEF Access!Throws, Access!Records, Access!Ends
  <2>8. CASE Access!Succeeds
    BY <2>1, <2>8 DEF Access!Succeeds, Access!Ends
  <2>9. CASE Access!LogEnds
    BY <2>1, <2>9 DEF Access!LogEnds, Access!Ends
  <2>10. CASE Access!cleanup
    BY <2>1, <2>10 DEF Access!cleanup
  <2>11. ASSUME NEW k \in Access!Key, Access!KeyChanges(k), v8 < MaxKeyChanges
         PROVE  Rest
    BY <2>1, <2>2, <2>11 DEF Access!KeyChanges, Access!Records
  <2>12. CASE UNCHANGED Access!routeVars
    BY <2>1, <2>12 DEF Access!routeVars
  <2> HIDE DEF Rest
  <2> QED
    BY <2>3, <2>4, <2>5, <2>6, <2>7, <2>8, <2>9, <2>10, <2>11, <2>12 DEF Access!Next
<1> QED
  BY <1>1, <1>2 DEF Access!TypeOK

LEMMA RouteTypesInit == Access!Init => Access!TypeOK
  BY RouteAssumption DEF Access!Init, Access!TypeOK

(* What the invariant says of the requests a handler runs for.              *)
LEMMA RouteGrants ==
  Access!GuardInv => Access!GrantedAsRead /\ Access!ViewersOnlyRead /\ Access!LogTellsTrue
<1> SUFFICES ASSUME Access!GuardInv
             PROVE  Access!GrantedAsRead /\ Access!ViewersOnlyRead /\ Access!LogTellsTrue
  OBVIOUS
<1>1. Access!LogTellsTrue
  BY DEF Access!GuardInv, Access!LogTellsTrue
<1>2. CASE ~Access!Handling
  BY <1>1, <1>2 DEF Access!GrantedAsRead, Access!ViewersOnlyRead
<1>3. CASE Access!Handling
  <2>1. /\ v2 \in Access!Request /\ v2.copy \in v3 /\ v2.copy \in Access!Key
        /\ v2.param \in Access!ParamsOf(v2.route) /\ Fits(v2.route)
        /\ v2.route \in Access!Routes
    BY <1>3, RoutesFit DEF Access!Handling, Access!GuardInv, Access!Request
  <2>2. \/ v2.route.guard = "open" /\ v2.user = "none"
        \/ v2.user = "none" /\ Access!Passes(v2)
        \/ v2.user # "none" /\ v2.route.guard = "omega" /\ Access!HasRole(v2)
    BY <1>3 DEF Access!Handling, Access!GuardInv, Access!Guarded
  <2>3. CASE v2.route.guard = "open" /\ v2.user = "none"
    BY <1>1, <2>1, <2>3 DEF Fits, Access!GrantedAsRead, Access!ViewersOnlyRead
  <2>4. CASE v2.user # "none" /\ v2.route.guard = "omega" /\ Access!HasRole(v2)
    <3>1. v2.route.does = "writes" /\ v2.route.name \notin {"validate", "logout"} => v2.user \in Access!Insiders
      BY <2>1, <2>4 DEF Fits, Access!HasRole, Access!OmegaRoles, Access!OmegaUserRoles,
                        Access!Insiders
    <3> QED
      BY <1>1, <2>4, <3>1 DEF Access!GrantedAsRead, Access!ViewersOnlyRead
  <2>5. CASE v2.user = "none" /\ Access!Passes(v2) /\ v2.route.guard # "open"
    <3> DEFINE k == v2.copy
               role == v2.route.role
    <3>1. /\ k.active /\ k.role \in {"viewer", "operator", "admin"}
          /\ \/ k.allowedSessions = {} \/ v2.route.guard = "omega" \/ v2.param = "nothing"
             \/ v2.param \in k.allowedSessions
          /\ Access!Rank[k.role] >= Access!Rank[Access!Needed(v2.route)]
      BY <2>1, <2>5 DEF Access!Passes, Access!Valid, Access!hasPermission, Access!Key,
                        Access!KeyRoles
    <3>2. v2.param \in WaSessions => k.allowedSessions = {} \/ v2.param \in k.allowedSessions
      BY <2>1, <3>1, RouteAssumption DEF Fits, Access!ParamsOf
    <3>3. CASE v2.route.guard = "key"
      <4>1. /\ role = "operator" => k.role # "viewer"
            /\ role = "admin" => k.role = "admin"
            /\ role \in {"any", "operator", "admin"}
        BY <2>1, <3>1, <3>3 DEF Fits, Access!Needed, Access!Rank
      <4>2. v2.route.does = "writes" /\ v2.route.name \notin {"validate", "logout"} => k.role # "viewer"
        BY <2>1, <3>3, <4>1 DEF Fits
      <4> QED
        BY <1>1, <2>1, <2>5, <3>1, <3>2, <4>1, <4>2
        DEF Access!GrantedAsRead, Access!ViewersOnlyRead
    <3>4. CASE v2.route.guard = "omega"
      <4>1. k.role = "admin"
        BY <3>1, <3>4 DEF Access!Needed, Access!Rank
      <4> QED
        BY <1>1, <2>1, <2>5, <3>1, <3>2, <4>1 DEF Access!GrantedAsRead, Access!ViewersOnlyRead
    <3> QED
      BY <2>1, <2>5, <3>3, <3>4 DEF Fits
  <2> QED
    BY <2>2, <2>3, <2>4, <2>5
<1> QED
  BY <1>2, <1>3

-----------------------------------------------------------------------------
(* The clients of the Omega layer.  Below, v1 is gateway, v2 rows, v3       *)
(* limits, v4 subscriptions, v5 op, v6 operations, v7 agreed, v8 overtaken  *)
(* and v9 excused.                                                         *)

LEMMA NoOpShaped ==
  /\ Tenants!NoOp \in Tenants!Op /\ Tenants!NoOp.pc = "idle"
  /\ Tenants!NoOp.session = NoOne /\ Tenants!NoOp.client = NoOne /\ Tenants!NoOp.todo = {}
  /\ Tenants!NoOp.copies = [s \in WaSessions |-> Tenants!NoRow]
  /\ Tenants!NoRow \in Tenants!WaRow /\ Tenants!NoRow.clientId = NoOne
  /\ ~Tenants!NoRow.assignedToClient /\ ~Tenants!NoRow.here
  BY DEF Tenants!NoOp, Tenants!Op, Tenants!NoRow, Tenants!WaRow, Tenants!OpPc, Tenants!OmegaStatuses

(* The cardinality that the component uses is the one of the library.       *)
LEMMA Counts == \A S : Tenants!Cardinality(S) = Cardinality(S)
  BY DEF Tenants!Cardinality, Cardinality

(* What a synchronisation and an assignment save has the type of a row.     *)
LEMMA SavedShaped ==
  ASSUME NEW o \in Tenants!Op, NEW s \in WaSessions
  PROVE  /\ s \in Tenants!Listed(o) => Tenants!Seen(o, s) \in Tenants!WaRow
         /\ s \in Tenants!Listed(o) => Tenants!Seen(o, s).clientId = o.copies[s].clientId
         /\ s \in Tenants!Listed(o) => Tenants!Marked(Tenants!Seen(o, s))
         /\ Tenants!Gone(o, s) \in Tenants!WaRow
         /\ Tenants!Gone(o, s).clientId = o.copies[s].clientId
         /\ Tenants!Gone(o, s).assignedToClient = o.copies[s].assignedToClient
<1>1. o.copies[s] \in Tenants!WaRow
  BY DEF Tenants!Op
<1>2. ASSUME s \in Tenants!Listed(o)
      PROVE  (CHOOSE e \in o.list : e[1] = s)[2] \in Tenants!OmegaStatuses
  <2>1. \E e \in o.list : e[1] = s
    BY <1>2 DEF Tenants!Listed
  <2>2. (CHOOSE e \in o.list : e[1] = s) \in o.list
    BY <2>1
  <2> QED
    BY <2>2 DEF Tenants!Op
<1>3. s \in Tenants!Listed(o) =>
        /\ Tenants!Seen(o, s) \in Tenants!WaRow /\ Tenants!Seen(o, s).clientId = o.copies[s].clientId
        /\ Tenants!Marked(Tenants!Seen(o, s))
  <2> DEFINE status == (CHOOSE e \in o.list : e[1] = s)[2]
  <2> HIDE DEF status
  <2>1. Tenants!Seen(o, s) = [o.copies[s] EXCEPT !.here = TRUE, !.status = status,
                                !.assignedToClient = o.copies[s].clientId # NoOne]
    BY DEF Tenants!Seen, status
  <2>2. s \in Tenants!Listed(o) => status \in Tenants!OmegaStatuses
    BY <1>2 DEF status
  <2> QED
    BY <1>1, <2>1, <2>2 DEF Tenants!WaRow, Tenants!Marked
<1> QED
  BY <1>1, <1>3 DEF Tenants!Gone, Tenants!WaRow, Tenants!OmegaStatuses

(* An operation that goes on, or ends, without saving anything.             *)
LEMMA OpReplaced ==
  ASSUME Tenants!TenantInv, NEW r \in Requests, NEW o \in Tenants!Op,
         v5' = [v5 EXCEPT ![r] = o], v2' = v2, v3' = v3, v4' = v4, v7' = v7,
         v1' \in SUBSET (WaSessions \X Tenants!OmegaStatuses), v6' \in 0..MaxOperations,
         v8 \subseteq v8', v8' \subseteq WaSessions \cup Clients,
         v9 \subseteq v9', v9' \subseteq Clients,
         Tenants!Sound(o), Tenants!Fresh(o), \A s \in WaSessions : Tenants!Marked(o.copies[s]),
         o.pc # "subscribe", v5[r].pc = "subscribe" => v5[r].client \in v8',
         o.pc = "row" /\ o.client \in Clients \ v9' =>
           Tenants!RoomFor(o) /\ \A q \in Requests \ {r} : ~Tenants!Assigning(q, o.client)
  PROVE  Tenants!TenantInv'
<1>1. Tenants!TypeOK'
  BY DEF Tenants!TenantInv, Tenants!TypeOK
<1>2. /\ v5 \in [Requests -> Tenants!Op] /\ v5'[r] = o
      /\ \A q \in Requests \ {r} : v5'[q] = v5[q]
  BY DEF Tenants!TenantInv, Tenants!TypeOK
<1>3. ASSUME NEW q \in Requests
      PROVE  /\ Tenants!Sound(v5[q])' /\ Tenants!Fresh(v5[q])'
             /\ \A s \in WaSessions : Tenants!Marked(v5[q].copies[s])'
  <2>1. CASE q = r
    BY <1>2, <2>1 DEF Tenants!Sound, Tenants!Fresh, Tenants!Marked
  <2>2. CASE q # r
    BY <1>2, <2>2 DEF Tenants!TenantInv, Tenants!Sound, Tenants!Fresh, Tenants!Marked
  <2> QED
    BY <2>1, <2>2
<1>4. \A c : (Tenants!SessionsOf(c))' = Tenants!SessionsOf(c)
  BY DEF Tenants!SessionsOf
<1>5. Tenants!RoomLeft'
  <2> SUFFICES ASSUME NEW c \in Clients, c \notin v9'
               PROVE  /\ Cardinality(Tenants!SessionsOf(c)) <= v3[c]
                      /\ \A q \in Requests : Tenants!Assigning(q, c)' =>
                           /\ Tenants!RoomFor(v5[q])'
                           /\ \A p \in Requests \ {q} : ~Tenants!Assigning(p, c)'
    BY <1>4, Counts DEF Tenants!RoomLeft
  <2>1. /\ Cardinality(Tenants!SessionsOf(c)) <= v3[c]
        /\ \A q \in Requests : Tenants!Assigning(q, c) =>
             /\ Tenants!RoomFor(v5[q])
             /\ \A p \in Requests \ {q} : ~Tenants!Assigning(p, c)
    BY Counts DEF Tenants!TenantInv, Tenants!RoomLeft
  <2>2. /\ \A q \in Requests \ {r} : Tenants!Assigning(q, c)' <=> Tenants!Assigning(q, c)
        /\ Tenants!Assigning(r, c)' <=> o.pc = "row" /\ o.client = c
    BY <1>2 DEF Tenants!Assigning
  <2>3. /\ \A q \in Requests \ {r} : Tenants!RoomFor(v5[q]) => Tenants!RoomFor(v5[q])'
        /\ Tenants!RoomFor(o) => Tenants!RoomFor(v5[r])'
    BY <1>2, <1>4 DEF Tenants!RoomFor
  <2> QED
    BY <2>1, <2>2, <2>3
<1>6. Tenants!SubscriptionsKept'
  <2> SUFFICES ASSUME NEW c \in Clients, c \notin v8'
               PROVE  /\ \A q \in Requests : Tenants!Subscribing(q, c)' => v5'[q].limit = v3[c]
                      /\ (\A q \in Requests : ~Tenants!Subscribing(q, c)') => v4[c] = v3[c]
    BY DEF Tenants!SubscriptionsKept
  <2>1. /\ \A q \in Requests : Tenants!Subscribing(q, c) => v5[q].limit = v3[c]
        /\ (\A q \in Requests : ~Tenants!Subscribing(q, c)) => v4[c] = v3[c]
    BY DEF Tenants!TenantInv, Tenants!SubscriptionsKept
  <2>2. /\ \A q \in Requests \ {r} : Tenants!Subscribing(q, c)' <=> Tenants!Subscribing(q, c)
        /\ ~Tenants!Subscribing(r, c)' /\ ~Tenants!Subscribing(r, c)
    BY <1>2 DEF Tenants!Subscribing
  <2> QED
    BY <1>2, <2>1, <2>2
<1> QED
  BY <1>1, <1>3, <1>5, <1>6 DEF Tenants!TenantInv, Tenants!Marked

(* The steps that only read, each up to the operation that it leaves.       *)
LEMMA TenantsRead ==
  ASSUME Tenants!TenantInv, NEW r \in Requests,
         \/ \E s \in WaSessions :
              \/ \E c \in Clients, override \in BOOLEAN : Tenants!AssignBegins(r, s, c, override)
              \/ Tenants!UnassignBegins(r, s) \/ Tenants!FlagBegins(r, s)
         \/ Tenants!ClientRead(r) \/ Tenants!SyncBegins(r) \/ Tenants!RowsRead(r)
         \/ \E c \in Clients, n \in Limits : Tenants!UpdateBegins(r, c, n)
         \/ Tenants!Rejected(r)
  PROVE  Tenants!TenantInv'
<1>1. /\ v1 \in SUBSET (WaSessions \X Tenants!OmegaStatuses) /\ v2 \in [WaSessions -> Tenants!WaRow]
      /\ v3 \in [Clients -> Limits] /\ v5 \in [Requests -> Tenants!Op] /\ v6 \in 0..MaxOperations
      /\ v8 \subseteq WaSessions \cup Clients /\ v9 \subseteq Clients
      /\ Tenants!Sound(v5[r]) /\ Tenants!Fresh(v5[r])
      /\ \A s \in WaSessions : Tenants!Marked(v5[r].copies[s]) /\ Tenants!Marked(v2[s])
  BY DEF Tenants!TenantInv, Tenants!TypeOK
<1>2. ASSUME NEW o \in Tenants!Op, Tenants!Begins(r, o), Tenants!RowsKept, Tenants!ClientsKept,
             Tenants!Sound(o), Tenants!Fresh(o), \A s \in WaSessions : Tenants!Marked(o.copies[s]),
             o.pc # "subscribe", o.pc = "row" => o.client = NoOne
      PROVE  Tenants!TenantInv'
  <2>1. /\ v5' = [v5 EXCEPT ![r] = o] /\ v6' \in 0..MaxOperations /\ v5[r].pc # "subscribe"
    BY <1>1, <1>2, TenantsAssumption DEF Tenants!Begins
  <2> QED
    BY <1>1, <1>2, <2>1, OpReplaced, TenantsAssumption DEF Tenants!RowsKept, Tenants!ClientsKept
<1>3. ASSUME NEW o \in Tenants!Op, Tenants!Goes(r, o), Tenants!RowsKept, Tenants!ClientsKept,
             Tenants!Sound(o), Tenants!Fresh(o), \A s \in WaSessions : Tenants!Marked(o.copies[s]),
             o.pc # "subscribe", v5[r].pc # "subscribe", o.pc # "row"
      PROVE  Tenants!TenantInv'
  BY <1>1, <1>3, OpReplaced DEF Tenants!RowsKept, Tenants!ClientsKept, Tenants!Goes
<1>4. ASSUME NEW s \in WaSessions, NEW c \in Clients, NEW override \in BOOLEAN,
             Tenants!AssignBegins(r, s, c, override)
      PROVE  Tenants!TenantInv'
  <2> DEFINE o == [Tenants!NoOp EXCEPT !.pc = "client", !.session = s, !.client = c,
                     !.override = override, !.copies = Tenants!Copied(s)]
  <2>1. /\ o \in Tenants!Op /\ o.pc = "client" /\ o.session = s /\ o.client = c
        /\ \A t \in WaSessions : o.copies[t] = IF t = s THEN v2[s] ELSE Tenants!NoRow
    BY <1>1, NoOpShaped DEF Tenants!Op, Tenants!OpPc, Tenants!Copied
  <2>2. Tenants!Begins(r, o) /\ Tenants!RowsKept /\ Tenants!ClientsKept
    BY <1>4 DEF Tenants!AssignBegins
  <2> HIDE DEF o
  <2>3. /\ Tenants!Sound(o) /\ Tenants!Fresh(o)
        /\ \A t \in WaSessions : Tenants!Marked(o.copies[t])
    BY <1>1, <2>1, NoOpShaped DEF Tenants!Sound, Tenants!Fresh, Tenants!Marked
  <2> QED
    BY <1>2, <2>1, <2>2, <2>3
<1>5. ASSUME NEW s \in WaSessions, Tenants!UnassignBegins(r, s)
      PROVE  Tenants!TenantInv'
  <2> DEFINE row == [v2[s] EXCEPT !.clientId = NoOne, !.assignedToClient = FALSE]
             o == [Tenants!NoOp EXCEPT !.pc = "row", !.session = s, !.copies[s] = row]
  <2>1. Tenants!Begins(r, o) /\ Tenants!RowsKept /\ Tenants!ClientsKept
    BY <1>5 DEF Tenants!UnassignBegins
  <2>2. row \in Tenants!WaRow /\ row.clientId = NoOne /\ ~row.assignedToClient
    BY <1>1 DEF Tenants!WaRow
  <2> HIDE DEF row
  <2>3. /\ o \in Tenants!Op /\ o.pc = "row" /\ o.session = s /\ o.client = NoOne
        /\ \A t \in WaSessions : o.copies[t] = IF t = s THEN row ELSE Tenants!NoRow
    BY <2>2, NoOpShaped DEF Tenants!Op, Tenants!OpPc
  <2> HIDE DEF o
  <2>4. /\ Tenants!Sound(o) /\ Tenants!Fresh(o)
        /\ \A t \in WaSessions : Tenants!Marked(o.copies[t])
    BY <2>2, <2>3, NoOpShaped DEF Tenants!Sound, Tenants!Fresh, Tenants!Marked
  <2> QED
    BY <1>2, <2>1, <2>3, <2>4
<1>6. ASSUME NEW s \in WaSessions, Tenants!FlagBegins(r, s)
      PROVE  Tenants!TenantInv'
  <2> DEFINE row == [v2[s] EXCEPT !.replacementRequested = ~@]
             o == [Tenants!NoOp EXCEPT !.pc = "row", !.session = s, !.copies[s] = row]
  <2>1. Tenants!Begins(r, o) /\ Tenants!RowsKept /\ Tenants!ClientsKept
    BY <1>6 DEF Tenants!FlagBegins
  <2>2. row \in Tenants!WaRow /\ row.clientId = v2[s].clientId /\ Tenants!Marked(row)
    BY <1>1 DEF Tenants!WaRow, Tenants!Marked
  <2> HIDE DEF row
  <2>3. /\ o \in Tenants!Op /\ o.pc = "row" /\ o.session = s /\ o.client = NoOne
        /\ \A t \in WaSessions : o.copies[t] = IF t = s THEN row ELSE Tenants!NoRow
    BY <2>2, NoOpShaped DEF Tenants!Op, Tenants!OpPc
  <2> HIDE DEF o
  <2>4. /\ Tenants!Sound(o) /\ Tenants!Fresh(o)
        /\ \A t \in WaSessions : Tenants!Marked(o.copies[t])
    BY <2>2, <2>3, NoOpShaped DEF Tenants!Sound, Tenants!Fresh, Tenants!Marked
  <2> QED
    BY <1>2, <2>1, <2>3, <2>4
<1>7. CASE Tenants!ClientRead(r)
  <2> DEFINE o == [v5[r] EXCEPT !.pc = "count", !.limit = v3[v5[r].client]]
  <2>1. /\ v5[r].pc = "client"
        /\ Tenants!Goes(r, o) /\ Tenants!RowsKept /\ Tenants!ClientsKept
    BY <1>7 DEF Tenants!ClientRead
  <2>2. v5[r].client \in Clients
    BY <1>1, <2>1 DEF Tenants!Sound
  <2>3. /\ o \in Tenants!Op /\ o.pc = "count" /\ o.session = v5[r].session
        /\ o.client = v5[r].client /\ o.copies = v5[r].copies
    BY <1>1, <2>2 DEF Tenants!Op, Tenants!OpPc
  <2> HIDE DEF o
  <2>4. /\ Tenants!Sound(o) /\ Tenants!Fresh(o)
        /\ \A t \in WaSessions : Tenants!Marked(o.copies[t])
    BY <1>1, <2>1, <2>3 DEF Tenants!Sound, Tenants!Fresh
  <2> QED
    BY <1>3, <2>1, <2>3, <2>4
<1>8. CASE Tenants!SyncBegins(r)
  <2> DEFINE o == [Tenants!NoOp EXCEPT !.pc = "listed", !.list = v1]
  <2>1. Tenants!Begins(r, o) /\ Tenants!RowsKept /\ Tenants!ClientsKept
    BY <1>8 DEF Tenants!SyncBegins
  <2>2. /\ o \in Tenants!Op /\ o.pc = "listed" /\ o.session = NoOne /\ o.client = NoOne
        /\ \A t \in WaSessions : o.copies[t] = Tenants!NoRow
    BY <1>1, NoOpShaped DEF Tenants!Op, Tenants!OpPc
  <2> HIDE DEF o
  <2>3. /\ Tenants!Sound(o) /\ Tenants!Fresh(o)
        /\ \A t \in WaSessions : Tenants!Marked(o.copies[t])
    BY <2>2, NoOpShaped DEF Tenants!Sound, Tenants!Fresh, Tenants!Marked
  <2> QED
    BY <1>2, <2>1, <2>2, <2>3
<1>9. CASE Tenants!RowsRead(r)
  <2> DEFINE todo == Tenants!Listed(v5[r]) \cup {s \in WaSessions : v2[s].here}
             o == [v5[r] EXCEPT !.pc = "sync", !.copies = v2, !.todo = todo]
  <2>1. /\ v5[r].pc = "listed"
        /\ Tenants!Goes(r, o) /\ Tenants!RowsKept /\ Tenants!ClientsKept
    BY <1>9 DEF Tenants!RowsRead
  <2>2. todo \subseteq WaSessions
    BY <1>1 DEF Tenants!Op, Tenants!Listed
  <2> HIDE DEF todo
  <2>3. /\ o \in Tenants!Op /\ o.pc = "sync" /\ o.session = v5[r].session
        /\ o.client = v5[r].client /\ o.copies = v2
    BY <1>1, <2>2 DEF Tenants!Op, Tenants!OpPc
  <2> HIDE DEF o
  <2>4. /\ Tenants!Sound(o) /\ Tenants!Fresh(o)
        /\ \A t \in WaSessions : Tenants!Marked(o.copies[t])
    BY <1>1, <2>1, <2>3 DEF Tenants!Sound, Tenants!Fresh
  <2> QED
    BY <1>3, <2>1, <2>3, <2>4
<1>10. ASSUME NEW c \in Clients, NEW n \in Limits, Tenants!UpdateBegins(r, c, n)
       PROVE  Tenants!TenantInv'
  <2> DEFINE o == [Tenants!NoOp EXCEPT !.pc = "limit", !.client = c, !.limit = n]
  <2>1. Tenants!Begins(r, o) /\ Tenants!RowsKept /\ Tenants!ClientsKept
    BY <1>10 DEF Tenants!UpdateBegins
  <2>2. /\ o \in Tenants!Op /\ o.pc = "limit" /\ o.session = NoOne /\ o.client = c /\ o.limit = n
        /\ \A t \in WaSessions : o.copies[t] = Tenants!NoRow
    BY NoOpShaped DEF Tenants!Op, Tenants!OpPc
  <2> HIDE DEF o
  <2>3. /\ Tenants!Sound(o) /\ Tenants!Fresh(o)
        /\ \A t \in WaSessions : Tenants!Marked(o.copies[t])
    BY <2>2, NoOpShaped DEF Tenants!Sound, Tenants!Fresh, Tenants!Marked
  <2> QED
    BY <1>2, <2>1, <2>2, <2>3
<1>11. CASE Tenants!Rejected(r)
  <2> DEFINE o == Tenants!NoOp
  <2>1. /\ v5' = [v5 EXCEPT ![r] = o] /\ v6' = v6 /\ v2' = v2 /\ v7' = v7 /\ v9' = v9
        /\ v8' = v8 \cup (IF v5[r].pc = "subscribe" THEN {v5[r].client} ELSE {})
        /\ v1' = v1 /\ v3' = v3 /\ v4' = v4
    BY <1>11 DEF Tenants!Rejected, Tenants!Ends, Tenants!ClientsKept
  <2>2. v8' \subseteq WaSessions \cup Clients /\ v8 \subseteq v8'
    BY <1>1, <2>1 DEF Tenants!Sound
  <2>3. /\ Tenants!Sound(o) /\ Tenants!Fresh(o)
        /\ \A t \in WaSessions : Tenants!Marked(o.copies[t])
    BY NoOpShaped DEF Tenants!Sound, Tenants!Fresh, Tenants!Marked
  <2> QED
    BY <1>1, <2>1, <2>2, <2>3, NoOpShaped, OpReplaced
<1> QED
  BY <1>4, <1>5, <1>6, <1>7, <1>8, <1>9, <1>10, <1>11

(* An assignment that was counted: it has room for its session, or whoever  *)
(* is to have it is excused.                                               *)
LEMMA TenantsCounted ==
  ASSUME Tenants!TenantInv, NEW r \in Requests, Tenants!Counted(r)
  PROVE  Tenants!TenantInv'
<1> DEFINE o == v5[r]
           full == /\ Tenants!Cardinality(Tenants!SessionsOf(o.client)) >= o.limit
                   /\ o.copies[o.session].clientId # o.client
                   /\ ~o.override
           next == [o EXCEPT !.pc = "row", !.copies[o.session] = Tenants!Assigned(o)]
<1>1. /\ o.pc = "count" /\ o \in Tenants!Op /\ o.session \in WaSessions /\ o.client \in Clients
      /\ v1 \in SUBSET (WaSessions \X Tenants!OmegaStatuses)
      /\ v3 \in [Clients -> Limits] /\ v6 \in 0..MaxOperations
      /\ v8 \subseteq WaSessions \cup Clients /\ v9 \subseteq Clients
      /\ Tenants!Fresh(o) /\ \A s \in WaSessions : Tenants!Marked(o.copies[s])
  BY DEF Tenants!TenantInv, Tenants!TypeOK, Tenants!Counted, Tenants!Sound
<1>2. CASE full
  <2>1. Tenants!Ends(r) /\ v9' = v9 /\ v2' = v2 /\ v8' = v8 /\ v7' = v7 /\ Tenants!ClientsKept
    BY <1>2 DEF Tenants!Counted
  <2>2. /\ Tenants!Sound(Tenants!NoOp) /\ Tenants!Fresh(Tenants!NoOp)
        /\ \A t \in WaSessions : Tenants!Marked(Tenants!NoOp.copies[t])
    BY NoOpShaped DEF Tenants!Sound, Tenants!Fresh, Tenants!Marked
  <2> QED
    BY <1>1, <2>1, <2>2, NoOpShaped, OpReplaced DEF Tenants!Ends, Tenants!ClientsKept
<1>3. CASE ~full
  <2>1. /\ Tenants!Goes(r, next)
        /\ v9' = v9 \cup (IF o.override \/ Tenants!Races(r) THEN {o.client} ELSE {})
        /\ v2' = v2 /\ v8' = v8 /\ v7' = v7 /\ Tenants!ClientsKept
    BY <1>3 DEF Tenants!Counted
  <2> DEFINE row == Tenants!Assigned(o)
  <2>2. row \in Tenants!WaRow /\ row.clientId = o.client /\ Tenants!Marked(row)
    <3>1. o.copies[o.session] \in Tenants!WaRow
      BY <1>1 DEF Tenants!Op
    <3>2. row = [o.copies[o.session] EXCEPT !.clientId = o.client, !.assignedToClient = TRUE,
                                            !.replacementRequested = FALSE]
      BY DEF Tenants!Assigned
    <3> QED
      <4>1. o.client \in Clients /\ o.client # NoOne
        BY <1>1, TenantsAssumption
      <4> HIDE DEF row, o
      <4> QED
        BY <3>1, <3>2, <4>1 DEF Tenants!WaRow, Tenants!Marked
  <2> HIDE DEF row
  <2>3. /\ next \in Tenants!Op /\ next.pc = "row" /\ next.session = o.session
        /\ next.client = o.client
        /\ \A t \in WaSessions : next.copies[t] = IF t = o.session THEN row ELSE o.copies[t]
    BY <1>1, <2>2 DEF Tenants!Op, Tenants!OpPc, row
  <2>4. /\ Tenants!Sound(next) /\ Tenants!Fresh(next)
        /\ \A t \in WaSessions : Tenants!Marked(next.copies[t])
    <3> HIDE DEF next
    <3> QED
      BY <1>1, <2>2, <2>3, TenantsAssumption DEF Tenants!Sound, Tenants!Fresh
  <2>5. ASSUME o.client \notin v9'
        PROVE  Tenants!RoomFor(next) /\ \A q \in Requests \ {r} : ~Tenants!Assigning(q, o.client)
    <3>1. ~o.override /\ o.limit = v3[o.client]
          /\ \A q \in Tenants!Others(r) : ~(v5[q].pc = "row" /\ v5[q].client = o.client)
      BY <2>1, <2>5 DEF Tenants!Races
    <3>2. \A q \in Requests \ {r} : ~Tenants!Assigning(q, o.client)
      BY <3>1 DEF Tenants!Others, Tenants!Assigning
    <3>3. CASE o.copies[o.session].clientId = o.client
      BY <1>1, <2>3, <3>2, <3>3 DEF Tenants!Fresh, Tenants!RoomFor, Tenants!SessionsOf
    <3>4. CASE o.copies[o.session].clientId # o.client
      <4>1. Cardinality(Tenants!SessionsOf(o.client)) \in Nat
        BY FS_Subset, FS_CardinalityType, TenantsAssumption DEF Tenants!SessionsOf
      <4>2. o.limit \in Nat
        BY <1>1, <3>1, TenantsAssumption
      <4>3. Tenants!Cardinality(Tenants!SessionsOf(o.client)) < v3[o.client]
        BY <1>3, <3>1, <3>4, <4>1, <4>2, Counts
      <4> QED
        BY <2>3, <3>2, <4>3 DEF Tenants!RoomFor
    <3> QED
      BY <3>3, <3>4
  <2>6. v9 \subseteq v9' /\ v9' \subseteq Clients
    BY <1>1, <2>1
  <2>7. o.client \notin v9' =>
          Tenants!RoomFor(next) /\ \A q \in Requests \ {r} : ~Tenants!Assigning(q, next.client)
    BY <2>3, <2>5
  <2>8. v5' = [v5 EXCEPT ![r] = next] /\ v6' = v6 /\ v1' = v1 /\ v3' = v3 /\ v4' = v4
    BY <2>1 DEF Tenants!Goes, Tenants!ClientsKept
  <2>9. v5[r].pc # "subscribe" /\ next.pc # "subscribe"
    BY <1>1, <2>3
  <2> HIDE DEF next
  <2> QED
    BY <1>1, <2>1, <2>3, <2>4, <2>6, <2>7, <2>8, <2>9, OpReplaced
<1> QED
  BY <1>2, <1>3

(* A client keeps its sessions but for the row that is saved.               *)
LEMMA SessionsMoved ==
  ASSUME v2 \in [WaSessions -> Tenants!WaRow], NEW s \in WaSessions, NEW row \in Tenants!WaRow,
         v2' = [v2 EXCEPT ![s] = row], NEW c
  PROVE  /\ Tenants!SessionsOf(c)' =
              (Tenants!SessionsOf(c) \ {s}) \cup (IF row.clientId = c THEN {s} ELSE {})
         /\ Cardinality(Tenants!SessionsOf(c)) \in Nat
         /\ Cardinality(Tenants!SessionsOf(c)') \in Nat
         /\ row.clientId # c \/ s \in Tenants!SessionsOf(c) =>
              Cardinality(Tenants!SessionsOf(c)') <= Cardinality(Tenants!SessionsOf(c))
         /\ Cardinality(Tenants!SessionsOf(c)') <= Cardinality(Tenants!SessionsOf(c)) + 1
<1> DEFINE S == Tenants!SessionsOf(c)
           T == Tenants!SessionsOf(c)'
<1>1. T = (S \ {s}) \cup (IF row.clientId = c THEN {s} ELSE {})
  BY DEF Tenants!SessionsOf
<1>2. S \subseteq WaSessions /\ T \subseteq WaSessions
  BY DEF Tenants!SessionsOf
<1>3. IsFiniteSet(S) /\ IsFiniteSet(T)
  BY <1>2, FS_Subset, TenantsAssumption
<1> HIDE DEF S, T
<1>4. Cardinality(S) \in Nat /\ Cardinality(T) \in Nat
  BY <1>3, FS_CardinalityType
<1>5. row.clientId # c \/ s \in S => Cardinality(T) <= Cardinality(S)
  <2>1. row.clientId # c \/ s \in S => T \subseteq S
    BY <1>1
  <2> QED
    BY <1>3, <2>1, FS_Subset
<1>6. Cardinality(T) <= Cardinality(S) + 1
  <2>1. T \subseteq S \cup {s}
    BY <1>1
  <2>2. IsFiniteSet(S \cup {s}) /\ Cardinality(S \cup {s}) <= Cardinality(S) + 1
    <3>1. /\ IsFiniteSet(S \cup {s})
          /\ Cardinality(S \cup {s}) = IF s \in S THEN Cardinality(S) ELSE Cardinality(S) + 1
      BY <1>3, FS_AddElement
    <3> QED
      BY <1>4, <3>1
  <2>3. Cardinality(T) <= Cardinality(S \cup {s}) /\ Cardinality(S \cup {s}) \in Nat
    BY <2>1, <2>2, FS_Subset, FS_CardinalityType
  <2> QED
    BY <1>4, <2>2, <2>3
<1> QED
  BY <1>1, <1>4, <1>5, <1>6 DEF S, T

(* A row that is saved: whoever held another copy of it is overtaken, and   *)
(* whoever gets it without having been counted for it is excused.           *)
LEMMA RowReplaced ==
  ASSUME Tenants!TenantInv, NEW r \in Requests, NEW s \in WaSessions,
         NEW row \in Tenants!WaRow, Tenants!Marked(row), Tenants!saveRow(r, s, row),
         v1' = v1, v3' = v3, v4' = v4, v6' = v6,
         NEW o \in Tenants!Op, v5' = [v5 EXCEPT ![r] = o],
         (v5[r].pc = "row" /\ v5[r].session = s) \/ v5[r].pc = "sync",
         \/ o = Tenants!NoOp
         \/ /\ v5[r].pc = "sync" /\ o.pc = "sync" /\ o.session = NoOne /\ o.client = NoOne
            /\ o.copies = v5[r].copies /\ o.todo = v5[r].todo \ {s},
         v7' \in [WaSessions -> Clients \cup {NoOne}],
         \A t \in WaSessions \ {s} : v7'[t] = v7[t],
         s \notin v8 => v7'[s] = row.clientId
  PROVE  Tenants!TenantInv'
<1>1. /\ v1 \in SUBSET (WaSessions \X Tenants!OmegaStatuses) /\ v2 \in [WaSessions -> Tenants!WaRow]
      /\ v3 \in [Clients -> Limits] /\ v4 \in [Clients -> Limits]
      /\ v5 \in [Requests -> Tenants!Op] /\ v6 \in 0..MaxOperations
      /\ v8 \subseteq WaSessions \cup Clients /\ v9 \subseteq Clients
      /\ Tenants!Sound(v5[r]) /\ Tenants!Fresh(v5[r])
      /\ \A t \in WaSessions : Tenants!Marked(v5[r].copies[t]) /\ Tenants!Marked(v2[t])
  BY DEF Tenants!TenantInv, Tenants!TypeOK
<1>2. /\ v2' = [v2 EXCEPT ![s] = row]
      /\ v9' = v9 \cup ({row.clientId} \ ({v2[s].clientId, NoOne}
                          \cup (IF s \in v8 THEN {} ELSE {v5[r].client})))
      /\ v8' = v8 \cup (IF \E q \in Tenants!Others(r) : Tenants!HoldsRow(q, s) THEN {s} ELSE {})
  BY DEF Tenants!saveRow
<1>3. v8 \subseteq v8' /\ v8' \subseteq WaSessions \cup Clients
      /\ v9 \subseteq v9' /\ v9' \subseteq Clients
  BY <1>1, <1>2 DEF Tenants!WaRow
<1>4. Tenants!TypeOK'
  BY <1>1, <1>2, <1>3 DEF Tenants!TypeOK
<1>5. v5'[r] = o /\ \A q \in Requests \ {r} : v5'[q] = v5[q]
  BY <1>1
<1>6. v2'[s] = row /\ \A t \in WaSessions \ {s} : v2'[t] = v2[t]
  BY <1>1, <1>2
<1>7. ASSUME NEW q \in Requests \ {r}, v5[q].pc # "idle", Tenants!HoldsRow(q, s)
      PROVE  s \in v8'
  BY <1>2, <1>7 DEF Tenants!Others
<1>8. ASSUME NEW q \in Requests
      PROVE  /\ Tenants!Sound(v5[q])' /\ Tenants!Fresh(v5[q])'
             /\ \A t \in WaSessions : Tenants!Marked(v5[q].copies[t])'
  <2>1. CASE q = r /\ o = Tenants!NoOp
    BY <1>5, <2>1, NoOpShaped DEF Tenants!Sound, Tenants!Fresh, Tenants!Marked
  <2>2. CASE q = r /\ o # Tenants!NoOp
    BY <1>1, <1>3, <1>5, <1>6, <2>2 DEF Tenants!Sound, Tenants!Fresh, Tenants!Marked
  <2>3. CASE q # r
    <3>1. /\ Tenants!Sound(v5[q]) /\ Tenants!Fresh(v5[q]) /\ v5'[q] = v5[q]
          /\ \A t \in WaSessions : Tenants!Marked(v5[q].copies[t])
      BY <1>5, <2>3 DEF Tenants!TenantInv
    <3>2. ASSUME NEW t \in WaSessions, t \notin v8'
          PROVE  /\ v5[q].pc \in {"client", "count"} /\ v5[q].session = t =>
                      v5[q].copies[t] = v2'[t]
                 /\ v5[q].pc = "row" /\ v5[q].session = t /\ v5[q].client = NoOne =>
                      v5[q].copies[t].clientId \in {v2'[t].clientId, NoOne}
                 /\ v5[q].pc = "sync" /\ t \in v5[q].todo => v5[q].copies[t] = v2'[t]
      <4>1. CASE t = s
        BY <1>7, <2>3, <3>2, <4>1 DEF Tenants!HoldsRow
      <4>2. CASE t # s
        BY <1>3, <1>6, <3>1, <3>2, <4>2 DEF Tenants!Fresh
      <4> QED
        BY <4>1, <4>2
    <3> QED
      BY <3>1, <3>2 DEF Tenants!Sound, Tenants!Fresh, Tenants!Marked
  <2> QED
    BY <2>1, <2>2, <2>3
<1>9. Tenants!RoomLeft'
  <2> SUFFICES ASSUME NEW c \in Clients, c \notin v9'
               PROVE  /\ Cardinality(Tenants!SessionsOf(c)') <= v3[c]
                      /\ \A q \in Requests : Tenants!Assigning(q, c)' =>
                           /\ Tenants!RoomFor(v5[q])'
                           /\ \A p \in Requests \ {q} : ~Tenants!Assigning(p, c)'
    BY Counts DEF Tenants!RoomLeft
  <2>1. /\ Cardinality(Tenants!SessionsOf(c)) <= v3[c]
        /\ \A q \in Requests : Tenants!Assigning(q, c) =>
             /\ Tenants!RoomFor(v5[q])
             /\ \A p \in Requests \ {q} : ~Tenants!Assigning(p, c)
    BY <1>3, Counts DEF Tenants!TenantInv, Tenants!RoomLeft
  <2>2. /\ \A q \in Requests \ {r} : Tenants!Assigning(q, c)' <=> Tenants!Assigning(q, c)
        /\ ~Tenants!Assigning(r, c)'
    BY <1>5, NoOpShaped DEF Tenants!Assigning
  <2>3. /\ Tenants!SessionsOf(c)' =
              (Tenants!SessionsOf(c) \ {s}) \cup (IF row.clientId = c THEN {s} ELSE {})
        /\ Cardinality(Tenants!SessionsOf(c)) \in Nat
        /\ Cardinality(Tenants!SessionsOf(c)') \in Nat
        /\ row.clientId # c \/ s \in Tenants!SessionsOf(c) =>
             Cardinality(Tenants!SessionsOf(c)') <= Cardinality(Tenants!SessionsOf(c))
        /\ Cardinality(Tenants!SessionsOf(c)') <= Cardinality(Tenants!SessionsOf(c)) + 1
    BY <1>1, <1>2, SessionsMoved
  <2>4. v3[c] \in Nat
    BY <1>1, TenantsAssumption
  <2>5. CASE row.clientId # c \/ s \in Tenants!SessionsOf(c)
    <3>1. Cardinality(Tenants!SessionsOf(c)') <= Cardinality(Tenants!SessionsOf(c))
      BY <2>3, <2>5
    <3>2. ASSUME NEW q \in Requests \ {r}, Tenants!Assigning(q, c), Tenants!RoomFor(v5[q])
          PROVE  Tenants!RoomFor(v5[q])'
      <4>1. v5[q].client = c /\ v5'[q] = v5[q] /\ v5[q].pc # "idle"
        BY <1>5, <3>2 DEF Tenants!Assigning
      <4>2. \/ v5[q].session \in Tenants!SessionsOf(c) \cup v8
            \/ Cardinality(Tenants!SessionsOf(c)) < v3[c]
        BY <3>2, <4>1, Counts DEF Tenants!RoomFor
      <4>3. CASE Cardinality(Tenants!SessionsOf(c)) < v3[c]
        <5>1. Cardinality(Tenants!SessionsOf(c)') < v3[c]
          BY <2>3, <2>4, <3>1, <4>3
        <5> QED
          BY <4>1, <5>1, Counts DEF Tenants!RoomFor
      <4>4. CASE v5[q].session \in Tenants!SessionsOf(c) \cup v8
        <5>1. v5[q].session \in Tenants!SessionsOf(c)' \cup v8'
          BY <1>3, <1>7, <2>3, <4>1, <4>4 DEF Tenants!HoldsRow
        <5> QED
          BY <4>1, <5>1 DEF Tenants!RoomFor
      <4> QED
        BY <4>2, <4>3, <4>4
    <3> QED
      BY <2>1, <2>2, <2>3, <2>4, <3>1, <3>2
  <2>6. CASE row.clientId = c /\ s \notin Tenants!SessionsOf(c)
    <3>1. v2[s].clientId # c /\ c # NoOne
      BY <2>6, TenantsAssumption DEF Tenants!SessionsOf
    <3>2. s \notin v8 /\ v5[r].client = c
      BY <1>2, <2>6, <3>1
    <3>3. Tenants!Assigning(r, c) /\ v5[r].session = s
      BY <1>1, <3>1, <3>2 DEF Tenants!Sound, Tenants!Assigning
    <3>4. Cardinality(Tenants!SessionsOf(c)) < v3[c]
      BY <2>1, <2>6, <3>2, <3>3, Counts DEF Tenants!RoomFor
    <3>5. \A q \in Requests : ~Tenants!Assigning(q, c)'
      BY <2>1, <2>2, <3>3
    <3>6. Cardinality(Tenants!SessionsOf(c)') <= v3[c]
      BY <2>3, <2>4, <3>4
    <3> QED
      BY <3>5, <3>6
  <2> QED
    BY <2>5, <2>6
<1>10. Tenants!SubscriptionsKept'
  <2> SUFFICES ASSUME NEW c \in Clients, c \notin v8'
               PROVE  /\ \A q \in Requests : Tenants!Subscribing(q, c)' => v5'[q].limit = v3[c]
                      /\ (\A q \in Requests : ~Tenants!Subscribing(q, c)') => v4[c] = v3[c]
    BY DEF Tenants!SubscriptionsKept
  <2>1. /\ \A q \in Requests : Tenants!Subscribing(q, c) => v5[q].limit = v3[c]
        /\ (\A q \in Requests : ~Tenants!Subscribing(q, c)) => v4[c] = v3[c]
    BY <1>3 DEF Tenants!TenantInv, Tenants!SubscriptionsKept
  <2>2. /\ \A q \in Requests \ {r} : Tenants!Subscribing(q, c)' <=> Tenants!Subscribing(q, c)
        /\ ~Tenants!Subscribing(r, c)' /\ ~Tenants!Subscribing(r, c)
    BY <1>5, NoOpShaped DEF Tenants!Subscribing
  <2> QED
    BY <1>5, <2>1, <2>2
<1>11. \A t \in WaSessions : Tenants!Marked(v2[t])'
  BY <1>1, <1>6 DEF Tenants!Marked
<1>12. \A t \in WaSessions \ v8' : v2'[t].clientId = v7'[t]
  BY <1>3, <1>6 DEF Tenants!TenantInv
<1> QED
  BY <1>4, <1>8, <1>9, <1>10, <1>11, <1>12 DEF Tenants!TenantInv, Tenants!Marked

(* The steps that save rows.                                               *)
LEMMA TenantsSave ==
  ASSUME Tenants!TenantInv, NEW r \in Requests,
         Tenants!RowSaved(r) \/ Tenants!SyncSaves(r) \/ Tenants!SyncMarksStale(r)
  PROVE  Tenants!TenantInv'
<1> DEFINE op == v5[r]
<1>1. /\ op \in Tenants!Op /\ v5 \in [Requests -> Tenants!Op]
      /\ v2 \in [WaSessions -> Tenants!WaRow] /\ v7 \in [WaSessions -> Clients \cup {NoOne}]
      /\ v1 \in SUBSET (WaSessions \X Tenants!OmegaStatuses) /\ v6 \in 0..MaxOperations
      /\ v8 \subseteq WaSessions \cup Clients /\ v9 \subseteq Clients
      /\ Tenants!Sound(op) /\ Tenants!Fresh(op)
      /\ \A s \in WaSessions : Tenants!Marked(op.copies[s])
      /\ \A s \in WaSessions \ v8 : v2[s].clientId = v7[s]
  BY DEF Tenants!TenantInv, Tenants!TypeOK
<1>2. CASE Tenants!RowSaved(r)
  <2> DEFINE s == op.session
             row == op.copies[s]
  <2>1. /\ op.pc = "row" /\ Tenants!saveRow(r, s, row) /\ v7' = [v7 EXCEPT ![s] = row.clientId]
        /\ v5' = [v5 EXCEPT ![r] = Tenants!NoOp] /\ v6' = v6 /\ v1' = v1 /\ v3' = v3 /\ v4' = v4
    BY <1>2 DEF Tenants!RowSaved, Tenants!Ends, Tenants!ClientsKept
  <2>2. s \in WaSessions
    BY <1>1, <2>1 DEF Tenants!Sound
  <2>3. row \in Tenants!WaRow /\ Tenants!Marked(row) /\ row.clientId \in Clients \cup {NoOne}
    BY <1>1, <2>2 DEF Tenants!Op, Tenants!WaRow
  <2>4. /\ v7' \in [WaSessions -> Clients \cup {NoOne}] /\ v7'[s] = row.clientId
        /\ \A t \in WaSessions \ {s} : v7'[t] = v7[t]
    BY <1>1, <2>1, <2>2, <2>3
  <2> QED
    BY <2>1, <2>2, <2>3, <2>4, NoOpShaped, RowReplaced
<1>3. ASSUME NEW s \in op.todo, op.pc = "sync", NEW row \in Tenants!WaRow, Tenants!Marked(row),
             row.clientId = op.copies[s].clientId,
             Tenants!saveRow(r, s, row), Tenants!Done(r, s), v7' = v7, Tenants!ClientsKept
      PROVE  Tenants!TenantInv'
  <2>1. s \in WaSessions
    BY <1>1, <1>3 DEF Tenants!Op
  <2>2. s \notin v8 => v7'[s] = row.clientId
    BY <1>1, <1>3, <2>1 DEF Tenants!Fresh
  <2>3. v1' = v1 /\ v3' = v3 /\ v4' = v4 /\ v6' = v6
    BY <1>3 DEF Tenants!ClientsKept, Tenants!Done, Tenants!Ends, Tenants!Goes
  <2> DEFINE left == op.todo \ {s}
             next == [op EXCEPT !.todo = left]
  <2>4. v5' = [v5 EXCEPT ![r] = Tenants!NoOp] \/ v5' = [v5 EXCEPT ![r] = next]
    BY <1>3 DEF Tenants!Done, Tenants!Ends, Tenants!Goes
  <2>5. /\ next \in Tenants!Op /\ next.pc = "sync" /\ next.session = NoOne /\ next.client = NoOne
        /\ next.copies = op.copies /\ next.todo = left
    BY <1>1, <1>3 DEF Tenants!Op, Tenants!Sound
  <2> HIDE DEF next
  <2>6. CASE v5' = [v5 EXCEPT ![r] = Tenants!NoOp]
    BY <1>1, <1>3, <2>1, <2>2, <2>3, <2>6, NoOpShaped, RowReplaced
  <2>7. CASE v5' = [v5 EXCEPT ![r] = next]
    BY <1>1, <1>3, <2>1, <2>2, <2>3, <2>5, <2>7, RowReplaced
  <2> QED
    BY <2>4, <2>6, <2>7
<1>4. CASE Tenants!SyncSaves(r)
  <2>1. PICK s \in op.todo \cap Tenants!Listed(op) :
          /\ op.pc = "sync"
          /\ IF ~op.copies[s].here /\ v2[s].here
             THEN Tenants!Ends(r) /\ UNCHANGED <<v2, v8, v9>>
             ELSE Tenants!saveRow(r, s, Tenants!Seen(op, s)) /\ Tenants!Done(r, s)
          /\ v7' = v7 /\ Tenants!ClientsKept
    BY <1>4 DEF Tenants!SyncSaves
  <2>2. s \in WaSessions
    BY <1>1 DEF Tenants!Op
  <2>3. CASE ~op.copies[s].here /\ v2[s].here
    <3>1. /\ Tenants!Sound(Tenants!NoOp) /\ Tenants!Fresh(Tenants!NoOp)
          /\ \A t \in WaSessions : Tenants!Marked(Tenants!NoOp.copies[t])
      BY NoOpShaped DEF Tenants!Sound, Tenants!Fresh, Tenants!Marked
    <3>2. /\ v5' = [v5 EXCEPT ![r] = Tenants!NoOp] /\ v6' = v6 /\ v1' = v1 /\ v3' = v3 /\ v4' = v4
          /\ v2' = v2 /\ v8' = v8 /\ v9' = v9 /\ v7' = v7
      BY <2>1, <2>3 DEF Tenants!Ends, Tenants!ClientsKept
    <3> QED
      BY <1>1, <2>1, <3>1, <3>2, NoOpShaped, OpReplaced
  <2>4. CASE ~(~op.copies[s].here /\ v2[s].here)
    BY <1>1, <1>3, <2>1, <2>2, <2>4, SavedShaped
  <2> QED
    BY <2>3, <2>4
<1>5. CASE Tenants!SyncMarksStale(r)
  <2>1. PICK s \in op.todo :
          /\ op.pc = "sync" /\ Tenants!saveRow(r, s, Tenants!Gone(op, s)) /\ Tenants!Done(r, s)
          /\ v7' = v7 /\ Tenants!ClientsKept
    BY <1>5 DEF Tenants!SyncMarksStale
  <2>2. s \in WaSessions
    BY <1>1 DEF Tenants!Op
  <2>3. Tenants!Marked(Tenants!Gone(op, s))
    BY <1>1, <2>2, SavedShaped DEF Tenants!Marked
  <2> QED
    BY <1>1, <1>3, <2>1, <2>2, <2>3, SavedShaped
<1> QED
  BY <1>2, <1>4, <1>5

(* A client's new limit is saved, and then its subscription.                *)
LEMMA TenantsUpdate ==
  ASSUME Tenants!TenantInv, NEW r \in Requests,
         Tenants!ClientSaved(r) \/ Tenants!SubscriptionSaved(r)
  PROVE  Tenants!TenantInv'
<1> DEFINE op == v5[r]
           k == op.client
<1>1. /\ op \in Tenants!Op /\ v5 \in [Requests -> Tenants!Op]
      /\ v2 \in [WaSessions -> Tenants!WaRow] /\ v7 \in [WaSessions -> Clients \cup {NoOne}]
      /\ v1 \in SUBSET (WaSessions \X Tenants!OmegaStatuses) /\ v6 \in 0..MaxOperations
      /\ v3 \in [Clients -> Limits] /\ v4 \in [Clients -> Limits]
      /\ v8 \subseteq WaSessions \cup Clients /\ v9 \subseteq Clients
      /\ Tenants!Sound(op) /\ Tenants!Fresh(op)
      /\ \A s \in WaSessions : Tenants!Marked(op.copies[s])
  BY DEF Tenants!TenantInv, Tenants!TypeOK
<1>2. \A q \in Requests :
        /\ Tenants!Sound(v5[q]) /\ Tenants!Fresh(v5[q])
        /\ \A s \in WaSessions : Tenants!Marked(v5[q].copies[s])
  BY DEF Tenants!TenantInv
<1>3. ASSUME NEW c \in Clients
      PROVE  Cardinality(Tenants!SessionsOf(c)) \in Nat /\ v3[c] \in Nat
  BY <1>1, FS_Subset, FS_CardinalityType, TenantsAssumption DEF Tenants!SessionsOf
<1>4. CASE Tenants!ClientSaved(r)
  <2> DEFINE next == [op EXCEPT !.pc = "subscribe"]
  <2>1. /\ op.pc = "limit" /\ v3' = [v3 EXCEPT ![k] = op.limit]
        /\ v9' = v9 \cup (IF \/ op.limit < Tenants!Cardinality(Tenants!SessionsOf(k))
                             \/ \E q \in Tenants!Others(r) : v5[q].pc = "row" /\ v5[q].client = k
                          THEN {k} ELSE {})
        /\ v8' = v8 \cup (IF Tenants!Updating(k) = {r} THEN {} ELSE {k})
        /\ v5' = [v5 EXCEPT ![r] = next] /\ v6' = v6
        /\ v1' = v1 /\ v2' = v2 /\ v4' = v4 /\ v7' = v7
    BY <1>4 DEF Tenants!ClientSaved, Tenants!Goes
  <2>2. k \in Clients /\ op.limit \in Limits /\ op.session = NoOne
    BY <1>1, <2>1 DEF Tenants!Sound
  <2>3. /\ next \in Tenants!Op /\ next.pc = "subscribe" /\ next.session = NoOne
        /\ next.client = k /\ next.limit = op.limit /\ next.copies = op.copies
    BY <1>1, <2>2 DEF Tenants!Op, Tenants!OpPc
  <2> HIDE DEF next
  <2>4. v5'[r] = next /\ \A q \in Requests \ {r} : v5'[q] = v5[q]
    BY <1>1, <2>1
  <2>5. v8 \subseteq v8' /\ v8' \subseteq WaSessions \cup Clients
        /\ v9 \subseteq v9' /\ v9' \subseteq Clients
    BY <1>1, <2>1, <2>2
  <2>6. Tenants!TypeOK'
    BY <1>1, <2>1, <2>2, <2>3, <2>5 DEF Tenants!TypeOK
  <2>7. ASSUME NEW q \in Requests
        PROVE  /\ Tenants!Sound(v5[q])' /\ Tenants!Fresh(v5[q])'
               /\ \A t \in WaSessions : Tenants!Marked(v5[q].copies[t])'
    <3>1. CASE q = r
      BY <1>1, <2>2, <2>3, <2>4, <3>1 DEF Tenants!Sound, Tenants!Fresh, Tenants!Marked
    <3>2. CASE q # r
      BY <1>2, <2>1, <2>4, <2>5, <3>2 DEF Tenants!Sound, Tenants!Fresh, Tenants!Marked
    <3> QED
      BY <3>1, <3>2
  <2>8. \A c : Tenants!SessionsOf(c)' = Tenants!SessionsOf(c)
    BY <2>1 DEF Tenants!SessionsOf
  <2>9. Tenants!RoomLeft'
    <3> SUFFICES ASSUME NEW c \in Clients, c \notin v9'
                 PROVE  /\ Cardinality(Tenants!SessionsOf(c)) <= v3'[c]
                        /\ \A q \in Requests : Tenants!Assigning(q, c)' =>
                             /\ Tenants!RoomFor(v5[q])'
                             /\ \A p \in Requests \ {q} : ~Tenants!Assigning(p, c)'
      BY <2>8, Counts DEF Tenants!RoomLeft
    <3>1. /\ Cardinality(Tenants!SessionsOf(c)) <= v3[c]
          /\ \A q \in Requests : Tenants!Assigning(q, c) =>
               /\ Tenants!RoomFor(v5[q])
               /\ \A p \in Requests \ {q} : ~Tenants!Assigning(p, c)
      BY <2>5, Counts DEF Tenants!TenantInv, Tenants!RoomLeft
    <3>2. /\ \A q \in Requests \ {r} : Tenants!Assigning(q, c)' <=> Tenants!Assigning(q, c)
          /\ ~Tenants!Assigning(r, c)'
      BY <2>3, <2>4 DEF Tenants!Assigning
    <3>3. CASE c = k
      <4>1. /\ ~(op.limit < Cardinality(Tenants!SessionsOf(k))) /\ v3'[c] = op.limit
            /\ \A q \in Tenants!Others(r) : ~(v5[q].pc = "row" /\ v5[q].client = k)
        BY <1>1, <2>1, <3>3, Counts
      <4>2. \A q \in Requests \ {r} : ~Tenants!Assigning(q, c)
        BY <3>3, <4>1 DEF Tenants!Others, Tenants!Assigning
      <4>3. Cardinality(Tenants!SessionsOf(c)) <= v3'[c]
        <5>1. Cardinality(Tenants!SessionsOf(c)) \in Nat /\ op.limit \in Nat
          BY <1>3, <2>2, TenantsAssumption
        <5> QED
          BY <3>3, <4>1, <5>1
      <4> QED
        BY <3>2, <4>2, <4>3
    <3>4. CASE c # k
      <4>1. v3'[c] = v3[c]
        BY <1>1, <2>1, <3>4
      <4>2. ASSUME NEW q \in Requests \ {r}, Tenants!Assigning(q, c), Tenants!RoomFor(v5[q])
            PROVE  Tenants!RoomFor(v5[q])'
        BY <2>4, <2>5, <2>8, <4>1, <4>2 DEF Tenants!RoomFor, Tenants!Assigning
      <4> QED
        BY <3>1, <3>2, <4>1, <4>2
    <3> QED
      BY <3>3, <3>4
  <2>10. Tenants!SubscriptionsKept'
    <3> SUFFICES ASSUME NEW c \in Clients, c \notin v8'
                 PROVE  /\ \A q \in Requests : Tenants!Subscribing(q, c)' => v5'[q].limit = v3'[c]
                        /\ (\A q \in Requests : ~Tenants!Subscribing(q, c)') => v4[c] = v3'[c]
      BY <2>1 DEF Tenants!SubscriptionsKept
    <3>1. /\ \A q \in Requests : Tenants!Subscribing(q, c) => v5[q].limit = v3[c]
          /\ (\A q \in Requests : ~Tenants!Subscribing(q, c)) => v4[c] = v3[c]
      BY <2>5 DEF Tenants!TenantInv, Tenants!SubscriptionsKept
    <3>2. /\ \A q \in Requests \ {r} : Tenants!Subscribing(q, c)' <=> Tenants!Subscribing(q, c)
          /\ Tenants!Subscribing(r, c)' <=> c = k
          /\ ~Tenants!Subscribing(r, c)
      BY <2>1, <2>3, <2>4 DEF Tenants!Subscribing
    <3>3. CASE c = k
      <4>1. \A q \in Requests \ {r} : ~Tenants!Subscribing(q, c)
        BY <2>1, <3>3 DEF Tenants!Updating, Tenants!Subscribing
      <4>2. v3'[c] = op.limit
        BY <1>1, <2>1, <3>3
      <4> QED
        BY <2>3, <2>4, <3>2, <3>3, <4>1, <4>2
    <3>4. CASE c # k
      <4>1. v3'[c] = v3[c]
        BY <1>1, <2>1, <3>4
      <4> QED
        BY <2>4, <3>1, <3>2, <3>4, <4>1
    <3> QED
      BY <3>3, <3>4
  <2> QED
    BY <2>1, <2>5, <2>6, <2>7, <2>9, <2>10 DEF Tenants!TenantInv, Tenants!Marked
<1>5. CASE Tenants!SubscriptionSaved(r)
  <2>1. /\ op.pc = "subscribe" /\ v4' = [v4 EXCEPT ![k] = op.limit]
        /\ v5' = [v5 EXCEPT ![r] = Tenants!NoOp] /\ v6' = v6
        /\ v1' = v1 /\ v2' = v2 /\ v3' = v3 /\ v7' = v7 /\ v8' = v8 /\ v9' = v9
    BY <1>5 DEF Tenants!SubscriptionSaved, Tenants!Ends, Tenants!RowsKept
  <2>2. k \in Clients /\ op.limit \in Limits
    BY <1>1, <2>1 DEF Tenants!Sound
  <2>3. v5'[r] = Tenants!NoOp /\ \A q \in Requests \ {r} : v5'[q] = v5[q]
    BY <1>1, <2>1
  <2>4. Tenants!TypeOK'
    BY <1>1, <2>1, <2>2, NoOpShaped DEF Tenants!TypeOK
  <2>5. ASSUME NEW q \in Requests
        PROVE  /\ Tenants!Sound(v5[q])' /\ Tenants!Fresh(v5[q])'
               /\ \A t \in WaSessions : Tenants!Marked(v5[q].copies[t])'
    <3>1. CASE q = r
      BY <2>3, <3>1, NoOpShaped DEF Tenants!Sound, Tenants!Fresh, Tenants!Marked
    <3>2. CASE q # r
      BY <1>2, <2>1, <2>3, <3>2 DEF Tenants!Sound, Tenants!Fresh, Tenants!Marked
    <3> QED
      BY <3>1, <3>2
  <2>6. Tenants!RoomLeft'
    <3>1. \A c : Tenants!SessionsOf(c)' = Tenants!SessionsOf(c)
      BY <2>1 DEF Tenants!SessionsOf
    <3>2. \A q \in Requests, c \in Clients : Tenants!Assigning(q, c)' =>
            Tenants!Assigning(q, c) /\ v5'[q] = v5[q]
      BY <2>3, NoOpShaped DEF Tenants!Assigning
    <3>3. \A q \in Requests : v5'[q] = v5[q] /\ Tenants!RoomFor(v5[q]) => Tenants!RoomFor(v5[q])'
      BY <2>1, <3>1 DEF Tenants!RoomFor
    <3> QED
      BY <2>1, <3>1, <3>2, <3>3 DEF Tenants!TenantInv, Tenants!RoomLeft
  <2>7. Tenants!SubscriptionsKept'
    <3> SUFFICES ASSUME NEW c \in Clients, c \notin v8
                 PROVE  /\ \A q \in Requests : Tenants!Subscribing(q, c)' => v5'[q].limit = v3[c]
                        /\ (\A q \in Requests : ~Tenants!Subscribing(q, c)') => v4'[c] = v3[c]
      BY <2>1 DEF Tenants!SubscriptionsKept
    <3>1. /\ \A q \in Requests : Tenants!Subscribing(q, c) => v5[q].limit = v3[c]
          /\ (\A q \in Requests : ~Tenants!Subscribing(q, c)) => v4[c] = v3[c]
      BY DEF Tenants!TenantInv, Tenants!SubscriptionsKept
    <3>2. /\ \A q \in Requests \ {r} : Tenants!Subscribing(q, c)' <=> Tenants!Subscribing(q, c)
          /\ ~Tenants!Subscribing(r, c)'
          /\ Tenants!Subscribing(r, c) <=> c = k
      BY <2>1, <2>3, NoOpShaped DEF Tenants!Subscribing
    <3>3. v4'[c] = IF c = k THEN op.limit ELSE v4[c]
      BY <1>1, <2>1
    <3> QED
      <4>1. CASE c = k
        <5>1. v4'[c] = v3[c]
          BY <3>1, <3>2, <3>3, <4>1
        <5> QED
          BY <2>3, <3>1, <3>2, <5>1
      <4>2. CASE c # k
        <5>1. v4'[c] = v4[c]
          BY <3>3, <4>2
        <5> QED
          BY <2>3, <3>1, <3>2, <4>2, <5>1
      <4> QED
        BY <4>1, <4>2
  <2> QED
    BY <2>1, <2>4, <2>5, <2>6, <2>7 DEF Tenants!TenantInv, Tenants!Marked
<1> QED
  BY <1>4, <1>5

LEMMA TenantsStep ==
  Tenants!TenantInv /\ [Tenants!Next]_(Tenants!tenantVars) => Tenants!TenantInv'
<1> SUFFICES ASSUME Tenants!TenantInv, [Tenants!Next]_(Tenants!tenantVars)
             PROVE  Tenants!TenantInv'
  OBVIOUS
<1>1. ASSUME v2' = v2, v3' = v3, v4' = v4, v5' = v5, v7' = v7, v8' = v8, v9' = v9,
             v1' \in SUBSET (WaSessions \X Tenants!OmegaStatuses), v6' \in 0..MaxOperations
      PROVE  Tenants!TenantInv'
  <2>1. Tenants!TypeOK'
    BY <1>1 DEF Tenants!TenantInv, Tenants!TypeOK
  <2>2. \A r \in Requests :
          /\ Tenants!Sound(v5[r])' /\ Tenants!Fresh(v5[r])'
          /\ \A s \in WaSessions : Tenants!Marked(v5[r].copies[s])'
    BY <1>1 DEF Tenants!TenantInv, Tenants!Sound, Tenants!Fresh, Tenants!Marked
  <2>3. Tenants!RoomLeft'
    BY <1>1 DEF Tenants!TenantInv, Tenants!RoomLeft, Tenants!RoomFor, Tenants!SessionsOf,
                Tenants!Assigning
  <2>4. Tenants!SubscriptionsKept'
    BY <1>1 DEF Tenants!TenantInv, Tenants!SubscriptionsKept, Tenants!Subscribing
  <2> QED
    BY <1>1, <2>1, <2>2, <2>3, <2>4 DEF Tenants!TenantInv, Tenants!Marked
<1>2. ASSUME NEW s \in WaSessions, Tenants!GatewayChanges(s)
      PROVE  Tenants!TenantInv'
  <2>1. v1' \in SUBSET (WaSessions \X Tenants!OmegaStatuses)
    BY <1>2 DEF Tenants!GatewayChanges, Tenants!TenantInv, Tenants!TypeOK, Tenants!OmegaStatuses
  <2>2. v6' \in 0..MaxOperations
    BY <1>2, TenantsAssumption DEF Tenants!GatewayChanges, Tenants!TenantInv, Tenants!TypeOK
  <2> QED
    BY <1>1, <1>2, <2>1, <2>2 DEF Tenants!GatewayChanges, Tenants!RowsKept
<1>3. CASE UNCHANGED Tenants!tenantVars
  BY <1>1, <1>3 DEF Tenants!tenantVars, Tenants!TenantInv, Tenants!TypeOK
<1> QED
  BY <1>2, <1>3, TenantsRead, TenantsCounted, TenantsSave, TenantsUpdate DEF Tenants!Next

LEMMA TenantsInit == Tenants!Init => Tenants!TenantInv
<1> SUFFICES ASSUME Tenants!Init
             PROVE  Tenants!TenantInv
  OBVIOUS
<1>1. v8 = {} /\ v9 = {} /\ v6 = 0 /\ v5 = [r \in Requests |-> Tenants!NoOp]
      /\ v1 = {<<s, "connected">> : s \in WaSessions} /\ v7 = [s \in WaSessions |-> NoOne]
  BY DEF Tenants!Init
<1>2. PICK n \in Limits : v3 = [c \in Clients |-> n] /\ v4 = v3
  BY DEF Tenants!Init
<1>3. v2 \in [WaSessions -> Tenants!WaRow]
      /\ \A s \in WaSessions : v2[s].clientId = NoOne /\ ~v2[s].assignedToClient
  <2>1. PICK synced \in BOOLEAN :
          v2 = [s \in WaSessions |->
                  IF synced THEN [Tenants!NoRow EXCEPT !.here = TRUE, !.status = "connected"]
                  ELSE Tenants!NoRow]
    BY DEF Tenants!Init
  <2>2. [Tenants!NoRow EXCEPT !.here = TRUE, !.status = "connected"] \in Tenants!WaRow
    BY NoOpShaped DEF Tenants!WaRow, Tenants!OmegaStatuses
  <2> QED
    BY <2>1, <2>2, NoOpShaped DEF Tenants!NoRow
<1>4. Tenants!TypeOK
  <2>1. v1 \in SUBSET (WaSessions \X Tenants!OmegaStatuses)
    BY <1>1 DEF Tenants!OmegaStatuses
  <2>2. v3 \in [Clients -> Limits] /\ v4 \in [Clients -> Limits]
    BY <1>2
  <2> QED
    BY <1>1, <1>3, <2>1, <2>2, NoOpShaped, TenantsAssumption DEF Tenants!TypeOK
<1>5. \A r \in Requests :
        /\ Tenants!Sound(v5[r]) /\ Tenants!Fresh(v5[r])
        /\ \A s \in WaSessions : Tenants!Marked(v5[r].copies[s])
  BY <1>1, NoOpShaped DEF Tenants!Sound, Tenants!Fresh, Tenants!Marked
<1>6. Tenants!RoomLeft
  <2>1. ASSUME NEW c \in Clients
        PROVE  Cardinality(Tenants!SessionsOf(c)) <= v3[c]
    <3>1. Tenants!SessionsOf(c) = {}
      BY <1>3, TenantsAssumption DEF Tenants!SessionsOf
    <3>2. Cardinality(Tenants!SessionsOf(c)) = 0
      BY <3>1, FS_EmptySet
    <3>3. v3[c] \in Nat
      BY <1>2, TenantsAssumption
    <3> QED
      BY <3>2, <3>3
  <2>2. \A r \in Requests : v5[r].pc = "idle"
    BY <1>1, NoOpShaped
  <2> QED
    BY <2>1, <2>2, Counts DEF Tenants!RoomLeft, Tenants!Assigning
<1>7. Tenants!SubscriptionsKept
  BY <1>1, <1>2, NoOpShaped DEF Tenants!SubscriptionsKept, Tenants!Subscribing
<1> QED
  BY <1>1, <1>3, <1>4, <1>5, <1>6, <1>7 DEF Tenants!TenantInv, Tenants!Marked

(* What the invariant says of the rows, the limits and the subscriptions.   *)
LEMMA TenantsFollow ==
  Tenants!TenantInv => /\ Tenants!AssignmentsHold
                       /\ Tenants!LimitsHold
                       /\ Tenants!SubscriptionsFollow
<1> SUFFICES ASSUME Tenants!TenantInv
             PROVE  /\ Tenants!AssignmentsHold
                    /\ Tenants!LimitsHold
                    /\ Tenants!SubscriptionsFollow
  OBVIOUS
<1>1. Tenants!AssignmentsHold
  BY DEF Tenants!TenantInv, Tenants!AssignmentsHold
<1>2. Tenants!LimitsHold
  BY DEF Tenants!TenantInv, Tenants!LimitsHold, Tenants!RoomLeft, Tenants!Marked
<1>3. Tenants!SubscriptionsFollow
  BY DEF Tenants!TenantInv, Tenants!SubscriptionsFollow, Tenants!SubscriptionsKept,
         Tenants!Updating, Tenants!Subscribing
<1> QED
  BY <1>1, <1>2, <1>3

-----------------------------------------------------------------------------
(* The Omega layer and the routes.                                         *)

OmegaInv ==
  /\ part = "tenants" => Tenants!TenantInv
  /\ part = "login" => Login!BarInv
  /\ part = "route" => Access!GuardInv /\ Access!TypeOK

LEMMA OmegaStep == OmegaInv /\ [Next]_componentVars => OmegaInv'
<1> SUFFICES ASSUME OmegaInv, [Next]_componentVars
             PROVE  OmegaInv'
  OBVIOUS
<1>1. part' = part
  BY DEF Next, componentVars
<1>2. CASE part = "tenants"
  <2>1. [Tenants!Next]_(Tenants!tenantVars)
    BY <1>2 DEF Next, componentVars, Tenants!tenantVars
  <2> QED
    BY <1>1, <1>2, <2>1, TenantsStep DEF OmegaInv
<1>3. CASE part = "login"
  <2>1. [Login!Next]_(Login!loginVars)
    BY <1>3 DEF Next, componentVars, Login!loginVars
  <2> QED
    BY <1>1, <1>3, <2>1, LoginStep DEF OmegaInv
<1>4. CASE part = "route"
  <2>1. [Access!Next]_(Access!routeVars)
    BY <1>4 DEF Next, componentVars, Access!routeVars
  <2> QED
    BY <1>1, <1>4, <2>1, RouteStep, RouteTypes DEF OmegaInv
<1> QED
  BY <1>1, <1>2, <1>3, <1>4 DEF OmegaInv

(* The inductive invariants of the Omega layer and of a route hold of every *)
(* behaviour.                                                              *)
THEOREM OmegaIsKept == Spec => []OmegaInv
<1>1. Init => OmegaInv
  BY TenantsInit, LoginInit, RouteInit, RouteTypesInit DEF Init, OmegaInv
<1> QED
  BY <1>1, OmegaStep, PTL DEF Spec

(* A session's client is the one it was last given, within the client's     *)
(* limit, and the subscription follows the limit; a user who is suspended   *)
(* stays out; a route lets nobody through whom its guards do not admit, and *)
(* the log tells who it was: each unless what its history names came between. *)
THEOREM OmegaKeepsItsRules == Spec => []TenantsHold
<1>1. OmegaInv => TenantsHold
  BY TenantsFollow, RouteGrants DEF OmegaInv, TenantsHold, Login!BarInv
<1> QED
  BY <1>1, OmegaIsKept, PTL

-----------------------------------------------------------------------------
(* The translation extension.  Below, v1 is the document saved, v2 the      *)
(* handlers, v3 messages, v4 confirmed, v5 granted and v6 overtaken.        *)

LEMMA TalkCounts == \A S : Talk!Cardinality(S) = Cardinality(S)
  BY DEF Talk!Cardinality, Cardinality

LEMMA MessageShaped ==
  ASSUME NEW m \in Talk!Message
  PROVE  /\ m.author \in Users /\ m.pushName \in Talk!Name /\ m.target \in Talk!Name
         /\ m.name \in {"text", "status", "on", "off"} \cup Talk!Targeted
         /\ m.name = "setlang" => m.lang \in Langs
         /\ Talk!resolveTarget(m) \in Users
<1>1. /\ m.author \in Users /\ m.pushName \in Talk!Name /\ m.target \in Talk!Name
      /\ m.name \in {"text", "status", "on", "off"} \cup Talk!Targeted
      /\ m.name = "setlang" => m.lang \in Langs
  BY DEF Talk!Message, Talk!Name, Talk!Targeted
<1> QED
  BY <1>1 DEF Talk!resolveTarget, Talk!Name

(* What is learned is no setting.                                           *)
LEMMA SameSettings ==
  ASSUME NEW g \in Talk!Group, NEW k \in Talk!Group, g.active = k.active,
         g.delegatedControllers = k.delegatedControllers,
         \A u \in Users :
           /\ g.participants[u].enabled = k.participants[u].enabled
           /\ g.participants[u].source = k.participants[u].source
           /\ g.participants[u].source = "pinned" =>
                g.participants[u].lang = k.participants[u].lang
  PROVE  Talk!Settings(g) = Talk!Settings(k)
<1>1. {u \in Users : ~g.participants[u].enabled} = {u \in Users : ~k.participants[u].enabled}
  OBVIOUS
<1>2. {p \in Users \X Langs : /\ g.participants[p[1]].source = "pinned"
                              /\ g.participants[p[1]].lang = p[2]}
        = {p \in Users \X Langs : /\ k.participants[p[1]].source = "pinned"
                                  /\ k.participants[p[1]].lang = p[2]}
  OBVIOUS
<1> QED
  BY <1>1, <1>2 DEF Talk!Settings

LEMMA SenderFound ==
  ASSUME NEW g, NEW m \in Talk!Message
  PROVE  Talk!resolveSenderKey(g, m) \in Users
<1> DEFINE matches == {u \in Users \ {m.author} : g.participants[u].pushName = m.pushName}
<1>1. m.author \in Users
  BY MessageShaped
<1>2. Talk!Cardinality(matches) = 1 => matches # {}
  <2> HIDE DEF matches
  <2>1. Talk!Cardinality({}) = 0
    BY TalkCounts, FS_EmptySet
  <2> QED
    BY <2>1
<1>3. matches # {} => (CHOOSE u \in matches : TRUE) \in Users
  OBVIOUS
<1> HIDE DEF matches
<1>4. Talk!resolveSenderKey(g, m) =
        IF /\ m.pushName # NoOne
           /\ g.participants[m.author].pushName # m.pushName
           /\ Talk!Cardinality(matches) = 1
        THEN CHOOSE u \in matches : TRUE
        ELSE m.author
  BY DEF Talk!resolveSenderKey, matches
<1> QED
  BY <1>1, <1>2, <1>3, <1>4

LEMMA NamingKeeps ==
  ASSUME NEW g \in Talk!Group, NEW u \in Users, NEW m \in Talk!Message
  PROVE  /\ Talk!Named(g, u, m) \in Talk!Group
         /\ Talk!Settings(Talk!Named(g, u, m)) = Talk!Settings(g)
         /\ Talk!Named(g, u, m).delegatedControllers = g.delegatedControllers
<1> DEFINE k == [g EXCEPT !.participants[u].pushName = m.pushName]
<1>1. m.pushName \in Talk!Name
  BY MessageShaped
<1>2. /\ k \in Talk!Group /\ k.active = g.active
      /\ k.delegatedControllers = g.delegatedControllers
      /\ \A v \in Users :
           /\ k.participants[v].enabled = g.participants[v].enabled
           /\ k.participants[v].source = g.participants[v].source
           /\ k.participants[v].lang = g.participants[v].lang
  BY <1>1 DEF Talk!Group, Talk!Person
<1>3. Talk!Named(g, u, m) \in {k, g}
  BY DEF Talk!Named
<1> HIDE DEF k
<1>4. Talk!Settings(k) = Talk!Settings(g)
  BY <1>2, SameSettings
<1> QED
  BY <1>2, <1>3, <1>4

LEMMA LearningKeeps ==
  ASSUME NEW g \in Talk!Group, NEW u \in Users, NEW detected \in Langs,
         NEW k, k = [g EXCEPT !.participants[u] = Talk!applyLearning(@, detected)]
  PROVE  /\ k \in Talk!Group
         /\ Talk!Settings(k) = Talk!Settings(g)
         /\ k.delegatedControllers = g.delegatedControllers
<1> DEFINE p == g.participants[u]
           q == Talk!applyLearning(p, detected)
<1>1. p \in Talk!Person
  BY DEF Talk!Group
<1>2. /\ q \in Talk!Person /\ q.enabled = p.enabled /\ q.source = p.source
      /\ q.source = "pinned" => q.lang = p.lang
  <2> HIDE DEF p
  <2> QED
    BY <1>1 DEF Talk!applyLearning, Talk!Person, Talk!Lang
<1> HIDE DEF q
<1>3. k = [g EXCEPT !.participants[u] = q]
  BY DEF q
<1>4. /\ k \in Talk!Group /\ k.active = g.active
      /\ k.delegatedControllers = g.delegatedControllers
      /\ \A v \in Users : k.participants[v] = IF v = u THEN q ELSE g.participants[v]
  BY <1>2, <1>3 DEF Talk!Group
<1>5. \A v \in Users :
        /\ k.participants[v].enabled = g.participants[v].enabled
        /\ k.participants[v].source = g.participants[v].source
        /\ k.participants[v].source = "pinned" =>
             k.participants[v].lang = g.participants[v].lang
  BY <1>2, <1>4
<1>6. Talk!Settings(k) = Talk!Settings(g)
  BY <1>4, <1>5, SameSettings
<1> QED
  BY <1>4, <1>6

LEMMA AnnouncingKeeps ==
  ASSUME NEW g \in Talk!Group, NEW k, k = [g EXCEPT !.announced = TRUE]
  PROVE  /\ k \in Talk!Group
         /\ Talk!Settings(k) = Talk!Settings(g)
         /\ k.delegatedControllers = g.delegatedControllers
<1>1. /\ k \in Talk!Group /\ k.active = g.active /\ k.participants = g.participants
      /\ k.delegatedControllers = g.delegatedControllers
  BY DEF Talk!Group
<1> QED
  BY <1>1, SameSettings

(* A command makes a document of a document, and nobody a controller but    *)
(* whom it grants control.                                                 *)
LEMMA CommandsShaped ==
  ASSUME NEW g \in Talk!Group, NEW m \in Talk!Message,
         m.name \in Talk!Targeted \cup {"on", "off"}
  PROVE  /\ Talk!Commanded(g, m) \in Talk!Group
         /\ Talk!Commanded(g, m).delegatedControllers \subseteq
              g.delegatedControllers \cup
                (IF m.name = "grant" THEN {Talk!resolveTarget(m)} ELSE {})
<1> DEFINE u == Talk!resolveTarget(m)
<1>1. u \in Users /\ (m.name = "setlang" => m.lang \in Langs)
  BY MessageShaped
<1>2. g.participants \in [Users -> Talk!Person] /\ g.delegatedControllers \subseteq Users
      /\ g.active \in BOOLEAN /\ g.announced \in BOOLEAN
  BY DEF Talk!Group
<1> HIDE DEF u
<1>0. ASSUME NEW p \in Talk!Person
      PROVE  /\ [g EXCEPT !.participants[u] = p] \in Talk!Group
             /\ [g EXCEPT !.participants[u] = p].delegatedControllers = g.delegatedControllers
  BY <1>1 DEF Talk!Group
<1>3. CASE m.name \in {"on", "off"}
  BY <1>3 DEF Talk!Commanded, Talk!Group
<1>4. CASE m.name = "setlang"
  <2> DEFINE k == [g EXCEPT !.participants[u].lang = m.lang, !.participants[u].source = "pinned",
                            !.participants[u].pendingLang = NoOne]
  <2>1. Talk!Commanded(g, m) = k
    BY <1>4 DEF Talk!Commanded, u
  <2>2. k \in Talk!Group /\ k.delegatedControllers = g.delegatedControllers
    <3> DEFINE p == [g.participants[u] EXCEPT !.lang = m.lang, !.source = "pinned",
                                            !.pendingLang = NoOne]
    <3>1. p \in Talk!Person
      BY <1>1, <1>2, <1>4 DEF Talk!Person, Talk!Lang
    <3>2. k = [g EXCEPT !.participants[u] = p]
      OBVIOUS
    <3> HIDE DEF p, k
    <3> QED
      BY <1>0, <3>1, <3>2
  <2> QED
    BY <2>1, <2>2
<1>5. CASE m.name = "auto"
  <2> DEFINE k == [g EXCEPT !.participants[u].source = "learned",
                            !.participants[u].pendingLang = NoOne]
  <2>1. Talk!Commanded(g, m) = k
    BY <1>5 DEF Talk!Commanded, u
  <2>2. k \in Talk!Group /\ k.delegatedControllers = g.delegatedControllers
    <3> DEFINE p == [g.participants[u] EXCEPT !.source = "learned", !.pendingLang = NoOne]
    <3>1. p \in Talk!Person
      BY <1>1, <1>2, <1>5 DEF Talk!Person, Talk!Lang
    <3>2. k = [g EXCEPT !.participants[u] = p]
      OBVIOUS
    <3> HIDE DEF p, k
    <3> QED
      BY <1>0, <3>1, <3>2
  <2> QED
    BY <2>1, <2>2
<1>6. CASE m.name \in {"ignore", "unignore"}
  <2> DEFINE k == [g EXCEPT !.participants[u].enabled = (m.name = "unignore")]
  <2>1. Talk!Commanded(g, m) = k
    BY <1>6 DEF Talk!Commanded, u
  <2>2. k \in Talk!Group /\ k.delegatedControllers = g.delegatedControllers
    <3> DEFINE p == [g.participants[u] EXCEPT !.enabled = (m.name = "unignore")]
    <3>1. p \in Talk!Person
      BY <1>1, <1>2 DEF Talk!Person
    <3>2. k = [g EXCEPT !.participants[u] = p]
      OBVIOUS
    <3> HIDE DEF p, k
    <3> QED
      BY <1>0, <3>1, <3>2
  <2> QED
    BY <2>1, <2>2
<1>7. CASE m.name \in {"grant", "revoke"}
  BY <1>1, <1>2, <1>7 DEF Talk!Commanded, Talk!Group, u
<1> QED
  BY <1>3, <1>4, <1>5, <1>6, <1>7 DEF Talk!Targeted

(* A call goes on or ends, and the document is what it was.                 *)
LEMMA CopyAwaits ==
  ASSUME Talk!CopyInv, NEW h \in TalkCalls, NEW c \in Talk!Call,
         v2' = [v2 EXCEPT ![h] = c], v1' = v1, v3' \in 0..MaxMessages,
         v4' = v4, v5' = v5, v6' = v6, Talk!Asked(c),
         c.pc # "idle" => /\ ~v6 => Talk!Settings(c.copy) = v4
                          /\ c.copy.delegatedControllers \subseteq v5
  PROVE  Talk!CopyInv'
<1>1. v2 \in [TalkCalls -> Talk!Call] /\ v2'[h] = c /\ \A k \in TalkCalls \ {h} : v2'[k] = v2[k]
  BY DEF Talk!CopyInv, Talk!TypeOK
<1>2. Talk!TypeOK'
  BY <1>1 DEF Talk!CopyInv, Talk!TypeOK
<1>3. \A k \in TalkCalls : Talk!Asked(v2[k])'
  BY <1>1 DEF Talk!CopyInv, Talk!Asked
<1>4. \A k \in TalkCalls : v2'[k].pc # "idle" =>
        /\ ~v6' => Talk!Settings(v2'[k].copy) = v4'
        /\ v2'[k].copy.delegatedControllers \subseteq v5'
  BY <1>1 DEF Talk!CopyInv
<1>5. Talk!SettingsHold'
  BY DEF Talk!CopyInv, Talk!SettingsHold, Talk!Settings
<1> QED
  BY <1>2, <1>3, <1>4, <1>5 DEF Talk!CopyInv, Talk!Settings

(* The document is saved: whoever holds another copy of it is overtaken, and *)
(* otherwise every copy there is has the settings that were confirmed.       *)
LEMMA CopySaved ==
  ASSUME Talk!CopyInv, NEW h \in TalkCalls, NEW c \in Talk!Call, NEW g \in Talk!Group,
         v2' = [v2 EXCEPT ![h] = c], Talk!save(h, g), v3' \in 0..MaxMessages,
         v5 \subseteq v5', v5' \subseteq Users, g.delegatedControllers \subseteq v5',
         v4' = Talk!Settings(g) \/ (v4' = v4 /\ (~v6 => Talk!Settings(g) = v4)),
         Talk!Asked(c),
         c.pc # "idle" => /\ ~v6' => Talk!Settings(c.copy) = v4'
                          /\ c.copy.delegatedControllers \subseteq v5'
  PROVE  Talk!CopyInv'
<1>1. v2 \in [TalkCalls -> Talk!Call] /\ v2'[h] = c /\ \A k \in TalkCalls \ {h} : v2'[k] = v2[k]
  BY DEF Talk!CopyInv, Talk!TypeOK
<1>2. v1' = g /\ (v6' <=> v6 \/ (v1 # g /\ Talk!OthersHold(h))) /\ v6' \in BOOLEAN
  BY DEF Talk!save, Talk!CopyInv, Talk!TypeOK
<1>3. Talk!TypeOK'
  BY <1>1, <1>2 DEF Talk!CopyInv, Talk!TypeOK
<1>4. \A k \in TalkCalls : Talk!Asked(v2[k])'
  BY <1>1 DEF Talk!CopyInv, Talk!Asked
<1>5. ~v6' => ~v6 /\ v4' = Talk!Settings(g)
  BY <1>2
<1>6. ASSUME NEW k \in TalkCalls, v2'[k].pc # "idle"
      PROVE  /\ ~v6' => Talk!Settings(v2'[k].copy) = v4'
             /\ v2'[k].copy.delegatedControllers \subseteq v5'
  <2>1. CASE k = h
    BY <1>1, <1>6, <2>1
  <2>2. CASE k # h
    <3>1. /\ v2'[k] = v2[k] /\ v2[k].pc # "idle" /\ Talk!OthersHold(h)
      BY <1>1, <1>6, <2>2 DEF Talk!OthersHold
    <3>2. /\ ~v6 => Talk!Settings(v2[k].copy) = v4 /\ Talk!Settings(v1) = v4
          /\ v2[k].copy.delegatedControllers \subseteq v5
      BY <3>1 DEF Talk!CopyInv, Talk!SettingsHold
    <3>3. ~v6' => v1 = g
      BY <1>2, <3>1
    <3> QED
      BY <1>5, <3>1, <3>2, <3>3
  <2> QED
    BY <2>1, <2>2
<1>7. Talk!SettingsHold'
  <2>1. ~v6' => Talk!Settings(v1') = v4'
    BY <1>2, <1>5
  <2>2. v1'.delegatedControllers \subseteq v5'
    BY <1>2
  <2> QED
    BY <2>1, <2>2 DEF Talk!SettingsHold, Talk!Settings
<1> QED
  BY <1>3, <1>4, <1>6, <1>7 DEF Talk!CopyInv, Talk!Settings

LEMMA IdleShaped == Talk!Idle \in Talk!Call /\ Talk!Idle.pc = "idle" /\ Talk!Asked(Talk!Idle)
<1>1. (CHOOSE u \in Users : TRUE) \in Users
  BY TalkAssumption
<1>2. Talk!Idle.msg \in Talk!Message
  BY <1>1 DEF Talk!Idle, Talk!Message
<1>3. Talk!Unknown \in Talk!Person
  BY DEF Talk!Unknown, Talk!Person, Talk!Lang, Talk!Name
<1>4. Talk!Fresh \in Talk!Group
  BY <1>3 DEF Talk!Fresh, Talk!Group
<1>5. Talk!Idle = [pc |-> "idle", copy |-> Talk!Fresh, msg |-> Talk!Idle.msg]
  BY DEF Talk!Idle
<1> QED
  BY <1>2, <1>4, <1>5 DEF Talk!Call, Talk!HandlerPc, Talk!Asked

(* A command that may change settings is confirmed.                         *)
LEMMA Confirming ==
  ASSUME Talk!CopyInv, NEW h \in TalkCalls, NEW g \in Talk!Group, NEW m \in Talk!Message,
         m.name \in Talk!Targeted \cup {"on", "off"}, g.delegatedControllers \subseteq v5,
         m.name = "grant" => Talk!IsOneOf(GroupAdmins, m.author),
         Talk!Confirms(h, g, m), v3' \in 0..MaxMessages
  PROVE  Talk!CopyInv'
<1> DEFINE k == Talk!Commanded(g, m)
<1>1. /\ Talk!save(h, k) /\ v4' = Talk!Settings(k) /\ v5' = v5 \cup Talk!Grants(m)
      /\ v2' = [v2 EXCEPT ![h] = Talk!Idle]
  BY DEF Talk!Confirms, Talk!Ends
<1>2. /\ k \in Talk!Group
      /\ k.delegatedControllers \subseteq
           g.delegatedControllers \cup (IF m.name = "grant" THEN {Talk!resolveTarget(m)} ELSE {})
  BY CommandsShaped
<1>3. /\ m.name = "grant" => Talk!Grants(m) = {Talk!resolveTarget(m)}
      /\ Talk!Grants(m) \subseteq Users
  BY MessageShaped DEF Talk!Grants
<1>4. v5 \subseteq Users
  BY DEF Talk!CopyInv, Talk!TypeOK
<1>5. v5 \subseteq v5' /\ v5' \subseteq Users /\ k.delegatedControllers \subseteq v5'
  BY <1>1, <1>2, <1>3, <1>4
<1> HIDE DEF k
<1> QED
  BY <1>1, <1>2, <1>5, IdleShaped, CopySaved

(* What a message does once the document is known.                          *)
LEMMA Proceeding ==
  ASSUME Talk!CopyInv, NEW h \in TalkCalls, NEW g \in Talk!Group, NEW m \in Talk!Message,
         ~v6 => Talk!Settings(g) = v4, g.delegatedControllers \subseteq v5,
         Talk!Proceeds(h, g, m), v3' \in 0..MaxMessages
  PROVE  Talk!CopyInv'
<1>0. v5 \subseteq Users /\ v6 \in BOOLEAN
  BY DEF Talk!CopyInv, Talk!TypeOK
<1>1. ASSUME NEW c \in Talk!Call, v2' = [v2 EXCEPT ![h] = c], Talk!save(h, g), Talk!Says,
             Talk!Asked(c),
             c.pc # "idle" => /\ Talk!Settings(c.copy) = Talk!Settings(g)
                              /\ c.copy.delegatedControllers = g.delegatedControllers
      PROVE  Talk!CopyInv'
  <2>1. v4' = v4 /\ v5' = v5 /\ (~v6' => ~v6)
    BY <1>0, <1>1 DEF Talk!Says, Talk!save
  <2> QED
    BY <1>0, <1>1, <2>1, CopySaved
<1>2. CASE m.name = "text"
  <2> DEFINE u == Talk!resolveSenderKey(g, m)
             k == Talk!Named(g, u, m)
             c == [pc |-> "detect", copy |-> k, msg |-> m]
  <2>1. Talk!translateMessage(h, g, m)
    BY <1>2 DEF Talk!Proceeds
  <2>2. /\ v2' = [v2 EXCEPT ![h] = c] \/ v2' = [v2 EXCEPT ![h] = Talk!Idle]
        /\ Talk!save(h, g) /\ Talk!Says
    BY <2>1 DEF Talk!translateMessage, Talk!Awaits, Talk!Ends
  <2>3. u \in Users
    BY SenderFound
  <2> HIDE DEF u
  <2>4. /\ k \in Talk!Group /\ Talk!Settings(k) = Talk!Settings(g)
        /\ k.delegatedControllers = g.delegatedControllers
    BY <2>3, NamingKeeps
  <2> HIDE DEF k
  <2>5. c \in Talk!Call /\ c.copy = k /\ Talk!Asked(c)
    BY <2>4 DEF Talk!Call, Talk!HandlerPc, Talk!Asked
  <2> HIDE DEF c
  <2> QED
    BY <1>1, <2>2, <2>4, <2>5, IdleShaped
<1>3. CASE m.name # "text"
  <2>1. Talk!handleCommand(h, g, m)
    BY <1>3 DEF Talk!Proceeds
  <2>2. CASE m.name = "auto" /\ Talk!isSelfServe(m)
    <3>1. Talk!Confirms(h, g, m)
      BY <2>1, <2>2 DEF Talk!handleCommand
    <3> QED
      BY <2>2, <3>1, Confirming DEF Talk!Targeted
  <2>3. CASE ~(m.name = "auto" /\ Talk!isSelfServe(m))
    <3>1. /\ CASE m.name = "status"     -> Talk!Ends(h)
               [] Talk!isSelfServe(m) -> Talk!Awaits(h, "languages", g, m)
               [] OTHER               -> Talk!Awaits(h, "admins", g, m)
          /\ Talk!save(h, g) /\ Talk!Says
      BY <2>1, <2>3 DEF Talk!handleCommand
    <3>2. m.name = "status" => ~Talk!isSelfServe(m)
      BY DEF Talk!isSelfServe
    <3>3. CASE m.name = "status"
      <4>1. v2' = [v2 EXCEPT ![h] = Talk!Idle]
        BY <3>1, <3>2, <3>3 DEF Talk!Ends
      <4> QED
        BY <1>1, <3>1, <4>1, IdleShaped
    <3>4. CASE Talk!isSelfServe(m)
      <4> DEFINE c == [pc |-> "languages", copy |-> g, msg |-> m]
      <4>1. v2' = [v2 EXCEPT ![h] = c]
        BY <3>1, <3>2, <3>4 DEF Talk!Awaits
      <4>2. m.name = "setlang"
        BY <2>3, <3>4 DEF Talk!isSelfServe
      <4>3. c \in Talk!Call /\ c.copy = g /\ Talk!Asked(c)
        BY <4>2 DEF Talk!Call, Talk!HandlerPc, Talk!Asked
      <4> HIDE DEF c
      <4> QED
        BY <1>1, <3>1, <4>1, <4>3
    <3>5. CASE m.name # "status" /\ ~Talk!isSelfServe(m)
      <4> DEFINE c == [pc |-> "admins", copy |-> g, msg |-> m]
      <4>1. v2' = [v2 EXCEPT ![h] = c]
        BY <3>1, <3>5 DEF Talk!Awaits
      <4>2. m.name \in Talk!Targeted \cup {"on", "off"}
        BY <1>3, <3>5, MessageShaped
      <4>3. c \in Talk!Call /\ c.copy = g /\ Talk!Asked(c)
        BY <4>2 DEF Talk!Call, Talk!HandlerPc, Talk!Asked
      <4> HIDE DEF c
      <4> QED
        BY <1>1, <3>1, <4>1, <4>3
    <3> QED
      BY <3>3, <3>4, <3>5
  <2> QED
    BY <2>2, <2>3
<1> QED
  BY <1>2, <1>3

LEMMA TalkStep == Talk!CopyInv /\ [Talk!Next]_(Talk!translationVars) => Talk!CopyInv'
<1> SUFFICES ASSUME Talk!CopyInv, [Talk!Next]_(Talk!translationVars)
             PROVE  Talk!CopyInv'
  OBVIOUS
<1>0. /\ v1 \in Talk!Group /\ v2 \in [TalkCalls -> Talk!Call] /\ v3 \in 0..MaxMessages
      /\ v6 \in BOOLEAN
      /\ ~v6 => Talk!Settings(v1) = v4
      /\ v1.delegatedControllers \subseteq v5
  BY DEF Talk!CopyInv, Talk!TypeOK, Talk!SettingsHold
<1>1. ASSUME NEW h \in TalkCalls
      PROVE  /\ v2[h].copy \in Talk!Group /\ v2[h].msg \in Talk!Message /\ v2[h] \in Talk!Call
             /\ Talk!Asked(v2[h])
             /\ v2[h].pc # "idle" => /\ ~v6 => Talk!Settings(v2[h].copy) = v4
                                     /\ v2[h].copy.delegatedControllers \subseteq v5
  BY <1>0 DEF Talk!CopyInv, Talk!Call
<1>2. ASSUME NEW h \in TalkCalls, NEW m \in Talk!Message, Talk!NextFree(h), Talk!Receives(h, m)
      PROVE  Talk!CopyInv'
  <2>1. v3' \in 0..MaxMessages
    BY <1>0, <1>2, TalkAssumption DEF Talk!NextFree, Talk!Receives
  <2>2. CASE v1.announced
    BY <1>0, <1>2, <2>1, <2>2, Proceeding DEF Talk!Receives
  <2>3. CASE ~v1.announced
    <3> DEFINE c == [pc |-> "announce", copy |-> v1, msg |-> m]
    <3>1. v2' = [v2 EXCEPT ![h] = c] /\ v1' = v1 /\ v6' = v6 /\ v4' = v4 /\ v5' = v5
      BY <1>2, <2>3 DEF Talk!Receives, Talk!Awaits, Talk!Keeps, Talk!Says
    <3>2. c \in Talk!Call /\ c.copy = v1 /\ Talk!Asked(c)
      BY <1>0 DEF Talk!Call, Talk!HandlerPc, Talk!Asked
    <3> HIDE DEF c
    <3> QED
      BY <1>0, <2>1, <3>1, <3>2, CopyAwaits
  <2> QED
    BY <2>2, <2>3
<1>3. ASSUME NEW h \in TalkCalls, Talk!Announced(h)
      PROVE  Talk!CopyInv'
  <2> DEFINE g == [v2[h].copy EXCEPT !.announced = TRUE]
  <2>1. v2[h].pc = "announce" /\ Talk!Proceeds(h, g, v2[h].msg) /\ v3' = v3
    BY <1>3 DEF Talk!Announced
  <2>2. /\ g \in Talk!Group /\ Talk!Settings(g) = Talk!Settings(v2[h].copy)
        /\ g.delegatedControllers = v2[h].copy.delegatedControllers
    BY <1>1, AnnouncingKeeps
  <2> HIDE DEF g
  <2> QED
    BY <1>0, <1>1, <2>1, <2>2, Proceeding
<1>4. ASSUME NEW h \in TalkCalls, Talk!AdminsKnown(h)
      PROVE  Talk!CopyInv'
  <2> DEFINE g == v2[h].copy
             m == v2[h].msg
  <2>1. /\ v2[h].pc = "admins" /\ v3' = v3
        /\ IF ~Talk!Permitted(g, m) THEN Talk!Ends(h) /\ Talk!Keeps /\ Talk!Says
           ELSE IF m.name = "setlang"
                THEN Talk!Awaits(h, "languages", g, m) /\ Talk!Keeps /\ Talk!Says
           ELSE Talk!Confirms(h, g, m)
    BY <1>4 DEF Talk!AdminsKnown
  <2>2. m.name \in Talk!Targeted \cup {"on", "off"}
    BY <1>1, <2>1 DEF Talk!Asked
  <2>3. CASE ~Talk!Permitted(g, m)
    <3>1. v2' = [v2 EXCEPT ![h] = Talk!Idle] /\ v1' = v1 /\ v6' = v6 /\ v4' = v4 /\ v5' = v5
      BY <2>1, <2>3 DEF Talk!Ends, Talk!Keeps, Talk!Says
    <3> QED
      BY <1>0, <2>1, <3>1, IdleShaped, CopyAwaits
  <2>4. CASE Talk!Permitted(g, m) /\ m.name = "setlang"
    <3> DEFINE c == [pc |-> "languages", copy |-> g, msg |-> m]
    <3>1. v2' = [v2 EXCEPT ![h] = c] /\ v1' = v1 /\ v6' = v6 /\ v4' = v4 /\ v5' = v5
      BY <2>1, <2>4 DEF Talk!Awaits, Talk!Keeps, Talk!Says
    <3>2. c \in Talk!Call /\ c.copy = g /\ Talk!Asked(c)
      BY <1>1, <2>4 DEF Talk!Call, Talk!HandlerPc, Talk!Asked
    <3> HIDE DEF c
    <3> QED
      BY <1>0, <1>1, <2>1, <3>1, <3>2, CopyAwaits
  <2>5. CASE Talk!Permitted(g, m) /\ m.name # "setlang"
    <3>1. Talk!Confirms(h, g, m) /\ (m.name = "grant" => Talk!IsOneOf(GroupAdmins, m.author))
      BY <2>1, <2>5 DEF Talk!Permitted
    <3> QED
      BY <1>0, <1>1, <2>1, <2>2, <3>1, Confirming
  <2> QED
    BY <2>3, <2>4, <2>5
<1>5. ASSUME NEW h \in TalkCalls, Talk!LanguageAllowed(h)
      PROVE  Talk!CopyInv'
  <2>1. /\ v2[h].pc = "languages" /\ v3' = v3
        /\ Talk!Confirms(h, v2[h].copy, v2[h].msg)
    BY <1>5 DEF Talk!LanguageAllowed
  <2>2. v2[h].msg.name = "setlang"
    BY <1>1, <2>1 DEF Talk!Asked
  <2> QED
    BY <1>0, <1>1, <2>1, <2>2, Confirming DEF Talk!Targeted
<1>6. ASSUME NEW h \in TalkCalls, NEW detected \in Langs, Talk!Detected(h, detected)
      PROVE  Talk!CopyInv'
  <2> DEFINE m == v2[h].msg
             u == Talk!resolveSenderKey(v2[h].copy, m)
             g == [v2[h].copy EXCEPT !.participants[u] = Talk!applyLearning(@, detected)]
  <2>1. /\ v2[h].pc = "detect" /\ v3' = v3 /\ v4' = v4 /\ v5' = v5
        /\ \/ Talk!save(h, g) /\ Talk!Ends(h)
           \/ Talk!Awaits(h, "translate", g, m) /\ Talk!Keeps
    BY <1>6 DEF Talk!Detected, Talk!Says
  <2>2. u \in Users
    BY <1>1, SenderFound
  <2> HIDE DEF u
  <2>3. /\ g \in Talk!Group /\ Talk!Settings(g) = Talk!Settings(v2[h].copy)
        /\ g.delegatedControllers = v2[h].copy.delegatedControllers
    BY <1>1, <2>2, LearningKeeps
  <2> HIDE DEF g
  <2>4. CASE Talk!save(h, g) /\ Talk!Ends(h)
    <3>1. v2' = [v2 EXCEPT ![h] = Talk!Idle] /\ v5 \subseteq Users
      BY <2>4 DEF Talk!Ends, Talk!CopyInv, Talk!TypeOK
    <3> QED
      BY <1>0, <1>1, <2>1, <2>3, <2>4, <3>1, IdleShaped, CopySaved
  <2>5. CASE Talk!Awaits(h, "translate", g, m) /\ Talk!Keeps
    <3> DEFINE c == [pc |-> "translate", copy |-> g, msg |-> m]
    <3>1. v2' = [v2 EXCEPT ![h] = c] /\ v1' = v1 /\ v6' = v6
      BY <2>5 DEF Talk!Awaits, Talk!Keeps
    <3>2. c \in Talk!Call /\ c.copy = g /\ Talk!Asked(c)
      BY <1>1, <2>3 DEF Talk!Call, Talk!HandlerPc, Talk!Asked
    <3> HIDE DEF c
    <3> QED
      BY <1>0, <1>1, <2>1, <2>3, <3>1, <3>2, CopyAwaits
  <2> QED
    BY <2>1, <2>4, <2>5
<1>7. ASSUME NEW h \in TalkCalls, Talk!Learned(h)
      PROVE  Talk!CopyInv'
  <2>1. /\ v2[h].pc = "translate" /\ v3' = v3 /\ v4' = v4 /\ v5' = v5
        /\ Talk!save(h, v2[h].copy) /\ v2' = [v2 EXCEPT ![h] = Talk!Idle]
        /\ v5 \subseteq Users
    BY <1>7 DEF Talk!Learned, Talk!Ends, Talk!Says, Talk!CopyInv, Talk!TypeOK
  <2> QED
    BY <1>0, <1>1, <2>1, IdleShaped, CopySaved
<1>8. ASSUME NEW h \in TalkCalls, Talk!Fails(h)
      PROVE  Talk!CopyInv'
  <2>1. v2' = [v2 EXCEPT ![h] = Talk!Idle] /\ v1' = v1 /\ v3' = v3 /\ v4' = v4 /\ v5' = v5
        /\ v6' = v6
    BY <1>8 DEF Talk!Fails, Talk!Ends, Talk!Keeps, Talk!Says
  <2> QED
    BY <1>0, <2>1, IdleShaped, CopyAwaits
<1>9. CASE UNCHANGED Talk!translationVars
  BY <1>9 DEF Talk!translationVars, Talk!CopyInv, Talk!TypeOK, Talk!SettingsHold, Talk!Settings,
              Talk!Asked
<1> QED
  BY <1>2, <1>3, <1>4, <1>5, <1>6, <1>7, <1>8, <1>9 DEF Talk!Next

LEMMA TalkInit == Talk!Init => Talk!CopyInv
<1> SUFFICES ASSUME Talk!Init
             PROVE  Talk!CopyInv
  OBVIOUS
<1>1. Talk!Fresh \in Talk!Group /\ Talk!Fresh.delegatedControllers = {}
  <2>1. Talk!Unknown \in Talk!Person
    BY DEF Talk!Unknown, Talk!Person, Talk!Lang, Talk!Name
  <2> QED
    BY <2>1 DEF Talk!Fresh, Talk!Group
<1>2. v1 \in Talk!Group /\ v1.delegatedControllers = {}
  BY <1>1 DEF Talk!Init, Talk!Group
<1>3. /\ v2 = [h \in TalkCalls |-> Talk!Idle] /\ v3 \in {0, 1} /\ v4 = Talk!Settings(v1)
      /\ v5 = {} /\ v6 = FALSE
  BY DEF Talk!Init
<1>4. Talk!TypeOK
  <2>1. v3 \in 0..MaxMessages
    BY <1>3, TalkAssumption
  <2>2. v2 \in [TalkCalls -> Talk!Call]
    BY <1>3, IdleShaped
  <2> QED
    BY <1>2, <1>3, <2>1, <2>2 DEF Talk!TypeOK
<1> QED
  BY <1>2, <1>3, <1>4, IdleShaped DEF Talk!CopyInv, Talk!SettingsHold

TalkInv == part = "talk" => Talk!CopyInv

(* The inductive invariant of the translation extension holds of every       *)
(* behaviour.                                                              *)
THEOREM CopiesAreKept == Spec => []TalkInv
<1>1. Init => TalkInv
  BY TalkInit DEF Init, TalkInv
<1>2. TalkInv /\ [Next]_componentVars => TalkInv'
  <2> SUFFICES ASSUME TalkInv, [Next]_componentVars, part = "talk"
               PROVE  Talk!CopyInv'
    BY DEF Next, componentVars, TalkInv
  <2>1. [Talk!Next]_(Talk!translationVars)
    BY DEF Next, componentVars, Talk!translationVars
  <2> QED
    BY <2>1, TalkStep DEF TalkInv
<1> QED
  BY <1>1, <1>2, PTL DEF Spec

(* What an admin's last command set is in force, whatever messages are       *)
(* learned from meanwhile, unless a call saved under another's copy; and     *)
(* nobody controls the extension but whom an admin gave control.             *)
THEOREM CommandsStay == Spec => []SettingsHold
<1>1. TalkInv => SettingsHold
  BY DEF TalkInv, Talk!CopyInv, SettingsHold
<1> QED
  BY <1>1, CopiesAreKept, PTL

-----------------------------------------------------------------------------
(* The message store.                                                      *)

(* The cardinalities and finiteness the store uses are those of the library. *)
LEMMA StoreCounts ==
  /\ \A S : Store!Cardinality(S) = Cardinality(S)
  /\ \A S : Store!IsFiniteSet(S) <=> IsFiniteSet(S)
  BY DEF Store!Cardinality, Cardinality, Store!IsFiniteSet, IsFiniteSet

(* Rows that their ids tell apart, and those of them that are newer.        *)
Rows(S) == S \subseteq Store!StoredRow /\ \A r, s \in S : r # s => r.id # s.id
Newer(S, r) == {s \in S : Store!Older(r, s)}

(* Rows are in a total order.                                              *)
LEMMA RowsOrdered ==
  ASSUME NEW r \in Store!StoredRow, NEW s \in Store!StoredRow, NEW t \in Store!StoredRow
  PROVE  /\ ~Store!Older(r, r)
         /\ Store!Older(r, s) /\ Store!Older(s, t) => Store!Older(r, t)
         /\ r.id # s.id => Store!Older(r, s) \/ Store!Older(s, r)
<1>1. /\ r.id \in Int /\ s.id \in Int /\ t.id \in Int
      /\ r.createdAt \in Int /\ s.createdAt \in Int /\ t.createdAt \in Int
  BY StoreAssumption DEF Store!StoredRow
<1> QED
  BY <1>1 DEF Store!Older

(* No two rows have as many newer ones.                                     *)
LEMMA RanksDiffer ==
  ASSUME NEW S, IsFiniteSet(S), Rows(S), NEW r \in S, NEW s \in S, r # s
  PROVE  Cardinality(Newer(S, r)) # Cardinality(Newer(S, s))
<1>1. ASSUME NEW x \in S, NEW y \in S, Store!Older(x, y)
      PROVE  Cardinality(Newer(S, x)) # Cardinality(Newer(S, y))
  <2>1. Newer(S, x) \subseteq S /\ IsFiniteSet(Newer(S, x))
    BY FS_Subset DEF Newer
  <2>2. Newer(S, y) \in SUBSET Newer(S, x)
    BY <1>1, RowsOrdered DEF Newer, Rows
  <2>3. y \in Newer(S, x) /\ y \notin Newer(S, y)
    BY <1>1, RowsOrdered DEF Newer, Rows
  <2> QED
    BY <2>1, <2>2, <2>3, FS_Subset
<1>2. Store!Older(r, s) \/ Store!Older(s, r)
  BY RowsOrdered DEF Rows
<1> QED
  BY <1>1, <1>2

(* Of more rows than n, one has exactly n newer ones.                       *)
LEMMA RankFound ==
  ASSUME NEW S, IsFiniteSet(S), Rows(S), NEW n \in Nat, Cardinality(S) > n
  PROVE  \E r \in S : Cardinality(Newer(S, r)) = n
<1> DEFINE c == Cardinality(S)
           f == [r \in S |-> Cardinality(Newer(S, r))]
<1>1. c \in Nat /\ c > n
  BY FS_CardinalityType
<1>2. ASSUME NEW r \in S
      PROVE  f[r] \in 0..(c - 1)
  <2>1. /\ IsFiniteSet(S \ {r})
        /\ Cardinality(S \ {r}) = c - 1
    BY FS_RemoveElement
  <2>2. Newer(S, r) \in SUBSET (S \ {r})
    BY RowsOrdered DEF Newer, Rows
  <2>3. IsFiniteSet(Newer(S, r)) /\ Cardinality(Newer(S, r)) <= c - 1
    BY <2>1, <2>2, FS_Subset
  <2>4. Cardinality(Newer(S, r)) \in Nat
    BY <2>3, FS_CardinalityType
  <2> QED
    BY <1>1, <2>3, <2>4
<1>3. f \in Injection(S, 0..(c - 1))
  <2>1. f \in [S -> 0..(c - 1)]
    BY <1>2
  <2>2. \A r, s \in S : f[r] = f[s] => r = s
    BY RanksDiffer
  <2> QED
    BY <2>1, <2>2 DEF Injection, IsInjective
<1>4. IsFiniteSet(0..(c - 1)) /\ Cardinality(0..(c - 1)) = c
  <2>1. 0 \in Int /\ c - 1 \in Int /\ ~(0 > c - 1) /\ (c - 1) - 0 + 1 = c
    BY <1>1
  <2> QED
    BY <2>1, FS_Interval
<1>5. f \in Surjection(S, 0..(c - 1))
  BY <1>3, <1>4, FS_Injection
<1>6. n \in 0..(c - 1)
  BY <1>1
<1>7. \E r \in S : f[r] = n
  BY <1>5, <1>6 DEF Surjection
<1> QED
  BY <1>7

(* The rows that a deletion up to some rows leaves.                         *)
Left(S, C) == {r \in S : \A c \in C : Store!Older(c, r)}

(* Of two deletions, one leaves all that the other one does.                *)
LEMMA LeftNested ==
  ASSUME NEW S, Rows(S), NEW C \in SUBSET Store!StoredRow, NEW D \in SUBSET Store!StoredRow
  PROVE  Left(S, C) \subseteq Left(S, D) \/ Left(S, D) \subseteq Left(S, C)
<1> SUFFICES ASSUME NEW r \in Left(S, C), r \notin Left(S, D), NEW s \in Left(S, D), s \notin Left(S, C)
             PROVE  FALSE
  OBVIOUS
<1>1. /\ r \in S /\ s \in S /\ r # s
      /\ r \in Store!StoredRow /\ s \in Store!StoredRow
  BY DEF Left, Rows
<1>2. Store!Older(r, s) \/ Store!Older(s, r)
  BY <1>1, RowsOrdered DEF Rows
<1>3. CASE Store!Older(r, s)
  <2>1. \A c \in C : Store!Older(c, s)
    BY <1>1, <1>3, RowsOrdered DEF Left
  <2> QED
    BY <1>1, <2>1 DEF Left
<1>4. CASE Store!Older(s, r)
  <2>1. \A c \in D : Store!Older(c, r)
    BY <1>1, <1>4, RowsOrdered DEF Left
  <2> QED
    BY <1>1, <2>1 DEF Left
<1> QED
  BY <1>2, <1>3, <1>4

(* What one deletion leaves of what another left is what one of them left.  *)
LEMMA LeftTwice ==
  ASSUME NEW S, Rows(S), IsFiniteSet(S),
         NEW C \in SUBSET Store!StoredRow, NEW D \in SUBSET Store!StoredRow
  PROVE  /\ IsFiniteSet(Left(S, C)) /\ Rows(Left(S, C))
         /\ Cardinality(Left(S, C)) \in Nat /\ Cardinality(Left(S, C)) <= Cardinality(S)
         /\ \/ Left(Left(S, C), D) = Left(S, C)
            \/ Left(Left(S, C), D) = Left(S, D)
         /\ Cardinality(Left(Left(S, C), D)) <= Cardinality(Left(S, D))
<1>1. Left(S, C) \in SUBSET S
  BY DEF Left
<1>2. IsFiniteSet(Left(S, C)) /\ Cardinality(Left(S, C)) <= Cardinality(S)
  BY <1>1, FS_Subset
<1>3. Rows(Left(S, C)) /\ Cardinality(Left(S, C)) \in Nat
  BY <1>1, <1>2, FS_CardinalityType DEF Rows
<1>4. Left(Left(S, C), D) = Left(S, C) \/ Left(Left(S, C), D) = Left(S, D)
  BY LeftNested DEF Left
<1>5. IsFiniteSet(Left(S, D)) /\ Left(Left(S, C), D) \in SUBSET Left(S, D)
  <2>1. Left(S, D) \in SUBSET S
    BY DEF Left
  <2> QED
    BY <2>1, FS_Subset DEF Left
<1>6. Cardinality(Left(Left(S, C), D)) <= Cardinality(Left(S, D))
  BY <1>5, FS_Subset
<1> QED
  BY <1>2, <1>3, <1>4, <1>6

(* A row that moves forward, keeping its id, is left where it was before.    *)
LEMMA LeftForward ==
  ASSUME NEW S, Rows(S), IsFiniteSet(S), NEW C \in SUBSET Store!StoredRow,
         NEW old \in S, NEW new \in Store!StoredRow,
         new.id = old.id, old.createdAt <= new.createdAt
  PROVE  Cardinality(Left((S \ {old}) \cup {new}, C)) >= Cardinality(Left(S, C))
<1> DEFINE T == (S \ {old}) \cup {new}
           L == Left(S, C)
           M == Left(T, C)
<1>1. IsFiniteSet(L) /\ IsFiniteSet(M)
  <2>1. IsFiniteSet(S \ {old})
    BY FS_RemoveElement
  <2>2. IsFiniteSet(T)
    BY <2>1, FS_AddElement
  <2>3. L \in SUBSET S /\ M \in SUBSET T
    BY DEF Left
  <2> QED
    BY <2>2, <2>3, FS_Subset
<1>2. Cardinality(L) \in Nat /\ Cardinality(M) \in Nat
  BY <1>1, FS_CardinalityType
<1>3. CASE old \notin L
  <2>1. L \in SUBSET M
    BY <1>3 DEF Left
  <2> QED
    BY <1>1, <1>2, <2>1, FS_Subset
<1>4. CASE old \in L
  <2>1. \A c \in C : Store!Older(c, old) => Store!Older(c, new)
    <3> TAKE c \in C
    <3>1. /\ c.id \in Int /\ old.id \in Int
          /\ c.createdAt \in Int /\ old.createdAt \in Int /\ new.createdAt \in Int
      BY StoreAssumption DEF Store!StoredRow, Rows
    <3> QED
      BY <3>1 DEF Store!Older
  <2>2. new \in M
    BY <1>4, <2>1 DEF Left
  <2>3. L \ {old} \in SUBSET (M \ {new})
    BY DEF Left, Rows
  <2>4. /\ IsFiniteSet(M \ {new}) /\ Cardinality(M \ {new}) = Cardinality(M) - 1
        /\ Cardinality(L \ {old}) = Cardinality(L) - 1
    BY <1>1, <1>4, <2>2, FS_RemoveElement
  <2>5. Cardinality(L \ {old}) <= Cardinality(M \ {new})
    BY <2>3, <2>4, FS_Subset
  <2> QED
    BY <1>2, <2>4, <2>5
<1> QED
  BY <1>3, <1>4

(* The search finds nothing, or the row behind as many as are kept.         *)
LEMMA CutoffFound ==
  ASSUME NEW S, Rows(S), IsFiniteSet(S), NEW n \in Nat
  PROVE  LET behind == {r \in S : Cardinality(Newer(S, r)) = n}
         IN  /\ behind = {} => Cardinality(S) <= n
             /\ behind # {} => Cardinality(Left(S, behind)) = n
<1> DEFINE behind == {r \in S : Cardinality(Newer(S, r)) = n}
<1>1. ASSUME behind = {}
      PROVE  Cardinality(S) <= n
  <2>1. ~(Cardinality(S) > n)
    BY <1>1, RankFound
  <2> QED
    BY <2>1, FS_CardinalityType
<1>2. ASSUME NEW r \in behind
      PROVE  Cardinality(Left(S, behind)) = n
  <2>1. behind = {r}
    BY <1>2, RanksDiffer
  <2>2. Left(S, behind) = Newer(S, r)
    BY <2>1 DEF Left, Newer
  <2> QED
    BY <1>2, <2>2
<1> QED
  BY <1>1, <1>2

(* The store's terms in the ones above.                                     *)
LEMMA KeptIsLeft == \A p : Store!Kept(p) = Left(v1, v2[p].cutoff)
  BY DEF Store!Kept, Left

(* The parts of the invariant, put that way.                                *)
Enough ==
  v7 \/ /\ Cardinality(v1) >= Limit \/ Cardinality(v1) >= Cardinality(v5)
        /\ \A p \in Puts : v2[p].pc = "delete" => Cardinality(Left(v1, v2[p].cutoff)) >= Limit
NotTooMany ==
  v6 \/ \/ Cardinality(v1) <= Limit
        \/ \E p \in Puts : \/ v2[p].pc = "find"
                           \/ /\ v2[p].pc = "delete"
                              /\ Cardinality(Left(v1, v2[p].cutoff)) <= Limit
Landed == /\ IsFiniteSet(v1) /\ IsFiniteSet(v5) /\ \A r \in v1 : r.waMessageId \in v5

LEMMA StoreParts == Store!StoreInv <=> Store!TypeOK /\ Landed /\ Enough /\ NotTooMany
  BY StoreCounts, KeptIsLeft DEF Store!StoreInv, Landed, Enough, NotTooMany

LEMMA PutShaped ==
  ASSUME NEW m \in WaMessages, NEW t \in 1..MaxMillis
  PROVE  /\ Store!NoPut \in Store!Put /\ Store!NoPut.pc = "idle"
         /\ [Store!NoPut EXCEPT !.pc = "upsert", !.waMessageId = m, !.createdAt = t] \in Store!Put
         /\ [Store!NoPut EXCEPT !.pc = "upsert", !.waMessageId = m, !.createdAt = t].pc = "upsert"
<1>1. 1 \in 1..MaxMillis
  BY StoreAssumption
<1>2. (CHOOSE k \in WaMessages : TRUE) \in WaMessages
  BY StoreAssumption
<1> QED
  BY <1>1, <1>2 DEF Store!NoPut, Store!Put

(* A step that leaves the rows and one put aside keeps the counts, as long  *)
(* as nobody counted on that put or it is not needed any more.              *)
LEMMA OtherPuts ==
  ASSUME Store!TypeOK, Landed, Enough, NotTooMany, NEW p \in Puts, NEW new \in Store!Put,
         v2' = [v2 EXCEPT ![p] = new], v1' = v1, v5' = v5, v7' = v7, v6 => v6',
         new.pc = "delete" => Cardinality(Left(v1, new.cutoff)) >= Limit,
         \/ v6'
         \/ v2[p].pc \notin {"find", "delete"}
         \/ Cardinality(v1) <= Limit
         \/ new.pc = "delete" /\ Cardinality(Left(v1, new.cutoff)) <= Limit
  PROVE  v2' \in [Puts -> Store!Put] /\ Landed' /\ Enough' /\ NotTooMany'
<1>1. v2 \in [Puts -> Store!Put]
  BY DEF Store!TypeOK
<1>2. v2' \in [Puts -> Store!Put] /\ v2'[p] = new /\ \A q \in Puts \ {p} : v2'[q] = v2[q]
  BY <1>1
<1>3. Landed'
  BY DEF Landed
<1>4. Enough'
  BY <1>2 DEF Enough
<1>5. NotTooMany'
  BY <1>2 DEF NotTooMany
<1> QED
  BY <1>2, <1>3, <1>4, <1>5

(* The row of a message that had none.                                      *)
LEMMA RowArrives ==
  ASSUME Store!TypeOK, Landed, Enough, NEW p \in Puts, v2[p].pc = "upsert",
         NEW new \in Store!StoredRow, new.waMessageId = v2[p].waMessageId,
         new.id \notin {r.id : r \in v1},
         \A r \in v1 : r.waMessageId # new.waMessageId,
         v1' = v1 \cup {new}, v5' = v5 \cup {new.waMessageId}, v7' = v7,
         v2' = [v2 EXCEPT ![p].pc = "find"]
  PROVE  Landed' /\ Enough'
<1>1. new \notin v1 /\ v2 \in [Puts -> Store!Put] /\ v1 \subseteq Store!StoredRow
  BY DEF Store!TypeOK
<1>2. /\ IsFiniteSet(v1') /\ Cardinality(v1') = Cardinality(v1) + 1
      /\ IsFiniteSet(v5') /\ Cardinality(v5') <= Cardinality(v5) + 1
      /\ Cardinality(v1) \in Nat /\ Cardinality(v5) \in Nat
      /\ Cardinality(v1') \in Nat /\ Cardinality(v5') \in Nat
  <2>1. IsFiniteSet(v1) /\ IsFiniteSet(v5)
    BY DEF Landed
  <2>2. Cardinality(v1) \in Nat /\ Cardinality(v5) \in Nat
    BY <2>1, FS_CardinalityType
  <2>3. IsFiniteSet(v1') /\ Cardinality(v1') = Cardinality(v1) + 1
    BY <1>1, <2>1, FS_AddElement
  <2>4. /\ IsFiniteSet(v5')
        /\ Cardinality(v5') = Cardinality(v5) \/ Cardinality(v5') = Cardinality(v5) + 1
    BY <2>1, FS_AddElement
  <2> QED
    BY <2>2, <2>3, <2>4
<1>3. Landed'
  BY <1>2 DEF Landed
<1>4. ASSUME ~v7
      PROVE  Cardinality(v1') >= Limit \/ Cardinality(v1') >= Cardinality(v5')
  <2>1. Cardinality(v1) >= Limit \/ Cardinality(v1) >= Cardinality(v5)
    BY <1>4 DEF Enough
  <2> QED
    BY <1>2, <2>1, StoreAssumption
<1>5. ASSUME ~v7, NEW q \in Puts, v2'[q].pc = "delete"
      PROVE  Cardinality(Left(v1', v2'[q].cutoff)) >= Limit
  <2>1. q # p /\ v2'[q] = v2[q] /\ v2[q].pc = "delete"
    BY <1>1, <1>5
  <2>2. Left(v1, v2[q].cutoff) \in SUBSET Left(v1', v2[q].cutoff)
    BY DEF Left
  <2>3. Left(v1', v2[q].cutoff) \in SUBSET v1' /\ IsFiniteSet(v1')
    BY <1>2 DEF Left
  <2>4. IsFiniteSet(Left(v1', v2[q].cutoff))
    BY <2>3, FS_Subset
  <2>5. /\ Cardinality(Left(v1, v2[q].cutoff)) <= Cardinality(Left(v1', v2[q].cutoff))
        /\ Cardinality(Left(v1', v2[q].cutoff)) \in Nat
        /\ Cardinality(Left(v1, v2[q].cutoff)) \in Nat
    BY <2>2, <2>4, FS_Subset, FS_CardinalityType
  <2>6. Cardinality(Left(v1, v2[q].cutoff)) >= Limit
    BY <1>5, <2>1 DEF Enough
  <2> QED
    BY <2>1, <2>5, <2>6, StoreAssumption
<1> QED
  BY <1>3, <1>4, <1>5 DEF Enough

(* The row of a message that had one, which is not older than it was.       *)
LEMMA RowMoves ==
  ASSUME Store!TypeOK, Landed, Enough, NEW p \in Puts, v2[p].pc = "upsert",
         NEW old \in v1, NEW new \in Store!StoredRow,
         new.waMessageId = old.waMessageId, new.id = old.id,
         v1' = (v1 \ {old}) \cup {new}, v5' = v5 \cup {new.waMessageId},
         v7' = (v7 \/ old.createdAt > new.createdAt), v7 \in BOOLEAN,
         v2' = [v2 EXCEPT ![p].pc = "find"]
  PROVE  Landed' /\ Enough'
<1>1. /\ v2 \in [Puts -> Store!Put] /\ v1 \subseteq Store!StoredRow
      /\ new \notin v1 \ {old} /\ Rows(v1) /\ IsFiniteSet(v1) /\ IsFiniteSet(v5)
      /\ v5' = v5
  BY DEF Store!TypeOK, Rows, Landed
<1>2. IsFiniteSet(v1') /\ Cardinality(v1') = Cardinality(v1) /\ Cardinality(v1) \in Nat
  <2>1. IsFiniteSet(v1 \ {old}) /\ Cardinality(v1 \ {old}) = Cardinality(v1) - 1
    BY <1>1, FS_RemoveElement
  <2>2. IsFiniteSet(v1') /\ Cardinality(v1') = Cardinality(v1 \ {old}) + 1
    BY <1>1, <2>1, FS_AddElement
  <2>3. Cardinality(v1) \in Nat
    BY <1>1, FS_CardinalityType
  <2> QED
    BY <2>1, <2>2, <2>3
<1>3. Landed'
  BY <1>1, <1>2 DEF Landed
<1>4. ASSUME ~v7'
      PROVE  Cardinality(v1') >= Limit \/ Cardinality(v1') >= Cardinality(v5')
  BY <1>1, <1>2, <1>4 DEF Enough
<1>5. ASSUME ~v7', NEW q \in Puts, v2'[q].pc = "delete"
      PROVE  Cardinality(Left(v1', v2'[q].cutoff)) >= Limit
  <2>1. q # p /\ v2'[q] = v2[q] /\ v2[q].pc = "delete" /\ v2[q].cutoff \in SUBSET Store!StoredRow
    BY <1>1, <1>5 DEF Store!Put
  <2>2. old.createdAt <= new.createdAt
    <3>1. old.createdAt \in Int /\ new.createdAt \in Int
      BY <1>1, StoreAssumption DEF Store!StoredRow
    <3>2. ~(old.createdAt > new.createdAt)
      BY <1>5
    <3> QED
      BY <3>1, <3>2
  <2>3. Cardinality(Left(v1', v2[q].cutoff)) >= Cardinality(Left(v1, v2[q].cutoff))
    BY <1>1, <2>1, <2>2, LeftForward
  <2>4. Cardinality(Left(v1, v2[q].cutoff)) \in Nat
    BY <1>1, <2>1, LeftTwice
  <2>5. Cardinality(Left(v1', v2[q].cutoff)) \in Nat
    <3>1. IsFiniteSet(v1') /\ Left(v1', v2[q].cutoff) \in SUBSET v1'
      BY <1>2 DEF Left
    <3> QED
      BY <3>1, FS_Subset, FS_CardinalityType
  <2>6. Cardinality(Left(v1, v2[q].cutoff)) >= Limit
    BY <1>5, <2>1 DEF Enough
  <2> QED
    BY <2>1, <2>3, <2>4, <2>5, <2>6, StoreAssumption
<1> QED
  BY <1>3, <1>4, <1>5 DEF Enough

LEMMA StoreStep == Store!StoreInv /\ [Store!Next]_(Store!storeVars) => Store!StoreInv'
<1> SUFFICES ASSUME Store!StoreInv, [Store!Next]_(Store!storeVars)
             PROVE  Store!StoreInv'
  OBVIOUS
<1>1. Store!TypeOK /\ Landed /\ Enough /\ NotTooMany
  BY StoreParts
<1>2. /\ v2 \in [Puts -> Store!Put] /\ v1 \subseteq Store!StoredRow /\ Rows(v1) /\ IsFiniteSet(v1)
      /\ v3 \in 1..MaxMillis /\ v6 \in BOOLEAN /\ v7 \in BOOLEAN
      /\ \A q \in Puts : v2[q].cutoff \in SUBSET Store!StoredRow
  BY <1>1 DEF Store!TypeOK, Rows, Landed, Store!Put
<1> SUFFICES Store!TypeOK' /\ Landed' /\ Enough' /\ NotTooMany'
  <2>1. Store!StoreInv' <=> Store!TypeOK' /\ Landed' /\ Enough' /\ NotTooMany'
    BY StoreParts, PTL
  <2> QED
    BY <2>1
<1>3. ASSUME NEW p \in Puts, Store!NextFree(p), NEW m \in WaMessages, Store!PutBegins(p, m)
      PROVE  Store!TypeOK' /\ Landed' /\ Enough' /\ NotTooMany'
  <2> DEFINE new == [Store!NoPut EXCEPT !.pc = "upsert", !.waMessageId = m, !.createdAt = v3]
  <2>1. new \in Store!Put /\ new.pc = "upsert"
    BY <1>2, PutShaped
  <2>2. v2' = [v2 EXCEPT ![p] = new] /\ v2[p].pc = "idle"
    BY <1>3 DEF Store!PutBegins, Store!NextFree
  <2>3. /\ v1' = v1 /\ v3' = v3 /\ v4' = v4 + 1 /\ v4 < MaxPuts /\ v5' = v5 /\ v6' = v6 /\ v7' = v7
    BY <1>3 DEF Store!PutBegins, Store!NextFree
  <2> HIDE DEF new
  <2>4. v2' \in [Puts -> Store!Put] /\ Landed' /\ Enough' /\ NotTooMany'
    BY <1>1, <2>1, <2>2, <2>3, OtherPuts
  <2>5. v4' \in 0..MaxPuts
    BY <1>1, <2>3, StoreAssumption DEF Store!TypeOK
  <2> QED
    BY <1>1, <2>3, <2>4, <2>5 DEF Store!TypeOK
<1>4. ASSUME NEW p \in Puts, Store!Upserts(p)
      PROVE  Store!TypeOK' /\ Landed' /\ Enough' /\ NotTooMany'
  <2> DEFINE m == v2[p].waMessageId
             old == {r \in v1 : r.waMessageId = m}
  <2>1. PICK id \in IF old # {} THEN {r.id : r \in old} ELSE 1..MaxPuts \ {r.id : r \in v1} :
          v1' = (v1 \ old) \cup {[id |-> id, waMessageId |-> m, createdAt |-> v2[p].createdAt]}
    BY <1>4 DEF Store!Upserts
  <2> DEFINE new == [id |-> id, waMessageId |-> m, createdAt |-> v2[p].createdAt]
  <2>2. /\ v2[p].pc = "upsert" /\ v5' = v5 \cup {m}
        /\ v7' = (v7 \/ \E r \in old : r.createdAt > v2[p].createdAt)
        /\ v2' = [v2 EXCEPT ![p].pc = "find"] /\ v3' = v3 /\ v4' = v4 /\ v6' = v6
    BY <1>4 DEF Store!Upserts
  <2>3. m \in WaMessages /\ v2[p].createdAt \in 1..MaxMillis
    BY <1>2 DEF Store!Put
  <2>4. v2' \in [Puts -> Store!Put] /\ v2'[p].pc = "find"
    BY <1>2, <2>2 DEF Store!Put
  <2>5. NotTooMany'
    BY <2>4 DEF NotTooMany
  <2>6. CASE old = {}
    <3>1. id \in 1..MaxPuts /\ id \notin {r.id : r \in v1}
      BY <2>1, <2>6
    <3>2. new \in Store!StoredRow /\ v1' = v1 \cup {new}
      BY <2>1, <2>3, <2>6, <3>1 DEF Store!StoredRow
    <3>3. \A r \in v1 : r.waMessageId # m /\ r.id # id
      BY <2>6, <3>1
    <3>4. v7' = v7
      BY <1>2, <2>2, <2>6
    <3>5. new.waMessageId = m /\ new.id = id
      OBVIOUS
    <3> HIDE DEF new, m
    <3>6. Landed' /\ Enough'
      BY <1>1, <2>2, <3>1, <3>2, <3>3, <3>4, <3>5, RowArrives DEF m
    <3>7. Store!TypeOK'
      <4>1. v1' \subseteq Store!StoredRow
        BY <1>2, <3>2
      <4>2. \A r, s \in v1' : r # s => r.waMessageId # s.waMessageId /\ r.id # s.id
        BY <1>1, <3>2, <3>3, <3>5 DEF Store!TypeOK
      <4> QED
        BY <1>1, <1>2, <2>2, <2>3, <2>4, <3>4, <4>1, <4>2 DEF Store!TypeOK
    <3> QED
      BY <2>5, <3>6, <3>7
  <2>7. ASSUME NEW o \in old
        PROVE  Store!TypeOK' /\ Landed' /\ Enough' /\ NotTooMany'
    <3>1. o \in v1 /\ o.waMessageId = m /\ old = {o}
      BY <1>1, <2>7 DEF Store!TypeOK
    <3>2. id = o.id
      BY <2>1, <3>1
    <3>3. new \in Store!StoredRow /\ v1' = (v1 \ {o}) \cup {new}
      BY <1>2, <2>1, <2>3, <3>1, <3>2 DEF Store!StoredRow
    <3>4. new.waMessageId = m /\ new.id = id /\ new.createdAt = v2[p].createdAt
      OBVIOUS
    <3>5. v7' = (v7 \/ o.createdAt > new.createdAt)
      BY <2>2, <3>1, <3>4
    <3>6. v5' = v5 \cup {new.waMessageId}
      BY <2>2, <3>4
    <3> HIDE DEF new, m, old
    <3>7. Landed' /\ Enough'
      BY <1>1, <1>2, <2>2, <3>1, <3>2, <3>3, <3>4, <3>5, <3>6, RowMoves
    <3>8. Store!TypeOK'
      <4>1. v1' \subseteq Store!StoredRow
        BY <1>2, <3>3
      <4>2. \A r, s \in v1' : r # s => r.waMessageId # s.waMessageId /\ r.id # s.id
        <5>1. \A r \in v1 \ {o} : r.waMessageId # new.waMessageId /\ r.id # new.id
          BY <1>1, <3>1, <3>2, <3>4 DEF Store!TypeOK
        <5> QED
          BY <1>1, <3>3, <5>1 DEF Store!TypeOK
      <4>3. v7' \in BOOLEAN /\ v5' \subseteq WaMessages
        BY <1>1, <1>2, <2>2, <2>3, <3>5 DEF Store!TypeOK
      <4> QED
        BY <1>1, <2>2, <2>4, <4>1, <4>2, <4>3 DEF Store!TypeOK
    <3> QED
      BY <2>5, <3>7, <3>8
  <2> QED
    BY <2>6, <2>7
<1>5. ASSUME NEW p \in Puts, Store!FindsCutoff(p)
      PROVE  Store!TypeOK' /\ Landed' /\ Enough' /\ NotTooMany'
  <2> DEFINE behind == {r \in v1 : Cardinality(Newer(v1, r)) = Limit}
             new == IF behind = {} THEN Store!NoPut
                    ELSE [v2[p] EXCEPT !.pc = "delete", !.cutoff = behind]
  <2>1. behind = {r \in v1 : Store!Cardinality({s \in v1 : Store!Older(r, s)}) = Limit}
    BY StoreCounts DEF Newer
  <2>2. /\ v2[p].pc = "find" /\ v2' = [v2 EXCEPT ![p] = new] /\ v1' = v1 /\ v3' = v3 /\ v4' = v4
        /\ v5' = v5 /\ v6' = v6 /\ v7' = v7
    BY <1>5, <2>1 DEF Store!FindsCutoff
  <2>3. /\ behind = {} => Cardinality(v1) <= Limit
        /\ behind # {} => Cardinality(Left(v1, behind)) = Limit
    BY <1>2, CutoffFound, StoreAssumption
  <2>4. behind \in SUBSET Store!StoredRow
    BY <1>2
  <2> HIDE DEF behind
  <2>5. /\ new \in Store!Put
        /\ behind = {} => new.pc = "idle"
        /\ behind # {} => new.pc = "delete" /\ new.cutoff = behind
    <3>1. v2[p] \in Store!Put /\ Store!NoPut \in Store!Put /\ Store!NoPut.pc = "idle"
      BY <1>2, PutShaped, StoreAssumption
    <3> QED
      BY <2>4, <3>1 DEF Store!Put
  <2> HIDE DEF new
  <2>6. v2' \in [Puts -> Store!Put] /\ Landed' /\ Enough' /\ NotTooMany'
    <3>1. new.pc = "delete" =>
            /\ Cardinality(Left(v1, new.cutoff)) >= Limit
            /\ Cardinality(Left(v1, new.cutoff)) <= Limit
      BY <2>3, <2>5, StoreAssumption
    <3>2. Cardinality(v1) <= Limit \/ new.pc = "delete"
      BY <2>3, <2>5
    <3> QED
      BY <1>1, <2>2, <2>5, <3>1, <3>2, OtherPuts
  <2> QED
    BY <1>1, <2>2, <2>6 DEF Store!TypeOK
<1>6. ASSUME NEW p \in Puts, Store!Deletes(p)
      PROVE  Store!TypeOK' /\ Landed' /\ Enough' /\ NotTooMany'
  <2>1. /\ v2[p].pc = "delete" /\ v2' = [v2 EXCEPT ![p] = Store!NoPut]
        /\ v1' = Left(v1, v2[p].cutoff)
        /\ v3' = v3 /\ v4' = v4 /\ v5' = v5 /\ v6' = v6 /\ v7' = v7
    BY <1>6 DEF Store!Deletes, Left
  <2>2. Store!NoPut \in Store!Put /\ Store!NoPut.pc = "idle"
    BY <1>2, PutShaped, StoreAssumption
  <2>3. v2' \in [Puts -> Store!Put] /\ v2'[p].pc = "idle" /\ \A q \in Puts \ {p} : v2'[q] = v2[q]
    BY <1>2, <2>1, <2>2
  <2>4. /\ IsFiniteSet(v1') /\ v1' \subseteq v1
        /\ Cardinality(v1') \in Nat /\ Cardinality(v1') <= Cardinality(v1) /\ Cardinality(v1) \in Nat
    <3>1. /\ IsFiniteSet(v1') /\ Cardinality(v1') \in Nat /\ Cardinality(v1') <= Cardinality(v1)
      BY <1>2, <2>1, LeftTwice
    <3>2. Cardinality(v1) \in Nat
      BY <1>2, FS_CardinalityType
    <3>3. v1' \subseteq v1
      BY <2>1 DEF Left
    <3> QED
      BY <3>1, <3>2, <3>3
  <2>5. ASSUME NEW q \in Puts, v2'[q].pc = "delete"
        PROVE  /\ q # p /\ v2'[q] = v2[q] /\ v2[q].pc = "delete"
               /\ \/ Left(v1', v2'[q].cutoff) = v1'
                  \/ Left(v1', v2'[q].cutoff) = Left(v1, v2[q].cutoff)
               /\ Cardinality(Left(v1', v2'[q].cutoff)) <= Cardinality(Left(v1, v2[q].cutoff))
               /\ Cardinality(Left(v1', v2'[q].cutoff)) \in Nat
               /\ Cardinality(Left(v1, v2[q].cutoff)) \in Nat
    <3>1. q # p /\ v2'[q] = v2[q] /\ v2[q].pc = "delete"
      BY <2>3, <2>5
    <3>2. IsFiniteSet(v1') /\ Rows(v1')
      BY <1>2, <2>1, LeftTwice
    <3> QED
      BY <1>2, <2>1, <3>1, <3>2, LeftTwice
  <2>6. Landed'
    BY <1>1, <2>1, <2>4 DEF Landed
  <2>7. Enough'
    <3>1. ~v7 => Cardinality(v1') >= Limit
      BY <1>1, <2>1 DEF Enough
    <3>2. ASSUME ~v7, NEW q \in Puts, v2'[q].pc = "delete"
          PROVE  Cardinality(Left(v1', v2'[q].cutoff)) >= Limit
      <4>1. q # p /\ v2'[q] = v2[q] /\ v2[q].pc = "delete"
        BY <2>5, <3>2
      <4>2. Cardinality(Left(v1, v2[q].cutoff)) >= Limit
        BY <1>1, <3>2, <4>1 DEF Enough
      <4> QED
        BY <2>5, <3>1, <3>2, <4>2
    <3> QED
      BY <2>1, <3>1, <3>2 DEF Enough
  <2>8. NotTooMany'
    <3>1. CASE v6 \/ Cardinality(v1) <= Limit
      BY <2>1, <2>4, <3>1, StoreAssumption DEF NotTooMany
    <3>2. ASSUME NEW q \in Puts, v2[q].pc = "find"
          PROVE  NotTooMany'
      <4>1. v2'[q] = v2[q]
        BY <2>1, <2>3, <3>2
      <4> QED
        BY <3>2, <4>1 DEF NotTooMany
    <3>3. ASSUME NEW q \in Puts, v2[q].pc = "delete", Cardinality(Left(v1, v2[q].cutoff)) <= Limit
          PROVE  NotTooMany'
      <4>1. CASE q = p
        BY <2>1, <3>3, <4>1 DEF NotTooMany
      <4>2. CASE q # p
        <5>1. v2'[q] = v2[q] /\ v2'[q].pc = "delete"
          BY <2>3, <3>3, <4>2
        <5>2. Cardinality(Left(v1', v2'[q].cutoff)) <= Limit
          BY <2>5, <3>3, <5>1, StoreAssumption
        <5> QED
          BY <5>1, <5>2 DEF NotTooMany
      <4> QED
        BY <4>1, <4>2
    <3> QED
      BY <1>1, <3>1, <3>2, <3>3 DEF NotTooMany
  <2>9. Store!TypeOK'
    BY <1>1, <2>1, <2>3, <2>4 DEF Store!TypeOK
  <2> QED
    BY <2>6, <2>7, <2>8, <2>9
<1>7. ASSUME NEW p \in Puts, Store!PutFails(p)
      PROVE  Store!TypeOK' /\ Landed' /\ Enough' /\ NotTooMany'
  <2>1. /\ v2' = [v2 EXCEPT ![p] = Store!NoPut] /\ v1' = v1
        /\ v3' = v3 /\ v4' = v4 /\ v5' = v5 /\ v6' = TRUE /\ v7' = v7
    BY <1>7 DEF Store!PutFails
  <2>2. Store!NoPut \in Store!Put /\ Store!NoPut.pc = "idle"
    BY <1>2, PutShaped, StoreAssumption
  <2>3. v2' \in [Puts -> Store!Put] /\ Landed' /\ Enough' /\ NotTooMany'
    BY <1>1, <2>1, <2>2, OtherPuts
  <2> QED
    BY <1>1, <2>1, <2>3 DEF Store!TypeOK
<1>8. CASE Store!clearSession
  <2>1. /\ v1' = {} /\ v5' = {} /\ v7' = (v7 \/ ~Store!Quiet)
        /\ v2' = v2 /\ v3' = v3 /\ v4' = v4 /\ v6' = v6
    BY <1>8 DEF Store!clearSession
  <2>2. IsFiniteSet({}) /\ Cardinality({}) = 0
    BY FS_EmptySet
  <2>3. ~v7' => \A q \in Puts : v2[q].pc = "idle"
    BY <2>1 DEF Store!Quiet
  <2>4. Landed' /\ Enough' /\ NotTooMany'
    BY <2>1, <2>2, <2>3, StoreAssumption DEF Landed, Enough, NotTooMany
  <2>5. v7' \in BOOLEAN
    BY <1>2, <2>1
  <2> QED
    BY <1>1, <2>1, <2>4, <2>5 DEF Store!TypeOK
<1>9. CASE Store!Tick
  <2>1. /\ v3 < MaxMillis /\ v3' = v3 + 1
        /\ v1' = v1 /\ v2' = v2 /\ v4' = v4 /\ v5' = v5 /\ v6' = v6 /\ v7' = v7
    BY <1>9 DEF Store!Tick
  <2>2. v3' \in 1..MaxMillis
    BY <1>2, <2>1, StoreAssumption
  <2> QED
    BY <1>1, <2>1, <2>2 DEF Store!TypeOK, Landed, Enough, NotTooMany
<1>10. CASE UNCHANGED Store!storeVars
  BY <1>1, <1>10 DEF Store!storeVars, Store!TypeOK, Landed, Enough, NotTooMany
<1> QED
  BY <1>3, <1>4, <1>5, <1>6, <1>7, <1>8, <1>9, <1>10 DEF Store!Next

LEMMA StoreInit == Store!Init => Store!StoreInv
<1> SUFFICES ASSUME Store!Init
             PROVE  Store!StoreInv
  OBVIOUS
<1>1. /\ v1 = {} /\ v2 = [p \in Puts |-> Store!NoPut] /\ v3 = 1 /\ v4 = 0 /\ v5 = {}
      /\ v6 = FALSE /\ v7 = FALSE
  BY DEF Store!Init
<1>2. 1 \in 1..MaxMillis /\ 0 \in 0..MaxPuts
  BY StoreAssumption
<1>3. Store!NoPut \in Store!Put /\ Store!NoPut.pc = "idle"
  BY <1>2, PutShaped, StoreAssumption
<1>4. IsFiniteSet({}) /\ Cardinality({}) = 0
  BY FS_EmptySet
<1>5. Store!TypeOK
  BY <1>1, <1>2, <1>3 DEF Store!TypeOK
<1>6. Landed /\ Enough /\ NotTooMany
  BY <1>1, <1>3, <1>4, StoreAssumption DEF Landed, Enough, NotTooMany
<1> QED
  BY <1>5, <1>6, StoreParts

LEMMA StoreLimit == Store!StoreInv => Store!StoreKeepsLimit
<1> SUFFICES ASSUME Store!StoreInv
             PROVE  Store!StoreKeepsLimit
  OBVIOUS
<1>1. Landed /\ Enough /\ NotTooMany
  BY StoreParts
<1>2. Cardinality(v1) \in Nat /\ Cardinality(v5) \in Nat
  BY <1>1, FS_CardinalityType DEF Landed
<1>3. \A a, b \in Nat : /\ Store!Min({a, b}) \in {a, b}
                        /\ Store!Min({a, b}) <= a /\ Store!Min({a, b}) <= b
  <2> SUFFICES ASSUME NEW a \in Nat, NEW b \in Nat
               PROVE  /\ Store!Min({a, b}) \in {a, b}
                      /\ Store!Min({a, b}) <= a /\ Store!Min({a, b}) <= b
    OBVIOUS
  <2>1. \E x \in {a, b} : \A y \in {a, b} : x <= y
    OBVIOUS
  <2> QED
    BY <2>1 DEF Store!Min
<1>4. ~v7 => Cardinality(v1) >= Store!Min({Limit, Cardinality(v5)})
  BY <1>1, <1>2, <1>3, StoreAssumption DEF Enough
<1>5. Store!Quiet /\ ~v6 => Cardinality(v1) <= Limit
  BY <1>1 DEF NotTooMany, Store!Quiet
<1> QED
  BY <1>4, <1>5, StoreCounts DEF Store!StoreKeepsLimit

-----------------------------------------------------------------------------
(* The rows of incoming messages.                                          *)

(* The cache of senders stays within its bound, with each of them once.      *)
LEMMA CacheKeeps ==
  ASSUME NEW c \in Inbound!Seq(Senders), Inbound!Len(c) <= CacheMax, Inbound!IsInjective(c), NEW s \in Senders
  PROVE  LET kept == IF Inbound!Len(c) >= CacheMax THEN Inbound!Tail(c) ELSE c
             new == IF Inbound!Contains(kept, s) THEN kept ELSE Inbound!Append(kept, s)
         IN  new \in Inbound!Seq(Senders) /\ Inbound!Len(new) <= CacheMax /\ Inbound!IsInjective(new)
<1> DEFINE kept == IF Inbound!Len(c) >= CacheMax THEN Inbound!Tail(c) ELSE c
           new == IF Inbound!Contains(kept, s) THEN kept ELSE Inbound!Append(kept, s)
<1> SUFFICES new \in Inbound!Seq(Senders) /\ Inbound!Len(new) <= CacheMax /\ Inbound!IsInjective(new)
  OBVIOUS
<1>0. \A q \in Inbound!Seq(Senders) :
        Inbound!IsInjective(q) <=> \A i, j \in 1..Inbound!Len(q) : q[i] = q[j] => i = j
  <2> SUFFICES ASSUME NEW q \in Inbound!Seq(Senders)
               PROVE  Inbound!IsInjective(q) <=>
                        \A i, j \in 1..Inbound!Len(q) : q[i] = q[j] => i = j
    OBVIOUS
  <2>1. DOMAIN q = 1..Inbound!Len(q)
    OBVIOUS
  <2> QED
    BY <2>1 DEF Inbound!IsInjective
<1>1. /\ kept \in Inbound!Seq(Senders) /\ Inbound!Len(kept) \in Nat /\ Inbound!Len(kept) <= CacheMax - 1
      /\ \A i, j \in 1..Inbound!Len(kept) : kept[i] = kept[j] => i = j
  BY <1>0, InboundAssumption
<1> HIDE DEF kept
<1>2. CASE Inbound!Contains(kept, s)
  <2>1. new = kept
    BY <1>2
  <2> QED
    BY <1>0, <1>1, <2>1, InboundAssumption
<1>3. CASE ~Inbound!Contains(kept, s)
  <2>1. \A i \in 1..Inbound!Len(kept) : kept[i] # s
    BY <1>3 DEF Inbound!Contains
  <2>2. /\ new \in Inbound!Seq(Senders) /\ Inbound!Len(new) = Inbound!Len(kept) + 1
        /\ \A i \in 1..Inbound!Len(kept) : new[i] = kept[i]
        /\ new[Inbound!Len(kept) + 1] = s
    BY <1>1, <1>3
  <2> HIDE DEF new
  <2>3. \A i, j \in 1..Inbound!Len(new) : new[i] = new[j] => i = j
    BY <1>1, <2>1, <2>2
  <2> QED
    BY <1>0, <1>1, <2>2, <2>3, InboundAssumption
<1> QED
  BY <1>2, <1>3

Settled == \A m \in Messages : Inbound!Revoked(m) /\ Inbound!ReactionsSettle(m)

(* The handling of a message that came leaves revocations and reactions.    *)
LEMMA MessageMoves ==
  ASSUME Inbound!InboundInv, NEW m \in Messages,
         NEW new \in Inbound!Inbound, v2' = [v2 EXCEPT ![m] = new],
         v1' = v1, v4' = v4, v8' \in Inbound!Seq(Senders), Inbound!CacheBounded', Inbound!OthersKept,
         \/ v3' = v3 /\ v9' = v9
         \/ v3' = v3 /\ v9' = v9 \cup {m}
         \/ v3' = [v3 EXCEPT ![m] = "flight"] /\ v9' = v9 \cup {m},
         m \in v9 => new.pc = "done",
         new.kind = v2[m].kind \/ v2[m].pc = "none",
         new.pc \in {"hook", "lookup"} => new.kind # "status",
         new.pc = "lookup" => new.kind = "text" /\ new.from # NoOne,
         v9' # v9 => new.pc = "done" /\ new.kind # "status",
         v3' # v3 => new.kind = "text"
  PROVE  Inbound!InboundInv'
<1>1. /\ v2 \in [Messages -> Inbound!Inbound] /\ v3 \in [Messages -> Inbound!Write]
      /\ v4 \in [Messages -> Inbound!Stored] /\ v9 \subseteq Messages
      /\ v6 \in [Reactors -> Inbound!Reactor]
  BY DEF Inbound!InboundInv, Inbound!TypeOK
<1>2. /\ v2' \in [Messages -> Inbound!Inbound] /\ v2'[m] = new
      /\ \A k \in Messages \ {m} : v2'[k] = v2[k]
  BY <1>1
<1>3. /\ v3' \in [Messages -> Inbound!Write] /\ v9' \subseteq Messages
      /\ \A k \in Messages \ {m} : v3'[k] = v3[k]
      /\ v3'[m] = v3[m] \/ (v3' # v3 /\ v3'[m] = "flight" /\ m \in v9')
      /\ v9' = v9 \/ v9' = v9 \cup {m}
  <2>1. CASE v3' = v3
    BY <1>1, <2>1
  <2>2. CASE v3' = [v3 EXCEPT ![m] = "flight"] /\ v9' = v9 \cup {m}
    <3>1. v3'[m] = "flight" /\ \A k \in Messages \ {m} : v3'[k] = v3[k]
      BY <1>1, <2>2
    <3>2. v3' \in [Messages -> Inbound!Write]
      BY <1>1, <2>2 DEF Inbound!Write
    <3> QED
      BY <1>1, <2>2, <3>1, <3>2
  <2> QED
    BY <2>1, <2>2
<1>4. Inbound!TypeOK'
  BY <1>2, <1>3 DEF Inbound!InboundInv, Inbound!TypeOK, Inbound!OthersKept
<1>5. Inbound!Stages'
  <2> SUFFICES ASSUME NEW k \in Messages
               PROVE  /\ v2'[k].pc \in {"hook", "lookup"} => v2'[k].kind # "status"
                      /\ v2'[k].pc = "lookup" => v2'[k].kind = "text" /\ v2'[k].from # NoOne
                      /\ k \in v9' => v2'[k].pc = "done" /\ v2'[k].kind # "status"
                      /\ v3'[k] # "none" \/ v4'[k].there => k \in v9' /\ v2'[k].kind = "text"
    BY DEF Inbound!Stages
  <2>1. /\ v2[k].pc \in {"hook", "lookup"} => v2[k].kind # "status"
        /\ v2[k].pc = "lookup" => v2[k].kind = "text" /\ v2[k].from # NoOne
        /\ k \in v9 => v2[k].pc = "done" /\ v2[k].kind # "status"
        /\ v3[k] # "none" \/ v4[k].there => k \in v9 /\ v2[k].kind = "text"
    BY DEF Inbound!InboundInv, Inbound!Stages
  <2>2. CASE k # m
    BY <1>2, <1>3, <2>1, <2>2
  <2>3. CASE k = m
    <3>1. m \in v9 => new.pc = "done" /\ new.kind # "status"
      BY <2>1, <2>3
    <3>2. k \in v9' => new.pc = "done" /\ new.kind # "status"
      BY <1>3, <3>1, <2>3
    <3>3. v3'[m] # "none" \/ v4'[m].there => m \in v9' /\ new.kind = "text"
      BY <1>3, <2>1, <2>3
    <3> QED
      BY <1>2, <2>3, <3>2, <3>3
  <2> QED
    BY <2>2, <2>3
<1>6. Inbound!Copies'
  <2>1. \A k \in v9 : k \in v9' /\ (v2[k].kind = "text" => v2'[k].kind = "text")
    BY <1>1, <1>2, <1>3 DEF Inbound!InboundInv, Inbound!Stages
  <2> QED
    BY <2>1 DEF Inbound!InboundInv, Inbound!Copies, Inbound!OthersKept
<1>7. Settled'
  <2>1. v4' = v4 /\ v5' = v5 /\ v6' = v6 /\ v10' = v10 /\ v11' = v11
    BY DEF Inbound!OthersKept
  <2>2. Settled
    BY DEF Inbound!InboundInv, Settled
  <2> QED
    <3>1. ASSUME NEW k \in Messages
          PROVE  Inbound!Revoked(k)' /\ Inbound!ReactionsSettle(k)'
      <4>1. Inbound!Revoked(k) /\ Inbound!ReactionsSettle(k)
        BY <2>2 DEF Settled
      <4>2. Inbound!Revoked(k)'
        BY <2>1, <4>1 DEF Inbound!Revoked
      <4>3. \A r \in Reactors : Inbound!On(r, k)' <=> Inbound!On(r, k)
        BY <2>1 DEF Inbound!On
      <4>4. Inbound!ReactionsSettle(k)'
        BY <2>1, <4>1, <4>3 DEF Inbound!ReactionsSettle
      <4> QED
        BY <4>2, <4>4
    <3> QED
      BY <3>1 DEF Settled
<1> QED
  BY <1>4, <1>5, <1>6, <1>7 DEF Inbound!InboundInv, Settled

(* A write of a message's row, or a step of a revocation or reaction: what   *)
(* the handling of messages relies on stays.                                *)
LEMMA WriteMoves ==
  ASSUME Inbound!InboundInv, Inbound!WritesKept,
         v3' \in [Messages -> Inbound!Write], v4' \in [Messages -> Inbound!Stored],
         v5' \in [Messages -> Inbound!Write], v6' \in [Reactors -> Inbound!Reactor],
         v7' \in 0..MaxReactions, v10' \in [Messages -> SUBSET Senders],
         v11' \subseteq [msg : Messages, of : {"revoke", "reaction"}],
         \A k \in Messages : v3'[k] # "none" \/ v4'[k].there =>
                               k \in v9 /\ v2[k].kind = "text",
         \A r \in Reactors :
           /\ v6'[r].pc # "idle" => v6'[r].msg \in Messages /\ v6'[r].from \in Senders
           /\ v6'[r].pc = "saving" /\ v6'[r].copy.there =>
                v6'[r].msg \in v9 /\ v2[v6'[r].msg].kind = "text",
         Settled'
  PROVE  Inbound!InboundInv'
<1>1. v1' = v1 /\ v2' = v2 /\ v8' = v8 /\ v9' = v9
  BY DEF Inbound!WritesKept
<1>2. Inbound!TypeOK'
  BY <1>1 DEF Inbound!InboundInv, Inbound!TypeOK
<1>3. Inbound!Stages'
  <2>1. Inbound!Stages
    BY DEF Inbound!InboundInv
  <2> QED
    BY <1>1, <2>1 DEF Inbound!Stages
<1>4. Inbound!Copies'
  BY <1>1 DEF Inbound!Copies
<1>5. Inbound!CacheBounded'
  BY <1>1 DEF Inbound!InboundInv, Inbound!CacheBounded
<1> QED
  BY <1>2, <1>3, <1>4, <1>5 DEF Inbound!InboundInv, Settled

(* What the invariant says of one message, and of one reaction.             *)
LEMMA InboundRead ==
  ASSUME Inbound!InboundInv
  PROVE  /\ v2 \in [Messages -> Inbound!Inbound] /\ v3 \in [Messages -> Inbound!Write]
         /\ v4 \in [Messages -> Inbound!Stored] /\ v5 \in [Messages -> Inbound!Write]
         /\ v6 \in [Reactors -> Inbound!Reactor] /\ v7 \in 0..MaxReactions
         /\ v8 \in Inbound!Seq(Senders) /\ v9 \subseteq Messages
         /\ v10 \in [Messages -> SUBSET Senders]
         /\ v11 \subseteq [msg : Messages, of : {"revoke", "reaction"}]
         /\ \A k \in Messages : v3[k] # "none" \/ v4[k].there => k \in v9 /\ v2[k].kind = "text"
         /\ \A r \in Reactors :
              /\ v6[r].pc # "idle" => v6[r].msg \in Messages /\ v6[r].from \in Senders
              /\ v6[r].pc = "saving" /\ v6[r].copy.there =>
                   v6[r].msg \in v9 /\ v2[v6[r].msg].kind = "text"
         /\ \A k \in Messages : Inbound!Revoked(k) /\ Inbound!ReactionsSettle(k)
<1>1. Inbound!TypeOK /\ Inbound!Stages /\ Inbound!Copies
  BY DEF Inbound!InboundInv
<1>2. \A k \in Messages : Inbound!Revoked(k) /\ Inbound!ReactionsSettle(k)
  BY DEF Inbound!InboundInv
<1> QED
  BY <1>1, <1>2 DEF Inbound!TypeOK, Inbound!Stages, Inbound!Copies

(* A message in its handling, wherever that goes on.                        *)
LEMMA Going ==
  ASSUME Inbound!InboundInv, NEW m \in Messages, NEW pc \in {"hook", "lookup", "done"},
         Inbound!Moves(m, pc)
  PROVE  \E new \in Inbound!Inbound :
           /\ v2' = [v2 EXCEPT ![m] = new] /\ new.pc = pc /\ new.kind = v2[m].kind
           /\ pc # "done" => new.from = v2[m].from
<1> DEFINE new == [v2[m] EXCEPT !.pc = pc, !.from = IF pc = "done" THEN NoOne ELSE @]
<1>1. v2[m] \in Inbound!Inbound /\ v2 \in [Messages -> Inbound!Inbound]
  BY InboundRead
<1>2. /\ new \in Inbound!Inbound /\ new.pc = pc /\ new.kind = v2[m].kind
      /\ pc # "done" => new.from = v2[m].from
  BY <1>1 DEF Inbound!Inbound, Inbound!Someone
<1>3. v2' = [v2 EXCEPT ![m] = new]
  BY <1>1 DEF Inbound!Moves, Inbound!Inbound
<1> HIDE DEF new
<1> QED
  BY <1>2, <1>3

LEMMA MessageSteps ==
  ASSUME Inbound!InboundInv, NEW m \in Messages,
         \/ \E x \in May[m] : \/ Inbound!WwebjsMessage(m, x.kind, x.from)
                              \/ Inbound!BaileysMessage(m, x.kind, x.from)
         \/ Inbound!MessageCreated(m)
         \/ Inbound!WwebjsMaps(m) \/ Inbound!BaileysMaps(m)
         \/ Inbound!HookStops(m) \/ Inbound!OwnGoesOn(m) \/ Inbound!HookGoesOn(m)
         \/ Inbound!LookupAnswered(m)
  PROVE  Inbound!InboundInv'
<1> USE DEF Inbound!RowsKept
<1>1. /\ v2 \in [Messages -> Inbound!Inbound] /\ v8 \in Inbound!Seq(Senders)
      /\ Inbound!CacheBounded /\ v2[m] \in Inbound!Inbound
  BY InboundRead DEF Inbound!InboundInv
<1>2. /\ v2[m].pc \in {"hook", "lookup"} => v2[m].kind # "status"
      /\ v2[m].pc = "lookup" => v2[m].kind = "text" /\ v2[m].from # NoOne
      /\ m \in v9 => v2[m].pc = "done" /\ v2[m].kind # "status"
  BY DEF Inbound!InboundInv, Inbound!Stages
<1>3. v8' = v8 => v8' \in Inbound!Seq(Senders) /\ Inbound!CacheBounded'
  BY <1>1 DEF Inbound!CacheBounded
<1>4. ASSUME NEW x \in May[m], \/ Inbound!WwebjsMessage(m, x.kind, x.from)
                               \/ Inbound!BaileysMessage(m, x.kind, x.from)
      PROVE  Inbound!InboundInv'
  <2> DEFINE new == [pc |-> "mapping", kind |-> x.kind, from |-> x.from]
  <2>1. new \in Inbound!Inbound /\ new.pc = "mapping"
    BY InboundAssumption DEF Inbound!Inbound, Inbound!Kind, Inbound!Someone
  <2>2. /\ v2' = [v2 EXCEPT ![m] = new] /\ v2[m].pc = "none" /\ Inbound!OthersKept
        /\ v1' = v1 /\ v3' = v3 /\ v4' = v4 /\ v8' = v8 /\ v9' = v9
    BY <1>4 DEF Inbound!WwebjsMessage, Inbound!BaileysMessage
  <2> HIDE DEF new
  <2> QED
    BY <1>2, <1>3, <2>1, <2>2, MessageMoves
<1>5. CASE Inbound!MessageCreated(m)
  <2> DEFINE new == [pc |-> "hook", kind |-> "own", from |-> NoOne]
  <2>1. new \in Inbound!Inbound /\ new.pc = "hook" /\ new.kind = "own"
    BY DEF Inbound!Inbound, Inbound!Kind, Inbound!Someone
  <2>2. /\ v2' = [v2 EXCEPT ![m] = new] /\ v2[m].pc = "none" /\ Inbound!OthersKept
        /\ v1' = v1 /\ v3' = v3 /\ v4' = v4 /\ v8' = v8 /\ v9' = v9
    BY <1>5 DEF Inbound!MessageCreated
  <2> HIDE DEF new
  <2> QED
    BY <1>2, <1>3, <2>1, <2>2, MessageMoves
<1>6. CASE Inbound!WwebjsMaps(m) \/ Inbound!BaileysMaps(m)
  <2> DEFINE pc == IF v2[m].kind = "status" THEN "done" ELSE "hook"
  <2>1. /\ Inbound!Moves(m, pc) /\ v2[m].pc = "mapping" /\ Inbound!OthersKept
        /\ v1' = v1 /\ v3' = v3 /\ v4' = v4 /\ v8' = v8 /\ v9' = v9
    BY <1>6 DEF Inbound!WwebjsMaps, Inbound!BaileysMaps, Inbound!Delivered
  <2>2. pc \in {"hook", "done"} /\ (pc = "hook" => v2[m].kind # "status")
    OBVIOUS
  <2> HIDE DEF pc
  <2>3. PICK new \in Inbound!Inbound :
          v2' = [v2 EXCEPT ![m] = new] /\ new.pc = pc /\ new.kind = v2[m].kind
    BY <2>1, <2>2, Going
  <2> QED
    BY <1>2, <1>3, <2>1, <2>2, <2>3, MessageMoves
<1>7. CASE Inbound!HookStops(m)
  <2>1. /\ Inbound!Moves(m, "done") /\ v2[m].pc = "hook" /\ Inbound!OthersKept
        /\ v1' = v1 /\ v3' = v3 /\ v4' = v4 /\ v8' = v8 /\ v9' = v9
    BY <1>7 DEF Inbound!HookStops
  <2>2. PICK new \in Inbound!Inbound :
          v2' = [v2 EXCEPT ![m] = new] /\ new.pc = "done" /\ new.kind = v2[m].kind
    BY <2>1, Going
  <2> QED
    BY <1>2, <1>3, <2>1, <2>2, MessageMoves
<1>8. CASE Inbound!OwnGoesOn(m)
  <2>1. /\ Inbound!Moves(m, "done") /\ v2[m].pc = "hook" /\ v2[m].kind = "own"
        /\ Inbound!OthersKept /\ v9' = v9 \cup {m}
        /\ v1' = v1 /\ v3' = v3 /\ v4' = v4 /\ v8' = v8
    BY <1>8 DEF Inbound!OwnGoesOn
  <2>2. PICK new \in Inbound!Inbound :
          v2' = [v2 EXCEPT ![m] = new] /\ new.pc = "done" /\ new.kind = v2[m].kind
    BY <2>1, Going
  <2> QED
    BY <1>2, <1>3, <2>1, <2>2, MessageMoves
<1>9. CASE Inbound!HookGoesOn(m)
  <2>1. /\ v2[m].pc = "hook" /\ v2[m].kind # "own" /\ Inbound!OthersKept
        /\ v1' = v1 /\ v4' = v4 /\ v8' = v8
        /\ \/ Inbound!Insert(m)
           \/ Inbound!Moves(m, "lookup") /\ v3' = v3 /\ v9' = v9 /\ v2[m].from # NoOne
    BY <1>9 DEF Inbound!HookGoesOn
  <2>2. v2[m].kind = "text"
    BY <1>1, <1>2, <2>1 DEF Inbound!Inbound, Inbound!Kind
  <2>3. CASE Inbound!Insert(m)
    <3>1. /\ Inbound!Moves(m, "done") /\ v9' = v9 \cup {m}
          /\ v3' = [v3 EXCEPT ![m] = "flight"]
      BY <2>3 DEF Inbound!Insert
    <3>2. PICK new \in Inbound!Inbound :
            v2' = [v2 EXCEPT ![m] = new] /\ new.pc = "done" /\ new.kind = v2[m].kind
      BY <3>1, Going
    <3> QED
      BY <1>2, <1>3, <2>1, <2>2, <3>1, <3>2, MessageMoves
  <2>4. CASE Inbound!Moves(m, "lookup") /\ v3' = v3 /\ v9' = v9 /\ v2[m].from # NoOne
    <3>1. PICK new \in Inbound!Inbound :
            /\ v2' = [v2 EXCEPT ![m] = new] /\ new.pc = "lookup" /\ new.kind = v2[m].kind
            /\ new.from = v2[m].from
      BY <2>4, Going
    <3> QED
      BY <1>2, <1>3, <2>1, <2>2, <2>4, <3>1, MessageMoves
  <2> QED
    BY <2>1, <2>3, <2>4
<1>10. CASE Inbound!LookupAnswered(m)
  <2>1. /\ v2[m].pc = "lookup" /\ Inbound!Moves(m, "done") /\ v9' = v9 \cup {m}
        /\ v3' = [v3 EXCEPT ![m] = "flight"]
        /\ v1' = v1 /\ v4' = v4 /\ Inbound!OthersKept
    BY <1>10 DEF Inbound!LookupAnswered, Inbound!Insert
  <2>2. v2[m].from \in Senders
    BY <1>1, <1>2, <2>1 DEF Inbound!Inbound, Inbound!Someone
  <2>3. v8' \in Inbound!Seq(Senders) /\ Inbound!CacheBounded'
    BY <1>1, <1>10, <2>2, CacheKeeps DEF Inbound!CacheBounded, Inbound!LookupAnswered
  <2>4. PICK new \in Inbound!Inbound :
          v2' = [v2 EXCEPT ![m] = new] /\ new.pc = "done" /\ new.kind = v2[m].kind
    BY <2>1, Going
  <2> QED
    BY <1>2, <2>1, <2>3, <2>4, MessageMoves
<1> QED
  BY <1>4, <1>5, <1>6, <1>7, <1>8, <1>9, <1>10

LEMMA WriteSteps ==
  ASSUME Inbound!InboundInv, NEW m \in Messages,
         Inbound!InsertLands(m) \/ Inbound!RevokeArrives(m) \/ Inbound!RevokeLands(m)
  PROVE  Inbound!InboundInv'
<1>1. /\ v3 \in [Messages -> Inbound!Write] /\ v4 \in [Messages -> Inbound!Stored]
      /\ v5 \in [Messages -> Inbound!Write]
      /\ v11 \subseteq [msg : Messages, of : {"revoke", "reaction"}]
  BY InboundRead
<1>2. \A k \in Messages : v3[k] # "none" \/ v4[k].there => k \in v9 /\ v2[k].kind = "text"
  BY InboundRead
<1>3. \A k \in Messages : Inbound!Revoked(k) /\ Inbound!ReactionsSettle(k)
  BY InboundRead
<1>4. ASSUME v6' = v6, v10' = v10, [msg |-> m, of |-> "reaction"] \in v11' <=> [msg |-> m, of |-> "reaction"] \in v11,
             \A k \in Messages \ {m} :
               /\ v5'[k] = v5[k] /\ v4'[k] = v4[k]
               /\ [msg |-> k, of |-> "reaction"] \in v11' <=> [msg |-> k, of |-> "reaction"] \in v11
               /\ [msg |-> k, of |-> "revoke"] \in v11' <=> [msg |-> k, of |-> "revoke"] \in v11,
             v4'[m].reactions = v4[m].reactions, Inbound!Revoked(m)'
      PROVE  Settled'
  <2>1. \A k \in Messages, r \in Reactors : Inbound!On(r, k)' <=> Inbound!On(r, k)
    BY <1>4 DEF Inbound!On
  <2>2. ASSUME NEW k \in Messages
        PROVE  Inbound!ReactionsSettle(k)'
    <3>1. v4'[k].reactions = v4[k].reactions
      BY <1>4
    <3>2. [msg |-> k, of |-> "reaction"] \in v11' <=> [msg |-> k, of |-> "reaction"] \in v11
      BY <1>4
    <3>3. Inbound!ReactionsSettle(k)
      BY <1>3
    <3> QED
      BY <1>4, <2>1, <3>1, <3>2, <3>3 DEF Inbound!ReactionsSettle
  <2>3. ASSUME NEW k \in Messages \ {m}
        PROVE  Inbound!Revoked(k)'
    BY <1>3, <1>4 DEF Inbound!Revoked
  <2> QED
    BY <1>4, <2>2, <2>3 DEF Settled
<1>5. CASE Inbound!InsertLands(m)
  <2>1. /\ v3[m] = "flight" /\ v5' = v5 /\ v6' = v6 /\ v7' = v7 /\ v10' = v10 /\ v11' = v11
        /\ Inbound!WritesKept
        /\ v3' = [v3 EXCEPT ![m] = "landed"] \/ v3' = [v3 EXCEPT ![m] = "failed"]
        /\ v4' = [v4 EXCEPT ![m].there = TRUE] \/ v4' = v4
    BY <1>5 DEF Inbound!InsertLands
  <2>2. /\ v3' \in [Messages -> Inbound!Write] /\ \A k \in Messages \ {m} : v3'[k] = v3[k]
    BY <1>1, <2>1 DEF Inbound!Write
  <2>3. /\ v4' \in [Messages -> Inbound!Stored]
        /\ \A k \in Messages \ {m} : v4'[k] = v4[k]
        /\ v4'[m].reactions = v4[m].reactions /\ v4'[m].revoked = v4[m].revoked
    BY <1>1, <2>1 DEF Inbound!Stored
  <2>4. Inbound!Revoked(m)'
    BY <1>3, <2>1, <2>3 DEF Inbound!Revoked
  <2>5. Settled'
    BY <1>4, <2>1, <2>3, <2>4
  <2>6. \A k \in Messages : v3'[k] # "none" \/ v4'[k].there => k \in v9 /\ v2[k].kind = "text"
    BY <1>2, <2>1, <2>2, <2>3
  <2> QED
    BY <2>1, <2>2, <2>3, <2>5, <2>6, WriteMoves, InboundRead
<1>6. CASE Inbound!RevokeArrives(m)
  <2>1. /\ v5' = [v5 EXCEPT ![m] = "flight"] /\ v3' = v3 /\ v4' = v4 /\ v6' = v6 /\ v7' = v7
        /\ v10' = v10 /\ v11' = v11 /\ Inbound!WritesKept
    BY <1>6 DEF Inbound!RevokeArrives
  <2>2. /\ v5' \in [Messages -> Inbound!Write] /\ v5'[m] = "flight"
        /\ \A k \in Messages \ {m} : v5'[k] = v5[k]
    BY <1>1, <2>1 DEF Inbound!Write
  <2>3. Inbound!Revoked(m)'
    BY <2>2 DEF Inbound!Revoked
  <2>4. Settled'
    BY <1>4, <2>1, <2>2, <2>3
  <2> QED
    BY <1>2, <2>1, <2>2, <2>4, WriteMoves, InboundRead
<1>7. CASE Inbound!RevokeLands(m)
  <2>0. \/ /\ v5' = [v5 EXCEPT ![m] = "landed"]
           /\ v4' = [v4 EXCEPT ![m].revoked = @ \/ v4[m].there]
           /\ v11' = IF v4[m].there THEN v11 ELSE v11 \cup {[msg |-> m, of |-> "revoke"]}
        \/ v5' = [v5 EXCEPT ![m] = "failed"] /\ v4' = v4 /\ v11' = v11
    BY <1>7 DEF Inbound!RevokeLands
  <2>1. CASE /\ v5' = [v5 EXCEPT ![m] = "landed"]
             /\ v4' = [v4 EXCEPT ![m].revoked = @ \/ v4[m].there]
             /\ v11' = IF v4[m].there THEN v11 ELSE v11 \cup {[msg |-> m, of |-> "revoke"]}
    <3>1. /\ v5' = [v5 EXCEPT ![m] = "landed"] /\ v3' = v3 /\ v6' = v6 /\ v7' = v7
          /\ v4' = [v4 EXCEPT ![m].revoked = @ \/ v4[m].there]
          /\ v11' = IF v4[m].there THEN v11 ELSE v11 \cup {[msg |-> m, of |-> "revoke"]}
          /\ v10' = v10 /\ Inbound!WritesKept
      BY <1>7, <2>1 DEF Inbound!RevokeLands
    <3>2. /\ v5' \in [Messages -> Inbound!Write]
          /\ \A k \in Messages \ {m} : v5'[k] = v5[k]
      BY <1>1, <3>1 DEF Inbound!Write
    <3>3. v4[m] \in Inbound!Stored /\ (v4[m].revoked \/ v4[m].there) \in BOOLEAN
      BY <1>1 DEF Inbound!Stored
    <3>4. /\ v4' \in [Messages -> Inbound!Stored]
          /\ \A k \in Messages \ {m} : v4'[k] = v4[k]
          /\ v4'[m].reactions = v4[m].reactions /\ v4'[m].there = v4[m].there
          /\ v4'[m].revoked = (v4[m].revoked \/ v4[m].there)
      BY <1>1, <3>1, <3>3 DEF Inbound!Stored
    <3>5. /\ v11' \subseteq [msg : Messages, of : {"revoke", "reaction"}]
          /\ \A k \in Messages :
               [msg |-> k, of |-> "reaction"] \in v11' <=> [msg |-> k, of |-> "reaction"] \in v11
          /\ \A k \in Messages \ {m} :
               [msg |-> k, of |-> "revoke"] \in v11' <=> [msg |-> k, of |-> "revoke"] \in v11
          /\ ~v4[m].there => [msg |-> m, of |-> "revoke"] \in v11'
      BY <1>1, <3>1
    <3>6. Inbound!Revoked(m)'
      BY <3>4, <3>5 DEF Inbound!Revoked
    <3>7. Settled'
      BY <1>4, <3>1, <3>2, <3>4, <3>5, <3>6
    <3>8. \A k \in Messages : v3'[k] # "none" \/ v4'[k].there => k \in v9 /\ v2[k].kind = "text"
      BY <1>2, <3>1, <3>4
    <3> QED
      BY <3>1, <3>2, <3>4, <3>5, <3>7, <3>8, WriteMoves, InboundRead
  <2>2. CASE v5' = [v5 EXCEPT ![m] = "failed"] /\ v4' = v4 /\ v11' = v11
    <3>1. v3' = v3 /\ v6' = v6 /\ v7' = v7 /\ v10' = v10 /\ Inbound!WritesKept
      BY <1>7 DEF Inbound!RevokeLands
    <3>2. /\ v5' \in [Messages -> Inbound!Write] /\ v5'[m] = "failed"
          /\ \A k \in Messages \ {m} : v5'[k] = v5[k]
      BY <1>1, <2>2 DEF Inbound!Write
    <3>3. Inbound!Revoked(m)'
      BY <3>2 DEF Inbound!Revoked
    <3>4. Settled'
      BY <1>4, <2>2, <3>1, <3>2, <3>3
    <3> QED
      BY <1>1, <1>2, <2>2, <3>1, <3>2, <3>4, WriteMoves, InboundRead
  <2> QED
    BY <2>0, <2>1, <2>2
<1> QED
  BY <1>5, <1>6, <1>7

LEMMA ReactionStarts ==
  ASSUME Inbound!InboundInv, NEW r \in Reactors, NEW m \in Messages, NEW s \in Senders,
         NEW adds \in BOOLEAN, Inbound!NextFree(r), Inbound!ReactionArrives(r, m, s, adds)
  PROVE  Inbound!InboundInv'
<1> DEFINE new == [pc |-> "reading", msg |-> m, from |-> s, adds |-> adds, copy |-> Inbound!NoRow]
<1>1. new \in Inbound!Reactor
  BY DEF Inbound!Reactor, Inbound!NoRow, Inbound!Stored, Inbound!Someone
<1>2. new.pc = "reading" /\ new.msg = m /\ new.from = s /\ new.adds = adds
  OBVIOUS
<1>3. /\ v6' = [v6 EXCEPT ![r] = new] /\ v6[r].pc = "idle"
      /\ v7' = v7 + 1 /\ v7 < MaxReactions
      /\ v10' = [v10 EXCEPT ![m] = IF adds THEN @ \cup {s} ELSE @ \ {s}]
      /\ v11' = IF \E k \in Reactors : v6[k].pc # "idle" /\ v6[k].msg = m
                THEN v11 \cup {[msg |-> m, of |-> "reaction"]} ELSE v11
      /\ v3' = v3 /\ v4' = v4 /\ v5' = v5 /\ Inbound!WritesKept
  BY DEF Inbound!ReactionArrives, Inbound!NextFree
<1> HIDE DEF new
<1>4. /\ v6 \in [Reactors -> Inbound!Reactor] /\ v7 \in 0..MaxReactions
      /\ v10 \in [Messages -> SUBSET Senders]
      /\ v11 \subseteq [msg : Messages, of : {"revoke", "reaction"}]
  BY InboundRead
<1>5. /\ v6' \in [Reactors -> Inbound!Reactor] /\ v6'[r] = new
      /\ \A k \in Reactors \ {r} : v6'[k] = v6[k]
  BY <1>1, <1>3, <1>4
<1>6. /\ v10' \in [Messages -> SUBSET Senders]
      /\ v10'[m] = IF adds THEN v10[m] \cup {s} ELSE v10[m] \ {s}
      /\ \A k \in Messages \ {m} : v10'[k] = v10[k]
  BY <1>3, <1>4
<1>7. v7' \in 0..MaxReactions
  BY <1>3, <1>4, InboundAssumption
<1>8. /\ v11' \subseteq [msg : Messages, of : {"revoke", "reaction"}] /\ v11 \subseteq v11'
      /\ \A k \in Messages \ {m} :
           [msg |-> k, of |-> "reaction"] \in v11' => [msg |-> k, of |-> "reaction"] \in v11
      /\ (\E k \in Reactors : v6[k].pc # "idle" /\ v6[k].msg = m) =>
           [msg |-> m, of |-> "reaction"] \in v11'
  BY <1>3, <1>4
<1>9. ASSUME NEW k \in Messages
      PROVE  Inbound!Revoked(k)' /\ Inbound!ReactionsSettle(k)'
  <2>1. Inbound!Revoked(k) /\ Inbound!ReactionsSettle(k)
    BY InboundRead
  <2>2. Inbound!Revoked(k)'
    BY <1>3, <1>8, <2>1 DEF Inbound!Revoked
  <2>3. \A q \in Reactors \ {r} : Inbound!On(q, k)' <=> Inbound!On(q, k)
    BY <1>5 DEF Inbound!On
  <2>4. /\ ~Inbound!On(r, k)
        /\ Inbound!On(r, k)' <=> k = m
    BY <1>2, <1>3, <1>5 DEF Inbound!On
  <2>5. CASE k # m
    <3>1. \A q \in Reactors : Inbound!On(q, k)' <=> Inbound!On(q, k)
      BY <2>3, <2>4, <2>5
    <3>2. \A q \in Reactors : Inbound!On(q, k) => v6'[q] = v6[q]
      BY <1>5, <2>4
    <3>3. v4'[k] = v4[k] /\ v10'[k] = v10[k]
      BY <1>3, <1>6, <2>5
    <3>4. [msg |-> k, of |-> "reaction"] \notin v11' => [msg |-> k, of |-> "reaction"] \notin v11
      BY <1>8
    <3>5. Inbound!ReactionsSettle(k)'
      BY <2>1, <3>1, <3>2, <3>3, <3>4 DEF Inbound!ReactionsSettle
    <3> QED
      BY <2>2, <3>5
  <2>6. CASE k = m
    <3> SUFFICES ASSUME [msg |-> m, of |-> "reaction"] \notin v11'
                 PROVE  Inbound!ReactionsSettle(m)'
      BY <2>2, <2>6 DEF Inbound!ReactionsSettle
    <3>1. \A q \in Reactors : ~Inbound!On(q, m)
      BY <1>8 DEF Inbound!On
    <3>2. v4[m].reactions = v10[m]
      BY <1>8, <2>1, <2>6, <3>1 DEF Inbound!ReactionsSettle
    <3>3. \A q \in Reactors : Inbound!On(q, m)' => q = r
      BY <2>3, <2>6, <3>1
    <3>4. v10'[m] = IF v6'[r].adds THEN v4'[m].reactions \cup {v6'[r].from}
                    ELSE v4'[m].reactions \ {v6'[r].from}
      BY <1>2, <1>3, <1>5, <1>6, <3>2
    <3>5. v6'[r].pc = "reading" /\ Inbound!On(r, m)'
      BY <1>2, <1>5, <2>4, <2>6
    <3> QED
      BY <3>3, <3>4, <3>5 DEF Inbound!ReactionsSettle
  <2> QED
    BY <2>5, <2>6
<1>10. \A q \in Reactors :
         /\ v6'[q].pc # "idle" => v6'[q].msg \in Messages /\ v6'[q].from \in Senders
         /\ v6'[q].pc = "saving" /\ v6'[q].copy.there =>
              v6'[q].msg \in v9 /\ v2[v6'[q].msg].kind = "text"
  <2>1. \A q \in Reactors :
          /\ v6[q].pc # "idle" => v6[q].msg \in Messages /\ v6[q].from \in Senders
          /\ v6[q].pc = "saving" /\ v6[q].copy.there =>
               v6[q].msg \in v9 /\ v2[v6[q].msg].kind = "text"
    BY InboundRead
  <2> QED
    BY <1>2, <1>5, <2>1
<1>11. Settled'
  BY <1>9 DEF Settled
<1> QED
  BY <1>3, <1>5, <1>6, <1>7, <1>8, <1>10, <1>11, WriteMoves, InboundRead

(* A reaction that is over, or has read its row.                            *)
LEMMA ReactionMoves ==
  ASSUME Inbound!InboundInv, NEW r \in Reactors, NEW m \in Messages, Inbound!On(r, m),
         NEW new \in Inbound!Reactor, v6' = [v6 EXCEPT ![r] = new],
         new.pc # "idle" => new.msg = m /\ new.from \in Senders,
         new.pc = "saving" /\ new.copy.there => m \in v9 /\ v2[m].kind = "text",
         new.pc # "reading",
         v3' = v3, v5' = v5, v7' = v7, v10' = v10, Inbound!WritesKept,
         NEW row \in Inbound!Stored, v4' = [v4 EXCEPT ![m] = row],
         row.there => m \in v9 /\ v2[m].kind = "text",
         v5[m] = "landed" /\ ~row.revoked => [msg |-> m, of |-> "revoke"] \in v11',
         v11 \subseteq v11', v11' \subseteq [msg : Messages, of : {"revoke", "reaction"}],
         \A k \in Messages \ {m} :
           [msg |-> k, of |-> "reaction"] \in v11' => [msg |-> k, of |-> "reaction"] \in v11,
         \/ [msg |-> m, of |-> "reaction"] \in v11'
         \/ new.pc = "idle" /\ row.reactions = v10[m]
         \/ new.pc = "saving" /\ new.copy.reactions = v10[m]
  PROVE  Inbound!InboundInv'
<1>1. /\ v6 \in [Reactors -> Inbound!Reactor] /\ v4 \in [Messages -> Inbound!Stored]
  BY InboundRead
<1>2. /\ v6' \in [Reactors -> Inbound!Reactor] /\ v6'[r] = new
      /\ \A k \in Reactors \ {r} : v6'[k] = v6[k]
  BY <1>1
<1>3. /\ v4' \in [Messages -> Inbound!Stored] /\ v4'[m] = row
      /\ \A k \in Messages \ {m} : v4'[k] = v4[k]
  BY <1>1
<1>4. ASSUME NEW k \in Messages
      PROVE  Inbound!Revoked(k)' /\ Inbound!ReactionsSettle(k)'
  <2>1. Inbound!Revoked(k) /\ Inbound!ReactionsSettle(k)
    BY InboundRead
  <2>2. \A q \in Reactors \ {r} : Inbound!On(q, k)' <=> Inbound!On(q, k)
    BY <1>2 DEF Inbound!On
  <2>3. CASE k # m
    <3>1. ~Inbound!On(r, k) /\ ~Inbound!On(r, k)'
      BY <1>2, <2>3 DEF Inbound!On
    <3>2. \A q \in Reactors : /\ Inbound!On(q, k)' <=> Inbound!On(q, k)
                              /\ Inbound!On(q, k) => v6'[q] = v6[q]
      BY <1>2, <2>2, <3>1
    <3>3. v4'[k] = v4[k]
      BY <1>3, <2>3
    <3>4. [msg |-> k, of |-> "reaction"] \notin v11' => [msg |-> k, of |-> "reaction"] \notin v11
      BY <2>3
    <3>5. Inbound!ReactionsSettle(k)'
      BY <2>1, <3>2, <3>3, <3>4 DEF Inbound!ReactionsSettle
    <3>6. Inbound!Revoked(k)'
      BY <2>1, <3>3 DEF Inbound!Revoked
    <3> QED
      BY <3>5, <3>6
  <2>4. CASE k = m
    <3>1. Inbound!Revoked(m)'
      BY <1>3 DEF Inbound!Revoked
    <3> SUFFICES ASSUME [msg |-> m, of |-> "reaction"] \notin v11'
                 PROVE  Inbound!ReactionsSettle(m)'
      BY <2>4, <3>1 DEF Inbound!ReactionsSettle
    <3>2. \A q \in Reactors \ {r} : ~Inbound!On(q, m)
      BY <2>1, <2>4 DEF Inbound!ReactionsSettle
    <3>3. \A q \in Reactors \ {r} : ~Inbound!On(q, m)'
      BY <2>2, <2>4, <3>2
    <3>4. Inbound!On(r, m)' <=> new.pc = "saving"
      BY <1>2 DEF Inbound!On, Inbound!Reactor
    <3>5. CASE new.pc = "idle" /\ row.reactions = v10[m]
      <4>1. \A q \in Reactors : ~Inbound!On(q, m)'
        BY <3>3, <3>4, <3>5
      <4> QED
        BY <1>3, <3>5, <4>1 DEF Inbound!ReactionsSettle
    <3>6. CASE new.pc = "saving" /\ new.copy.reactions = v10[m]
      BY <1>2, <3>3, <3>4, <3>6 DEF Inbound!ReactionsSettle
    <3> QED
      BY <3>5, <3>6
  <2> QED
    BY <2>3, <2>4
<1>5. Settled'
  BY <1>4 DEF Settled
<1>6. \A q \in Reactors :
        /\ v6'[q].pc # "idle" => v6'[q].msg \in Messages /\ v6'[q].from \in Senders
        /\ v6'[q].pc = "saving" /\ v6'[q].copy.there =>
             v6'[q].msg \in v9 /\ v2[v6'[q].msg].kind = "text"
  <2>1. \A q \in Reactors :
          /\ v6[q].pc # "idle" => v6[q].msg \in Messages /\ v6[q].from \in Senders
          /\ v6[q].pc = "saving" /\ v6[q].copy.there =>
               v6[q].msg \in v9 /\ v2[v6[q].msg].kind = "text"
    BY InboundRead
  <2> QED
    BY <1>2, <2>1
<1>7. \A k \in Messages : v3'[k] # "none" \/ v4'[k].there => k \in v9 /\ v2[k].kind = "text"
  <2>1. \A k \in Messages : v3[k] # "none" \/ v4[k].there => k \in v9 /\ v2[k].kind = "text"
    BY InboundRead
  <2> QED
    BY <1>3, <2>1
<1> QED
  BY <1>2, <1>3, <1>5, <1>6, <1>7, WriteMoves, InboundRead

LEMMA ReactionSteps ==
  ASSUME Inbound!InboundInv, NEW r \in Reactors, Inbound!ReactionReads(r) \/ Inbound!ReactionSaved(r)
  PROVE  Inbound!InboundInv'
<1> DEFINE m == v6[r].msg
           x == v6[r]
<1>1. /\ x \in Inbound!Reactor /\ v6 \in [Reactors -> Inbound!Reactor]
      /\ v4 \in [Messages -> Inbound!Stored]
      /\ v11 \subseteq [msg : Messages, of : {"revoke", "reaction"}]
  BY InboundRead
<1>2. x.pc # "idle" /\ v3' = v3 /\ v5' = v5 /\ v7' = v7 /\ v10' = v10 /\ Inbound!WritesKept
  BY DEF Inbound!ReactionReads, Inbound!ReactionSaved
<1>3. m \in Messages /\ x.from \in Senders /\ Inbound!On(r, m)
  BY <1>2, InboundRead DEF Inbound!On
<1>4. /\ x.pc = "saving" /\ x.copy.there => m \in v9 /\ v2[m].kind = "text"
      /\ v4[m].there => m \in v9 /\ v2[m].kind = "text"
      /\ v4[m] \in Inbound!Stored /\ x.copy \in Inbound!Stored
  BY <1>1, <1>3, InboundRead DEF Inbound!Reactor
<1>5. /\ Inbound!Revoked(m)
      /\ [msg |-> m, of |-> "reaction"] \notin v11 =>
           /\ x.pc = "reading" => v10[m] = IF x.adds THEN v4[m].reactions \cup {x.from}
                                           ELSE v4[m].reactions \ {x.from}
           /\ x.pc = "saving" => x.copy.reactions = v10[m]
  BY <1>3, InboundRead DEF Inbound!ReactionsSettle
<1>6. Inbound!Resting \in Inbound!Reactor /\ Inbound!Resting.pc = "idle"
  BY DEF Inbound!Resting, Inbound!Reactor, Inbound!NoRow, Inbound!Stored, Inbound!Someone
<1>7. CASE Inbound!ReactionReads(r)
  <2>1. x.pc = "reading" /\ v4' = v4
    BY <1>7 DEF Inbound!ReactionReads
  <2>2. v4' = [v4 EXCEPT ![m] = v4[m]]
    BY <1>1, <1>3, <2>1
  <2>3. CASE v4[m].there
    <3> DEFINE copy == Inbound!Reacted([x EXCEPT !.copy = v4[m]])
               new == [x EXCEPT !.pc = "saving", !.copy = copy]
    <3>1. /\ copy \in Inbound!Stored
          /\ copy.reactions = IF x.adds THEN v4[m].reactions \cup {x.from}
                              ELSE v4[m].reactions \ {x.from}
      BY <1>1, <1>3, <1>4 DEF Inbound!Reacted, Inbound!Reactor, Inbound!Stored
    <3>2. v6' = [v6 EXCEPT ![r].pc = "saving", ![r].copy = copy] /\ v11' = v11
      BY <1>7, <2>3 DEF Inbound!ReactionReads
    <3> HIDE DEF copy
    <3>3. v6' = [v6 EXCEPT ![r] = new]
      BY <1>1, <3>2
    <3>4. new \in Inbound!Reactor /\ new.pc = "saving" /\ new.msg = m /\ new.from = x.from /\ new.copy = copy
      BY <1>1, <3>1 DEF Inbound!Reactor
    <3> HIDE DEF new, x, m
    <3>5. v5[m] = "landed" /\ ~v4[m].revoked => [msg |-> m, of |-> "revoke"] \in v11'
      BY <1>5, <3>2 DEF Inbound!Revoked
    <3>6. [msg |-> m, of |-> "reaction"] \in v11' \/ new.copy.reactions = v10[m]
      BY <1>5, <2>1, <3>1, <3>2, <3>4
    <3>7. new.pc # "idle" => new.msg = m /\ new.from \in Senders
      BY <1>3, <3>4
    <3> QED
      BY <1>1, <1>2, <1>3, <1>4, <2>2, <2>3, <3>2, <3>3, <3>4, <3>5, <3>6, <3>7, ReactionMoves
  <2>4. CASE ~v4[m].there
    <3>1. /\ v6' = [v6 EXCEPT ![r] = Inbound!Resting]
          /\ v11' = v11 \cup {[msg |-> m, of |-> "reaction"]}
      BY <1>7, <2>4 DEF Inbound!ReactionReads
    <3>2. /\ v11' \subseteq [msg : Messages, of : {"revoke", "reaction"}] /\ v11 \subseteq v11'
          /\ [msg |-> m, of |-> "reaction"] \in v11'
          /\ \A k \in Messages \ {m} :
               [msg |-> k, of |-> "reaction"] \in v11' => [msg |-> k, of |-> "reaction"] \in v11
      BY <1>1, <1>3, <3>1
    <3>3. v5[m] = "landed" /\ ~v4[m].revoked => [msg |-> m, of |-> "revoke"] \in v11'
      BY <1>5, <3>2 DEF Inbound!Revoked
    <3> HIDE DEF x, m
    <3> QED
      BY <1>2, <1>3, <1>4, <1>6, <2>2, <3>1, <3>2, <3>3, ReactionMoves
  <2> QED
    BY <2>3, <2>4
<1>8. CASE Inbound!ReactionSaved(r)
  <2>1. /\ x.pc = "saving" /\ v6' = [v6 EXCEPT ![r] = Inbound!Resting]
        /\ \/ /\ v4' = [v4 EXCEPT ![m] = x.copy]
              /\ v11' = IF v4[m].revoked /\ ~x.copy.revoked
                        THEN v11 \cup {[msg |-> m, of |-> "revoke"]} ELSE v11
           \/ v4' = v4 /\ v11' = v11 \cup {[msg |-> m, of |-> "reaction"]}
    BY <1>8 DEF Inbound!ReactionSaved
  <2>2. /\ v11' \subseteq [msg : Messages, of : {"revoke", "reaction"}] /\ v11 \subseteq v11'
        /\ \A k \in Messages \ {m} :
             [msg |-> k, of |-> "reaction"] \in v11' => [msg |-> k, of |-> "reaction"] \in v11
    BY <1>1, <1>3, <2>1
  <2>3. CASE v4' = v4 /\ v11' = v11 \cup {[msg |-> m, of |-> "reaction"]}
    <3>1. v4' = [v4 EXCEPT ![m] = v4[m]] /\ [msg |-> m, of |-> "reaction"] \in v11'
      BY <1>1, <1>3, <2>3
    <3>2. v5[m] = "landed" /\ ~v4[m].revoked => [msg |-> m, of |-> "revoke"] \in v11'
      BY <1>5, <2>2 DEF Inbound!Revoked
    <3> HIDE DEF x, m
    <3> QED
      BY <1>2, <1>3, <1>4, <1>6, <2>1, <2>2, <3>1, <3>2, ReactionMoves
  <2>4. CASE /\ v4' = [v4 EXCEPT ![m] = x.copy]
             /\ v11' = IF v4[m].revoked /\ ~x.copy.revoked
                       THEN v11 \cup {[msg |-> m, of |-> "revoke"]} ELSE v11
    <3>1. v5[m] = "landed" /\ ~x.copy.revoked => [msg |-> m, of |-> "revoke"] \in v11'
      <4>1. CASE v4[m].revoked
        BY <2>4, <4>1
      <4>2. CASE ~v4[m].revoked
        BY <1>5, <2>2, <4>2 DEF Inbound!Revoked
      <4> QED
        BY <4>1, <4>2
    <3>2. [msg |-> m, of |-> "reaction"] \in v11' \/ x.copy.reactions = v10[m]
      BY <1>5, <2>1, <2>2
    <3> HIDE DEF x, m
    <3> QED
      BY <1>2, <1>3, <1>4, <1>6, <2>1, <2>2, <2>4, <3>1, <3>2, ReactionMoves
  <2> QED
    BY <2>1, <2>3, <2>4
<1> QED
  BY <1>7, <1>8

LEMMA InboundStep == Inbound!InboundInv /\ [Inbound!Next]_(Inbound!inboundVars) => Inbound!InboundInv'
<1> SUFFICES ASSUME Inbound!InboundInv, [Inbound!Next]_(Inbound!inboundVars)
             PROVE  Inbound!InboundInv'
  OBVIOUS
<1>1. CASE UNCHANGED Inbound!inboundVars
  <2>1. v3' = v3 /\ v4' = v4 /\ v5' = v5 /\ v6' = v6 /\ v7' = v7 /\ v10' = v10 /\ v11' = v11
    BY <1>1 DEF Inbound!inboundVars
  <2>2. Inbound!WritesKept
    BY <1>1 DEF Inbound!inboundVars, Inbound!WritesKept
  <2>3. Settled'
    <3>1. \A k \in Messages : Inbound!Revoked(k) /\ Inbound!ReactionsSettle(k)
      BY InboundRead
    <3>2. ASSUME NEW k \in Messages
          PROVE  Inbound!Revoked(k)' /\ Inbound!ReactionsSettle(k)'
      <4>1. Inbound!Revoked(k) /\ Inbound!ReactionsSettle(k)
        BY <3>1
      <4>2. \A q \in Reactors : Inbound!On(q, k)' <=> Inbound!On(q, k)
        BY <2>1 DEF Inbound!On
      <4>3. Inbound!Revoked(k)'
        BY <2>1, <4>1 DEF Inbound!Revoked
      <4>4. Inbound!ReactionsSettle(k)'
        BY <2>1, <4>1, <4>2 DEF Inbound!ReactionsSettle
      <4> QED
        BY <4>3, <4>4
    <3> QED
      BY <3>2 DEF Settled
  <2> QED
    BY <2>1, <2>2, <2>3, WriteMoves, InboundRead
<1> QED
  BY <1>1, MessageSteps, WriteSteps, ReactionStarts, ReactionSteps DEF Inbound!Next

LEMMA InboundInit == Inbound!Init => Inbound!InboundInv
<1> SUFFICES ASSUME Inbound!Init
             PROVE  Inbound!InboundInv
  OBVIOUS
<1>1. /\ v1 \in {"wwebjs", "baileys"} /\ v2 = [m \in Messages |-> Inbound!Unseen]
      /\ v3 = [m \in Messages |-> "none"] /\ v5 = [m \in Messages |-> "none"]
      /\ v4 = [m \in Messages |-> Inbound!NoRow] /\ v6 = [r \in Reactors |-> Inbound!Resting]
      /\ v7 = 0 /\ v8 = <<>> /\ v9 = {} /\ v10 = [m \in Messages |-> {}] /\ v11 = {}
  BY DEF Inbound!Init
<1>2. Inbound!NoRow \in Inbound!Stored /\ ~Inbound!NoRow.there /\ Inbound!NoRow.reactions = {}
  BY DEF Inbound!NoRow, Inbound!Stored
<1>3. Inbound!Unseen \in Inbound!Inbound /\ Inbound!Unseen.pc = "none"
  BY DEF Inbound!Unseen, Inbound!Inbound, Inbound!Kind, Inbound!Someone
<1>4. Inbound!Resting \in Inbound!Reactor /\ Inbound!Resting.pc = "idle"
  BY <1>2 DEF Inbound!Resting, Inbound!Reactor, Inbound!Someone
<1>5. 0 \in 0..MaxReactions
  BY InboundAssumption
<1>6. v8 \in Inbound!Seq(Senders) /\ Inbound!Len(v8) = 0
  BY <1>1
<1>7. Inbound!TypeOK
  BY <1>1, <1>2, <1>3, <1>4, <1>5, <1>6 DEF Inbound!TypeOK, Inbound!Write
<1>8. Inbound!CacheBounded
  <2>1. Inbound!Len(v8) <= CacheMax
    BY <1>6, InboundAssumption
  <2>2. Inbound!IsInjective(v8)
    BY <1>1 DEF Inbound!IsInjective
  <2> QED
    BY <2>1, <2>2 DEF Inbound!CacheBounded
<1>9. Inbound!Stages /\ Inbound!Copies
  BY <1>1, <1>2, <1>3, <1>4 DEF Inbound!Stages, Inbound!Copies
<1>10. ASSUME NEW m \in Messages
       PROVE  Inbound!Revoked(m) /\ Inbound!ReactionsSettle(m)
  BY <1>1, <1>2, <1>4 DEF Inbound!Revoked, Inbound!ReactionsSettle, Inbound!On
<1> QED
  BY <1>7, <1>8, <1>9, <1>10 DEF Inbound!InboundInv

LEMMA InboundFollows ==
  Inbound!InboundInv => Inbound!LateEventsHold /\ Inbound!OnlyToldIsStored /\ Inbound!CacheBounded
<1> SUFFICES ASSUME Inbound!InboundInv
             PROVE  Inbound!LateEventsHold /\ Inbound!OnlyToldIsStored /\ Inbound!CacheBounded
  OBVIOUS
<1>1. Inbound!LateEventsHold
  <2> SUFFICES ASSUME NEW m \in Messages, Inbound!Quiet(m)
               PROVE  /\ v5[m] = "landed" /\ ~v4[m].revoked => [msg |-> m, of |-> "revoke"] \in v11
                      /\ v4[m].reactions # v10[m] => [msg |-> m, of |-> "reaction"] \in v11
    BY DEF Inbound!LateEventsHold
  <2>1. Inbound!Revoked(m) /\ Inbound!ReactionsSettle(m)
    BY InboundRead
  <2>2. \A r \in Reactors : ~Inbound!On(r, m)
    BY DEF Inbound!Quiet, Inbound!On
  <2> QED
    BY <2>1, <2>2 DEF Inbound!Revoked, Inbound!ReactionsSettle
<1>2. Inbound!OnlyToldIsStored
  BY DEF Inbound!InboundInv, Inbound!Stages, Inbound!OnlyToldIsStored
<1> QED
  BY <1>1, <1>2 DEF Inbound!InboundInv

MessagesInv ==
  /\ part = "store" => Store!StoreInv
  /\ part = "inbound" => Inbound!InboundInv

LEMMA MessagesStep == MessagesInv /\ [Next]_componentVars => MessagesInv'
<1> SUFFICES ASSUME MessagesInv, [Next]_componentVars
             PROVE  MessagesInv'
  OBVIOUS
<1>1. ASSUME part' = "store"
      PROVE  Store!StoreInv'
  <2>1. part = "store" /\ [Store!Next]_(Store!storeVars)
    BY <1>1 DEF Next, componentVars, Store!storeVars
  <2> QED
    BY <2>1, StoreStep DEF MessagesInv
<1>2. ASSUME part' = "inbound"
      PROVE  Inbound!InboundInv'
  <2>1. part = "inbound" /\ [Inbound!Next]_(Inbound!inboundVars)
    BY <1>2 DEF Next, componentVars, Inbound!inboundVars
  <2> QED
    BY <2>1, InboundStep DEF MessagesInv
<1> QED
  BY <1>1, <1>2 DEF MessagesInv

(* The inductive invariants of the message store and of the incoming        *)
(* messages hold of every behaviour.                                       *)
THEOREM MessagesAreKept == Spec => []MessagesInv
<1>1. Init => MessagesInv
  BY StoreInit, InboundInit DEF Init, MessagesInv
<1> QED
  BY <1>1, MessagesStep, PTL DEF Spec

(* However puts overlap and share a millisecond, the store of the newest     *)
(* messages keeps its limit; a late revocation or reaction holds, a message *)
(* a plugin stopped is neither stored nor told of, and the cache of senders *)
(* keeps its bound.                                                         *)
THEOREM StoredIsTrue == Spec => []MessagesKept
<1>1. MessagesInv => MessagesKept
  BY StoreLimit, InboundFollows DEF MessagesInv, MessagesKept
<1> QED
  BY <1>1, MessagesAreKept, PTL
=================================================================================
