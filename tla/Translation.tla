----------------------------- MODULE Translation -----------------------------
(***************************************************************************)
(* The group translation plugin (plugins/extensions/translation): one group *)
(* chat's settings, which chat commands change and every message learns     *)
(* into.  Each message is handled by a call of its own, which loads the     *)
(* whole document, awaits the engine or the translator, and saves the whole *)
(* document; the file behind the store is read and written synchronously.   *)
(* Messages are not serialised: the hook chain of the next one starts while *)
(* this one's is still awaiting.                                           *)
(*                                                                         *)
(* A user stands for an id a message carries as its author and for the      *)
(* push name; after a reconnect a message may carry another member's id,    *)
(* and one member may write under several ids.  Texts and replies are left  *)
(* out; the translator is external: it detects any language, and fails as   *)
(* it likes (its circuit breaker is one of the ways to fail).               *)
(***************************************************************************)
EXTENDS Naturals, FiniteSets

CONSTANTS
  Users, Langs, NoOne,
  GroupAdmins,    \* the ids getGroupAdmins lists
  UserPart,       \* of an id, what is left without its domain and device
  Handlers,       \* slots for messages being handled
  MaxMessages     \* bound: messages

VARIABLES
  saved,          \* the group's document in the plugin's storage
  handler,        \* the calls of handleMessage in flight, each with its copy
  messages,
  confirmed,      \* history: the settings as the last confirmed command left them
  granted,        \* history: whom an admin ever granted control
  overtaken       \* history: a save landed while another call held a copy

translationVars == <<saved, handler, messages, confirmed, granted, overtaken>>

Name   == Users \cup {NoOne}
Lang   == Langs \cup {NoOne}
Person == [lang : Lang, source : {"learned", "pinned"}, enabled : BOOLEAN,
           pendingLang : Lang, pushName : Name]
Group  == [active : BOOLEAN, announced : BOOLEAN, participants : [Users -> Person],
           delegatedControllers : SUBSET Users]

Targeted == {"setlang", "auto", "ignore", "unignore", "grant", "revoke"}
Message  ==
  [name : {"text"}, author : Users, pushName : Name, target : {NoOne}, lang : {NoOne}]
  \cup [name : {"on", "off", "status"}, author : Users, pushName : {NoOne}, target : {NoOne},
        lang : {NoOne}]
  \cup [name : Targeted \ {"setlang"}, author : Users, pushName : {NoOne}, target : Name,
        lang : {NoOne}]
  \cup [name : {"setlang"}, author : Users, pushName : {NoOne}, target : Name, lang : Langs]

HandlerPc == {"idle", "announce", "admins", "languages", "detect", "translate"}
Call      == [pc : HandlerPc, copy : Group, msg : Message]

(* The type invariant. *)
TypeOK ==
  /\ saved \in Group
  /\ handler \in [Handlers -> Call]
  /\ messages \in 0..MaxMessages
  /\ granted \subseteq Users /\ overtaken \in BOOLEAN

(* ensureParticipant's entry, which also stands for one that is absent.     *)
Unknown == [lang |-> NoOne, source |-> "learned", enabled |-> TRUE,
            pendingLang |-> NoOne, pushName |-> NoOne]
Fresh   == [active |-> FALSE, announced |-> FALSE, participants |-> [u \in Users |-> Unknown],
            delegatedControllers |-> {}]
Idle    == [pc |-> "idle", copy |-> Fresh,
            msg |-> [name |-> "status", author |-> CHOOSE u \in Users : TRUE, pushName |-> NoOne,
                     target |-> NoOne, lang |-> NoOne]]

(* What commands set and messages must not: everything but what is learned. *)
Settings(g) ==
  [active      |-> g.active,
   controllers |-> g.delegatedControllers,
   ignored     |-> {u \in Users : ~g.participants[u].enabled},
   pinned      |-> {p \in Users \X Langs : /\ g.participants[p[1]].source = "pinned"
                                           /\ g.participants[p[1]].lang = p[2]}]

(* The group is new to the bot, or translation was turned on in it before.   *)
(* The messages of a new group are counted with one that came before, as    *)
(* the first of them announces the bot and the others find it announced.    *)
Init ==
  /\ saved \in {Fresh, [Fresh EXCEPT !.announced = TRUE, !.active = TRUE]}
  /\ handler = [h \in Handlers |-> Idle]
  /\ messages = IF saved.announced THEN 0 ELSE 1
  /\ confirmed = Settings(saved)
  /\ granted = {} /\ overtaken = FALSE

Ends(h)             == handler' = [handler EXCEPT ![h] = Idle]
Awaits(h, pc, g, m) == handler' = [handler EXCEPT ![h] = [pc |-> pc, copy |-> g, msg |-> m]]
OthersHold(h)       == \E k \in Handlers \ {h} : handler[k].pc # "idle"

save(h, g) ==
  /\ saved' = g
  /\ overtaken' = (overtaken \/ (saved # g /\ OthersHold(h)))

Keeps == UNCHANGED <<saved, overtaken>>
Says  == UNCHANGED <<confirmed, granted>>

-----------------------------------------------------------------------------
(* A message that is no command.                                           *)
(* The author, unless exactly one other member goes by the message's push   *)
(* name.                                                                   *)
resolveSenderKey(g, m) ==
  LET matches == {u \in Users \ {m.author} : g.participants[u].pushName = m.pushName}
  IN  IF /\ m.pushName # NoOne
         /\ g.participants[m.author].pushName # m.pushName
         /\ Cardinality(matches) = 1
      THEN CHOOSE u \in matches : TRUE
      ELSE m.author

(* Never overwrites another name.                                           *)
Named(g, u, m) ==
  IF m.pushName # NoOne /\ g.participants[u].pushName = NoOne
  THEN [g EXCEPT !.participants[u].pushName = m.pushName]
  ELSE g

(* A learned language changes when a new one is detected twice in a row.    *)
applyLearning(p, detected) ==
  IF p.source = "pinned" THEN p
  ELSE IF p.lang = detected THEN [p EXCEPT !.pendingLang = NoOne]
  ELSE IF p.pendingLang = detected
       THEN [p EXCEPT !.lang = detected, !.pendingLang = NoOne]
  ELSE [p EXCEPT !.pendingLang = detected, !.lang = IF @ = NoOne THEN detected ELSE @]

knownLanguages(g) ==
  {g.participants[u].lang : u \in {v \in Users : g.participants[v].enabled}} \ {NoOne}

SourceOf(g, u, detected) ==
  LET own == g.participants[u].lang
  IN  IF detected \in knownLanguages(g) \/ own = NoOne THEN detected ELSE own

(* Everyone else's languages; when that leaves nothing, the backstop.       *)
targetLanguages(g, u, detected) ==
  LET others == knownLanguages(g) \ {SourceOf(g, u, detected)}
  IN  IF others \ {g.participants[u].lang} # {} THEN others \ {g.participants[u].lang}
      ELSE others

-----------------------------------------------------------------------------
(* Commands.                                                               *)
resolveTarget(m) == IF m.target = NoOne THEN m.author ELSE m.target

(* Ids are the same person's when their user parts are; a document's entries *)
(* are found, and a revoked controller deleted, by the very id.             *)
widEquals(a, b) == UserPart[a] = UserPart[b]

isSelfServe(m) == m.name \in {"setlang", "auto"} /\ m.target = NoOne

IsOneOf(set, author) == \E u \in set : widEquals(u, author)

Permitted(g, m) ==
  \/ IsOneOf(GroupAdmins, m.author)
  \/ IsOneOf(g.delegatedControllers, m.author) /\ m.name \notin {"grant", "revoke"}

Commanded(g, m) ==
  LET u == resolveTarget(m)
  IN  CASE m.name \in {"on", "off"} -> [g EXCEPT !.active = (m.name = "on")]
        [] m.name = "setlang" -> [g EXCEPT !.participants[u].lang = m.lang,
                                                     !.participants[u].source = "pinned",
                                                     !.participants[u].pendingLang = NoOne]
        [] m.name = "auto" -> [g EXCEPT !.participants[u].source = "learned",
                                                  !.participants[u].pendingLang = NoOne]
        [] m.name \in {"ignore", "unignore"} ->
             [g EXCEPT !.participants[u].enabled = (m.name = "unignore")]
        [] m.name = "grant" -> [g EXCEPT !.delegatedControllers = @ \cup {u}]
        [] m.name = "revoke" -> [g EXCEPT !.delegatedControllers = @ \ {u}]

(* Whom an admin gives control by this command.                             *)
Grants(m) == IF m.name = "grant" /\ IsOneOf(GroupAdmins, m.author) THEN {resolveTarget(m)} ELSE {}

MutantForgets(h, g, m) ==
  /\ save(h, g)
  /\ confirmed' = Settings(Commanded(g, m))
  /\ granted' = granted \cup Grants(m)
  /\ Ends(h)

(* confirm: saves, then tells the chat.                                     *)
Confirms(h, g, m) ==
  /\ save(h, Commanded(g, m))
  /\ confirmed' = Settings(Commanded(g, m))
  /\ granted' = granted \cup Grants(m)
  /\ Ends(h)

handleCommand(h, g, m) ==
  IF m.name = "auto" /\ isSelfServe(m) THEN Confirms(h, g, m)
  ELSE /\ CASE m.name = "status" -> Ends(h)
            [] isSelfServe(m)    -> Awaits(h, "languages", g, m)
            [] OTHER             -> Awaits(h, "admins", g, m)
       /\ save(h, g) /\ Says

(* Also ends here: a text too short, too long, or of links only.            *)
translateMessage(h, g, m) ==
  LET u == resolveSenderKey(g, m)
  IN  /\ \/ g.active /\ g.participants[u].enabled /\ Awaits(h, "detect", Named(g, u, m), m)
         \/ Ends(h)
      /\ save(h, g) /\ Says

(* `g` is what the store holds by now: what was loaded, or the announcement  *)
(* just saved.                                                             *)
Proceeds(h, g, m) ==
  IF m.name = "text" THEN translateMessage(h, g, m) ELSE handleCommand(h, g, m)

-----------------------------------------------------------------------------
(* A call runs in the first free slot: the slots are only names for calls.  *)
NextFree(h) ==
  /\ handler[h].pc = "idle" /\ messages < MaxMessages
  /\ \A k \in Handlers : k < h => handler[k].pc # "idle"

(* handleMessage.  A group that was never met is told of the bot first.     *)
Receives(h, m) ==
  /\ messages' = messages + 1
  /\ IF saved.announced THEN Proceeds(h, saved, m)
     ELSE Awaits(h, "announce", saved, m) /\ Keeps /\ Says

Announced(h) ==
  /\ handler[h].pc = "announce"
  /\ Proceeds(h, [handler[h].copy EXCEPT !.announced = TRUE], handler[h].msg)
  /\ UNCHANGED messages

MutantAnyone(h) ==
  LET g == handler[h].copy
      m == handler[h].msg
  IN  /\ handler[h].pc = "admins"
      /\ IF ~IsOneOf(GroupAdmins \cup g.delegatedControllers, m.author)
         THEN Ends(h) /\ Keeps /\ Says
         ELSE IF m.name = "setlang" THEN Awaits(h, "languages", g, m) /\ Keeps /\ Says
         ELSE Confirms(h, g, m)
      /\ UNCHANGED messages

(* getGroupAdmins has answered.  A refusal is told, and changes nothing.     *)
AdminsKnown(h) ==
  LET g == handler[h].copy
      m == handler[h].msg
  IN  /\ handler[h].pc = "admins"
      /\ IF ~Permitted(g, m) THEN Ends(h) /\ Keeps /\ Says
         ELSE IF m.name = "setlang" THEN Awaits(h, "languages", g, m) /\ Keeps /\ Says
         ELSE Confirms(h, g, m)
      /\ UNCHANGED messages

(* The language is one of the translator's, or it could not say.            *)
LanguageAllowed(h) ==
  /\ handler[h].pc = "languages"
  /\ Confirms(h, handler[h].copy, handler[h].msg)
  /\ UNCHANGED messages

Detected(h, detected) ==
  LET m == handler[h].msg
      u == resolveSenderKey(handler[h].copy, m)
      g == [handler[h].copy EXCEPT !.participants[u] = applyLearning(@, detected)]
  IN  /\ handler[h].pc = "detect"
      /\ IF targetLanguages(g, u, detected) = {}
         THEN save(h, g) /\ Ends(h)
         ELSE Awaits(h, "translate", g, m) /\ Keeps
      /\ UNCHANGED messages /\ Says

(* Every target's translation has come or failed, and the reply is out if   *)
(* some have come.                                                         *)
Learned(h) ==
  /\ handler[h].pc = "translate"
  /\ save(h, handler[h].copy)
  /\ Ends(h)
  /\ UNCHANGED messages /\ Says

(* The awaited call throws, or answers that the language is not supported:  *)
(* nothing is saved.                                                       *)
Fails(h) ==
  /\ handler[h].pc \in {"announce", "admins", "languages", "detect", "translate"}
  /\ Ends(h)
  /\ UNCHANGED messages /\ Keeps /\ Says

Next ==
  \E h \in Handlers :
    \/ NextFree(h) /\ \E m \in Message : Receives(h, m)
    \/ Announced(h) \/ AdminsKnown(h) \/ LanguageAllowed(h)
    \/ \E detected \in Langs : Detected(h, detected)
    \/ Learned(h) \/ Fails(h)

Spec == Init /\ [][Next]_translationVars

-----------------------------------------------------------------------------
(* Properties.                                                             *)

(* While no call saves the group's document under another call's copy, the  *)
(* settings are what the last confirmed command made them: no message, and  *)
(* no misrouted author, changes what a command set.  And whatever overlaps, *)
(* control is only ever held by those an admin granted it to.               *)
SettingsHold ==
  /\ ~overtaken => Settings(saved) = confirmed
  /\ saved.delegatedControllers \subseteq granted

(* Why: as long as nobody saved under a copy, every copy has the settings of *)
(* the document; no copy knows a controller whom no admin made one; and only *)
(* a command that changes settings waits for the admins, only setlang for    *)
(* the languages.                                                          *)
Asked(c) ==
  /\ c.pc = "admins" => c.msg.name \in Targeted \cup {"on", "off"}
  /\ c.pc = "languages" => c.msg.name = "setlang"

CopyInv ==
  /\ TypeOK
  /\ \A h \in Handlers : Asked(handler[h])
  /\ \A h \in Handlers : handler[h].pc # "idle" =>
       /\ ~overtaken => Settings(handler[h].copy) = confirmed
       /\ handler[h].copy.delegatedControllers \subseteq granted
  /\ SettingsHold
=============================================================================
