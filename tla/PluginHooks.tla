----------------------------- MODULE PluginHooks -----------------------------
(***************************************************************************)
(* The plugin loader (core/plugins/plugin-loader.service.ts), which enables *)
(* and disables plugins for the API, and the hook manager (core/hooks),     *)
(* which runs the handlers they registered.  One event stands for all: its  *)
(* array of registrations is sorted in place when a plugin registers, and   *)
(* is replaced by a filtered copy when a plugin is disabled, while chains   *)
(* of handlers that began earlier go on through the array they took, by     *)
(* index, one await per handler.                                           *)
(*                                                                         *)
(* A plugin is a program of its own: it registers one handler in onEnable   *)
(* (as both extensions of the repository do), and its onLoad, onEnable and  *)
(* onDisable take their time and may throw.  No code of the repository      *)
(* calls unregister or unloadPlugin.  What a handler makes of the data is   *)
(* left out; that it stops the chain is not.                                *)
(***************************************************************************)
EXTENDS Naturals, Sequences, FiniteSets

CONSTANTS
  Plugins,
  Priority,       \* the priority each plugin registers its handler with
  Admins,         \* slots for calls of the API in flight
  Firings,        \* slots for the chains of handlers, one per firing of the event
  MaxOps          \* bound: calls of enable and disable

VARIABLES
  pluginStatus,   \* plugins.get(p).status
  arrays,         \* the event's arrays: hooks.get(event) is the last one
  admin,          \* the calls of the API in flight
  chain,          \* the chains of handlers
  ops

hookVars == <<pluginStatus, arrays, admin, chain, ops>>

Statuses == {"INSTALLED", "ENABLED", "DISABLED", "ERROR"}
AdminPc  == {"idle", "onLoad", "onEnable", "registered", "onDisable"}
Reg      == [plugin : Plugins, by : Admins, id : Nat]

(* `at` is the index of the handler that is awaited; the others are         *)
(* histories: the handlers called, the array as the chain found it, and     *)
(* whether a registration moved its elements since.                         *)
Chain == [pc : {"idle", "running", "ended", "stopped"}, array : Nat, at : Nat,
          called : Seq(Reg), found : Seq(Reg), moved : BOOLEAN]

(* The type invariant. *)
TypeOK ==
  /\ pluginStatus \in [Plugins -> Statuses]
  /\ arrays \in Seq(Seq(Reg)) /\ arrays # <<>>
  /\ admin \in [Admins -> [pc : AdminPc, plugin : Plugins]]
  /\ chain \in [Firings -> Chain]
  /\ \A f \in Firings : chain[f].pc = "running" =>
       chain[f].array \in DOMAIN arrays /\ chain[f].at \in DOMAIN arrays[chain[f].array]
  /\ ops \in 0..MaxOps

NoChain == [pc |-> "idle", array |-> 0, at |-> 0, called |-> <<>>, found |-> <<>>,
            moved |-> FALSE]

(* registerBuiltInPlugin and loadPluginsFromDirectory: nothing is enabled.  *)
Init ==
  /\ pluginStatus = [p \in Plugins |-> "INSTALLED"]
  /\ arrays = << <<>> >>
  /\ admin \in [Admins -> [pc : {"idle"}, plugin : {CHOOSE p \in Plugins : TRUE}]]
  /\ chain = [f \in Firings |-> NoChain]
  /\ ops = 0

Now           == Len(arrays)
Live          == arrays[Now]
Goes(a, pc)   == admin' = [admin EXCEPT ![a].pc = pc]
InFlight(p)   == {a \in Admins : admin[a].plugin = p /\ admin[a].pc # "idle"}
Enabling(p)   == \E a \in InFlight(p) : admin[a].pc # "onDisable"
Of(p, array)  == {i \in DOMAIN array : array[i].plugin = p}
Handlers(array) == {array[i] : i \in DOMAIN array}

-----------------------------------------------------------------------------
(* The hook manager.                                                       *)

(* push, then a stable sort: behind every handler of the same priority.     *)
Place(reg, array) ==
  Cardinality({i \in DOMAIN array : Priority[array[i].plugin] <= Priority[reg.plugin]}) + 1

Inserted(reg, array) ==
  LET here == Place(reg, array)
  IN  [i \in 1..(Len(array) + 1) |->
         IF i < here THEN array[i] ELSE IF i = here THEN reg ELSE array[i - 1]]

(* filter, which goes through the array and makes another.                  *)
Filtered(p, array) ==
  LET upTo[n \in 0..Len(array)] ==
        IF n = 0 THEN <<>>
        ELSE IF array[n].plugin = p THEN upTo[n - 1]
        ELSE Append(upTo[n - 1], array[n])
  IN  upTo[Len(array)]

register(p, a) ==
  /\ arrays' = [arrays EXCEPT ![Now] = Inserted([plugin |-> p, by |-> a, id |-> ops], @)]
  /\ chain' = [f \in Firings |->
       [chain[f] EXCEPT !.moved = @ \/ (chain[f].pc = "running" /\ chain[f].array = Now)]]

MutantSplices(p) == arrays' = [arrays EXCEPT ![Now] = Filtered(p, @)]

MutantDropsOne(p) ==
  arrays' = IF Of(p, Live) = {} THEN arrays
            ELSE LET last == CHOOSE i \in Of(p, Live) : \A k \in Of(p, Live) : k <= i
                 IN  Append(arrays, SubSeq(Live, 1, last - 1) \o SubSeq(Live, last + 1, Len(Live)))

unregisterPlugin(p) ==
  arrays' = IF Of(p, Live) = {} THEN arrays ELSE Append(arrays, Filtered(p, Live))

(* execute and the start of runHandlers, up to the first handler's await.   *)
Fires(f) ==
  /\ chain[f].pc = "idle" /\ Live # <<>>
  /\ chain' = [chain EXCEPT ![f] = [pc |-> "running", array |-> Now, at |-> 1,
                 called |-> <<Head(Live)>>, found |-> Live, moved |-> FALSE]]
  /\ UNCHANGED <<pluginStatus, arrays, admin, ops>>

(* The awaited handler answers `continue`, fails or throws: the next one is *)
(* the one that is behind it in the array by now.                           *)
HandlerReturns(f) ==
  LET c == chain[f]
      array == arrays[c.array]
  IN  /\ c.pc = "running"
      /\ chain' = [chain EXCEPT ![f] =
           IF c.at < Len(array)
           THEN [c EXCEPT !.at = c.at + 1, !.called = Append(c.called, array[c.at + 1])]
           ELSE [c EXCEPT !.pc = "ended"]]
      /\ UNCHANGED <<pluginStatus, arrays, admin, ops>>

HandlerStops(f) ==
  /\ chain[f].pc = "running"
  /\ chain' = [chain EXCEPT ![f].pc = "stopped"]
  /\ UNCHANGED <<pluginStatus, arrays, admin, ops>>

-----------------------------------------------------------------------------
(* The loader.  The status is looked at before the first await only.        *)
EnableBegins(a, p) ==
  /\ admin[a].pc = "idle" /\ ops < MaxOps
  /\ pluginStatus[p] # "ENABLED"
  /\ ops' = ops + 1
  /\ admin' = [admin EXCEPT ![a] = [pc |-> "onLoad", plugin |-> p]]
  /\ UNCHANGED <<pluginStatus, arrays, chain>>

OnLoadReturns(a) ==
  /\ admin[a].pc = "onLoad"
  /\ Goes(a, "onEnable")
  /\ UNCHANGED <<pluginStatus, arrays, chain, ops>>

Registers(a) ==
  /\ admin[a].pc = "onEnable"
  /\ Goes(a, "registered")
  /\ register(admin[a].plugin, a)
  /\ UNCHANGED <<pluginStatus, ops>>

Enabled(a) ==
  /\ admin[a].pc = "registered"
  /\ pluginStatus' = [pluginStatus EXCEPT ![admin[a].plugin] = "ENABLED"]
  /\ Goes(a, "idle")
  /\ UNCHANGED <<arrays, chain, ops>>

(* The module cannot be loaded, or onLoad or onEnable throws.               *)
EnableFails(a) ==
  /\ admin[a].pc \in {"onLoad", "onEnable", "registered"}
  /\ pluginStatus' = [pluginStatus EXCEPT ![admin[a].plugin] = "ERROR"]
  /\ Goes(a, "idle")
  /\ UNCHANGED <<arrays, chain, ops>>

DisableBegins(a, p) ==
  /\ admin[a].pc = "idle" /\ ops < MaxOps
  /\ pluginStatus[p] = "ENABLED"
  /\ ops' = ops + 1
  /\ admin' = [admin EXCEPT ![a] = [pc |-> "onDisable", plugin |-> p]]
  /\ UNCHANGED <<pluginStatus, arrays, chain>>

Disabled(a) ==
  /\ admin[a].pc = "onDisable"
  /\ unregisterPlugin(admin[a].plugin)
  /\ pluginStatus' = [pluginStatus EXCEPT ![admin[a].plugin] = "DISABLED"]
  /\ Goes(a, "idle")
  /\ UNCHANGED <<chain, ops>>

(* onDisable throws: the handlers stay.                                     *)
DisableFails(a) ==
  /\ admin[a].pc = "onDisable"
  /\ pluginStatus' = [pluginStatus EXCEPT ![admin[a].plugin] = "ERROR"]
  /\ Goes(a, "idle")
  /\ UNCHANGED <<arrays, chain, ops>>

Next ==
  \/ \E a \in Admins :
       \/ \E p \in Plugins : EnableBegins(a, p) \/ DisableBegins(a, p)
       \/ OnLoadReturns(a) \/ Registers(a) \/ Enabled(a) \/ EnableFails(a)
       \/ Disabled(a) \/ DisableFails(a)
  \/ \E f \in Firings : Fires(f) \/ HandlerReturns(f) \/ HandlerStops(f)

Spec == Init /\ [][Next]_hookVars

-----------------------------------------------------------------------------
(* Properties.                                                             *)

(* However enables and disables of it overlap or fail, a plugin that is     *)
(* DISABLED while nobody is enabling it has no handler left: the next       *)
(* firing of the event does not reach it.                                   *)
DisabledIsSilent ==
  \A p \in Plugins : pluginStatus[p] = "DISABLED" /\ ~Enabling(p) => Of(p, Live) = {}

(* A chain that no handler stopped has called every handler it found, also  *)
(* when plugins were disabled or enabled under it; and exactly those, once  *)
(* each and in order, unless a registration moved its array.                *)
ChainServesAll ==
  \A f \in Firings : chain[f].pc = "ended" =>
    /\ Handlers(chain[f].found) \subseteq Handlers(chain[f].called)
    /\ ~chain[f].moved => chain[f].called = chain[f].found

-----------------------------------------------------------------------------
(* What makes them hold of every step: an array that a chain goes through   *)
(* never loses what the chain found in it, and every handler found that is  *)
(* behind the chain was called; a registration is none that was there       *)
(* before.                                                                  *)
Serves(c, array) ==
  /\ Handlers(c.found) \subseteq Handlers(array)
  /\ \A i \in 1..c.at : array[i] \in Handlers(c.found) => array[i] \in Handlers(c.called)
  /\ Len(c.called) = c.at
  /\ ~c.moved => array = c.found /\ \A i \in 1..c.at : c.called[i] = array[i]

ChainsServe ==
  \A f \in Firings : chain[f].pc = "running" => Serves(chain[f], arrays[chain[f].array])

IsOlder(r) ==
  /\ r.id <= ops
  /\ admin[r.by].pc \in {"onLoad", "onEnable"} => r.id < ops

RegistrationsAreOlder ==
  /\ \A n \in DOMAIN arrays : \A i \in DOMAIN arrays[n] : IsOlder(arrays[n][i])
  /\ \A f \in Firings : \A i \in DOMAIN chain[f].found : IsOlder(chain[f].found[i])

HooksInv ==
  TypeOK /\ RegistrationsAreOlder /\ ChainsServe /\ DisabledIsSilent /\ ChainServesAll
=============================================================================
