--------------------------- MODULE Infrastructure ---------------------------
(***************************************************************************)
(* The configuration the dashboard saves and the restart that applies it:  *)
(* InfraController's saveConfig and requestRestart, DockerService, which   *)
(* starts and removes the containers of the built-in services one Docker   *)
(* call at a time, ShutdownService's delayed exit, and the boot, which     *)
(* reads the saved file under the environment and cannot get past a        *)
(* database that is not there.                                             *)
(* The dashboard's page decides which containers a restart removes.        *)
(*                                                                         *)
(* Of a service's settings two matter: whether it is used, and whether it  *)
(* is marked as built in.  Both are saved, whatever the other is.          *)
(***************************************************************************)
EXTENDS Naturals

CONSTANTS
  Services,     \* the built-in services, in the order they are gone through
  Pages,        \* dashboards that are open, numbered from 1
  Given,        \* settings that the host's environment or .env fixes
  MaxSaves,     \* bound: configurations saved
  MaxFailures   \* bound: Docker calls that fail, and crashes

Boot     == 0
Names    == {Services[i] : i \in DOMAIN Services}
Database == Services[1]
Setting  == [on : BOOLEAN, builtIn : BOOLEAN]

VARIABLES
  file,      \* data/.env.generated
  env,       \* the settings the process was started with
  box,       \* the container of each service
  proc,      \* the server; "alone" is up without Docker
  timers,    \* shutdown() timers that are set
  page,      \* pendingProfiles and previousProfiles of each dashboard
  work,      \* the containers each restart request, and the boot, still has to see to
  failures,
  saves,
  readied,   \* history: the last restart request did all that a boot now would need
  intact     \* history: no call failed in the boot, and nothing was removed since

infraVars == <<file, env, box, proc, timers, page, work, failures, saves, readied, intact>>

(* A list of services is a set that is gone through in the order of         *)
(* Services.                                                               *)
Place(s)   == CHOOSE i \in DOMAIN Services : Services[i] = s
First(set) == CHOOSE s \in set : \A t \in set : Place(s) <= Place(t)

NoWork ==
  [pc |-> "idle", remove |-> {}, start |-> {}, wants |-> {}, seen |-> FALSE, ok |-> TRUE]
Begun(remove, start, wants) ==
  [pc |-> "look", remove |-> remove, start |-> start, wants |-> wants, seen |-> FALSE, ok |-> TRUE]

(* The type invariant. *)
TypeOK ==
  /\ file \in [Names -> Setting] /\ env \in [Names -> Setting]
  /\ box \in [Names -> {"absent", "stopped", "running"}]
  /\ proc \in {"down", "booting", "up", "alone"}
  /\ timers \in 0..MaxSaves
  /\ page \in [Pages -> [pending : SUBSET Names, previous : SUBSET Names, asks : BOOLEAN]]
  /\ work \in [Pages \cup {Boot} ->
       [pc : {"idle", "look", "act", "pull"}, remove : SUBSET Names, start : SUBSET Names,
        wants : SUBSET Names, seen : BOOLEAN, ok : BOOLEAN]]
  /\ failures \in 0..MaxFailures /\ saves \in 0..MaxSaves
  /\ readied \in BOOLEAN /\ intact \in BOOLEAN

(* The saved file overrides neither the environment nor the project's .env. *)
Fixed(s, field, saved) == IF <<s, field>> \in DOMAIN Given THEN Given[<<s, field>>] ELSE saved
Effective(settings) ==
  [s \in Names |-> [on      |-> Fixed(s, "on", settings[s].on),
                    builtIn |-> Fixed(s, "builtIn", settings[s].builtIn)]]

(* saveConfig's profiles, and those the boot derives from the environment.  *)
Profiles(settings) == {s \in Names : settings[s].on /\ settings[s].builtIn}
Marked(settings)   == {s \in Names : settings[s].builtIn}

NoPage == [pending |-> {}, previous |-> {}, asks |-> FALSE]
NoFile == [s \in Names |-> [on |-> FALSE, builtIn |-> FALSE]]

(* Before the first boot.                                                  *)
Init ==
  /\ file = NoFile /\ env = Effective(NoFile)
  /\ box = [s \in Names |-> "absent"]
  /\ proc = "down" /\ timers = 0
  /\ page = [p \in Pages |-> NoPage]
  /\ work = [w \in Pages \cup {Boot} |-> NoWork]
  /\ failures = 0 /\ saves = 0 /\ readied = FALSE /\ intact = FALSE

-----------------------------------------------------------------------------
(* The dashboard.                                                          *)

(* With or without Docker. *)
Serves == proc \in {"up", "alone"}

(* Dashboards differ in nothing but their number: the lowest saves first.   *)
MaySave(p) ==
  /\ Serves /\ saves < MaxSaves
  /\ saves = 0 => \A q \in Pages : p <= q

(* handleSaveConfig and saveConfig: the profiles of the save before become  *)
(* the previous ones.                                                       *)
Save(p, settings) ==
  /\ saves' = saves + 1
  /\ file' = settings
  /\ page' = [page EXCEPT ![p] =
       [pending |-> Profiles(settings), previous |-> page[p].pending, asks |-> TRUE]]
  /\ readied' = (readied /\ Profiles(Effective(settings)) = Profiles(Effective(file)))
  /\ UNCHANGED <<env, box, proc, timers, work, failures, intact>>

(* The page is loaded again, as it is by itself once the server answers     *)
(* after a restart, or still answers before it: what it knew is gone.       *)
Reload(p) ==
  /\ Serves /\ page[p] # NoPage
  /\ page' = [page EXCEPT ![p] = NoPage]
  /\ UNCHANGED <<file, env, box, proc, timers, work, failures, saves, readied, intact>>

(* handleRestart and requestRestart, up to its first Docker call.           *)
Restart(p) ==
  /\ proc = "up" /\ page[p].asks /\ work[p].pc = "idle"
  /\ work' = [work EXCEPT ![p] =
       Begun(page[p].previous \ page[p].pending, page[p].pending, page[p].pending)]
  /\ page' = [page EXCEPT ![p].asks = FALSE]
  /\ UNCHANGED <<file, env, box, proc, timers, failures, saves, readied, intact>>

(* Without Docker the request is left in a file for the host, and the       *)
(* server restarts all the same.                                            *)
RestartWithoutDocker(p) ==
  /\ proc = "alone" /\ page[p].asks /\ timers < MaxSaves
  /\ page' = [page EXCEPT ![p].asks = FALSE]
  /\ timers' = timers + 1
  /\ readied' = FALSE
  /\ UNCHANGED <<file, env, box, proc, work, failures, saves, intact>>

(* isDockerAvailable connects again in the background; nothing is started.  *)
DockerAnswers ==
  /\ proc = "alone" /\ timers > 0
  /\ proc' = "up"
  /\ UNCHANGED <<file, env, box, timers, page, work, failures, saves, readied, intact>>

-----------------------------------------------------------------------------
(* removeService and startService, for the container that is next.         *)

Removing(w) == work[w].remove # {}
Current(w)  == First(IF Removing(w) THEN work[w].remove ELSE work[w].start)
Finished(v) == v.remove = {} /\ v.start = {}

Onward(v, ok) ==
  IF v.remove # {}
  THEN [v EXCEPT !.pc = "look", !.remove = @ \ {First(@)}, !.seen = FALSE, !.ok = @ /\ ok]
  ELSE [v EXCEPT !.pc = "look", !.start = @ \ {First(@)}, !.seen = FALSE, !.ok = @ /\ ok]

(* A removal, whole or half done, undoes what another request found done.   *)
Disturbs(w, ok) ==
  work' = [v \in DOMAIN work |-> IF v = w THEN Onward(work[w], ok) ELSE [work[v] EXCEPT !.ok = FALSE]]

(* getContainerByService: a listing that fails is one without the container.*)
Looks(w) ==
  /\ work[w].pc = "look" /\ ~Finished(work[w])
  /\ \/ /\ work' = [work EXCEPT ![w].pc = "act", ![w].seen = box[Current(w)] # "absent"]
        /\ UNCHANGED failures
     \/ /\ failures < MaxFailures /\ failures' = failures + 1
        /\ work' = [work EXCEPT ![w].pc = "act", ![w].seen = FALSE, ![w].ok = FALSE]
  /\ UNCHANGED <<file, env, box, proc, timers, page, saves, readied, intact>>

(* The container is stopped and removed, if it was seen.                    *)
Removes(w) ==
  LET s == Current(w)
  IN  /\ work[w].pc = "act" /\ Removing(w)
      /\ box' = IF work[w].seen THEN [box EXCEPT ![s] = "absent"] ELSE box
      /\ Disturbs(w, ~work[w].seen \/ box[s] # "absent")
      /\ readied' = FALSE /\ intact' = FALSE
      /\ UNCHANGED <<file, env, proc, timers, page, failures, saves>>

(* The container that was seen is started, unless it was removed since.     *)
MutantFindsItEnough(w) ==
  LET s == Current(w)
  IN  /\ work[w].pc = "act" /\ ~Removing(w) /\ work[w].seen
      /\ work' = [work EXCEPT ![w] = Onward(@, box[s] # "absent")]
      /\ UNCHANGED <<file, env, box, proc, timers, page, failures, saves, readied, intact>>

Starts(w) ==
  LET s == Current(w)
  IN  /\ work[w].pc = "act" /\ ~Removing(w) /\ work[w].seen
      /\ box' = IF box[s] = "absent" THEN box ELSE [box EXCEPT ![s] = "running"]
      /\ work' = [work EXCEPT ![w] = Onward(@, box[s] # "absent")]
      /\ UNCHANGED <<file, env, proc, timers, page, failures, saves, readied, intact>>

(* createService: none was seen, so it looks again before it pulls the      *)
(* image; another request may have made the container meanwhile.            *)
LooksAgain(w) ==
  /\ work[w].pc = "act" /\ ~Removing(w) /\ ~work[w].seen
  /\ \/ /\ work' = [work EXCEPT ![w].seen = box[Current(w)] # "absent",
                                ![w].pc = IF box[Current(w)] = "absent" THEN "pull" ELSE "act"]
        /\ UNCHANGED failures
     \/ /\ failures < MaxFailures /\ failures' = failures + 1
        /\ work' = [work EXCEPT ![w].pc = "pull", ![w].ok = FALSE]
  /\ UNCHANGED <<file, env, box, proc, timers, page, saves, readied, intact>>

(* The image is there and the container is made, to be started next; or its *)
(* name is taken by now, which fails.                                       *)
Creates(w) ==
  LET s == Current(w)
  IN  /\ work[w].pc = "pull" /\ ~Removing(w)
      /\ IF box[s] = "absent"
         THEN /\ box' = [box EXCEPT ![s] = "stopped"]
              /\ work' = [work EXCEPT ![w].pc = "act", ![w].seen = TRUE]
         ELSE box' = box /\ work' = [work EXCEPT ![w] = Onward(@, FALSE)]
      /\ UNCHANGED <<file, env, proc, timers, page, failures, saves, readied, intact>>

(* A call fails: the pull, the creation, the start, the stop, or the removal *)
(* of what was stopped already.                                            *)
CallFails(w) ==
  /\ work[w].pc = "pull" \/ (work[w].pc = "act" /\ work[w].seen)
  /\ failures < MaxFailures /\ failures' = failures + 1
  /\ IF Removing(w)
     THEN /\ box' \in {box, [box EXCEPT ![Current(w)] = IF @ = "running" THEN "stopped" ELSE @]}
          /\ Disturbs(w, FALSE)
     ELSE box' = box /\ work' = [work EXCEPT ![w] = Onward(@, FALSE)]
  /\ readied' = (readied /\ ~Removing(w)) /\ intact' = FALSE
  /\ UNCHANGED <<file, env, proc, timers, page, saves>>

(* requestRestart goes on to shutdown(), whatever the results were.         *)
Ordered(p) ==
  /\ work[p].pc = "look" /\ Finished(work[p]) /\ timers < MaxSaves
  /\ work' = [work EXCEPT ![p] = NoWork]
  /\ timers' = timers + 1
  /\ readied' = (work[p].ok /\ work[p].wants = Profiles(Effective(file)))
  /\ UNCHANGED <<file, env, box, proc, page, failures, saves, intact>>

-----------------------------------------------------------------------------
(* The process.                                                            *)

(* The timer of shutdown() fires, or the process crashes: the requests it   *)
(* was serving, those of other dashboards included, end where they are.     *)
Exits ==
  /\ proc # "down"
  /\ \/ timers > 0 /\ UNCHANGED failures
     \/ failures < MaxFailures /\ failures' = failures + 1
  /\ proc' = "down" /\ timers' = 0
  /\ work' = [w \in Pages \cup {Boot} |-> NoWork]
  /\ UNCHANGED <<file, env, box, page, saves, readied, intact>>

Bootable == Database \in Profiles(Effective(file)) => box[Database] = "running"

(* The data source connects before bootstrapOrchestration runs: a server    *)
(* whose database is missing exits and is started again.                    *)
Boots ==
  /\ proc = "down" /\ Bootable
  /\ proc' = "booting" /\ env' = Effective(file)
  /\ work' = [work EXCEPT ![Boot] = Begun({}, Marked(Effective(file)), {})]
  /\ UNCHANGED <<file, box, timers, page, failures, saves, readied, intact>>

(* Docker does not answer the ping, so the boot starts no container.        *)
BootsWithoutDocker ==
  /\ proc = "down" /\ Bootable
  /\ failures < MaxFailures /\ failures' = failures + 1
  /\ proc' = "alone" /\ env' = Effective(file)
  /\ intact' = FALSE
  /\ UNCHANGED <<file, box, timers, page, work, saves, readied>>

Booted ==
  /\ work[Boot].pc = "look" /\ Finished(work[Boot])
  /\ proc' = "up"
  /\ work' = [work EXCEPT ![Boot] = NoWork]
  /\ intact' = work[Boot].ok
  /\ UNCHANGED <<file, env, box, timers, page, failures, saves, readied>>

Next ==
  \/ \E p \in Pages : \/ MaySave(p) /\ \E settings \in [Names -> Setting] : Save(p, settings)
                      \/ Reload(p) \/ Restart(p) \/ RestartWithoutDocker(p) \/ Ordered(p)
  \/ \E w \in Pages \cup {Boot} :
       \/ Looks(w) \/ Removes(w) \/ CallFails(w)
       \/ Starts(w) \/ LooksAgain(w) \/ Creates(w)
  \/ Exits \/ Boots \/ BootsWithoutDocker \/ Booted \/ DockerAnswers

Spec == Init /\ [][Next]_infraVars

-----------------------------------------------------------------------------
(* Properties.                                                             *)

(* A server that went down after a restart request that did everything the  *)
(* saved file, under the environment, asks for can boot: its database is    *)
(* there.  What undoes a request is a later save, or a removal another      *)
(* dashboard asked for.                                                     *)
RestartBoots == proc = "down" /\ readied => Bootable

(* After a boot without a failed call, and until a container is removed,    *)
(* every service the server's settings mark as built in is running.         *)
BuiltInsRun == proc = "up" /\ intact => \A s \in Marked(env) : box[s] = "running"

-----------------------------------------------------------------------------
(* What makes them hold of every step: a restart request, and the boot,     *)
(* that nothing disturbed has running whatever it has been through.         *)
Up(set) == \A s \in set : box[s] = "running"

RequestsHold ==
  \A w \in Pages \cup {Boot} :
     /\ work[w].remove \cap work[w].wants = {}
     /\ work[w].ok => Up(work[w].wants \ work[w].start)

BootHolds ==
  /\ work[Boot].remove = {}
  /\ work[Boot].pc # "idle" =>
       /\ proc = "booting"
       /\ work[Boot].ok => Up(Marked(env) \ work[Boot].start)
  /\ proc = "alone" => ~intact

InfraInv ==
  /\ TypeOK /\ RequestsHold /\ BootHolds /\ BuiltInsRun
  /\ readied => Up(Profiles(Effective(file)))
=============================================================================
