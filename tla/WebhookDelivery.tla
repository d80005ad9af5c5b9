-------------------------- MODULE WebhookDelivery --------------------------
(***************************************************************************)
(* The delivery of events to a session's webhooks: WebhookService.dispatch *)
(* and its two ways on, direct delivery with retries in the dispatching    *)
(* process, or a BullMQ job per webhook that WebhookProcessor runs.        *)
(*                                                                         *)
(* Redis and BullMQ are external: a job survives the process, is tried     *)
(* opts.attempts times, and one whose worker vanished is run once more     *)
(* (maxStalledCount, 1 by default) before it is failed unseen.  The        *)
(* consumer's endpoint is external: a POST is accepted, or it fails (an    *)
(* error status, a timeout, a blocked or redirecting URL).  Matching an    *)
(* event against a webhook's list is left out: Webhooks are those that     *)
(* match.  Hooks other than webhook:before only observe, so `told` is a    *)
(* history of them; a job's hooks are awaited before BullMQ learns how it  *)
(* ended, so a worker may vanish in between.                               *)
(***************************************************************************)
EXTENDS Naturals, Sequences, SequencesExt

CONSTANTS
  Webhooks, Events,
  QueueModes,     \* what queue.enabled may be: fixed when the process boots
  RetryCount,     \* each webhook's retryCount, validated to 0..5
  MaxStalls,      \* BullMQ's maxStalledCount
  MaxCrashes,     \* bound: ends of the process
  MaxDbFailures,  \* bound: updates of lastTriggeredAt the database rejects
  MaxToggles      \* bound: changes of a webhook's `active`

ASSUME ConstantsAssumption ==
  /\ IsFiniteSet(Webhooks) /\ QueueModes \in SUBSET BOOLEAN
  /\ RetryCount \in [Webhooks -> Nat] /\ MaxStalls \in Nat
  /\ MaxCrashes \in Nat /\ MaxDbFailures \in Nat /\ MaxToggles \in Nat

VARIABLES
  queueEnabled, \* this.queueEnabled && this.webhookQueue
  active,     \* the active webhooks of the session
  disp,       \* each event's dispatch
  job,        \* each event's job for each webhook
  crashes, dbFailures, toggles,
  matched,    \* history: the webhooks a dispatch found active
  skipped,    \* history: those webhook:before cancelled or the queue refused
  posts,      \* history: the retry counts of the POSTs of each event to each webhook
  accepted,   \* history: whether the endpoint accepted one of them
  told,       \* history: the outcomes the hooks were told
  retold      \* history: those whose worker vanished between the hook and BullMQ

bounds == <<crashes, dbFailures, toggles>>

vars == <<queueEnabled, active, disp, job, bounds, matched, skipped, posts, accepted, told,
          retold>>

Pairs    == Events \X Webhooks
DispPc   == {"idle", "lookup", "before", "add", "post", "touch", "wait", "done"}
Disp     == [pc : DispPc, left : Seq(Webhooks), attempt : Nat]
(* A job is telling or failing while the attempt is over - delivered told,  *)
(* or its error raised - and BullMQ has not recorded it; it is stalled when    *)
(* BullMQ failed it because its workers vanished.                           *)
JobState == {"none", "waiting", "active", "touch", "telling", "failing",
             "completed", "failed", "stalled"}
Job      == [st : JobState, made : Nat, stalls : Nat]

(* The type invariant. *)
TypeOK ==
  /\ queueEnabled \in BOOLEAN
  /\ active \in SUBSET Webhooks
  /\ disp \in [Events -> Disp]
  /\ \A e \in Events : disp[e].pc \notin {"idle", "lookup", "done"} => disp[e].left # <<>>
  /\ job \in [Pairs -> Job]
  /\ \A p \in Pairs : job[p].made <= RetryCount[p[2]] + 1
  /\ crashes \in 0..MaxCrashes /\ dbFailures \in 0..MaxDbFailures /\ toggles \in 0..MaxToggles
  /\ matched \in SUBSET Pairs /\ skipped \in SUBSET Pairs
  /\ posts \in [Pairs -> Seq(Nat)]
  /\ accepted \in SUBSET Pairs
  /\ told \in [Pairs -> SUBSET {"delivered", "error"}] /\ retold \in SUBSET Pairs

Init ==
  /\ queueEnabled \in QueueModes
  /\ active = Webhooks
  /\ disp = [e \in Events |-> [pc |-> "idle", left |-> <<>>, attempt |-> 1]]
  /\ job = [p \in Pairs |-> [st |-> "none", made |-> 0, stalls |-> 0]]
  /\ crashes = 0 /\ dbFailures = 0 /\ toggles = 0
  /\ matched = {} /\ skipped = {}
  /\ posts = [p \in Pairs |-> <<>>] /\ accepted = {}
  /\ told = [p \in Pairs |-> {}] /\ retold = {}

Goto(e, to) == disp' = [disp EXCEPT ![e] = [@ EXCEPT !.pc = to]]
Current(e)  == <<e, Head(disp[e].left)>>
Tell(p, o)  == told' = [told EXCEPT ![p] = @ \cup {o}]

(* The loop of dispatch goes on to the next webhook, or ends.               *)
NextWebhook(e) ==
  LET rest == Tail(disp[e].left)
  IN  disp' = [disp EXCEPT ![e] = [pc |-> IF rest = <<>> THEN "done" ELSE "before",
                                   left |-> rest, attempt |-> 1]]

-----------------------------------------------------------------------------
(* update, delete: the webhook stops or starts to match.                    *)
Toggle(w) ==
  /\ toggles < MaxToggles
  /\ toggles' = toggles + 1
  /\ active' = IF w \in active THEN active \ {w} ELSE active \cup {w}
  /\ UNCHANGED <<queueEnabled, disp, job, crashes, dbFailures, matched, skipped, posts,
                 accepted, told, retold>>

-----------------------------------------------------------------------------
(* dispatch.                                                               *)
Dispatch(e) ==
  /\ disp[e].pc = "idle"
  /\ Goto(e, "lookup")
  /\ UNCHANGED <<queueEnabled, active, job, bounds, matched, skipped, posts, accepted,
                 told, retold>>

MutantIgnoreActive(e) ==
  /\ disp[e].pc = "lookup"
  /\ matched' = matched \cup ({e} \X active)
  /\ disp' = [disp EXCEPT ![e] = [@ EXCEPT !.pc = "before", !.left = SetToSeq(Webhooks)]]
  /\ UNCHANGED <<queueEnabled, active, job, bounds, skipped, posts, accepted, told, retold>>

LookupReturns(e) ==
  /\ disp[e].pc = "lookup"
  /\ matched' = matched \cup ({e} \X active)
  /\ disp' = [disp EXCEPT ![e] = [@ EXCEPT !.pc = IF active = {} THEN "done" ELSE "before",
                                           !.left = SetToSeq(active)]]
  /\ UNCHANGED <<queueEnabled, active, job, bounds, skipped, posts, accepted, told, retold>>

(* A failed lookup is logged and swallowed. *)
LookupFails(e) ==
  /\ disp[e].pc = "lookup"
  /\ Goto(e, "done")
  /\ UNCHANGED <<queueEnabled, active, job, bounds, matched, skipped, posts, accepted,
                 told, retold>>

(* webhook:before lets the webhook's payload pass.                          *)
BeforePasses(e) ==
  /\ disp[e].pc = "before"
  /\ disp' = [disp EXCEPT ![e] = [@ EXCEPT !.pc = IF queueEnabled THEN "add" ELSE "post"]]
  /\ UNCHANGED <<queueEnabled, active, job, bounds, matched, skipped, posts, accepted,
                 told, retold>>

BeforeCancels(e) ==
  /\ disp[e].pc = "before"
  /\ skipped' = skipped \cup {Current(e)}
  /\ NextWebhook(e)
  /\ UNCHANGED <<queueEnabled, active, job, bounds, matched, posts, accepted, told, retold>>

-----------------------------------------------------------------------------
(* deliverWebhook: the direct way.                                         *)

MutantOneMore(e) == disp[e].attempt <= RetryCount[Head(disp[e].left)]

(* Whether the catch of an attempt tries again. *)
MoreAttempts(e) == disp[e].attempt < RetryCount[Head(disp[e].left)]

MutantStopOnError(e) ==
  IF MoreAttempts(e)
  THEN Goto(e, "wait") /\ UNCHANGED told
  ELSE Goto(e, "done") /\ Tell(Current(e), "error")

MutantToldEachTime(e) ==
  IF MoreAttempts(e)
  THEN Goto(e, "wait") /\ Tell(Current(e), "error")
  ELSE NextWebhook(e) /\ Tell(Current(e), "error")

AttemptFails(e) ==
  IF MoreAttempts(e)
  THEN Goto(e, "wait") /\ UNCHANGED told
  ELSE NextWebhook(e) /\ Tell(Current(e), "error")

PostWith(p, retry) == posts' = [posts EXCEPT ![p] = Append(@, retry)]

DirectPost(e, ok) ==
  /\ disp[e].pc = "post"
  /\ PostWith(Current(e), disp[e].attempt - 1)
  /\ IF ok
     THEN accepted' = accepted \cup {Current(e)} /\ Goto(e, "touch") /\ UNCHANGED told
     ELSE AttemptFails(e) /\ UNCHANGED accepted
  /\ UNCHANGED <<queueEnabled, active, job, bounds, matched, skipped, retold>>

(* The URL is refused before anything is posted.                            *)
DirectBlocked(e) ==
  /\ disp[e].pc = "post"
  /\ AttemptFails(e)
  /\ UNCHANGED <<queueEnabled, active, job, bounds, matched, skipped, posts, accepted,
                 retold>>

DirectTouched(e) ==
  /\ disp[e].pc = "touch"
  /\ Tell(Current(e), "delivered")
  /\ NextWebhook(e)
  /\ UNCHANGED <<queueEnabled, active, job, bounds, matched, skipped, posts, accepted,
                 retold>>

(* The update of lastTriggeredAt is inside the same try: its failure counts *)
(* as a failed attempt.                                                     *)
DirectTouchFails(e) ==
  /\ disp[e].pc = "touch" /\ dbFailures < MaxDbFailures
  /\ dbFailures' = dbFailures + 1
  /\ AttemptFails(e)
  /\ UNCHANGED <<queueEnabled, active, job, crashes, toggles, matched, skipped, posts,
                 accepted, retold>>

MutantShiftsFirst(e) ==
  /\ disp[e].pc = "wait"
  /\ disp' = [disp EXCEPT ![e] = [@ EXCEPT !.pc = "post", !.left = Tail(@), !.attempt = @ + 1]]
  /\ UNCHANGED <<queueEnabled, active, job, bounds, matched, skipped, posts, accepted,
                 told, retold>>

MutantDropsLastRetry(e) ==
  /\ disp[e].pc = "wait" /\ disp[e].attempt + 1 < RetryCount[Head(disp[e].left)]
  /\ disp' = [disp EXCEPT ![e] = [@ EXCEPT !.pc = "post", !.attempt = @ + 1]]
  /\ UNCHANGED <<queueEnabled, active, job, bounds, matched, skipped, posts, accepted,
                 told, retold>>

DirectWaited(e) ==
  /\ disp[e].pc = "wait"
  /\ disp' = [disp EXCEPT ![e] = [@ EXCEPT !.pc = "post", !.attempt = disp[e].attempt + 1]]
  /\ UNCHANGED <<queueEnabled, active, job, bounds, matched, skipped, posts, accepted,
                 told, retold>>

-----------------------------------------------------------------------------
(* The queue.                                                              *)
Queued(e) ==
  /\ disp[e].pc = "add"
  /\ job' = [job EXCEPT ![Current(e)] = [st |-> "waiting", made |-> 0, stalls |-> 0]]
  /\ NextWebhook(e)
  /\ UNCHANGED <<queueEnabled, active, bounds, matched, skipped, posts, accepted, told,
                 retold>>

QueueRefuses(e) ==
  /\ disp[e].pc = "add"
  /\ skipped' = skipped \cup {Current(e)}
  /\ Tell(Current(e), "error")
  /\ NextWebhook(e)
  /\ UNCHANGED <<queueEnabled, active, job, bounds, matched, posts, accepted, retold>>

Works(p, to) == job' = [job EXCEPT ![p] = [@ EXCEPT !.st = to]]

JobTaken(p) ==
  /\ job[p].st = "waiting"
  /\ Works(p, "active")
  /\ UNCHANGED <<queueEnabled, active, disp, bounds, matched, skipped, posts, accepted,
                 told, retold>>

MutantErrorOnePastFinal(p) ==
  /\ Works(p, "failing")
  /\ IF job[p].made + 1 > RetryCount[p[2]] THEN Tell(p, "error") ELSE UNCHANGED told

(* The catch of process: webhook:error on the final attempt.                *)
JobAttemptFails(p) ==
  LET isFinal == job[p].made + 1 >= RetryCount[p[2]]
  IN  /\ Works(p, "failing")
      /\ IF isFinal THEN Tell(p, "error") ELSE UNCHANGED told

JobPost(p, ok) ==
  /\ job[p].st = "active"
  /\ PostWith(p, job[p].made)
  /\ IF ok
     THEN accepted' = accepted \cup {p} /\ Works(p, "touch") /\ UNCHANGED told
     ELSE JobAttemptFails(p) /\ UNCHANGED accepted
  /\ UNCHANGED <<queueEnabled, active, disp, bounds, matched, skipped, retold>>

JobBlocked(p) ==
  /\ job[p].st = "active"
  /\ JobAttemptFails(p)
  /\ UNCHANGED <<queueEnabled, active, disp, bounds, matched, skipped, posts, accepted,
                 retold>>

(* webhook:delivered is awaited before process returns.                     *)
JobTouched(p) ==
  /\ job[p].st = "touch"
  /\ Tell(p, "delivered")
  /\ Works(p, "telling")
  /\ UNCHANGED <<queueEnabled, active, disp, bounds, matched, skipped, posts, accepted,
                 retold>>

JobTouchFails(p) ==
  /\ job[p].st = "touch" /\ dbFailures < MaxDbFailures
  /\ dbFailures' = dbFailures + 1
  /\ JobAttemptFails(p)
  /\ UNCHANGED <<queueEnabled, active, disp, crashes, toggles, matched, skipped, posts,
                 accepted, retold>>

(* BullMQ records what process returned.                                    *)
JobCompletes(p) ==
  /\ job[p].st = "telling"
  /\ Works(p, "completed")
  /\ UNCHANGED <<queueEnabled, active, disp, bounds, matched, skipped, posts, accepted,
                 told, retold>>

(* BullMQ counts the attempt that process threw from, and hands the job out *)
(* again while attempts are left.                                           *)
JobFailureCounted(p) ==
  /\ job[p].st = "failing"
  /\ LET made == job[p].made + 1
     IN  job' = [job EXCEPT ![p] = [@ EXCEPT !.made = made,
                   !.st = IF made < RetryCount[p[2]] THEN "waiting" ELSE "failed"]]
  /\ UNCHANGED <<queueEnabled, active, disp, bounds, matched, skipped, posts, accepted,
                 told, retold>>

-----------------------------------------------------------------------------
(* The process ends and the next one comes up: dispatches are gone, jobs    *)
(* whose worker vanished stall.                                             *)
Held == {"active", "touch", "telling", "failing"}

Stalled(j) ==
  IF j.st \notin Held THEN j
  ELSE IF j.stalls < MaxStalls THEN [j EXCEPT !.st = "waiting", !.stalls = @ + 1]
  ELSE [j EXCEPT !.st = "stalled"]

Crash ==
  /\ crashes < MaxCrashes
  /\ crashes' = crashes + 1
  /\ disp' = [e \in Events |-> IF disp[e].pc = "idle" THEN disp[e]
                               ELSE [disp[e] EXCEPT !.pc = "done", !.left = <<>>]]
  /\ job' = [p \in Pairs |-> Stalled(job[p])]
  /\ retold' = retold \cup {p \in Pairs : job[p].st \in Held /\ told[p] # {}}
  /\ UNCHANGED <<queueEnabled, active, dbFailures, toggles, matched, skipped, posts,
                 accepted, told>>

-----------------------------------------------------------------------------
DispatchStep(e) ==
  \/ LookupReturns(e) \/ LookupFails(e) \/ BeforePasses(e) \/ BeforeCancels(e)
  \/ \E ok \in BOOLEAN : DirectPost(e, ok)
  \/ DirectBlocked(e) \/ DirectTouched(e) \/ DirectTouchFails(e) \/ DirectWaited(e)
  \/ Queued(e) \/ QueueRefuses(e)

JobStep(p) ==
  \/ JobTaken(p) \/ JobBlocked(p) \/ JobTouched(p) \/ JobTouchFails(p)
  \/ \E ok \in BOOLEAN : JobPost(p, ok)
  \/ JobCompletes(p) \/ JobFailureCounted(p)

Next ==
  \/ \E w \in Webhooks : Toggle(w)
  \/ \E e \in Events : Dispatch(e) \/ DispatchStep(e)
  \/ \E p \in Pairs : JobStep(p)
  \/ Crash

Spec == Init /\ [][Next]_vars

(* Every await is of something that ends: a query, a hook, a request with a *)
(* timeout, a timer; and BullMQ hands every waiting job to a worker and     *)
(* records what became of it.                                               *)
Fairness == /\ \A e \in Events : WF_vars(DispatchStep(e))
            /\ \A p \in Pairs : WF_vars(JobStep(p))
FairSpec == Spec /\ Fairness

-----------------------------------------------------------------------------
(* Properties.                                                             *)

(* A webhook is sent an event at most retryCount times - once when it is 0, *)
(* and once more for a worker that vanished - and the retry count in the    *)
(* header grows with every POST, unless a worker vanished in between.       *)
Attempts(w) == IF RetryCount[w] = 0 THEN 1 ELSE RetryCount[w]

AttemptsBounded ==
  \A p \in Pairs :
    /\ Len(posts[p]) <= Attempts(p[2]) + job[p].stalls
    /\ \A i \in DOMAIN posts[p] :
         /\ posts[p][i] < Attempts(p[2])
         /\ \A k \in 1..(i - 1) : \/ posts[p][k] < posts[p][i]
                                  \/ job[p].stalls > 0

(* The hooks are told one outcome of a delivery, unless the worker vanished *)
(* after it was told and before BullMQ recorded it: that job is run again.  *)
(* They are told "delivered" only if the endpoint accepted it; and what     *)
(* BullMQ records of a job that did not stall was told.                     *)
OneOutcome ==
  \A p \in Pairs :
    /\ told[p] = {"delivered", "error"} => p \in retold
    /\ "delivered" \in told[p] => p \in accepted
    /\ job[p].st = "completed" => "delivered" \in told[p]
    /\ job[p].st = "failed" => "error" \in told[p]

(* A dispatch that is over has passed no webhook over: whatever becomes of  *)
(* the others, each one it found was skipped, told or queued.               *)
NoneForgotten ==
  \A p \in matched : disp[p[1]].pc = "done" /\ crashes = 0
    => p \in skipped \/ told[p] # {} \/ job[p].st # "none"

(* A webhook that was not active when the event was dispatched gets none of *)
(* it.                                                                      *)
OnlyMatchedPosted == \A p \in Pairs : posts[p] # <<>> => p \in matched

(* A queued delivery survives the end of its worker and is settled: BullMQ  *)
(* is through with it, and the hooks were told unless it stalled too often. *)
Settled(p) == \/ job[p].st \in {"completed", "failed"} /\ told[p] # {}
              \/ job[p].st = "stalled"

QueuedIsSettled == \A p \in Pairs : job[p].st = "waiting" ~> Settled(p)

(* A dispatch without a queue ends, too.                                    *)
DispatchEnds == \A e \in Events : disp[e].pc = "lookup" ~> disp[e].pc = "done"

(* What HookEvent says of webhook:error: the delivery failed.               *)
ErrorMeansUndelivered == \A p \in Pairs : "error" \in told[p] => p \notin accepted
=============================================================================
