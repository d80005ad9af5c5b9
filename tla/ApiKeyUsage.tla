----------------------------- MODULE ApiKeyUsage -----------------------------
(***************************************************************************)
(* The row of ONE API key in modules/auth/auth.service.ts: validateApiKey,  *)
(* which every authenticated request runs and which counts the uses, and   *)
(* update, revoke and delete.  Keys do not interact: the accumulator is    *)
(* keyed by the key's id.                                                  *)
(*                                                                         *)
(* Every call reads the whole row, and writes the whole row back after an  *)
(* await: a save makes the writer's copy the row, and inserts it again     *)
(* when the row is gone (TypeORM's save).  The query that opens a call is  *)
(* taken with the call's start; what happens when it returns is a step of  *)
(* its own.  The checks on address, session and expiry are one refusal.    *)
(***************************************************************************)
EXTENDS Naturals

CONSTANTS
  Calls,          \* slots for calls in flight
  Window,         \* STAT_FLUSH_INTERVAL_MS, in ticks of the clock
  MaxUses,        \* bound: requests
  MaxChanges,     \* bound: calls of update, revoke and delete
  MaxClock,       \* bound: the clock
  MaxFailures,    \* bound: saves that the database rejects
  MaxCrashes      \* bound: ends of the process

ASSUME ConstantsAssumption ==
  /\ Window \in Nat \ {0}
  /\ MaxUses \in Nat /\ MaxChanges \in Nat /\ MaxClock \in Nat \ {0}
  /\ MaxFailures \in Nat /\ MaxCrashes \in Nat

VARIABLES
  row,        \* the key's row; `grants` counts the updates of what it may do
  pending,    \* this.pendingUsage.get(id) ?? 0
  call,       \* the calls in flight, each with its copy of the row
  now,        \* Date.now()
  uses, changes, failures, crashes,
  validated,  \* history: requests let in
  revoked,    \* history: a revoke or a delete has returned
  granted,    \* history: `grants` as the last update to return left it
  overtaken   \* history: a write landed while another call held a copy

vars == <<row, pending, call, now, uses, changes, failures, crashes, validated, revoked,
          granted, overtaken>>

(* lastUsedAt is 0 while the key was never used. *)
Row   == [here : BOOLEAN, isActive : BOOLEAN, grants : Nat, usageCount : Nat, lastUsedAt : Nat]
Kinds == {"validate", "update", "revoke", "delete"}
Call  == [pc : {"idle", "read", "save"}, kind : Kinds, copy : Row]

(* The type invariant. *)
TypeOK ==
  /\ row \in Row
  /\ pending \in Nat
  /\ call \in [Calls -> Call]
  /\ now \in 1..MaxClock
  /\ uses \in 0..MaxUses /\ changes \in 0..MaxChanges
  /\ failures \in 0..MaxFailures /\ crashes \in 0..MaxCrashes
  /\ validated \in Nat
  /\ revoked \in BOOLEAN /\ granted \in Nat /\ overtaken \in BOOLEAN

Fresh == [here |-> TRUE, isActive |-> TRUE, grants |-> 0, usageCount |-> 0, lastUsedAt |-> 0]
Idle  == [pc |-> "idle", kind |-> "validate", copy |-> Fresh]

(* createApiKey or the seed has saved the key.                              *)
Init ==
  /\ row = Fresh
  /\ pending = 0
  /\ call = [c \in Calls |-> Idle]
  /\ now = 1
  /\ uses = 0 /\ changes = 0 /\ failures = 0 /\ crashes = 0
  /\ validated = 0
  /\ revoked = FALSE /\ granted = 0 /\ overtaken = FALSE

Finish(c)         == call' = [call EXCEPT ![c] = Idle]
Save(c, copy)     == call' = [call EXCEPT ![c] = [pc |-> "save", kind |-> @.kind, copy |-> copy]]
Reading(c, kind)  == call[c].pc = "read" /\ call[c].kind = kind
NothingInFlight   == \A c \in Calls : call[c].pc = "idle"
HeldByOthers(c)   == \E d \in Calls \ {c} : call[d].pc # "idle"

-----------------------------------------------------------------------------
(* findOne.                                                                *)
Read(c, kind) ==
  /\ call[c].pc = "idle"
  /\ IF kind = "validate"
     THEN uses < MaxUses /\ uses' = uses + 1 /\ UNCHANGED changes
     ELSE changes < MaxChanges /\ changes' = changes + 1 /\ UNCHANGED uses
  /\ call' = [call EXCEPT ![c] = [pc |-> "read", kind |-> kind, copy |-> row]]
  /\ UNCHANGED <<row, pending, now, failures, crashes, validated, revoked, granted, overtaken>>

MutantUncounts(c) ==
  /\ call[c].pc = "read"
  /\ call[c].copy.here => call[c].kind = "validate"
  /\ pending' = pending - 1
  /\ Finish(c)
  /\ UNCHANGED <<row, now, uses, changes, failures, crashes, validated, revoked, granted,
                 overtaken>>

(* No such key, or - a request only - a revoked one, or one that fails the  *)
(* checks on expiry, address or session.                                   *)
Refused(c) ==
  /\ call[c].pc = "read"
  /\ call[c].copy.here => call[c].kind = "validate"
  /\ Finish(c)
  /\ UNCHANGED <<row, pending, now, uses, changes, failures, crashes, validated, revoked,
                 granted, overtaken>>

-----------------------------------------------------------------------------
(* validateApiKey.                                                         *)
LetsIn(copy) == copy.here /\ copy.isActive

Due(copy) == copy.lastUsedAt = 0 \/ now - copy.lastUsedAt >= Window

Accumulates(c) ==
  /\ Reading(c, "validate") /\ LetsIn(call[c].copy) /\ ~Due(call[c].copy)
  /\ pending' = pending + 1
  /\ validated' = validated + 1
  /\ Finish(c)
  /\ UNCHANGED <<row, now, uses, changes, failures, crashes, revoked, granted, overtaken>>

MutantKeepsPending(c) ==
  LET copy == call[c].copy
  IN  /\ Reading(c, "validate") /\ LetsIn(copy) /\ Due(copy)
      /\ validated' = validated + 1
      /\ Save(c, [copy EXCEPT !.usageCount = @ + pending + 1, !.lastUsedAt = now])
      /\ UNCHANGED <<row, pending, now, uses, changes, failures, crashes, revoked, granted,
                     overtaken>>

MutantCountsOne(c) ==
  LET copy == call[c].copy
  IN  /\ Reading(c, "validate") /\ LetsIn(copy) /\ Due(copy)
      /\ pending' = 0
      /\ validated' = validated + 1
      /\ Save(c, [copy EXCEPT !.usageCount = @ + 1, !.lastUsedAt = now])
      /\ UNCHANGED <<row, now, uses, changes, failures, crashes, revoked, granted, overtaken>>

Flushes(c) ==
  LET copy == call[c].copy
  IN  /\ Reading(c, "validate") /\ LetsIn(copy) /\ Due(copy)
      /\ pending' = 0
      /\ validated' = validated + 1
      /\ Save(c, [copy EXCEPT !.usageCount = @ + pending + 1, !.lastUsedAt = now])
      /\ UNCHANGED <<row, now, uses, changes, failures, crashes, revoked, granted, overtaken>>

-----------------------------------------------------------------------------
(* update, revoke, delete.                                                 *)
Updates(c) ==
  /\ Reading(c, "update") /\ call[c].copy.here
  /\ Save(c, [call[c].copy EXCEPT !.grants = @ + 1])
  /\ UNCHANGED <<row, pending, now, uses, changes, failures, crashes, validated, revoked,
                 granted, overtaken>>

MutantSoftRevoke(c) ==
  /\ Reading(c, "revoke") /\ call[c].copy.here
  /\ pending' = 0
  /\ Save(c, call[c].copy)
  /\ UNCHANGED <<row, now, uses, changes, failures, crashes, validated, revoked, granted,
                 overtaken>>

Revokes(c) ==
  /\ Reading(c, "revoke") /\ call[c].copy.here
  /\ pending' = 0
  /\ Save(c, [call[c].copy EXCEPT !.isActive = FALSE])
  /\ UNCHANGED <<row, now, uses, changes, failures, crashes, validated, revoked, granted,
                 overtaken>>

Deletes(c) ==
  /\ Reading(c, "delete") /\ call[c].copy.here
  /\ pending' = 0
  /\ Save(c, [call[c].copy EXCEPT !.here = FALSE])
  /\ UNCHANGED <<row, now, uses, changes, failures, crashes, validated, revoked, granted,
                 overtaken>>

-----------------------------------------------------------------------------
(* The end of every call that writes: save, or remove for a delete.         *)
Written(c) ==
  /\ call[c].pc = "save"
  /\ row' = call[c].copy
  /\ revoked' = (revoked \/ call[c].kind \in {"revoke", "delete"})
  /\ granted' = IF call[c].kind = "update" THEN call[c].copy.grants ELSE granted
  /\ overtaken' = (overtaken \/ HeldByOthers(c))
  /\ Finish(c)
  /\ UNCHANGED <<pending, now, uses, changes, failures, crashes, validated>>

WriteFails(c) ==
  /\ call[c].pc = "save" /\ failures < MaxFailures
  /\ failures' = failures + 1
  /\ Finish(c)
  /\ UNCHANGED <<row, pending, now, uses, changes, crashes, validated, revoked, granted,
                 overtaken>>

Tick ==
  /\ now < MaxClock
  /\ now' = now + 1
  /\ UNCHANGED <<row, pending, call, uses, changes, failures, crashes, validated, revoked,
                 granted, overtaken>>

(* The process ends: the accumulator is memory.                             *)
Crash ==
  /\ crashes < MaxCrashes
  /\ crashes' = crashes + 1
  /\ pending' = 0
  /\ call' = [c \in Calls |-> Idle]
  /\ UNCHANGED <<row, now, uses, changes, failures, validated, revoked, granted, overtaken>>

CallStep(c) ==
  \/ \E kind \in Kinds : Read(c, kind)
  \/ Refused(c) \/ Accumulates(c) \/ Flushes(c)
  \/ Updates(c) \/ Revokes(c) \/ Deletes(c)
  \/ Written(c) \/ WriteFails(c)

Next == (\E c \in Calls : CallStep(c)) \/ Tick \/ Crash

Spec == Init /\ [][Next]_vars

-----------------------------------------------------------------------------
(* Properties.                                                             *)

(* No use is ever counted twice, whatever overlaps, fails or crashes: the   *)
(* stored count and the accumulator together never exceed the requests     *)
(* that were let in.                                                       *)
NeverOvercounts == row.usageCount + pending <= validated

(* While no call writes the row under another's copy, a revoke or a delete *)
(* that has returned stays, and so does what the last update granted.      *)
ChangesHold ==
  ~overtaken => /\ revoked => ~LetsIn(row)
                /\ row.here => row.grants = granted

(* While no call writes the row under another's copy, nothing fails and the *)
(* key is not revoked, no use is lost.                                     *)
ExactUnlessOvertaken ==
  ~overtaken /\ failures = 0 /\ crashes = 0 /\ NothingInFlight /\ row.here /\ row.isActive
    => row.usageCount + pending = validated

(* What the comment in revoke claims: a revoked key fails validation.       *)
RevokedStaysRevoked == revoked /\ NothingInFlight => ~LetsIn(row)
=============================================================================
