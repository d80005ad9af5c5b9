----------------------- MODULE WebhookDeliveryProofs -----------------------
(***************************************************************************)
(* What holds of the deliveries for any number of events and webhooks, any *)
(* retry count and any number of crashes, in both ways of delivery: one    *)
(* outcome, a bounded number of attempts, no webhook that was not matched, *)
(* and none forgotten.                                                     *)
(***************************************************************************)
EXTENDS WebhookDelivery, FiniteSetTheorems, SequenceTheorems, TLAPS

USE ConstantsAssumption

-----------------------------------------------------------------------------
(* The invariant.                                                          *)

NoJob == [st |-> "none", made |-> 0, stalls |-> 0]

(* The webhooks of an event's dispatch are distinct; while there are some   *)
(* left it is under way, at its first attempt until it delivers itself.     *)
LineInOrder ==
  \A e \in Events :
    /\ \A i, k \in DOMAIN disp[e].left : disp[e].left[i] = disp[e].left[k] => i = k
    /\ disp[e].left = <<>> <=> disp[e].pc \in {"idle", "lookup", "done"}
    /\ disp[e].pc \in {"idle", "lookup", "before", "add"} => disp[e].attempt = 1

InLine(p) == \E i \in DOMAIN disp[p[1]].left : disp[p[1]].left[i] = p[2]

(* Not begun: not found yet, or still in the line.                          *)
Ahead(p) ==
  \/ disp[p[1]].pc \in {"idle", "lookup"}
  \/ InLine(p) /\ (disp[p[1]].pc \in {"before", "add"} \/ p[2] # Head(disp[p[1]].left))

Delivering(p) ==
  disp[p[1]].pc \in {"post", "touch", "wait"} /\ p[2] = Head(disp[p[1]].left)

Below(s, n) == \A i \in DOMAIN s : s[i] < n

Fresh(p) == Ahead(p) => job[p] = NoJob /\ told[p] = {} /\ posts[p] = <<>>

(* The attempts that a direct delivery has made.                            *)
Tries(e) == IF disp[e].pc = "post" THEN disp[e].attempt - 1 ELSE disp[e].attempt

Direct(p) ==
  Delivering(p) =>
    /\ job[p] = NoJob /\ told[p] = {}
    /\ disp[p[1]].attempt \in 1..Attempts(p[2])
    /\ Len(posts[p]) <= Tries(p[1]) /\ Below(posts[p], Tries(p[1]))
    /\ disp[p[1]].pc = "wait" => disp[p[1]].attempt < RetryCount[p[2]]
    /\ disp[p[1]].pc = "touch" => p \in accepted

(* The attempts that a job has made, the one under way included once it has *)
(* been posted or has failed.                                               *)
Over == {"telling", "failing"}

Made(p) == IF job[p].st \in Over \cup {"touch"} THEN job[p].made + 1 ELSE job[p].made

Open == {"waiting", "active", "touch"} \cup Over

(* A job that is to be tried on has told nothing, unless its worker         *)
(* vanished before BullMQ knew.                                             *)
Silent(p) == told[p] = {} \/ p \in retold

Jobbed(p) ==
  job[p].st \in Open =>
    /\ job[p].st \notin Over => Silent(p)
    /\ job[p].st = "failing" /\ job[p].made + 1 < RetryCount[p[2]] => Silent(p)
    /\ job[p].made < Attempts(p[2])
    /\ Len(posts[p]) <= Made(p) + job[p].stalls
    /\ job[p].stalls = 0 => Below(posts[p], Made(p))
    /\ job[p].st = "touch" => p \in accepted

(* The pair's share of AttemptsBounded, OneOutcome, NoneForgotten and       *)
(* OnlyMatchedPosted.                                                       *)
Bounded(p) ==
  /\ Len(posts[p]) <= Attempts(p[2]) + job[p].stalls
  /\ Below(posts[p], Attempts(p[2]))
  /\ job[p].stalls = 0 =>
       \A i \in DOMAIN posts[p] : \A k \in 1..(i - 1) : posts[p][k] < posts[p][i]

Told(p) ==
  /\ told[p] = {"delivered", "error"} => p \in retold
  /\ "delivered" \in told[p] => p \in accepted
  /\ job[p].st \in {"telling", "completed"} => "delivered" \in told[p]
  /\ job[p].st = "failed" => "error" \in told[p]
  /\ job[p].st = "failing" /\ job[p].made + 1 >= RetryCount[p[2]] => "error" \in told[p]

Accounted(p) ==
  /\ disp[p[1]].pc \in {"idle", "lookup"} => p \notin matched
  /\ InLine(p) \/ posts[p] # <<>> \/ job[p].st # "none" => p \in matched
  /\ p \in matched /\ crashes = 0
       => InLine(p) \/ p \in skipped \/ told[p] # {} \/ job[p].st # "none"

PairInv(p) == Fresh(p) /\ Direct(p) /\ Jobbed(p) /\ Bounded(p) /\ Told(p) /\ Accounted(p)

DeliveryInv == TypeOK /\ LineInOrder /\ \A p \in Pairs : PairInv(p)

(* The attempts that a retry count allows.                                  *)
LEMMA AttemptsType ==
  ASSUME NEW p \in Pairs
  PROVE  /\ RetryCount[p[2]] \in Nat /\ Attempts(p[2]) \in Nat /\ 0 < Attempts(p[2])
         /\ RetryCount[p[2]] <= Attempts(p[2]) /\ Attempts(p[2]) <= RetryCount[p[2]] + 1
<1>1. RetryCount[p[2]] \in Nat
  BY DEF Pairs
<1> QED
  BY <1>1 DEF Attempts

-----------------------------------------------------------------------------
(* Sequences.                                                              *)

(* What dispatch iterates is each active webhook once.                      *)
LEMMA SetToSeqProperties ==
  ASSUME NEW S, IsFiniteSet(S)
  PROVE  LET s == SetToSeq(S) IN
         /\ s \in Seq(S)
         /\ \A i, k \in DOMAIN s : s[i] = s[k] => i = k
         /\ \A x \in S : \E i \in DOMAIN s : s[i] = x
         /\ s = <<>> <=> S = {}
<1> DEFINE s == SetToSeq(S)
           n == Cardinality(S)
<1>1. n \in Nat /\ \E f \in [1..n -> S] : IsInjective(f)
  BY FS_CardinalityType DEF ExistsBijection, Bijection, Injection
<1>2. s \in [1..n -> S] /\ IsInjective(s)
  BY <1>1 DEF SetToSeq
<1>3. s \in Seq(S) /\ DOMAIN s = 1..n /\ Len(s) = n
  BY <1>1, <1>2, LenProperties
<1>4. s \in Surjection(1..n, S)
  <2>1. s \in Injection(1..n, S)
    BY <1>2 DEF Injection
  <2>2. Cardinality(1..n) = n
    BY <1>1, FS_Interval
  <2> QED
    BY <2>1, <2>2, FS_Injection
<1>5. s = <<>> <=> S = {}
  <2>1. s = <<>> <=> n = 0
    BY <1>3, EmptySeq
  <2> QED
    BY <2>1, FS_EmptySet
<1> QED
  BY <1>2, <1>3, <1>4, <1>5 DEF IsInjective, Surjection

(* The first of the line leaves, the others move up.                        *)
LEMMA TailProperties ==
  ASSUME NEW S, NEW s \in Seq(S), s # <<>>,
         \A i, k \in DOMAIN s : s[i] = s[k] => i = k
  PROVE  LET t == Tail(s) IN
         /\ t \in Seq(S) /\ Head(s) \in S
         /\ \A i, k \in DOMAIN t : t[i] = t[k] => i = k
         /\ \A x : (\E i \in DOMAIN t : t[i] = x) <=> (\E i \in DOMAIN s : s[i] = x) /\ x # Head(s)
         /\ \E i \in DOMAIN s : s[i] = Head(s)
<1> DEFINE t == Tail(s)
<1>1. /\ Len(s) \in Nat \ {0} /\ DOMAIN s = 1..Len(s)
      /\ t \in Seq(S) /\ Head(s) \in S /\ DOMAIN t = 1..(Len(s) - 1)
      /\ \A i \in 1..(Len(s) - 1) : t[i] = s[i + 1]
  BY EmptySeq, LenProperties, HeadTailProperties
<1>2. Head(s) = s[1]
  BY <1>1
<1>3. \A i, k \in DOMAIN t : t[i] = t[k] => i = k
  BY <1>1
<1>4. ASSUME NEW x PROVE (\E i \in DOMAIN t : t[i] = x) <=> (\E i \in DOMAIN s : s[i] = x) /\ x # Head(s)
  <2>1. ASSUME NEW i \in DOMAIN t, t[i] = x PROVE (\E k \in DOMAIN s : s[k] = x) /\ x # Head(s)
    BY <1>1, <1>2, <2>1
  <2>2. ASSUME NEW i \in DOMAIN s, s[i] = x, x # Head(s) PROVE \E k \in DOMAIN t : t[k] = x
    <3>1. i - 1 \in DOMAIN t /\ t[i - 1] = x
      BY <1>1, <1>2, <2>2
    <3> QED
      BY <3>1
  <2> QED
    BY <2>1, <2>2
<1> QED
  BY <1>1, <1>2, <1>3, <1>4

(* A POST appends its retry count.                                          *)
LEMMA AppendBelow ==
  ASSUME NEW s \in Seq(Nat), NEW n \in Nat
  PROVE  LET t == Append(s, n) IN
         /\ t \in Seq(Nat) /\ t # <<>> /\ Len(t) = Len(s) + 1
         /\ \A m \in Nat : Below(s, m) /\ n < m => Below(t, m)
         /\ Below(s, n) /\ (\A i \in DOMAIN s : \A k \in 1..(i - 1) : s[k] < s[i])
              => \A i \in DOMAIN t : \A k \in 1..(i - 1) : t[k] < t[i]
<1> DEFINE t == Append(s, n)
<1>1. /\ Len(s) \in Nat /\ DOMAIN s = 1..Len(s) /\ DOMAIN t = 1..(Len(s) + 1)
      /\ t \in Seq(Nat) /\ t # <<>> /\ Len(t) = Len(s) + 1
      /\ \A i \in 1..Len(s) : t[i] = s[i]
      /\ t[Len(s) + 1] = n
  BY LenProperties, AppendProperties
<1> QED
  BY <1>1 DEF Below

-----------------------------------------------------------------------------
(* The dispatch of one event.                                              *)

Busy == {"before", "add", "post", "touch", "wait"}

(* The first webhook of a line is one of the webhooks, in the line.         *)
LEMMA CurrentProperties ==
  ASSUME TypeOK, LineInOrder, NEW e \in Events, disp[e].pc \in Busy
  PROVE  /\ disp[e].left # <<>> /\ Current(e) \in Pairs
         /\ Current(e)[1] = e /\ Current(e)[2] = Head(disp[e].left)
         /\ InLine(Current(e))
<1>1. disp[e] \in Disp /\ disp[e].left \in Seq(Webhooks) /\ disp[e].left # <<>>
  BY DEF TypeOK, LineInOrder, Busy, Disp
<1>2. Head(disp[e].left) \in Webhooks /\ \E i \in DOMAIN disp[e].left : disp[e].left[i] = Head(disp[e].left)
  BY <1>1, TailProperties DEF LineInOrder
<1> QED
  BY <1>1, <1>2 DEF Current, Pairs, InLine

(* Going on to the next webhook takes the first one out of the line.        *)
LEMMA NextWebhookProperties ==
  ASSUME TypeOK, LineInOrder, NEW e \in Events, disp[e].pc \in Busy, NextWebhook(e)
  PROVE  /\ disp' \in [Events -> Disp]
         /\ \A f \in Events \ {e} : disp'[f] = disp[f]
         /\ disp'[e].pc \in {"before", "done"} /\ disp'[e].attempt = 1
         /\ LineInOrder'
         /\ \A p \in Pairs : p[1] = e => (InLine(p)' <=> InLine(p) /\ p # Current(e))
<1> DEFINE s == disp[e].left
           t == Tail(s)
<1>1. /\ disp \in [Events -> Disp] /\ s \in Seq(Webhooks) /\ s # <<>>
      /\ \A i, k \in DOMAIN s : s[i] = s[k] => i = k
  BY DEF TypeOK, Disp, LineInOrder, Busy
<1>2. /\ t \in Seq(Webhooks)
      /\ \A i, k \in DOMAIN t : t[i] = t[k] => i = k
      /\ \A x : (\E i \in DOMAIN t : t[i] = x) <=> (\E i \in DOMAIN s : s[i] = x) /\ x # Head(s)
  BY <1>1, TailProperties
<1>3. disp' = [disp EXCEPT ![e] = [pc |-> IF t = <<>> THEN "done" ELSE "before",
                                   left |-> t, attempt |-> 1]]
  BY DEF NextWebhook
<1>4. /\ disp'[e] = [pc |-> IF t = <<>> THEN "done" ELSE "before", left |-> t, attempt |-> 1]
      /\ disp'[e] \in Disp
      /\ \A f \in Events \ {e} : disp'[f] = disp[f]
      /\ disp' \in [Events -> Disp]
  BY <1>1, <1>2, <1>3 DEF Disp, DispPc
<1>5. LineInOrder'
  <2> SUFFICES ASSUME NEW f \in Events
               PROVE  /\ \A i, k \in DOMAIN disp'[f].left : disp'[f].left[i] = disp'[f].left[k] => i = k
                      /\ disp'[f].left = <<>> <=> disp'[f].pc \in {"idle", "lookup", "done"}
                      /\ disp'[f].pc \in {"idle", "lookup", "before", "add"} => disp'[f].attempt = 1
    BY DEF LineInOrder
  <2>1. CASE f = e
    <3>1. disp'[f].left = t /\ disp'[f].attempt = 1
      BY <2>1, <1>4
    <3>2. disp'[f].pc = IF t = <<>> THEN "done" ELSE "before"
      BY <2>1, <1>4
    <3>3. disp'[f].left = <<>> <=> disp'[f].pc \in {"idle", "lookup", "done"}
      BY <3>1, <3>2
    <3> HIDE DEF t
    <3>4. \A i, k \in DOMAIN disp'[f].left : disp'[f].left[i] = disp'[f].left[k] => i = k
      BY <3>1, <1>2
    <3> QED
      BY <3>1, <3>3, <3>4
  <2>2. CASE f # e
    BY <2>2, <1>4 DEF LineInOrder
  <2> QED
    BY <2>1, <2>2
<1>6. ASSUME NEW p \in Pairs, p[1] = e PROVE InLine(p)' <=> InLine(p) /\ p # Current(e)
  <2>1. p = <<e, p[2]>>
    BY <1>6 DEF Pairs
  <2>2. p # Current(e) <=> p[2] # Head(s)
    BY <2>1 DEF Current
  <2>3. InLine(p)' <=> \E i \in DOMAIN t : t[i] = p[2]
    <3>1. disp'[p[1]].left = t
      BY <1>4, <1>6
    <3> HIDE DEF t
    <3> QED
      BY <3>1 DEF InLine
  <2>4. InLine(p) <=> \E i \in DOMAIN s : s[i] = p[2]
    BY <1>6 DEF InLine
  <2> HIDE DEF s, t
  <2> QED
    BY <2>2, <2>3, <2>4, <1>2
<1> QED
  BY <1>4, <1>5, <1>6

(* The other steps of a dispatch leave its line as it is.                   *)
LEMMA SameLine ==
  ASSUME TypeOK, LineInOrder, NEW e \in Events, NEW d \in Disp,
         disp' = [disp EXCEPT ![e] = d], d.left = disp[e].left,
         d.pc \in Busy <=> disp[e].pc \in Busy,
         d.pc \in {"idle", "lookup", "before", "add"} => d.attempt = 1
  PROVE  /\ disp' \in [Events -> Disp] /\ disp'[e] = d
         /\ \A f \in Events \ {e} : disp'[f] = disp[f]
         /\ LineInOrder'
         /\ \A p \in Pairs : InLine(p)' <=> InLine(p)
<1>1. disp' \in [Events -> Disp] /\ disp'[e] = d /\ \A f \in Events \ {e} : disp'[f] = disp[f]
  BY DEF TypeOK
<1>2. \A f \in Events : disp'[f].left = disp[f].left
  BY <1>1
<1>3. \A p \in Pairs : p[1] \in Events
  BY DEF Pairs
<1>4. \A p \in Pairs : InLine(p)' <=> InLine(p)
  BY <1>2, <1>3 DEF InLine
<1>5. d.pc \in DispPc /\ disp[e].pc \in DispPc
  BY DEF TypeOK, Disp
<1>6. LineInOrder'
  BY <1>1, <1>2, <1>5 DEF LineInOrder, Busy, DispPc
<1> QED
  BY <1>1, <1>4, <1>6

-----------------------------------------------------------------------------
(* Steps and pairs.                                                        *)

(* What a pair's part of the invariant reads of it, beside the dispatch.    *)
Same(p) ==
  /\ job'[p] = job[p] /\ posts'[p] = posts[p] /\ told'[p] = told[p]
  /\ p \in accepted' <=> p \in accepted
  /\ p \in matched' <=> p \in matched
  /\ p \in skipped' <=> p \in skipped
  /\ p \in retold' <=> p \in retold

LEMMA Untouched ==
  ASSUME NEW p \in Pairs, PairInv(p), Same(p), disp'[p[1]] = disp[p[1]],
         crashes' = 0 => crashes = 0
  PROVE  PairInv(p)'
<1>1. /\ InLine(p)' <=> InLine(p)
      /\ Ahead(p)' <=> Ahead(p)
      /\ Delivering(p)' <=> Delivering(p)
      /\ Tries(p[1])' = Tries(p[1])
      /\ Made(p)' = Made(p)
  BY DEF InLine, Ahead, Delivering, Tries, Made, Same
<1>2. Fresh(p)' /\ Direct(p)'
  BY <1>1 DEF PairInv, Fresh, Direct, Same, Below
<1>3. Jobbed(p)' /\ Bounded(p)' /\ Told(p)'
  BY <1>1 DEF PairInv, Jobbed, Silent, Bounded, Told, Same, Below
<1>4. Accounted(p)'
  BY <1>1 DEF PairInv, Accounted, Same
<1> QED
  BY <1>2, <1>3, <1>4 DEF PairInv

(* A pair whose dispatch moves without delivering it.                       *)
LEMMA Bystander ==
  ASSUME NEW p \in Pairs, PairInv(p), Same(p),
         Ahead(p)' => Ahead(p), ~Delivering(p)', InLine(p)' <=> InLine(p),
         disp'[p[1]].pc \in {"idle", "lookup"} => disp[p[1]].pc \in {"idle", "lookup"},
         crashes' = crashes
  PROVE  PairInv(p)'
<1>1. Fresh(p)' /\ Direct(p)'
  BY DEF PairInv, Fresh, Direct, Same
<1>2. Jobbed(p)' /\ Bounded(p)' /\ Told(p)'
  BY DEF PairInv, Jobbed, Silent, Bounded, Told, Same, Below, Made
<1>3. Accounted(p)'
  BY DEF PairInv, Accounted, Same
<1> QED
  BY <1>1, <1>2, <1>3 DEF PairInv

(* A dispatch that is done with its current webhook and goes on.            *)
LEMMA GoesOn ==
  ASSUME DeliveryInv, NEW e \in Events, disp[e].pc \in Busy, NextWebhook(e),
         NEW c \in Pairs, c = Current(e),
         \A p \in Pairs : p # c => Same(p),
         UNCHANGED <<crashes, matched>>,
         Jobbed(c)', Bounded(c)', Told(c)',
         \/ c \in skipped' \/ told'[c] # {} \/ job'[c].st # "none"
  PROVE  \A p \in Pairs : PairInv(p)'
<1>t. TypeOK /\ LineInOrder
  BY DEF DeliveryInv
<1>c. c \in Pairs /\ c[1] = e /\ c[2] = Head(disp[e].left) /\ InLine(c)
  BY <1>t, CurrentProperties
<1>n. /\ \A f \in Events \ {e} : disp'[f] = disp[f]
      /\ disp'[e].pc \in {"before", "done"}
      /\ \A p \in Pairs : p[1] = e => (InLine(p)' <=> InLine(p) /\ p # c)
      /\ LineInOrder'
  BY <1>t, NextWebhookProperties
<1> SUFFICES ASSUME NEW p \in Pairs PROVE PairInv(p)'
  OBVIOUS
<1>i. PairInv(p)
  BY DEF DeliveryInv
<1>1. CASE p = c
  <2>1. ~InLine(c)' /\ ~Ahead(c)' /\ ~Delivering(c)'
    BY <1>c, <1>n DEF Ahead, Delivering
  <2>2. Fresh(c)' /\ Direct(c)'
    BY <2>1 DEF Fresh, Direct
  <2>3. c \in matched
    BY <1>c DEF DeliveryInv, PairInv, Accounted
  <2>4. Accounted(c)'
    BY <1>c, <1>n, <2>1, <2>3 DEF Accounted
  <2> QED
    BY <2>2, <2>4, <1>1 DEF PairInv
<1>2. CASE p # c /\ p[1] = e
  <2>1. InLine(p)' <=> InLine(p)
    BY <1>2, <1>n
  <2>2. p[2] # c[2]
    BY <1>2, <1>c DEF Pairs
  <2>3. Ahead(p)' => Ahead(p)
    BY <1>2, <1>c, <1>n, <2>1, <2>2 DEF Ahead
  <2>4. ~Delivering(p)'
    BY <1>2, <1>n DEF Delivering
  <2> QED
    BY <1>2, <1>i, <1>n, <2>1, <2>3, <2>4, Bystander
<1>3. CASE p[1] # e
  <2>1. p[1] \in Events /\ p # c
    BY <1>3, <1>c DEF Pairs
  <2> QED
    BY <1>3, <1>i, <1>n, <2>1, Untouched
<1> QED
  BY <1>1, <1>2, <1>3
(* A step of a dispatch that stays with its current webhook.                *)
LEMMA Stays ==
  ASSUME DeliveryInv, NEW e \in Events, disp[e].pc \in Busy,
         NEW d \in Disp, disp' = [disp EXCEPT ![e] = d],
         d.left = disp[e].left, d.pc \in Busy,
         d.pc \in {"before", "add"} => d.attempt = 1 /\ disp[e].pc \in {"before", "add"},
         NEW c \in Pairs, c = Current(e),
         \A p \in Pairs : p # c => Same(p),
         UNCHANGED <<crashes, matched>>,
         PairInv(c)'
  PROVE  \A p \in Pairs : PairInv(p)'
<1>t. TypeOK /\ LineInOrder
  BY DEF DeliveryInv
<1>c. c \in Pairs /\ c[1] = e /\ c[2] = Head(disp[e].left) /\ InLine(c)
  BY <1>t, CurrentProperties
<1>n. /\ disp'[e] = d
      /\ \A f \in Events \ {e} : disp'[f] = disp[f]
      /\ \A p \in Pairs : InLine(p)' <=> InLine(p)
  BY <1>t, SameLine DEF Busy
<1> SUFFICES ASSUME NEW p \in Pairs, p # c PROVE PairInv(p)'
  OBVIOUS
<1>i. PairInv(p)
  BY DEF DeliveryInv
<1>1. CASE p[1] = e
  <2>2. p[2] # c[2]
    BY <1>1, <1>c DEF Pairs
  <2>3. Ahead(p)' => Ahead(p)
    BY <1>1, <1>c, <1>n, <2>2 DEF Ahead, Busy
  <2>4. ~Delivering(p)'
    BY <1>1, <1>c, <1>n, <2>2 DEF Delivering
  <2> QED
    BY <1>1, <1>i, <1>n, <2>3, <2>4, Bystander DEF Busy
<1>2. CASE p[1] # e
  <2>1. p[1] \in Events
    BY DEF Pairs
  <2> QED
    BY <1>2, <1>i, <1>n, <2>1, Untouched
<1> QED
  BY <1>1, <1>2

(* A step of one job.                                                       *)
LEMMA JobKeeps ==
  ASSUME DeliveryInv, NEW p \in Pairs, UNCHANGED <<disp, crashes>>,
         \A q \in Pairs : q # p => Same(q),
         PairInv(p)'
  PROVE  LineInOrder' /\ \A q \in Pairs : PairInv(q)'
<1>1. LineInOrder'
  BY DEF DeliveryInv, LineInOrder
<1>2. ASSUME NEW q \in Pairs, q # p PROVE PairInv(q)'
  BY <1>2, Untouched DEF DeliveryInv
<1> QED
  BY <1>1, <1>2

LEMMA DispChanges ==
  ASSUME NEW d \in Disp, NEW to \in DispPc
  PROVE  /\ [d EXCEPT !.pc = to] \in Disp
         /\ [d EXCEPT !.pc = to].pc = to
         /\ [d EXCEPT !.pc = to].left = d.left
         /\ [d EXCEPT !.pc = to].attempt = d.attempt
  BY DEF Disp

(* What is common to the pair under delivery.                               *)
LEMMA DeliveringProperties ==
  ASSUME DeliveryInv, NEW e \in Events, disp[e].pc \in {"post", "touch", "wait"},
         NEW c \in Pairs, c = Current(e)
  PROVE  /\ c[1] = e /\ c[2] = Head(disp[e].left) /\ InLine(c)
         /\ disp[e] \in Disp /\ Attempts(c[2]) \in Nat
         /\ job[c] = NoJob /\ told[c] = {} /\ c \in matched
         /\ disp[e].attempt \in 1..Attempts(c[2])
         /\ posts[c] \in Seq(Nat)
         /\ Len(posts[c]) <= Tries(e) /\ Below(posts[c], Tries(e))
         /\ disp[e].pc = "wait" => disp[e].attempt < RetryCount[c[2]]
         /\ disp[e].pc = "touch" => c \in accepted
         /\ PairInv(c)
<1>t. TypeOK /\ LineInOrder /\ PairInv(c)
  BY DEF DeliveryInv
<1>1. c[1] = e /\ c[2] = Head(disp[e].left) /\ InLine(c)
  BY <1>t, CurrentProperties DEF Busy
<1>2. Delivering(c)
  BY <1>1 DEF Delivering
<1>3. disp[e] \in Disp /\ Attempts(c[2]) \in Nat /\ posts[c] \in Seq(Nat)
  BY <1>t, AttemptsType DEF TypeOK
<1> QED
  BY <1>t, <1>1, <1>2, <1>3 DEF PairInv, Direct, Accounted

LEMMA OneIsNotBoth ==
  {"error"} # {"delivered", "error"} /\ {"delivered"} # {"delivered", "error"}
<1>1. "delivered" \notin {"error"} /\ "error" \notin {"delivered"}
  OBVIOUS
<1>2. "delivered" \in {"delivered", "error"} /\ "error" \in {"delivered", "error"}
  OBVIOUS
<1> QED
  BY <1>1, <1>2, Zenon

(* What is told without a job, or of one that waits, is one outcome.        *)
LEMMA ToldWithoutJob ==
  ASSUME NEW p \in Pairs, job'[p].st \in {"none", "waiting"},
         told'[p] # {"delivered", "error"}, "delivered" \in told'[p] => p \in accepted'
  PROVE  Told(p)'
  BY DEF Told

(* The catch of a direct attempt.                                           *)
LEMMA AttemptFailsKeeps ==
  ASSUME DeliveryInv, NEW e \in Events, disp[e].pc \in {"post", "touch"}, AttemptFails(e),
         NEW c \in Pairs, c = Current(e),
         UNCHANGED <<job, accepted, matched, skipped, crashes, retold>>,
         \A p \in Pairs : p # c => posts'[p] = posts[p],
         Len(posts'[c]) <= disp[e].attempt, Below(posts'[c], disp[e].attempt),
         posts'[c] # <<>> \/ posts'[c] = posts[c],
         Bounded(c)'
  PROVE  /\ disp' \in [Events -> Disp]
         /\ told' \in [Pairs -> SUBSET {"delivered", "error"}]
         /\ LineInOrder' /\ \A p \in Pairs : PairInv(p)'
<1>t. TypeOK /\ LineInOrder
  BY DEF DeliveryInv
<1>c. /\ c[1] = e /\ c[2] = Head(disp[e].left) /\ InLine(c)
      /\ disp[e] \in Disp /\ Attempts(c[2]) \in Nat
      /\ job[c] = NoJob /\ told[c] = {} /\ c \in matched
      /\ disp[e].attempt \in 1..Attempts(c[2])
      /\ PairInv(c)
  BY DeliveringProperties
<1>1. CASE MoreAttempts(e)
  <2> DEFINE d == [disp[e] EXCEPT !.pc = "wait"]
  <2>1. disp' = [disp EXCEPT ![e] = d] /\ UNCHANGED told
    BY <1>1 DEF AttemptFails, Goto
  <2>2. d \in Disp /\ d.pc = "wait" /\ d.left = disp[e].left /\ d.attempt = disp[e].attempt
    BY <1>c, DispChanges DEF DispPc
  <2>3. disp' \in [Events -> Disp] /\ disp'[e] = d /\ LineInOrder' /\ (InLine(c)' <=> InLine(c))
    BY <1>t, <2>1, <2>2, SameLine DEF Busy
  <2> HIDE DEF d
  <2>4. ~Ahead(c)'
    BY <2>2, <2>3, <1>c DEF Ahead
  <2>5. Direct(c)'
    BY <2>1, <2>2, <2>3, <1>c, <1>1 DEF Direct, Tries, MoreAttempts
  <2>6. Jobbed(c)' /\ Told(c)'
    BY <2>1, <1>c DEF Jobbed, Told, Open, Over, NoJob
  <2>7. Accounted(c)'
    BY <2>2, <2>3, <1>c DEF Accounted
  <2>8. PairInv(c)'
    BY <2>4, <2>5, <2>6, <2>7 DEF PairInv, Fresh
  <2>9. \A p \in Pairs : p # c => Same(p)
    BY <2>1 DEF Same
  <2>10. \A p \in Pairs : PairInv(p)'
    BY <2>1, <2>2, <2>8, <2>9, Stays DEF Busy
  <2> QED
    BY <1>t, <2>1, <2>3, <2>10 DEF TypeOK
<1>2. CASE ~MoreAttempts(e)
  <2>1. NextWebhook(e) /\ told' = [told EXCEPT ![c] = @ \cup {"error"}]
    BY <1>2 DEF AttemptFails, Tell
  <2>2. told' \in [Pairs -> SUBSET {"delivered", "error"}] /\ told'[c] = {"error"}
    BY <2>1, <1>c, <1>t DEF TypeOK
  <2>3. disp' \in [Events -> Disp] /\ LineInOrder'
    BY <1>t, <2>1, NextWebhookProperties DEF Busy
  <2>4. \A p \in Pairs : p # c => Same(p)
    BY <2>1, <1>t DEF Same, TypeOK
  <2>5. Jobbed(c)' /\ Told(c)'
    <3>1. job'[c].st = "none"
      BY <1>c DEF NoJob
    <3>2. told'[c] # {"delivered", "error"} /\ "delivered" \notin told'[c]
      BY <2>2, OneIsNotBoth
    <3>3. Jobbed(c)'
      BY <3>1 DEF Jobbed, Open, Over
    <3> QED
      BY <3>1, <3>2, <3>3, ToldWithoutJob
  <2>6. \A p \in Pairs : PairInv(p)'
    BY <2>1, <2>2, <2>4, <2>5, GoesOn DEF Busy
  <2> QED
    BY <2>2, <2>3, <2>6
<1> QED
  BY <1>1, <1>2

-----------------------------------------------------------------------------
(* The steps of a dispatch.                                                *)

LEMMA BeforeSteps ==
  ASSUME DeliveryInv, NEW e \in Events, NEW c \in Pairs, c = Current(e),
         BeforePasses(e) \/ BeforeCancels(e)
  PROVE  DeliveryInv'
<1>t. TypeOK /\ LineInOrder /\ disp[e].pc = "before" /\ disp[e].attempt = 1
  BY DEF DeliveryInv, LineInOrder, BeforePasses, BeforeCancels
<1>c. c[1] = e /\ c[2] = Head(disp[e].left) /\ InLine(c) /\ disp[e].left # <<>>
  BY <1>t, CurrentProperties DEF Busy
<1>i. /\ PairInv(c) /\ job[c] = NoJob /\ told[c] = {} /\ posts[c] = <<>> /\ c \in matched
      /\ disp[e] \in Disp
  BY <1>c, <1>t DEF DeliveryInv, PairInv, Fresh, Ahead, Accounted, TypeOK
<1>1. CASE BeforePasses(e)
  <2> DEFINE to == IF queueEnabled THEN "add" ELSE "post"
             d == [disp[e] EXCEPT !.pc = to]
  <2>1. disp' = [disp EXCEPT ![e] = d]
    BY <1>1 DEF BeforePasses
  <2>2. d \in Disp /\ d.pc = to /\ d.left = disp[e].left /\ d.attempt = 1
    <3>1. to \in DispPc
      BY DEF DispPc
    <3> HIDE DEF to
    <3> QED
      BY <3>1, <1>t, <1>i, DispChanges
  <2> HIDE DEF d
  <2>3. disp' \in [Events -> Disp] /\ disp'[e] = d /\ LineInOrder' /\ (InLine(c)' <=> InLine(c))
    BY <1>t, <1>c, <2>1, <2>2, SameLine DEF Busy
  <2>4. \A p \in Pairs : Same(p)
    BY <1>1 DEF BeforePasses, Same
  <2>5. Fresh(c)' /\ Direct(c)'
    <3>1. Len(posts'[c]) = 0 /\ \A n : Below(posts'[c], n)
      BY <2>4, <1>i, <1>c, EmptySeq DEF Same, Below
    <3>2. 1 \in 1..Attempts(c[2]) /\ Attempts(c[2]) \in Nat
      BY AttemptsType
    <3> QED
      BY <3>1, <3>2, <2>2, <2>3, <2>4, <1>c, <1>i DEF Fresh, Direct, Tries, Same, Delivering
  <2>6. Jobbed(c)' /\ Bounded(c)' /\ Told(c)'
    BY <2>4, <1>c, <1>i DEF PairInv, Jobbed, Silent, Bounded, Told, Same, NoJob, Open, Over, Below
  <2>7. Accounted(c)'
    BY <2>2, <2>3, <2>4, <1>c, <1>i DEF Accounted, Same
  <2>8. \A p \in Pairs : PairInv(p)'
    <3>1. PairInv(c)' /\ UNCHANGED <<crashes, matched>>
      BY <1>1, <2>5, <2>6, <2>7 DEF PairInv, BeforePasses, bounds
    <3> QED
      BY <3>1, <1>t, <1>c, <2>1, <2>2, <2>4, Stays DEF Busy
  <2> QED
    BY <1>1, <1>t, <2>3, <2>8 DEF DeliveryInv, TypeOK, LineInOrder, BeforePasses, bounds
<1>2. CASE BeforeCancels(e)
  <2>1. NextWebhook(e) /\ skipped' = skipped \cup {c}
        /\ UNCHANGED <<queueEnabled, active, job, bounds, matched, posts, accepted, told, retold>>
    BY <1>2 DEF BeforeCancels
  <2>2. disp' \in [Events -> Disp] /\ LineInOrder'
    BY <2>1, <1>t, NextWebhookProperties DEF Busy
  <2>3. \A p \in Pairs : p # c => Same(p)
    BY <2>1 DEF Same
  <2>4. Jobbed(c)' /\ Bounded(c)' /\ Told(c)'
    BY <2>1, <1>c, <1>i DEF PairInv, Jobbed, Silent, Bounded, Told, Made, Below
  <2>5. \A p \in Pairs : PairInv(p)'
    <3>1. UNCHANGED <<crashes, matched>> /\ c \in skipped'
      BY <2>1 DEF bounds
    <3> QED
      BY <3>1, <1>t, <1>c, <2>1, <2>3, <2>4, GoesOn DEF Busy
  <2> QED
    BY <1>t, <1>c, <2>1, <2>2, <2>5 DEF DeliveryInv, TypeOK, LineInOrder, bounds
<1> QED
  BY <1>1, <1>2

(* A POST, or the refusal of the URL, of the direct way.                    *)
LEMMA DirectTries ==
  ASSUME DeliveryInv, NEW e \in Events, NEW c \in Pairs, c = Current(e),
         DirectBlocked(e) \/ \E ok \in BOOLEAN : DirectPost(e, ok)
  PROVE  DeliveryInv'
<1>t. TypeOK /\ LineInOrder /\ disp[e].pc = "post"
  BY DEF DeliveryInv, DirectBlocked, DirectPost
<1> DEFINE n == disp[e].attempt - 1
<1>i. /\ c[1] = e /\ c[2] = Head(disp[e].left) /\ InLine(c)
      /\ disp[e] \in Disp /\ Attempts(c[2]) \in Nat
      /\ job[c] = NoJob /\ told[c] = {} /\ c \in matched
      /\ disp[e].attempt \in 1..Attempts(c[2]) /\ n \in Nat
      /\ posts[c] \in Seq(Nat)
      /\ Len(posts[c]) <= n /\ Below(posts[c], n)
      /\ PairInv(c)
  BY <1>t, DeliveringProperties DEF Tries
<1>0. CASE DirectBlocked(e)
  <2>1. AttemptFails(e) /\ UNCHANGED <<queueEnabled, active, job, bounds, matched, skipped, posts, accepted, retold>>
    BY <1>0 DEF DirectBlocked
  <2>2. /\ Len(posts'[c]) <= disp[e].attempt /\ Below(posts'[c], disp[e].attempt)
    <3>1. Len(posts[c]) \in Nat /\ posts[c] \in [1..Len(posts[c]) -> Nat]
      BY <1>i, LenProperties
    <3> QED
      BY <3>1, <2>1, <1>i DEF Below
  <2>3. Bounded(c)'
    BY <2>1, <1>i DEF PairInv, Bounded, Below
  <2>4. UNCHANGED crashes
    BY <2>1 DEF bounds
  <2>5. /\ disp' \in [Events -> Disp]
        /\ told' \in [Pairs -> SUBSET {"delivered", "error"}]
        /\ LineInOrder' /\ \A p \in Pairs : PairInv(p)'
    BY <1>t, <2>1, <2>2, <2>3, <2>4, AttemptFailsKeeps
  <2> QED
    BY <1>t, <2>1, <2>5 DEF DeliveryInv, TypeOK, LineInOrder, bounds
<1>1. ASSUME NEW ok \in BOOLEAN, DirectPost(e, ok) PROVE DeliveryInv'
  <2> DEFINE s == Append(posts[c], n)
  <2>1. posts' = [posts EXCEPT ![c] = s]
        /\ UNCHANGED <<queueEnabled, active, job, bounds, matched, skipped, retold>>
    BY <1>1 DEF DirectPost, PostWith
  <2>2. /\ s \in Seq(Nat) /\ s # <<>>
        /\ Len(s) <= disp[e].attempt /\ Below(s, disp[e].attempt)
        /\ Len(s) <= Attempts(c[2]) /\ Below(s, Attempts(c[2]))
        /\ \A i \in DOMAIN s : \A k \in 1..(i - 1) : s[k] < s[i]
    <3>1. Len(posts[c]) \in Nat /\ posts[c] \in [1..Len(posts[c]) -> Nat]
      BY <1>i, LenProperties
    <3>2. \A i \in DOMAIN posts[c] : \A k \in 1..(i - 1) : posts[c][k] < posts[c][i]
      <4>1. job[c].stalls = 0
        BY <1>i DEF NoJob
      <4> QED
        BY <4>1, <1>i DEF PairInv, Bounded
    <3>3. /\ s \in Seq(Nat) /\ s # <<>> /\ Len(s) = Len(posts[c]) + 1
          /\ \A m \in Nat : Below(posts[c], m) /\ n < m => Below(s, m)
          /\ \A i \in DOMAIN s : \A k \in 1..(i - 1) : s[k] < s[i]
      BY <1>i, <3>2, AppendBelow
    <3>4. Below(posts[c], disp[e].attempt) /\ Below(posts[c], Attempts(c[2]))
      <4> HIDE DEF n
      <4>1. n < disp[e].attempt /\ n < Attempts(c[2])
        BY <1>i DEF n
      <4>2. \A i \in DOMAIN posts[c] : posts[c][i] \in Nat
        BY <3>1
      <4> QED
        BY <4>1, <4>2, <1>i DEF Below
    <3>5. Len(s) <= disp[e].attempt /\ Len(s) <= Attempts(c[2]) /\ n < disp[e].attempt /\ n < Attempts(c[2])
      <4>1. Len(s) = Len(posts[c]) + 1
        BY <3>3
      <4> HIDE DEF s
      <4>2. \A l, a, m \in Nat : a >= 1 /\ a <= m /\ l <= a - 1
              => l + 1 <= a /\ l + 1 <= m /\ a - 1 < a /\ a - 1 < m
        OBVIOUS
      <4>3. disp[e].attempt \in Nat /\ disp[e].attempt >= 1 /\ disp[e].attempt <= Attempts(c[2])
        BY <1>i
      <4> QED
        BY <4>1, <4>2, <4>3, <3>1, <1>i
    <3>6. disp[e].attempt \in Nat
      BY <1>i
    <3> HIDE DEF s, n
    <3> QED
      BY <1>i, <3>3, <3>4, <3>5, <3>6
  <2> HIDE DEF s
  <2>3. /\ posts' \in [Pairs -> Seq(Nat)] /\ posts'[c] = s
        /\ \A p \in Pairs : p # c => posts'[p] = posts[p]
    BY <2>1, <2>2, <1>t DEF TypeOK
  <2>4. Bounded(c)'
    BY <2>1, <2>2, <2>3, <1>i DEF Bounded, NoJob
  <2>5. UNCHANGED crashes
    BY <2>1 DEF bounds
  <2>6. CASE ok = TRUE
    <3> DEFINE d == [disp[e] EXCEPT !.pc = "touch"]
    <3>1. accepted' = accepted \cup {c} /\ disp' = [disp EXCEPT ![e] = d] /\ UNCHANGED told
      BY <1>1, <2>6 DEF DirectPost, Goto
    <3>2. d \in Disp /\ d.pc = "touch" /\ d.left = disp[e].left /\ d.attempt = disp[e].attempt
      BY <1>i, DispChanges DEF DispPc
    <3> HIDE DEF d
    <3>3. disp' \in [Events -> Disp] /\ disp'[e] = d /\ LineInOrder' /\ (InLine(c)' <=> InLine(c))
      BY <1>t, <3>1, <3>2, SameLine DEF Busy
    <3>4. \A p \in Pairs : p # c => Same(p)
      BY <3>1, <2>1, <2>3 DEF Same
    <3>5. Fresh(c)' /\ Direct(c)'
      BY <3>1, <3>2, <3>3, <2>1, <2>2, <2>3, <1>i DEF Fresh, Ahead, Direct, Tries
    <3>6. Jobbed(c)' /\ Told(c)'
      BY <3>1, <2>1, <1>i DEF Jobbed, Told, Open, Over, NoJob
    <3>7. Accounted(c)'
      BY <3>2, <3>3, <2>1, <1>i DEF Accounted
    <3>8. \A p \in Pairs : PairInv(p)'
      <4>1. PairInv(c)'
        BY <3>5, <3>6, <3>7, <2>4 DEF PairInv
      <4> QED
        BY <4>1, <1>t, <2>1, <2>5, <3>1, <3>2, <3>4, Stays DEF Busy
    <3> QED
      BY <1>t, <2>1, <2>3, <3>1, <3>3, <3>8 DEF DeliveryInv, TypeOK, LineInOrder, bounds
  <2>7. CASE ok = FALSE
    <3>1. AttemptFails(e) /\ UNCHANGED accepted
      BY <1>1, <2>7 DEF DirectPost
    <3>2. /\ disp' \in [Events -> Disp]
          /\ told' \in [Pairs -> SUBSET {"delivered", "error"}]
          /\ LineInOrder' /\ \A p \in Pairs : PairInv(p)'
      BY <1>t, <2>1, <2>2, <2>3, <2>4, <2>5, <3>1, AttemptFailsKeeps
    <3> QED
      BY <1>t, <2>1, <2>3, <3>1, <3>2 DEF DeliveryInv, TypeOK, LineInOrder, bounds
  <2> QED
    BY <2>6, <2>7
<1> QED
  BY <1>0, <1>1

(* The update of lastTriggeredAt after an accepted POST.                    *)
LEMMA DirectTouches ==
  ASSUME DeliveryInv, NEW e \in Events, NEW c \in Pairs, c = Current(e),
         DirectTouched(e) \/ DirectTouchFails(e)
  PROVE  DeliveryInv'
<1>t. TypeOK /\ LineInOrder /\ disp[e].pc = "touch"
  BY DEF DeliveryInv, DirectTouched, DirectTouchFails
<1>i. /\ job[c] = NoJob /\ told[c] = {} /\ c \in accepted
      /\ disp[e].attempt \in 1..Attempts(c[2])
      /\ Len(posts[c]) <= disp[e].attempt /\ Below(posts[c], disp[e].attempt)
      /\ PairInv(c)
  BY <1>t, DeliveringProperties DEF Tries
<1>1. CASE DirectTouched(e)
  <2>1. /\ told' = [told EXCEPT ![c] = @ \cup {"delivered"}] /\ NextWebhook(e)
        /\ UNCHANGED <<queueEnabled, active, job, bounds, matched, skipped, posts, accepted, retold>>
    BY <1>1 DEF DirectTouched, Tell
  <2>2. told' \in [Pairs -> SUBSET {"delivered", "error"}] /\ told'[c] = {"delivered"}
    BY <2>1, <1>i, <1>t DEF TypeOK
  <2>3. disp' \in [Events -> Disp] /\ LineInOrder'
    BY <2>1, <1>t, NextWebhookProperties DEF Busy
  <2>4. \A p \in Pairs : p # c => Same(p)
    BY <2>1, <1>t DEF Same, TypeOK
  <2>5. Jobbed(c)' /\ Bounded(c)' /\ Told(c)'
    <3>1. Jobbed(c)' /\ Bounded(c)'
      BY <2>1, <1>i DEF PairInv, Jobbed, Bounded, Below, NoJob, Open, Over
    <3>2. c \in accepted'
      BY <2>1, <1>i
    <3>3. told'[c] # {"delivered", "error"} /\ job'[c].st = "none"
      BY <2>1, <2>2, <1>i, OneIsNotBoth DEF NoJob
    <3> QED
      BY <3>1, <3>2, <3>3, ToldWithoutJob
  <2>6. \A p \in Pairs : PairInv(p)'
    <3>1. UNCHANGED <<crashes, matched>> /\ told'[c] # {}
      BY <2>1, <2>2 DEF bounds
    <3> QED
      BY <3>1, <1>t, <2>1, <2>4, <2>5, GoesOn DEF Busy
  <2> QED
    BY <1>t, <2>1, <2>2, <2>3, <2>6 DEF DeliveryInv, TypeOK, LineInOrder, bounds
<1>2. CASE DirectTouchFails(e)
  <2>1. /\ AttemptFails(e) /\ dbFailures < MaxDbFailures /\ dbFailures' = dbFailures + 1
        /\ UNCHANGED <<queueEnabled, active, job, crashes, toggles, matched, skipped, posts, accepted, retold>>
    BY <1>2 DEF DirectTouchFails
  <2>2. Bounded(c)'
    BY <2>1, <1>i DEF PairInv, Bounded, Below
  <2>3. /\ disp' \in [Events -> Disp]
        /\ told' \in [Pairs -> SUBSET {"delivered", "error"}]
        /\ LineInOrder' /\ \A p \in Pairs : PairInv(p)'
    BY <1>t, <1>i, <2>1, <2>2, AttemptFailsKeeps
  <2>4. dbFailures' \in 0..MaxDbFailures
    BY <1>t, <2>1 DEF TypeOK
  <2> QED
    BY <1>t, <2>1, <2>3, <2>4 DEF DeliveryInv, TypeOK, LineInOrder
<1> QED
  BY <1>1, <1>2

(* The wait between two attempts is over.                                   *)
LEMMA DirectWaits ==
  ASSUME DeliveryInv, NEW e \in Events, NEW c \in Pairs, c = Current(e), DirectWaited(e)
  PROVE  DeliveryInv'
<1>t. TypeOK /\ LineInOrder /\ disp[e].pc = "wait"
  BY DEF DeliveryInv, DirectWaited
<1>i. /\ c[1] = e /\ InLine(c) /\ c[2] = Head(disp[e].left)
      /\ disp[e] \in Disp /\ Attempts(c[2]) \in Nat
      /\ job[c] = NoJob /\ told[c] = {} /\ c \in matched
      /\ disp[e].attempt \in 1..Attempts(c[2]) /\ disp[e].attempt < RetryCount[c[2]]
      /\ Len(posts[c]) <= disp[e].attempt /\ Below(posts[c], disp[e].attempt)
      /\ PairInv(c)
  BY <1>t, DeliveringProperties DEF Tries
<1> DEFINE d == [disp[e] EXCEPT !.pc = "post", !.attempt = disp[e].attempt + 1]
<1>1. /\ disp' = [disp EXCEPT ![e] = d]
      /\ UNCHANGED <<queueEnabled, active, job, bounds, matched, skipped, posts, accepted, told, retold>>
  BY DEF DirectWaited
<1>2. d \in Disp /\ d.pc = "post" /\ d.left = disp[e].left /\ d.attempt = disp[e].attempt + 1
  <2>1. \A x \in Disp, n \in Nat : LET y == [x EXCEPT !.pc = "post", !.attempt = n] IN
          y \in Disp /\ y.pc = "post" /\ y.left = x.left /\ y.attempt = n
    BY DEF Disp, DispPc
  <2>2. disp[e].attempt + 1 \in Nat
    BY <1>i
  <2> QED
    BY <1>i, <2>1, <2>2
<1>3. d.attempt \in 1..Attempts(c[2]) /\ d.attempt - 1 = disp[e].attempt
  <2>1. RetryCount[c[2]] <= Attempts(c[2]) /\ RetryCount[c[2]] \in Nat
    BY AttemptsType
  <2> QED
    BY <1>i, <1>2, <2>1
<1> HIDE DEF d
<1>4. disp' \in [Events -> Disp] /\ disp'[e] = d /\ LineInOrder' /\ (InLine(c)' <=> InLine(c))
  BY <1>t, <1>1, <1>2, SameLine DEF Busy
<1>5. Fresh(c)' /\ Direct(c)'
  BY <1>1, <1>2, <1>3, <1>4, <1>i DEF Fresh, Ahead, Direct, Tries, Below
<1>6. Jobbed(c)' /\ Bounded(c)' /\ Told(c)'
  BY <1>1, <1>i DEF PairInv, Jobbed, Bounded, Told, NoJob, Open, Over, Below
<1>7. Accounted(c)'
  BY <1>1, <1>2, <1>4, <1>i DEF Accounted
<1>8. \A p \in Pairs : PairInv(p)'
  <2>1. PairInv(c)' /\ UNCHANGED <<crashes, matched>> /\ \A p \in Pairs : p # c => Same(p)
    BY <1>1, <1>5, <1>6, <1>7 DEF PairInv, Same, bounds
  <2> QED
    BY <2>1, <1>t, <1>1, <1>2, Stays DEF Busy
<1> QED
  BY <1>t, <1>1, <1>4, <1>8 DEF DeliveryInv, TypeOK, LineInOrder, bounds

(* The webhook's job is queued, or the queue refuses it.                    *)
LEMMA QueueSteps ==
  ASSUME DeliveryInv, NEW e \in Events, NEW c \in Pairs, c = Current(e),
         Queued(e) \/ QueueRefuses(e)
  PROVE  DeliveryInv'
<1>t. TypeOK /\ LineInOrder /\ disp[e].pc = "add"
  BY DEF DeliveryInv, Queued, QueueRefuses
<1>c. c[1] = e /\ c[2] = Head(disp[e].left) /\ InLine(c)
  BY <1>t, CurrentProperties DEF Busy
<1>i. PairInv(c) /\ job[c] = NoJob /\ told[c] = {} /\ posts[c] = <<>> /\ NextWebhook(e)
  BY <1>c, <1>t DEF DeliveryInv, PairInv, Fresh, Ahead, Queued, QueueRefuses
<1>n. disp' \in [Events -> Disp] /\ LineInOrder'
  BY <1>i, <1>t, NextWebhookProperties DEF Busy
<1>1. CASE Queued(e)
  <2> DEFINE j == [st |-> "waiting", made |-> 0, stalls |-> 0]
  <2>1. /\ job' = [job EXCEPT ![c] = j]
        /\ UNCHANGED <<queueEnabled, active, bounds, matched, skipped, posts, accepted, told, retold>>
    BY <1>1 DEF Queued
  <2>2. j \in Job /\ j.st = "waiting" /\ j.made = 0 /\ j.stalls = 0
    BY DEF Job, JobState
  <2> HIDE DEF j
  <2>3. /\ job' \in [Pairs -> Job] /\ job'[c] = j
        /\ \A p \in Pairs : job'[p].made <= RetryCount[p[2]] + 1
        /\ \A p \in Pairs : p # c => Same(p)
    <3>1. 0 <= RetryCount[c[2]] + 1
      BY AttemptsType
    <3> QED
      BY <2>1, <2>2, <3>1, <1>t DEF TypeOK, Same
  <2>4. Jobbed(c)' /\ Bounded(c)' /\ Told(c)'
    <3>1. Len(posts'[c]) = 0 /\ posts'[c] = <<>> /\ Attempts(c[2]) \in Nat /\ 0 < Attempts(c[2])
          /\ \A n : Below(posts'[c], n)
      BY <2>1, <1>i, EmptySeq, AttemptsType DEF Below
    <3> QED
      <4>1. Made(c)' = 0 /\ Silent(c)'
        BY <2>1, <2>2, <2>3, <1>i DEF Made, Silent, Over
      <4>2. Jobbed(c)' /\ Bounded(c)'
        BY <3>1, <4>1, <2>1, <2>2, <2>3, <1>i DEF PairInv, Jobbed, Bounded, Over
      <4>3. Told(c)'
        BY <2>1, <2>2, <2>3, <1>i, ToldWithoutJob DEF PairInv, Told
      <4> QED
        BY <4>2, <4>3
  <2>5. \A p \in Pairs : PairInv(p)'
    <3>1. UNCHANGED <<crashes, matched>> /\ job'[c].st # "none"
      BY <2>1, <2>2, <2>3 DEF bounds
    <3> QED
      BY <3>1, <1>t, <1>i, <2>3, <2>4, GoesOn DEF Busy
  <2> QED
    BY <1>t, <1>n, <2>1, <2>3, <2>5 DEF DeliveryInv, TypeOK, LineInOrder, bounds
<1>2. CASE QueueRefuses(e)
  <2>1. /\ skipped' = skipped \cup {c} /\ told' = [told EXCEPT ![c] = @ \cup {"error"}]
        /\ UNCHANGED <<queueEnabled, active, job, bounds, matched, posts, accepted, retold>>
    BY <1>2 DEF QueueRefuses, Tell
  <2>2. told' \in [Pairs -> SUBSET {"delivered", "error"}] /\ told'[c] = {"error"}
    BY <2>1, <1>i, <1>t DEF TypeOK
  <2>3. \A p \in Pairs : p # c => Same(p)
    BY <2>1, <1>t DEF Same, TypeOK
  <2>4. Jobbed(c)' /\ Bounded(c)' /\ Told(c)'
    <3>1. Jobbed(c)' /\ Bounded(c)'
      BY <2>1, <1>i DEF PairInv, Jobbed, Bounded, Below, NoJob, Open, Over
    <3>2. /\ told'[c] # {"delivered", "error"} /\ "delivered" \notin told'[c]
          /\ job'[c].st = "none"
      BY <2>1, <2>2, <1>i, OneIsNotBoth DEF NoJob
    <3> QED
      BY <3>1, <3>2, ToldWithoutJob
  <2>5. \A p \in Pairs : PairInv(p)'
    <3>1. UNCHANGED <<crashes, matched>> /\ told'[c] # {}
      BY <2>1, <2>2 DEF bounds
    <3> QED
      BY <3>1, <1>t, <1>i, <2>3, <2>4, GoesOn DEF Busy
  <2> QED
    BY <1>t, <1>n, <2>1, <2>2, <2>5 DEF DeliveryInv, TypeOK, LineInOrder, bounds
<1> QED
  BY <1>1, <1>2

(* An event is dispatched, and its webhooks are looked up.                  *)
LEMMA LookupSteps ==
  ASSUME DeliveryInv, NEW e \in Events, Dispatch(e) \/ LookupReturns(e) \/ LookupFails(e)
  PROVE  DeliveryInv'
<1>t. TypeOK /\ LineInOrder /\ disp[e].pc \in {"idle", "lookup"} /\ disp[e].left = <<>> /\ disp[e].attempt = 1
  BY DEF DeliveryInv, LineInOrder, Dispatch, LookupReturns, LookupFails
<1>d. disp[e] \in Disp /\ disp[e].attempt = 1 /\ DOMAIN disp[e].left = {}
  <2>1. disp[e] \in Disp
    BY <1>t DEF TypeOK
  <2>2. Len(<<>>) = 0 /\ <<>> \in Seq(Webhooks)
    BY EmptySeq
  <2>3. DOMAIN (<<>>) = 1..0
    BY <2>2
  <2> QED
    BY <1>t, <2>1, <2>3
<1>f. ASSUME NEW p \in Pairs, p[1] = e
      PROVE  /\ PairInv(p) /\ p \notin matched
             /\ job[p] = NoJob /\ told[p] = {} /\ posts[p] = <<>>
  BY <1>f, <1>t DEF DeliveryInv, PairInv, Fresh, Ahead, Accounted
<1>1. CASE Dispatch(e) \/ LookupFails(e)
  <2> DEFINE to == IF disp[e].pc = "idle" THEN "lookup" ELSE "done"
             d == [disp[e] EXCEPT !.pc = to]
  <2>1. /\ disp' = [disp EXCEPT ![e] = d]
        /\ UNCHANGED <<queueEnabled, active, job, bounds, matched, skipped, posts, accepted, told, retold>>
    BY <1>1 DEF Dispatch, LookupFails, Goto
  <2>2. /\ d \in Disp /\ d.pc \in {"lookup", "done"} /\ d.left = disp[e].left
        /\ d.attempt = 1
    <3>1. to \in DispPc /\ to \in {"lookup", "done"}
      BY DEF DispPc
    <3> HIDE DEF to
    <3> QED
      BY <3>1, <1>d, DispChanges
  <2> HIDE DEF d
  <2>3. disp' \in [Events -> Disp] /\ disp'[e] = d /\ LineInOrder'
        /\ (\A f \in Events \ {e} : disp'[f] = disp[f])
        /\ \A p \in Pairs : InLine(p)' <=> InLine(p)
    BY <1>t, <2>1, <2>2, SameLine DEF Busy
  <2>4. ASSUME NEW p \in Pairs PROVE PairInv(p)'
    <3>1. Same(p) /\ crashes' = crashes /\ PairInv(p) /\ p[1] \in Events
      BY <2>1 DEF Same, bounds, DeliveryInv, Pairs
    <3>2. CASE p[1] = e
      <4>1. Ahead(p) /\ ~Delivering(p)'
        BY <3>2, <1>t, <2>2, <2>3 DEF Ahead, Delivering
      <4> QED
        BY <3>1, <3>2, <4>1, <1>t, <2>3, Bystander
    <3>3. CASE p[1] # e
      BY <3>1, <3>3, <2>3, Untouched
    <3> QED
      BY <3>2, <3>3
  <2> QED
    BY <1>t, <2>1, <2>3, <2>4 DEF DeliveryInv, TypeOK, LineInOrder, bounds
<1>2. CASE LookupReturns(e)
  <2> DEFINE s == SetToSeq(active)
             to == IF active = {} THEN "done" ELSE "before"
             d == [disp[e] EXCEPT !.pc = to, !.left = s]
  <2>1. /\ disp' = [disp EXCEPT ![e] = d] /\ matched' = matched \cup ({e} \X active)
        /\ UNCHANGED <<queueEnabled, active, job, bounds, skipped, posts, accepted, told, retold>>
    BY <1>2 DEF LookupReturns
  <2>2. /\ s \in Seq(Webhooks)
        /\ \A i, k \in DOMAIN s : s[i] = s[k] => i = k
        /\ \A w : (\E i \in DOMAIN s : s[i] = w) <=> w \in active
        /\ s = <<>> <=> active = {}
    <3>1. active \subseteq Webhooks /\ IsFiniteSet(active)
      BY <1>t, FS_Subset DEF TypeOK
    <3>2. /\ s \in Seq(active)
          /\ \A i, k \in DOMAIN s : s[i] = s[k] => i = k
          /\ \A x \in active : \E i \in DOMAIN s : s[i] = x
          /\ s = <<>> <=> active = {}
      BY <3>1, SetToSeqProperties
    <3> HIDE DEF s
    <3>3. s \in Seq(Webhooks) /\ \A i \in DOMAIN s : s[i] \in active
      BY <3>1, <3>2, SeqMonotonic, ElementOfSeq, LenProperties
    <3> QED
      BY <3>2, <3>3
  <2>3. /\ d \in Disp /\ d.pc \in {"before", "done"} /\ d.left = s /\ d.attempt = 1
        /\ d.pc = "done" <=> s = <<>>
    <3> HIDE DEF s
    <3>1. to \in DispPc /\ to \in {"before", "done"} /\ (to = "done" <=> s = <<>>)
      BY <2>2 DEF DispPc
    <3> HIDE DEF to
    <3>2. d \in Disp /\ d.pc = to /\ d.left = s /\ d.attempt = 1
      BY <1>d, <2>2, <3>1 DEF Disp
    <3> HIDE DEF d
    <3> QED
      BY <3>1, <3>2
  <2> HIDE DEF d, s
  <2>4. disp' \in [Events -> Disp] /\ disp'[e] = d /\ \A f \in Events \ {e} : disp'[f] = disp[f]
    BY <1>t, <2>1, <2>3 DEF TypeOK
  <2>5. LineInOrder'
    BY <1>t, <2>2, <2>3, <2>4 DEF LineInOrder
  <2>6. ASSUME NEW p \in Pairs, p[1] = e PROVE PairInv(p)'
    <3>1. /\ job'[p] = NoJob /\ told'[p] = {} /\ posts'[p] = <<>>
          /\ crashes' = crashes /\ p = <<e, p[2]>>
      BY <2>1, <2>6, <1>f DEF bounds, Pairs
    <3>2. InLine(p)' <=> p[2] \in active
      <4>1. disp'[p[1]].left = s
        BY <2>3, <2>4, <2>6
      <4> QED
        BY <4>1, <2>2 DEF InLine
    <3>3. p \in matched' <=> p[2] \in active
      BY <2>1, <2>6, <3>1, <1>f
    <3>4. Fresh(p)' /\ Direct(p)'
      BY <2>3, <2>4, <2>6, <3>1 DEF Fresh, Direct, Delivering
    <3>5. Jobbed(p)' /\ Bounded(p)' /\ Told(p)'
      BY <2>1, <2>6, <3>1, <1>f DEF PairInv, Jobbed, Bounded, Told, NoJob, Open, Over, Below
    <3>6. Accounted(p)'
      BY <2>3, <2>4, <2>6, <3>1, <3>2, <3>3 DEF Accounted, NoJob
    <3> QED
      BY <3>4, <3>5, <3>6 DEF PairInv
  <2>7. ASSUME NEW p \in Pairs, p[1] # e PROVE PairInv(p)'
    <3>1. Same(p)
      BY <2>1, <2>7 DEF Same
    <3>2. p[1] \in Events /\ PairInv(p) /\ crashes' = crashes
      BY <2>1 DEF Pairs, DeliveryInv, bounds
    <3> QED
      BY <2>4, <2>7, <3>1, <3>2, Untouched
  <2>8. matched' \in SUBSET Pairs
    BY <1>t, <2>1 DEF TypeOK, Pairs
  <2> QED
    BY <1>t, <2>1, <2>4, <2>5, <2>6, <2>7, <2>8 DEF DeliveryInv, TypeOK, LineInOrder, bounds
<1> QED
  BY <1>1, <1>2

-----------------------------------------------------------------------------
(* The steps of a job.                                                     *)

(* A job that a worker may still run is neither ahead nor delivered by its  *)
(* dispatch.                                                                *)
LEMMA OpenProperties ==
  ASSUME DeliveryInv, NEW p \in Pairs, job[p].st \in Open
  PROVE  /\ job[p] \in Job /\ posts[p] \in Seq(Nat) /\ Attempts(p[2]) \in Nat
         /\ p \in matched /\ PairInv(p)
         /\ job[p].st \notin Over => Silent(p)
         /\ job[p].made < Attempts(p[2]) /\ Attempts(p[2]) <= RetryCount[p[2]] + 1
         /\ ~Ahead(p) /\ ~Delivering(p)
<1>1. PairInv(p) /\ job[p] \in Job /\ posts[p] \in Seq(Nat)
  BY DEF DeliveryInv, TypeOK
<1>2. job[p] # NoJob /\ job[p].st # "none"
  BY DEF Open, Over, NoJob
<1> QED
  BY <1>1, <1>2, AttemptsType DEF PairInv, Fresh, Direct, Jobbed, Accounted

(* The parts of the pair's invariant that a job's step cannot disturb.      *)
LEMMA JobOnly ==
  ASSUME DeliveryInv, NEW p \in Pairs, job[p].st \in Open,
         UNCHANGED <<disp, crashes, matched>>, job'[p].st # "none",
         Jobbed(p)', Bounded(p)', Told(p)',
         \A q \in Pairs : q # p => Same(q)
  PROVE  LineInOrder' /\ \A q \in Pairs : PairInv(q)'
<1>1. p \in matched /\ PairInv(p) /\ ~Ahead(p) /\ ~Delivering(p)
  BY OpenProperties
<1>2. (InLine(p)' <=> InLine(p)) /\ ~Ahead(p)' /\ ~Delivering(p)'
  BY <1>1 DEF InLine, Ahead, Delivering
<1>3. Fresh(p)' /\ Direct(p)'
  BY <1>2 DEF Fresh, Direct
<1>4. Accounted(p)'
  BY <1>1, <1>2 DEF PairInv, Accounted
<1>5. PairInv(p)'
  BY <1>3, <1>4 DEF PairInv
<1> QED
  BY <1>5, JobKeeps

LEMMA StateChanges ==
  ASSUME NEW j \in Job, NEW to \in JobState
  PROVE  LET k == [j EXCEPT !.st = to] IN
         k \in Job /\ k.st = to /\ k.made = j.made /\ k.stalls = j.stalls
  BY DEF Job

(* The catch of a job's attempt.                                            *)
LEMMA JobAttemptFailsKeeps ==
  ASSUME DeliveryInv, NEW p \in Pairs, job[p].st \in {"active", "touch"}, JobAttemptFails(p),
         UNCHANGED <<disp, accepted, matched, skipped, crashes, retold>>,
         \A q \in Pairs : q # p => posts'[q] = posts[q],
         Len(posts'[p]) <= job[p].made + 1 + job[p].stalls,
         job[p].stalls = 0 => Below(posts'[p], job[p].made + 1),
         job'[p].stalls = job[p].stalls => Bounded(p)'
  PROVE  /\ job' \in [Pairs -> Job] /\ \A q \in Pairs : job'[q].made <= RetryCount[q[2]] + 1
         /\ told' \in [Pairs -> SUBSET {"delivered", "error"}]
         /\ LineInOrder' /\ \A q \in Pairs : PairInv(q)'
<1>t. TypeOK
  BY DEF DeliveryInv
<1>o. /\ job[p] \in Job /\ Silent(p) /\ PairInv(p) /\ job[p].made < Attempts(p[2])
      /\ job[p].made + 1 \in Nat /\ RetryCount[p[2]] \in Nat
  BY OpenProperties, AttemptsType DEF Open, Over, Job
<1> DEFINE j     == [job[p] EXCEPT !.st = "failing"]
           final == job[p].made + 1 >= RetryCount[p[2]]
<1>1. /\ job' = [job EXCEPT ![p] = j]
      /\ IF final THEN Tell(p, "error") ELSE UNCHANGED told
  BY DEF JobAttemptFails, Works
<1>2. j \in Job /\ j.st = "failing" /\ j.made = job[p].made /\ j.stalls = job[p].stalls
  BY <1>o, StateChanges DEF JobState
<1> HIDE DEF j
<1>3. /\ job' \in [Pairs -> Job] /\ job'[p] = j
      /\ \A q \in Pairs : job'[q].made <= RetryCount[q[2]] + 1
      /\ \A q \in Pairs : q # p => job'[q] = job[q]
  BY <1>t, <1>1, <1>2 DEF TypeOK
<1>4. /\ told' \in [Pairs -> SUBSET {"delivered", "error"}]
      /\ \A q \in Pairs : q # p => told'[q] = told[q]
      /\ final => told'[p] = told[p] \cup {"error"}
      /\ ~final => told'[p] = told[p]
  <2> HIDE DEF final
  <2>1. CASE final
    <3>1. told' = [told EXCEPT ![p] = @ \cup {"error"}]
      BY <2>1, <1>1 DEF Tell
    <3> QED
      BY <2>1, <3>1, <1>t DEF TypeOK
  <2>2. CASE ~final
    BY <2>2, <1>1, <1>t DEF TypeOK
  <2> QED
    BY <2>1, <2>2
<1>5. \A q \in Pairs : q # p => Same(q)
  BY <1>3, <1>4 DEF Same
<1>6. Told(p)'
  <2>1. told'[p] = {"delivered", "error"} => p \in retold'
    <3>1. CASE told[p] = {}
      BY <3>1, <1>4, OneIsNotBoth
    <3>2. CASE p \in retold
      BY <3>2
    <3> QED
      BY <3>1, <3>2, <1>o DEF Silent
  <2>2. "delivered" \in told'[p] => p \in accepted'
    BY <1>4, <1>o DEF PairInv, Told
  <2>3. job'[p].st = "failing" /\ job'[p].made = job[p].made
    BY <1>2, <1>3
  <2>4. final => "error" \in told'[p]
    BY <1>4
  <2> QED
    BY <2>1, <2>2, <2>3, <2>4 DEF Told
<1>7. Jobbed(p)'
  <2>1. job'[p].st = "failing" /\ job'[p].made = job[p].made /\ job'[p].stalls = job[p].stalls
    BY <1>2, <1>3
  <2>2. Made(p)' = job[p].made + 1
    BY <2>1 DEF Made, Over
  <2>3. job'[p].made + 1 < RetryCount[p[2]] => Silent(p)'
    BY <2>1, <1>o, <1>4 DEF Silent
  <2> QED
    BY <2>1, <2>2, <2>3, <1>o DEF Jobbed, Over
<1>8. LineInOrder' /\ \A q \in Pairs : PairInv(q)'
  <2>1. job'[p].st # "none" /\ job[p].st \in Open /\ Bounded(p)'
    BY <1>2, <1>3 DEF Open
  <2> QED
    BY <2>1, <1>5, <1>6, <1>7, JobOnly
<1> QED
  BY <1>3, <1>4, <1>8

(* A worker takes a job.                                                    *)
LEMMA JobTakes ==
  ASSUME DeliveryInv, NEW p \in Pairs, JobTaken(p)
  PROVE  DeliveryInv'
<1>t. TypeOK /\ job[p].st = "waiting" /\ job[p].st \in Open
  BY DEF DeliveryInv, JobTaken, Open
<1>o. job[p] \in Job /\ PairInv(p)
  BY <1>t, OpenProperties
<1> DEFINE j == [job[p] EXCEPT !.st = "active"]
<1>1. /\ job' = [job EXCEPT ![p] = j]
      /\ UNCHANGED <<queueEnabled, active, disp, bounds, matched, skipped, posts, accepted, told, retold>>
  BY DEF JobTaken, Works
<1>2. j \in Job /\ j.st = "active" /\ j.made = job[p].made /\ j.stalls = job[p].stalls
  BY <1>o, StateChanges DEF JobState
<1> HIDE DEF j
<1>3. /\ job' \in [Pairs -> Job] /\ job'[p] = j
      /\ \A q \in Pairs : job'[q].made <= RetryCount[q[2]] + 1
      /\ \A q \in Pairs : q # p => Same(q)
  BY <1>t, <1>1, <1>2 DEF TypeOK, Same
<1>4. Jobbed(p)' /\ Bounded(p)' /\ Told(p)'
  BY <1>t, <1>o, <1>1, <1>2, <1>3 DEF PairInv, Jobbed, Silent, Made, Bounded, Told, Below, Open, Over
<1>5. LineInOrder' /\ \A q \in Pairs : PairInv(q)'
  BY <1>t, <1>1, <1>2, <1>3, <1>4, JobOnly DEF bounds
<1> QED
  BY <1>t, <1>1, <1>3, <1>5 DEF DeliveryInv, TypeOK, LineInOrder, bounds

(* The update of lastTriggeredAt after a job's accepted POST.               *)
LEMMA JobTouches ==
  ASSUME DeliveryInv, NEW p \in Pairs, JobTouched(p) \/ JobTouchFails(p)
  PROVE  DeliveryInv'
<1>t. TypeOK /\ LineInOrder /\ job[p].st = "touch" /\ job[p].st \in Open
  BY DEF DeliveryInv, JobTouched, JobTouchFails, Open
<1>o. /\ job[p] \in Job /\ PairInv(p) /\ Silent(p) /\ p \in accepted
      /\ Len(posts[p]) <= job[p].made + 1 + job[p].stalls
      /\ job[p].stalls = 0 => Below(posts[p], job[p].made + 1)
  BY <1>t, OpenProperties DEF PairInv, Jobbed, Made, Over
<1>1. CASE JobTouched(p)
  <2> DEFINE j == [job[p] EXCEPT !.st = "telling"]
  <2>1. /\ job' = [job EXCEPT ![p] = j] /\ told' = [told EXCEPT ![p] = @ \cup {"delivered"}]
        /\ UNCHANGED <<queueEnabled, active, disp, bounds, matched, skipped, posts, accepted, retold>>
    BY <1>1 DEF JobTouched, Works, Tell
  <2>2. j \in Job /\ j.st = "telling" /\ j.made = job[p].made /\ j.stalls = job[p].stalls
    BY <1>o, StateChanges DEF JobState
  <2> HIDE DEF j
  <2>3. /\ job' \in [Pairs -> Job] /\ job'[p] = j
        /\ \A q \in Pairs : job'[q].made <= RetryCount[q[2]] + 1
        /\ told' \in [Pairs -> SUBSET {"delivered", "error"}] 
        /\ told'[p] = told[p] \cup {"delivered"}
        /\ \A q \in Pairs : q # p => Same(q)
    BY <1>t, <1>o, <2>1, <2>2 DEF TypeOK, Same
  <2>4. Jobbed(p)' /\ Bounded(p)'
    <3>1. Made(p)' = job[p].made + 1
      BY <2>2, <2>3 DEF Made, Over
    <3> QED
      BY <1>t, <1>o, <2>1, <2>2, <2>3, <3>1 DEF PairInv, Jobbed, Bounded, Below, Over
  <2>5. Told(p)'
    <3>1. told'[p] = {"delivered", "error"} => p \in retold'
      <4>1. CASE told[p] = {}
        BY <4>1, <2>3, OneIsNotBoth
      <4>2. CASE p \in retold
        BY <4>2, <2>1
      <4> QED
        BY <4>1, <4>2, <1>o DEF Silent
    <3> QED
      BY <3>1, <1>o, <2>1, <2>2, <2>3 DEF Told
  <2>6. LineInOrder' /\ \A q \in Pairs : PairInv(q)'
    BY <1>t, <2>1, <2>2, <2>3, <2>4, <2>5, JobOnly DEF bounds
  <2> QED
    BY <1>t, <2>1, <2>3, <2>6 DEF DeliveryInv, TypeOK, LineInOrder, bounds
<1>2. CASE JobTouchFails(p)
  <2>1. /\ JobAttemptFails(p) /\ dbFailures < MaxDbFailures /\ dbFailures' = dbFailures + 1
        /\ UNCHANGED <<queueEnabled, active, disp, crashes, toggles, matched, skipped, posts, accepted, retold>>
    BY <1>2 DEF JobTouchFails
  <2>2. job'[p].stalls = job[p].stalls => Bounded(p)'
    BY <2>1, <1>o DEF PairInv, Bounded, Below
  <2>3. /\ job' \in [Pairs -> Job] /\ \A q \in Pairs : job'[q].made <= RetryCount[q[2]] + 1
        /\ told' \in [Pairs -> SUBSET {"delivered", "error"}]
        /\ LineInOrder' /\ \A q \in Pairs : PairInv(q)'
    BY <1>t, <1>o, <2>1, <2>2, JobAttemptFailsKeeps
  <2>4. dbFailures' \in 0..MaxDbFailures
    BY <1>t, <2>1 DEF TypeOK
  <2> QED
    BY <1>t, <2>1, <2>3, <2>4 DEF DeliveryInv, TypeOK, LineInOrder
<1> QED
  BY <1>1, <1>2

(* A POST, or the refusal of the URL, of a job.                             *)
LEMMA JobTries ==
  ASSUME DeliveryInv, NEW p \in Pairs, JobBlocked(p) \/ \E ok \in BOOLEAN : JobPost(p, ok)
  PROVE  DeliveryInv'
<1>t. TypeOK /\ LineInOrder /\ job[p].st = "active" /\ job[p].st \in Open
  BY DEF DeliveryInv, JobBlocked, JobPost, Open
<1>o. /\ job[p] \in Job /\ PairInv(p) /\ Silent(p) /\ posts[p] \in Seq(Nat) /\ Attempts(p[2]) \in Nat
      /\ Len(posts[p]) <= job[p].made + job[p].stalls
      /\ job[p].stalls = 0 => Below(posts[p], job[p].made)
      /\ job[p].made < Attempts(p[2]) /\ job[p].made \in Nat /\ job[p].stalls \in Nat
      /\ Len(posts[p]) \in Nat /\ posts[p] \in [1..Len(posts[p]) -> Nat]
  <2>1. job[p] \in Job /\ PairInv(p) /\ Silent(p) /\ posts[p] \in Seq(Nat) /\ Attempts(p[2]) \in Nat
    BY <1>t, OpenProperties DEF Over
  <2>2. Len(posts[p]) \in Nat /\ posts[p] \in [1..Len(posts[p]) -> Nat]
    BY <2>1, LenProperties
  <2> QED
    BY <1>t, <2>1, <2>2 DEF PairInv, Jobbed, Made, Job, Over
<1>1. CASE JobBlocked(p)
  <2>1. /\ JobAttemptFails(p)
        /\ UNCHANGED <<queueEnabled, active, disp, bounds, matched, skipped, posts, accepted, retold>>
    BY <1>1 DEF JobBlocked
  <2>2. job'[p].stalls = job[p].stalls => Bounded(p)'
    BY <2>1, <1>o DEF PairInv, Bounded, Below
  <2>3. /\ Len(posts'[p]) <= job[p].made + 1 + job[p].stalls
        /\ job[p].stalls = 0 => Below(posts'[p], job[p].made + 1)
    <3>1. posts'[p] = posts[p]
      BY <2>1
    <3>2. \A i \in DOMAIN posts[p] : posts[p][i] \in Nat
      BY <1>o
    <3>3. job[p].stalls = 0 => Below(posts[p], job[p].made + 1)
      BY <3>2, <1>o DEF Below
    <3>4. Len(posts[p]) <= job[p].made + 1 + job[p].stalls
      <4>1. \A l, m, t \in Nat : l <= m + t => l <= m + 1 + t
        OBVIOUS
      <4> QED
        BY <4>1, <1>o
    <3> QED
      BY <3>1, <3>3, <3>4
  <2>4. UNCHANGED crashes
    BY <2>1 DEF bounds
  <2>5. /\ job' \in [Pairs -> Job] /\ \A q \in Pairs : job'[q].made <= RetryCount[q[2]] + 1
        /\ told' \in [Pairs -> SUBSET {"delivered", "error"}]
        /\ LineInOrder' /\ \A q \in Pairs : PairInv(q)'
    BY <1>t, <2>1, <2>2, <2>3, <2>4, JobAttemptFailsKeeps
  <2> QED
    BY <1>t, <2>1, <2>5 DEF DeliveryInv, TypeOK, LineInOrder, bounds
<1>2. ASSUME NEW ok \in BOOLEAN, JobPost(p, ok) PROVE DeliveryInv'
  <2> DEFINE s == Append(posts[p], job[p].made)
  <2>1. posts' = [posts EXCEPT ![p] = s]
        /\ UNCHANGED <<queueEnabled, active, disp, bounds, matched, skipped, retold>>
    BY <1>2 DEF JobPost, PostWith
  <2>2. /\ s \in Seq(Nat) /\ s # <<>>
        /\ Len(s) <= job[p].made + 1 + job[p].stalls
        /\ job[p].stalls = 0 => Below(s, job[p].made + 1)
        /\ Len(s) <= Attempts(p[2]) + job[p].stalls /\ Below(s, Attempts(p[2]))
        /\ job[p].stalls = 0 => \A i \in DOMAIN s : \A k \in 1..(i - 1) : s[k] < s[i]
    <3>1. /\ s \in Seq(Nat) /\ s # <<>> /\ Len(s) = Len(posts[p]) + 1
          /\ \A m \in Nat : Below(posts[p], m) /\ job[p].made < m => Below(s, m)
          /\ Below(posts[p], job[p].made)
             /\ (\A i \in DOMAIN posts[p] : \A k \in 1..(i - 1) : posts[p][k] < posts[p][i])
               => \A i \in DOMAIN s : \A k \in 1..(i - 1) : s[k] < s[i]
      BY <1>o, AppendBelow
    <3> HIDE DEF s
    <3>2. Below(s, Attempts(p[2]))
      BY <3>1, <1>o DEF PairInv, Bounded
    <3>3. job[p].stalls = 0 => \A i \in DOMAIN s : \A k \in 1..(i - 1) : s[k] < s[i]
      BY <3>1, <1>o DEF PairInv, Bounded
    <3>4. job[p].stalls = 0 => Below(s, job[p].made + 1)
      <4>1. job[p].stalls = 0 => Below(posts[p], job[p].made + 1)
        BY <1>o DEF Below
      <4>2. job[p].made + 1 \in Nat /\ job[p].made < job[p].made + 1
        BY <1>o
      <4> QED
        BY <4>1, <4>2, <3>1
    <3>5. Len(s) <= job[p].made + 1 + job[p].stalls /\ Len(s) <= Attempts(p[2]) + job[p].stalls
      <4>1. \A l, m, t, a \in Nat : l <= m + t /\ m < a => l + 1 <= m + 1 + t /\ l + 1 <= a + t
        OBVIOUS
      <4>2. Len(s) = Len(posts[p]) + 1
        BY <3>1
      <4> QED
        BY <4>1, <4>2, <1>o, SMTT(30)
    <3> QED
      BY <3>1, <3>2, <3>3, <3>4, <3>5
  <2> HIDE DEF s
  <2>3. /\ posts' \in [Pairs -> Seq(Nat)] /\ posts'[p] = s
        /\ \A q \in Pairs : q # p => posts'[q] = posts[q]
    BY <2>1, <2>2, <1>t DEF TypeOK
  <2>4. job'[p].stalls = job[p].stalls => Bounded(p)'
    BY <2>1, <2>2, <2>3 DEF Bounded
  <2>5. UNCHANGED crashes
    BY <2>1 DEF bounds
  <2>6. CASE ok = TRUE
    <3> DEFINE j == [job[p] EXCEPT !.st = "touch"]
    <3>1. accepted' = accepted \cup {p} /\ job' = [job EXCEPT ![p] = j] /\ UNCHANGED told
      BY <1>2, <2>6 DEF JobPost, Works
    <3>2. j \in Job /\ j.st = "touch" /\ j.made = job[p].made /\ j.stalls = job[p].stalls
      BY <1>o, StateChanges DEF JobState
    <3> HIDE DEF j
    <3>3. /\ job' \in [Pairs -> Job] /\ job'[p] = j
          /\ \A q \in Pairs : job'[q].made <= RetryCount[q[2]] + 1
          /\ \A q \in Pairs : q # p => Same(q)
      BY <1>t, <3>1, <3>2, <2>1, <2>3 DEF TypeOK, Same
    <3>4. Jobbed(p)'
      <4>1. Made(p)' = job[p].made + 1
        BY <3>2, <3>3 DEF Made
      <4>2. Silent(p)'
        BY <3>1, <2>1, <1>o DEF Silent
      <4> QED
        BY <4>1, <4>2, <3>1, <3>2, <3>3, <2>2, <2>3, <1>o DEF Jobbed
    <3>5. Told(p)' /\ Bounded(p)'
      BY <3>1, <3>2, <3>3, <2>1, <2>4, <1>o DEF PairInv, Told
    <3>6. LineInOrder' /\ \A q \in Pairs : PairInv(q)'
      <4>1. UNCHANGED <<disp, crashes, matched>> /\ job'[p].st # "none"
        BY <2>1, <2>5, <3>2, <3>3
      <4> QED
        BY <4>1, <1>t, <3>3, <3>4, <3>5, JobOnly
    <3> QED
      BY <1>t, <2>1, <2>3, <3>1, <3>3, <3>6 DEF DeliveryInv, TypeOK, LineInOrder, bounds
  <2>7. CASE ok = FALSE
    <3>1. JobAttemptFails(p) /\ UNCHANGED accepted
      BY <1>2, <2>7 DEF JobPost
    <3>2. /\ Len(posts'[p]) <= job[p].made + 1 + job[p].stalls
          /\ job[p].stalls = 0 => Below(posts'[p], job[p].made + 1)
      BY <2>2, <2>3
    <3>3. /\ job' \in [Pairs -> Job] /\ \A q \in Pairs : job'[q].made <= RetryCount[q[2]] + 1
          /\ told' \in [Pairs -> SUBSET {"delivered", "error"}]
          /\ LineInOrder' /\ \A q \in Pairs : PairInv(q)'
      BY <1>t, <2>1, <2>3, <2>4, <2>5, <3>1, <3>2, JobAttemptFailsKeeps
    <3> QED
      BY <1>t, <2>1, <2>3, <3>1, <3>3 DEF DeliveryInv, TypeOK, LineInOrder, bounds
  <2> QED
    BY <2>6, <2>7
<1> QED
  BY <1>1, <1>2

(* BullMQ records the outcome of an attempt that is over.                   *)
LEMMA JobRecorded ==
  ASSUME DeliveryInv, NEW p \in Pairs, JobCompletes(p) \/ JobFailureCounted(p)
  PROVE  DeliveryInv'
<1>t. TypeOK /\ LineInOrder /\ job[p].st \in Over /\ job[p].st \in Open
  BY DEF DeliveryInv, JobCompletes, JobFailureCounted, Open, Over
<1>o. /\ job[p] \in Job /\ PairInv(p) /\ job[p].made + 1 \in Nat /\ RetryCount[p[2]] \in Nat
      /\ job[p].made < Attempts(p[2]) /\ Attempts(p[2]) \in Nat
      /\ RetryCount[p[2]] <= Attempts(p[2]) /\ Attempts(p[2]) <= RetryCount[p[2]] + 1
      /\ Len(posts[p]) <= job[p].made + 1 + job[p].stalls
      /\ job[p].stalls = 0 => Below(posts[p], job[p].made + 1)
  BY <1>t, OpenProperties, AttemptsType DEF PairInv, Jobbed, Made, Over, Job
<1>u. UNCHANGED <<queueEnabled, active, disp, bounds, matched, skipped, posts, accepted, told, retold>>
  BY DEF JobCompletes, JobFailureCounted
<1> SUFFICES ASSUME NEW j \in Job, job' = [job EXCEPT ![p] = j], j.made <= RetryCount[p[2]] + 1,
                    j.stalls = job[p].stalls, j.st # "none", Jobbed(p)', Told(p)'
             PROVE  DeliveryInv'
  <2>1. CASE JobCompletes(p)
    <3> DEFINE j == [job[p] EXCEPT !.st = "completed"]
    <3>1. job' = [job EXCEPT ![p] = j] /\ job[p].st = "telling"
      BY <2>1 DEF JobCompletes, Works
    <3>2. j \in Job /\ j.st = "completed" /\ j.made = job[p].made /\ j.stalls = job[p].stalls
      BY <1>o, StateChanges DEF JobState
    <3> HIDE DEF j
    <3>3. job'[p] = j /\ j.made <= RetryCount[p[2]] + 1
      BY <1>t, <3>1, <3>2 DEF TypeOK
    <3>4. Jobbed(p)'
      BY <3>2, <3>3 DEF Jobbed, Open, Over
    <3>5. Told(p)'
      BY <1>o, <1>u, <3>1, <3>2, <3>3 DEF PairInv, Told
    <3> QED
      BY <3>1, <3>2, <3>3, <3>4, <3>5
  <2>2. CASE JobFailureCounted(p)
    <3> DEFINE made == job[p].made + 1
               to   == IF made < RetryCount[p[2]] THEN "waiting" ELSE "failed"
               j    == [job[p] EXCEPT !.made = made, !.st = to]
    <3>1. job' = [job EXCEPT ![p] = j] /\ job[p].st = "failing"
      BY <2>2 DEF JobFailureCounted
    <3>2. /\ made \in Nat /\ made = job[p].made + 1 /\ made <= RetryCount[p[2]] + 1
          /\ made < RetryCount[p[2]] => made < Attempts(p[2])
      BY <1>o DEF Job
    <3>3. /\ to \in JobState
          /\ to = "waiting" \/ to = "failed"
          /\ to = "waiting" => made < RetryCount[p[2]]
          /\ to = "failed" => made >= RetryCount[p[2]]
      BY <1>o DEF JobState
    <3> HIDE DEF made, to
    <3>4. j \in Job /\ j.st = to /\ j.made = made /\ j.stalls = job[p].stalls
      BY <1>o, <3>2, <3>3 DEF Job
    <3> HIDE DEF j
    <3>5. job'[p] = j
      BY <1>t, <3>1 DEF TypeOK
    <3>6. CASE to = "waiting"
      <4>1. /\ job'[p].st = "waiting" /\ job'[p].made = made /\ job'[p].stalls = job[p].stalls
            /\ made < RetryCount[p[2]]
        BY <3>3, <3>4, <3>5, <3>6
      <4>2. Silent(p)'
        BY <1>o, <1>t, <1>u, <3>1, <3>2, <4>1 DEF PairInv, Jobbed, Silent
      <4>3. Made(p)' = made
        BY <4>1 DEF Made, Over
      <4>4. Jobbed(p)'
        BY <1>o, <1>u, <3>2, <4>1, <4>2, <4>3 DEF Jobbed
      <4>5. Told(p)'
        BY <1>o, <1>u, <4>1 DEF PairInv, Told
      <4> QED
        BY <3>1, <3>2, <3>4, <4>1, <4>4, <4>5, <3>6
    <3>7. CASE to = "failed"
      <4>1. job'[p].st = "failed" /\ job[p].made + 1 >= RetryCount[p[2]]
        BY <3>2, <3>3, <3>4, <3>5, <3>7
      <4>2. Jobbed(p)'
        BY <4>1 DEF Jobbed, Open, Over
      <4>3. Told(p)'
        BY <1>o, <1>u, <3>1, <4>1 DEF PairInv, Told
      <4> QED
        BY <3>1, <3>2, <3>4, <4>2, <4>3, <3>7
    <3> QED
      BY <3>3, <3>6, <3>7
  <2> QED
    BY <2>1, <2>2
<1>1. /\ job' \in [Pairs -> Job] /\ job'[p] = j
      /\ \A q \in Pairs : job'[q].made <= RetryCount[q[2]] + 1
      /\ \A q \in Pairs : q # p => Same(q)
  BY <1>t, <1>u DEF TypeOK, Same
<1>2. Bounded(p)'
  BY <1>o, <1>u, <1>1 DEF PairInv, Bounded, Below
<1>3. LineInOrder' /\ \A q \in Pairs : PairInv(q)'
  BY <1>t, <1>u, <1>1, <1>2, JobOnly DEF bounds
<1> QED
  BY <1>t, <1>u, <1>1, <1>3 DEF DeliveryInv, TypeOK, LineInOrder, bounds

-----------------------------------------------------------------------------
(* The other steps.                                                        *)

LEMMA ToggleKeeps ==
  ASSUME DeliveryInv, NEW w \in Webhooks, Toggle(w)
  PROVE  DeliveryInv'
<1>1. TypeOK' /\ LineInOrder'
  BY DEF DeliveryInv, TypeOK, LineInOrder, Toggle
<1>2. ASSUME NEW p \in Pairs PROVE PairInv(p)'
  <2>1. Same(p) /\ disp' = disp /\ crashes' = crashes /\ PairInv(p)
    BY DEF DeliveryInv, Same, Toggle
  <2> QED
    BY <2>1, Untouched
<1> QED
  BY <1>1, <1>2 DEF DeliveryInv

(* The end of the process takes the dispatches along and leaves the jobs,   *)
(* with a stall more for those a worker had.                                *)
LEMMA CrashKeeps ==
  ASSUME DeliveryInv, Crash
  PROVE  DeliveryInv'
<1>t. TypeOK /\ LineInOrder
  BY DEF DeliveryInv
<1>u. /\ crashes < MaxCrashes /\ crashes' = crashes + 1
      /\ UNCHANGED <<queueEnabled, active, dbFailures, toggles, matched, skipped, posts, accepted, told>>
      /\ retold' = retold \cup {p \in Pairs : job[p].st \in Held /\ told[p] # {}}
  BY DEF Crash
<1>1. ASSUME NEW e \in Events
      PROVE  /\ disp'[e] \in Disp
             /\ disp[e].pc = "idle" => disp'[e] = disp[e]
             /\ disp[e].pc # "idle" => disp'[e].pc = "done" /\ disp'[e].left = <<>>
  <2>1. disp[e] \in Disp /\ <<>> \in Seq(Webhooks)
    BY <1>t DEF TypeOK
  <2>2. \A x \in Disp : LET y == [x EXCEPT !.pc = "done", !.left = <<>>] IN
           y \in Disp /\ y.pc = "done" /\ y.left = <<>>
    BY <2>1 DEF Disp, DispPc
  <2>3. disp'[e] = IF disp[e].pc = "idle" THEN disp[e]
                   ELSE [disp[e] EXCEPT !.pc = "done", !.left = <<>>]
    BY DEF Crash
  <2> QED
    BY <2>1, <2>2, <2>3
<1>2. disp' \in [Events -> Disp] /\ LineInOrder'
  <2>1. disp' \in [Events -> Disp]
    BY <1>1 DEF Crash
  <2>2. ASSUME NEW e \in Events
        PROVE  /\ \A i, k \in DOMAIN disp'[e].left : disp'[e].left[i] = disp'[e].left[k] => i = k
               /\ disp'[e].left = <<>> <=> disp'[e].pc \in {"idle", "lookup", "done"}
               /\ disp'[e].pc \in {"idle", "lookup", "before", "add"} => disp'[e].attempt = 1
    <3>1. CASE disp[e].pc = "idle"
      BY <3>1, <1>1, <1>t DEF LineInOrder
    <3>2. CASE disp[e].pc # "idle"
      <4>1. DOMAIN (<<>>) = {}
        BY EmptySeq, LenProperties
      <4> QED
        BY <3>2, <4>1, <1>1
    <3> QED
      BY <3>1, <3>2
  <2> QED
    BY <2>1, <2>2 DEF LineInOrder
<1>3. ASSUME NEW p \in Pairs
      PROVE  /\ job'[p] \in Job /\ job'[p].made = job[p].made
             /\ job[p].st \notin Held => job'[p] = job[p]
             /\ job[p].st \in Held =>
                  \/ job'[p].st = "waiting" /\ job'[p].stalls = job[p].stalls + 1
                  \/ job'[p].st = "stalled" /\ job'[p].stalls = job[p].stalls
  <2>1. job[p] \in Job /\ job[p].stalls + 1 \in Nat /\ {"waiting", "stalled"} \subseteq JobState
    BY <1>t DEF TypeOK, Job, JobState
  <2>2. job'[p] = Stalled(job[p])
    BY DEF Crash
  <2>3. CASE job[p].st \notin Held
    BY <2>1, <2>2, <2>3 DEF Stalled
  <2>4. CASE job[p].st \in Held /\ job[p].stalls < MaxStalls
    <3>1. job'[p] = [job[p] EXCEPT !.st = "waiting", !.stalls = job[p].stalls + 1]
      BY <2>2, <2>4 DEF Stalled
    <3>2. /\ job'[p] \in Job /\ job'[p].st = "waiting" /\ job'[p].made = job[p].made
          /\ job'[p].stalls = job[p].stalls + 1
      BY <2>1, <3>1 DEF Job
    <3> QED
      BY <2>4, <3>2
  <2>5. CASE job[p].st \in Held /\ ~(job[p].stalls < MaxStalls)
    <3>1. job'[p] = [job[p] EXCEPT !.st = "stalled"]
      BY <2>2, <2>5 DEF Stalled
    <3> QED
      BY <2>1, <2>5, <3>1, StateChanges
  <2> QED
    BY <2>3, <2>4, <2>5
<1>4. job' \in [Pairs -> Job] /\ \A p \in Pairs : job'[p].made <= RetryCount[p[2]] + 1
  BY <1>3, <1>t DEF Crash, TypeOK
<1>5. ASSUME NEW p \in Pairs PROVE PairInv(p)'
  <2>1. PairInv(p) /\ p[1] \in Events /\ job[p] \in Job /\ Attempts(p[2]) \in Nat /\ Len(posts[p]) \in Nat
    BY <1>t, LenProperties, AttemptsType DEF DeliveryInv, Pairs, TypeOK
  <2>2. ~InLine(p)' /\ ~Delivering(p)' /\ (Ahead(p)' => disp[p[1]].pc = "idle" /\ Ahead(p))
    <3>1. CASE disp[p[1]].pc = "idle"
      <4>1. disp'[p[1]] = disp[p[1]] /\ disp[p[1]].left = <<>>
        BY <3>1, <2>1, <1>1, <1>t DEF LineInOrder
      <4>2. DOMAIN (<<>>) = {}
        BY EmptySeq, LenProperties
      <4> QED
        BY <3>1, <4>1, <4>2 DEF InLine, Delivering, Ahead
    <3>2. CASE disp[p[1]].pc # "idle"
      <4>1. disp'[p[1]].pc = "done" /\ disp'[p[1]].left = <<>>
        BY <3>2, <2>1, <1>1
      <4>2. DOMAIN (<<>>) = {}
        BY EmptySeq, LenProperties
      <4> QED
        BY <4>1, <4>2 DEF InLine, Delivering, Ahead
    <3> QED
      BY <3>1, <3>2
  <2>3. Fresh(p)' /\ Direct(p)'
    BY <2>1, <2>2, <1>3, <1>u DEF PairInv, Fresh, Direct, NoJob, Held
  <2>4. Jobbed(p)'
    <3>1. CASE job'[p].st \notin Open
      BY <3>1 DEF Jobbed
    <3>2. CASE job'[p] = job[p]
      BY <3>2, <2>1, <1>u DEF PairInv, Jobbed, Silent, Made, Below
    <3>3. CASE /\ job[p].st \in Held
               /\ job'[p].st = "waiting" /\ job'[p].stalls = job[p].stalls + 1
      <4>1. /\ job[p].made < Attempts(p[2]) /\ Len(posts[p]) <= Made(p) + job[p].stalls
        BY <3>3, <2>1 DEF PairInv, Jobbed, Open, Over, Held
      <4>s. Silent(p)'
        BY <3>3, <1>u DEF Silent
      <4>2. job[p].made \in Nat /\ job[p].stalls \in Nat /\ job'[p].made = job[p].made
        BY <2>1, <1>3 DEF Job
      <4>3. Len(posts[p]) <= job[p].made + 1 + job[p].stalls
        BY <4>1, <4>2, <2>1 DEF Made
      <4>4. Made(p)' = job[p].made /\ job'[p].stalls # 0
        BY <3>3, <4>2 DEF Made, Over
      <4> QED
        <5>1. Len(posts'[p]) <= Made(p)' + job'[p].stalls
          <6>1. \A l, m, t \in Nat : l <= m + 1 + t => l <= m + (t + 1)
            OBVIOUS
          <6> QED
            BY <6>1, <3>3, <4>2, <4>3, <4>4, <2>1, <1>u
        <5> QED
          BY <3>3, <4>1, <4>2, <4>4, <4>s, <5>1, <1>u DEF Jobbed
    <3> QED
      BY <3>1, <3>2, <3>3, <1>3 DEF Open, Over
  <2>5. Bounded(p)' /\ Told(p)'
    <3>1. job'[p].stalls \in Nat /\ job[p].stalls \in Nat /\ job'[p].stalls >= job[p].stalls
      BY <2>1, <1>3 DEF Job
    <3>2. job'[p].stalls = 0 => job[p].stalls = 0
      BY <3>1
    <3>3. Len(posts[p]) <= Attempts(p[2]) + job'[p].stalls
      BY <3>1, <2>1 DEF PairInv, Bounded
    <3>4. Bounded(p)'
      BY <3>2, <3>3, <2>1, <1>u DEF PairInv, Bounded, Below
    <3>5. Told(p)'
      BY <2>1, <1>3, <1>u DEF PairInv, Told, Held
    <3> QED
      BY <3>4, <3>5
  <2>6. Accounted(p)'
    <3>1. crashes' # 0
      BY <1>t, <1>u DEF TypeOK
    <3>2. disp'[p[1]].pc \in {"idle", "lookup"} => p \notin matched
      BY <2>1, <1>1 DEF PairInv, Accounted
    <3>3. job'[p].st # "none" => job[p].st # "none"
      BY <1>3 DEF Held
    <3> QED
      BY <3>1, <3>2, <3>3, <2>1, <2>2, <1>u DEF PairInv, Accounted
  <2> QED
    BY <2>3, <2>4, <2>5, <2>6 DEF PairInv
<1>6. crashes' \in 0..MaxCrashes /\ retold' \in SUBSET Pairs
  BY <1>t, <1>u DEF TypeOK
<1> QED
  BY <1>t, <1>u, <1>2, <1>4, <1>5, <1>6 DEF DeliveryInv, TypeOK, LineInOrder

-----------------------------------------------------------------------------
(* The invariant is inductive, and the properties follow.                  *)

LEMMA DeliveryInit == Init => DeliveryInv
<1> SUFFICES ASSUME Init PROVE DeliveryInv
  OBVIOUS
<1>1. <<>> \in Seq(Webhooks) /\ <<>> \in Seq(Nat) /\ Len(<<>>) = 0 /\ DOMAIN (<<>>) = {}
  BY EmptySeq, LenProperties
<1>2. /\ \A e \in Events : disp[e] = [pc |-> "idle", left |-> <<>>, attempt |-> 1]
      /\ \A p \in Pairs : job[p] = NoJob /\ posts[p] = <<>> /\ told[p] = {}
      /\ matched = {} /\ skipped = {} /\ accepted = {} /\ retold = {}
  BY DEF Init, NoJob
<1>3. TypeOK
  <2>1. [pc |-> "idle", left |-> <<>>, attempt |-> 1] \in Disp
    BY <1>1 DEF Disp, DispPc
  <2>2. NoJob \in Job
    BY DEF NoJob, Job, JobState
  <2>3. disp \in [Events -> Disp] /\ job \in [Pairs -> Job]
    BY <2>1, <2>2 DEF Init, NoJob
  <2>4. \A p \in Pairs : job[p].made <= RetryCount[p[2]] + 1
    BY <1>2, AttemptsType DEF NoJob
  <2> QED
    BY <1>1, <1>2, <2>3, <2>4 DEF Init, TypeOK
<1>4. LineInOrder
  BY <1>1, <1>2 DEF LineInOrder
<1>5. ASSUME NEW p \in Pairs PROVE PairInv(p)
  <2>1. p[1] \in Events
    BY DEF Pairs
  <2>2. disp[p[1]].pc = "idle" /\ disp[p[1]].left = <<>>
    BY <2>1, <1>2
  <2>3. ~Delivering(p) /\ ~InLine(p)
    BY <2>2, <1>1 DEF Delivering, InLine
  <2>4. Attempts(p[2]) \in Nat
    BY AttemptsType
  <2> QED
    BY <2>3, <2>4, <1>1, <1>2
    DEF PairInv, Fresh, Direct, Jobbed, Bounded, Told, Accounted, Below, NoJob, Open, Over
<1> QED
  BY <1>3, <1>4, <1>5 DEF DeliveryInv

LEMMA DeliveryStep == DeliveryInv /\ [Next]_vars => DeliveryInv'
<1> SUFFICES ASSUME DeliveryInv, [Next]_vars PROVE DeliveryInv'
  OBVIOUS
<1>1. CASE UNCHANGED vars
  <2>1. TypeOK' /\ LineInOrder'
    BY <1>1 DEF vars, bounds, DeliveryInv, TypeOK, LineInOrder
  <2>2. ASSUME NEW p \in Pairs PROVE PairInv(p)'
    <3>1. Same(p) /\ disp' = disp /\ crashes' = crashes /\ PairInv(p)
      BY <1>1 DEF vars, bounds, DeliveryInv, Same
    <3> QED
      BY <3>1, Untouched
  <2> QED
    BY <2>1, <2>2 DEF DeliveryInv
<1>2. CASE \E w \in Webhooks : Toggle(w)
  BY <1>2, ToggleKeeps
<1>3. ASSUME NEW e \in Events, Dispatch(e) \/ LookupReturns(e) \/ LookupFails(e) PROVE DeliveryInv'
  BY <1>3, LookupSteps
<1>4. ASSUME NEW e \in Events, disp[e].pc \in Busy, DispatchStep(e) PROVE DeliveryInv'
  <2> DEFINE c == Current(e)
  <2>1. c \in Pairs
    BY <1>4, CurrentProperties DEF DeliveryInv
  <2> HIDE DEF c
  <2>2. CASE BeforePasses(e) \/ BeforeCancels(e)
    BY <2>1, <2>2, BeforeSteps DEF c
  <2>3. CASE DirectBlocked(e) \/ \E ok \in BOOLEAN : DirectPost(e, ok)
    BY <2>1, <2>3, DirectTries DEF c
  <2>4. CASE DirectTouched(e) \/ DirectTouchFails(e)
    BY <2>1, <2>4, DirectTouches DEF c
  <2>5. CASE DirectWaited(e)
    BY <2>1, <2>5, DirectWaits DEF c
  <2>6. CASE Queued(e) \/ QueueRefuses(e)
    BY <2>1, <2>6, QueueSteps DEF c
  <2>7. CASE LookupReturns(e) \/ LookupFails(e)
    BY <2>7, <1>3
  <2> QED
    BY <1>4, <2>2, <2>3, <2>4, <2>5, <2>6, <2>7 DEF DispatchStep
<1>5. ASSUME NEW e \in Events, DispatchStep(e) PROVE DeliveryInv'
  <2>1. CASE LookupReturns(e) \/ LookupFails(e)
    BY <2>1, <1>3
  <2>2. CASE ~(LookupReturns(e) \/ LookupFails(e))
    <3>1. disp[e].pc \in Busy
      BY <1>5, <2>2 DEF DispatchStep, BeforePasses, BeforeCancels, DirectPost, DirectBlocked,
                        DirectTouched, DirectTouchFails, DirectWaited, Queued, QueueRefuses, Busy
    <3> QED
      BY <1>4, <1>5, <3>1
  <2> QED
    BY <2>1, <2>2
<1>6. ASSUME NEW p \in Pairs, JobStep(p) PROVE DeliveryInv'
  <2>1. CASE JobTaken(p)
    BY <2>1, JobTakes
  <2>2. CASE JobTouched(p) \/ JobTouchFails(p)
    BY <2>2, JobTouches
  <2>3. CASE JobBlocked(p) \/ \E ok \in BOOLEAN : JobPost(p, ok)
    BY <2>3, JobTries
  <2>4. CASE JobCompletes(p) \/ JobFailureCounted(p)
    BY <2>4, JobRecorded
  <2> QED
    BY <1>6, <2>1, <2>2, <2>3, <2>4 DEF JobStep
<1>7. CASE Crash
  BY <1>7, CrashKeeps
<1> QED
  BY <1>1, <1>2, <1>3, <1>5, <1>6, <1>7 DEF Next

LEMMA InvariantHolds == Spec => []DeliveryInv
  BY DeliveryInit, DeliveryStep, PTL DEF Spec

(* Every variable keeps its type.                                           *)
THEOREM TypeCorrect == Spec => []TypeOK
<1>1. DeliveryInv => TypeOK
  BY DEF DeliveryInv
<1> QED
  BY InvariantHolds, <1>1, PTL

(* The hooks are told one outcome of each delivery, whichever way it takes, *)
(* unless its worker vanished between the hook and BullMQ; "delivered" only *)
(* of one that the endpoint accepted, and whatever BullMQ records.          *)
THEOREM ToldOnce == Spec => []OneOutcome
<1>1. DeliveryInv => OneOutcome
  BY DEF DeliveryInv, PairInv, Told, OneOutcome
<1> QED
  BY InvariantHolds, <1>1, PTL

(* No webhook is sent an event more often than the retry count allows, but  *)
(* for workers that vanished, and the counts it is sent only grow.          *)
THEOREM RetriesAreBounded == Spec => []AttemptsBounded
<1>1. DeliveryInv => AttemptsBounded
  <2> SUFFICES ASSUME DeliveryInv, NEW p \in Pairs
               PROVE  /\ Len(posts[p]) <= Attempts(p[2]) + job[p].stalls
                      /\ \A i \in DOMAIN posts[p] :
                           /\ posts[p][i] < Attempts(p[2])
                           /\ \A k \in 1..(i - 1) : posts[p][k] < posts[p][i] \/ job[p].stalls > 0
    BY DEF AttemptsBounded
  <2>1. job[p].stalls \in Nat /\ Bounded(p)
    BY DEF DeliveryInv, TypeOK, Job, PairInv
  <2>2. job[p].stalls = 0 \/ job[p].stalls > 0
    BY <2>1
  <2> QED
    BY <2>1, <2>2 DEF Bounded, Below
<1> QED
  BY InvariantHolds, <1>1, PTL

(* A dispatch that is over, in a process that did not end, has passed over  *)
(* no webhook that it found.                                                *)
THEOREM DispatchForgetsNone == Spec => []NoneForgotten
<1>1. DeliveryInv => NoneForgotten
  <2> SUFFICES ASSUME DeliveryInv, NEW p \in matched, disp[p[1]].pc = "done", crashes = 0
               PROVE  p \in skipped \/ told[p] # {} \/ job[p].st # "none"
    BY DEF NoneForgotten
  <2>1. p \in Pairs /\ p[1] \in Events
    BY DEF DeliveryInv, TypeOK, Pairs
  <2>2. disp[p[1]].left = <<>> /\ DOMAIN (<<>>) = {}
    BY <2>1, EmptySeq, LenProperties DEF DeliveryInv, LineInOrder
  <2>3. ~InLine(p)
    BY <2>2 DEF InLine
  <2> QED
    BY <2>1, <2>3 DEF DeliveryInv, PairInv, Accounted
<1> QED
  BY InvariantHolds, <1>1, PTL

(* Only a webhook that was active when the event was dispatched gets it.    *)
THEOREM OnlyMatchedGetIt == Spec => []OnlyMatchedPosted
<1>1. DeliveryInv => OnlyMatchedPosted
  BY DEF DeliveryInv, PairInv, Accounted, OnlyMatchedPosted
<1> QED
  BY InvariantHolds, <1>1, PTL
=============================================================================
