---------------------------- MODULE OperationsProofs ----------------------------
(***************************************************************************)
(* What Components promises of the plugins, of the reports and of the       *)
(* operations on the whole system, for every value of the constants: a      *)
(* section for each of the hooks, the media files, the transfer of the      *)
(* data, the restart of the services and the statistics.  As in             *)
(* ComponentProofs, each component has an inductive invariant beside its    *)
(* properties.                                                              *)
(***************************************************************************)
EXTENDS Components, Sequences, FiniteSetTheorems, FunctionTheorems, WellFoundedInduction, TLAPS

(* Every set of numbers has a least one: the case of the well-founded       *)
(* ordering of the numbers that the order of the services needs.            *)
LEMMA LeastOf ==
  ASSUME NEW S, S \subseteq Nat, S # {}
  PROVE  \E n \in S : \A k \in S : n <= k
<1> DEFINE Less == OpToRel(<, Nat)
<1>1. \A a, b \in Nat : a < b => <<a, b>> \in Less
  BY DEF OpToRel
<1>2. IsWellFoundedOn(Less, Nat)
  BY NatLessThanWellFounded
<1> HIDE DEF Less
<1>3. PICK n \in S : \A k \in S : <<k, n>> \notin Less
  BY <1>2, WFMin
<1>4. ASSUME NEW k \in S
      PROVE  n <= k
  <2>1. n \in Nat /\ k \in Nat
    BY <1>3
  <2>2. ~(k < n)
    BY <1>1, <1>3, <2>1
  <2> QED
    BY <2>1, <2>2
<1> QED
  BY <1>3, <1>4

-----------------------------------------------------------------------------
(* The hooks of the plugins.                                                *)

(* The array a filter makes: it has the handlers of the other plugins.      *)
FilterStep(p, array, f, n) ==
  IF n = 0 THEN <<>>
  ELSE IF array[n].plugin = p THEN f[n - 1]
  ELSE Append(f[n - 1], array[n])

LEMMA FilterIsDefined ==
  ASSUME NEW p, NEW array, NEW m \in Nat
  PROVE  \E f : f = [n \in 0..m |-> FilterStep(p, array, f, n)]
<1> DEFINE Made(k) == \E f : f = [n \in 0..k |-> FilterStep(p, array, f, n)]
           missing == {k \in Nat : ~Made(k)}
<1>1. SUFFICES missing = {}
  OBVIOUS
<1>2. SUFFICES ASSUME missing # {}
               PROVE  FALSE
  OBVIOUS
<1>3. PICK k \in missing : \A j \in missing : k <= j
  <2>1. missing \subseteq Nat
    OBVIOUS
  <2> HIDE DEF missing
  <2> QED
    BY <1>2, <2>1, LeastOf
<1>4. k # 0
  <2>1. Made(0)
    <3> DEFINE f == [n \in 0..0 |-> <<>>]
    <3>1. f = [n \in 0..0 |-> FilterStep(p, array, f, n)]
      BY DEF FilterStep
    <3> QED
      BY <3>1
  <2> QED
    BY <1>3, <2>1
<1>5. Made(k - 1)
  BY <1>3, <1>4
<1>6. PICK g : g = [n \in 0..(k - 1) |-> FilterStep(p, array, g, n)]
  BY <1>5
<1> DEFINE h == [n \in 0..k |-> FilterStep(p, array, g, n)]
<1>7. \A n \in 0..k : h[n] = FilterStep(p, array, h, n)
  <2> SUFFICES ASSUME NEW n \in 0..k
               PROVE  FilterStep(p, array, g, n) = FilterStep(p, array, h, n)
    OBVIOUS
  <2>1. CASE n = 0
    BY <2>1 DEF FilterStep
  <2>2. CASE n # 0
    <3>1. n - 1 \in 0..(k - 1) /\ n - 1 \in 0..k
      BY <1>3, <2>2
    <3>2. h[n - 1] = FilterStep(p, array, g, n - 1)
      BY <3>1
    <3>3. g[n - 1] = FilterStep(p, array, g, n - 1)
      BY <1>6, <3>1
    <3> QED
      BY <2>2, <3>2, <3>3 DEF FilterStep
  <2> QED
    BY <2>1, <2>2
<1>8. h = [n \in 0..k |-> FilterStep(p, array, h, n)]
  <2>1. h = [n \in 0..k |-> h[n]]
    OBVIOUS
  <2> HIDE DEF h
  <2> QED
    BY <1>7, <2>1
<1> QED
  BY <1>3, <1>8

(* It is a sequence of registrations, of those it was given, without the    *)
(* plugin's.                                                                *)
LEMMA FilteredIs ==
  ASSUME NEW p, NEW array \in Seq(Hooks!Reg)
  PROVE  /\ Hooks!Filtered(p, array) \in Seq(Hooks!Reg)
         /\ \A i \in DOMAIN Hooks!Filtered(p, array) :
               /\ Hooks!Filtered(p, array)[i].plugin # p
               /\ \E k \in DOMAIN array : Hooks!Filtered(p, array)[i] = array[k]
<1> DEFINE L == Len(array)
<1>1. L \in Nat
  OBVIOUS
<1>2. PICK f : f = [n \in 0..L |-> FilterStep(p, array, f, n)]
  BY <1>1, FilterIsDefined
<1> DEFINE Good(s) == /\ s \in Seq(Hooks!Reg)
                      /\ \A i \in DOMAIN s : s[i].plugin # p /\ \E k \in DOMAIN array : s[i] = array[k]
<1>3. \A g : g = [n \in 0..L |-> FilterStep(p, array, g, n)] => Good(g[L])
  <2> SUFFICES ASSUME NEW g, g = [n \in 0..L |-> FilterStep(p, array, g, n)]
               PROVE  Good(g[L])
    OBVIOUS
  <2> DEFINE wrong == {n \in 0..L : ~Good(g[n])}
  <2>1. SUFFICES wrong = {}
    BY <1>1
  <2>2. SUFFICES ASSUME wrong # {}
                 PROVE  FALSE
    OBVIOUS
  <2>3. PICK k \in wrong : \A j \in wrong : k <= j
    <3>1. wrong \subseteq Nat
      BY <1>1
    <3> HIDE DEF wrong
    <3> QED
      BY <2>2, <3>1, LeastOf
  <2>4. k \in 0..L /\ g[k] = FilterStep(p, array, g, k)
    BY <2>3
  <2>5. CASE k = 0
    <3>1. g[k] = <<>>
      BY <2>4, <2>5 DEF FilterStep
    <3>2. Good(<<>>)
      OBVIOUS
    <3> QED
      BY <2>3, <3>1, <3>2
  <2>6. CASE k # 0
    <3>1. k - 1 \in 0..L /\ k \in 1..L
      BY <1>1, <2>4, <2>6
    <3>2. k - 1 \notin wrong
      BY <1>1, <2>3, <2>4, <3>1
    <3>3. Good(g[k - 1])
      BY <3>1, <3>2
    <3>4. array[k] \in Hooks!Reg /\ k \in DOMAIN array
      BY <3>1
    <3> DEFINE before == g[k - 1]
    <3>5. g[k] = before \/ (array[k].plugin # p /\ g[k] = Append(before, array[k]))
      BY <2>4, <2>6 DEF FilterStep
    <3> HIDE DEF before
    <3>6. Good(before)
      BY <3>3 DEF before
    <3>7. ASSUME array[k].plugin # p
          PROVE  Good(Append(before, array[k]))
      <4>1. Append(before, array[k]) \in Seq(Hooks!Reg)
        BY <3>4, <3>6
      <4>2. ASSUME NEW i \in DOMAIN Append(before, array[k])
            PROVE  /\ Append(before, array[k])[i].plugin # p
                   /\ \E j \in DOMAIN array : Append(before, array[k])[i] = array[j]
        <5>1. before \in Seq(Hooks!Reg) /\ i \in 1..(Len(before) + 1)
          BY <3>4, <3>6, <4>2
        <5>2. CASE i = Len(before) + 1
          BY <3>4, <3>7, <5>1, <5>2
        <5>3. CASE i \in 1..Len(before)
          <6>1. Append(before, array[k])[i] = before[i] /\ i \in DOMAIN before
            BY <5>1, <5>3
          <6> QED
            BY <3>6, <6>1
        <5> QED
          BY <5>1, <5>2, <5>3
      <4> QED
        BY <4>1, <4>2
    <3> HIDE DEF Good
    <3>8. Good(g[k])
      BY <3>5, <3>6, <3>7
    <3> QED
      BY <2>3, <3>8
  <2> QED
    BY <2>5, <2>6
<1>4. \E g : g = [n \in 0..L |-> FilterStep(p, array, g, n)] /\ Hooks!Filtered(p, array) = g[L]
  <2> DEFINE made == CHOOSE g : g = [n \in 0..L |-> FilterStep(p, array, g, n)]
  <2>1. made = [n \in 0..L |-> FilterStep(p, array, made, n)]
    BY <1>2
  <2>2. Hooks!Filtered(p, array) = made[L]
    BY DEF Hooks!Filtered, FilterStep
  <2> QED
    BY <2>1, <2>2
<1> QED
  BY <1>3, <1>4

(* The number of elements of a set, as the module of the hooks means it.     *)
LEMMA HooksCardinality == \A S : Hooks!Cardinality(S) = Cardinality(S)
BY DEF Cardinality, Hooks!Cardinality


(* A registration takes one place, and the handlers from there on move up.  *)
LEMMA InsertedIs ==
  ASSUME NEW reg \in Hooks!Reg, NEW array \in Seq(Hooks!Reg)
  PROVE  LET new == Hooks!Inserted(reg, array)
         IN  /\ new \in Seq(Hooks!Reg) /\ Len(new) = Len(array) + 1
             /\ \E here \in 1..(Len(array) + 1) :
                  \A i \in 1..(Len(array) + 1) :
                     new[i] = IF i < here THEN array[i] ELSE IF i = here THEN reg ELSE array[i - 1]
<1> DEFINE before == {i \in DOMAIN array : Priority[array[i].plugin] <= Priority[reg.plugin]}
           here   == Hooks!Place(reg, array)
           new    == [i \in 1..(Len(array) + 1) |->
                        IF i < here THEN array[i] ELSE IF i = here THEN reg ELSE array[i - 1]]
<1>1. Len(array) \in Nat /\ DOMAIN array = 1..Len(array)
  OBVIOUS
<1>2. IsFiniteSet(1..Len(array)) /\ Cardinality(1..Len(array)) = Len(array)
  BY <1>1, FS_Interval
<1>3. Cardinality(before) \in Nat /\ Cardinality(before) <= Len(array)
  <2>1. before \subseteq 1..Len(array)
    BY <1>1
  <2> HIDE DEF before
  <2> QED
    BY <1>2, <2>1, FS_Subset, FS_CardinalityType
<1>4. here \in 1..(Len(array) + 1)
  <2>1. here = Cardinality(before) + 1
    BY HooksCardinality DEF Hooks!Place
  <2> HIDE DEF before, here
  <2> QED
    BY <1>1, <1>3, <2>1
<1>5. Hooks!Inserted(reg, array) = new
  BY DEF Hooks!Inserted
<1> HIDE DEF here
<1>6. \A i \in 1..(Len(array) + 1) : new[i] \in Hooks!Reg
  <2> SUFFICES ASSUME NEW i \in 1..(Len(array) + 1)
               PROVE  new[i] \in Hooks!Reg
    OBVIOUS
  <2>1. CASE i < here
    <3>1. i \in 1..Len(array)
      BY <1>1, <1>4, <2>1
    <3> QED
      BY <1>1, <2>1, <3>1
  <2>2. CASE i = here
    BY <2>2
  <2>3. CASE i > here
    <3>1. i - 1 \in 1..Len(array) /\ ~(i < here) /\ i # here
      BY <1>1, <1>4, <2>3
    <3> QED
      BY <1>1, <3>1
  <2> QED
    BY <1>1, <1>4, <2>1, <2>2, <2>3
<1>7. new \in Seq(Hooks!Reg) /\ Len(new) = Len(array) + 1
  <2>1. new \in [1..(Len(array) + 1) -> Hooks!Reg]
    BY <1>6
  <2>2. Len(array) + 1 \in Nat
    BY <1>1
  <2> HIDE DEF new
  <2> QED
    BY <2>1, <2>2
<1> QED
  BY <1>4, <1>5, <1>7


Job == [pc : Hooks!AdminPc, plugin : Plugins]

LEMMA HooksTypes ==
  ASSUME Hooks!HooksInv
  PROVE  /\ v1 \in [Plugins -> Hooks!Statuses]
         /\ v2 \in Seq(Seq(Hooks!Reg)) /\ Len(v2) \in Nat \ {0}
         /\ v3 \in [Admins -> Job]
         /\ v4 \in [Firings -> Hooks!Chain]
         /\ \A f \in Firings : v4[f].pc = "running" =>
               v4[f].array \in DOMAIN v2 /\ v4[f].at \in DOMAIN v2[v4[f].array]
         /\ v5 \in 0..MaxOps
<1>1. Hooks!TypeOK
  BY DEF Hooks!HooksInv
<1>2. Len(v2) \in Nat \ {0}
  BY <1>1 DEF Hooks!TypeOK
<1> QED
  BY <1>1, <1>2 DEF Hooks!TypeOK, Job

(* Every array is a sequence of registrations, and the live one is one of   *)
(* them.                                                                   *)
LEMMA ArraysAre ==
  ASSUME Hooks!HooksInv
  PROVE  /\ \A n \in DOMAIN v2 : v2[n] \in Seq(Hooks!Reg)
         /\ Hooks!Now \in DOMAIN v2 /\ Hooks!Live \in Seq(Hooks!Reg)
<1>1. v2 \in Seq(Seq(Hooks!Reg)) /\ Len(v2) \in Nat \ {0}
  BY HooksTypes
<1>2. \A n \in DOMAIN v2 : v2[n] \in Seq(Hooks!Reg)
  BY <1>1
<1>3. Len(v2) \in DOMAIN v2
  BY <1>1
<1> QED
  BY <1>2, <1>3 DEF Hooks!Now, Hooks!Live

(* The parts of the invariant.                                              *)
LEMMA HooksParts ==
  ASSUME Hooks!HooksInv
  PROVE  /\ Hooks!TypeOK /\ Hooks!RegistrationsAreOlder /\ Hooks!ChainsServe
         /\ Hooks!DisabledIsSilent /\ Hooks!ChainServesAll
BY DEF Hooks!HooksInv

(* The administrators who are enabling a plugin.                            *)
LEMMA EnablingIs ==
  ASSUME NEW p
  PROVE  Hooks!Enabling(p) <=>
           \E a \in Admins : v3[a].plugin = p /\ v3[a].pc # "idle" /\ v3[a].pc # "onDisable"
BY DEF Hooks!Enabling, Hooks!InFlight

(* Chains go by their arrays and by nothing else.                           *)
LEMMA ChainsStay ==
  ASSUME Hooks!ChainsServe, Hooks!ChainServesAll, v2' = v2, v4' = v4
  PROVE  Hooks!ChainsServe' /\ Hooks!ChainServesAll'
<1>1. Hooks!ChainsServe'
  BY DEF Hooks!ChainsServe
<1>2. Hooks!ChainServesAll'
  BY DEF Hooks!ChainServesAll, Hooks!Handlers
<1> QED
  BY <1>1, <1>2

(* A step of the loader that touches no array: it may only end the enabling *)
(* of a plugin that it gives another status.                                *)
LEMMA LoaderKeeps ==
  ASSUME Hooks!HooksInv, NEW a \in Admins, NEW r \in Job,
         v3' = [v3 EXCEPT ![a] = r], v2' = v2, v4' = v4,
         v1' \in [Plugins -> Hooks!Statuses], v5' \in 0..MaxOps, v5' >= v5,
         r.pc \notin {"onLoad", "onEnable"} \/ v5' > v5 \/ v3[a].pc \in {"onLoad", "onEnable"},
         \A p \in Plugins : v1'[p] = "DISABLED" => v1[p] = "DISABLED",
         \/ v3[a].pc \in {"idle", "onDisable"}
         \/ v1'[v3[a].plugin] # "DISABLED"
         \/ r.plugin = v3[a].plugin /\ r.pc \notin {"idle", "onDisable"}
  PROVE  Hooks!HooksInv'
<1> USE HooksTypes, HooksAssumption
<1>1. /\ v3' \in [Admins -> Job] /\ v3'[a] = r
      /\ \A b \in Admins : b # a => v3'[b] = v3[b]
  OBVIOUS
<1>2. Hooks!TypeOK'
  <2>1. v2 # <<>>
    BY HooksParts DEF Hooks!TypeOK
  <2> QED
    BY <1>1, <2>1 DEF Hooks!TypeOK, Job
<1>3. Hooks!RegistrationsAreOlder'
  <2>1. ASSUME NEW s \in Hooks!Reg, Hooks!IsOlder(s)
        PROVE  Hooks!IsOlder(s)'
    <3>1. s.id \in Nat /\ s.by \in Admins
      BY DEF Hooks!Reg
    <3> QED
      BY <1>1, <2>1, <3>1 DEF Hooks!IsOlder
  <2>2. Hooks!RegistrationsAreOlder
    BY HooksParts
  <2>3. \A n \in DOMAIN v2 : \A i \in DOMAIN v2[n] : v2[n][i] \in Hooks!Reg
    BY ArraysAre
  <2>4. \A f \in Firings : \A i \in DOMAIN v4[f].found : v4[f].found[i] \in Hooks!Reg
    <3>1. \A f \in Firings : v4[f].found \in Seq(Hooks!Reg)
      BY DEF Hooks!Chain
    <3> QED
      BY <3>1
  <2> QED
    BY <2>1, <2>2, <2>3, <2>4 DEF Hooks!RegistrationsAreOlder, Hooks!IsOlder
<1>4. Hooks!ChainsServe' /\ Hooks!ChainServesAll'
  BY HooksParts, ChainsStay
<1>5. Hooks!DisabledIsSilent'
  <2> SUFFICES ASSUME NEW p \in Plugins, v1'[p] = "DISABLED", ~Hooks!Enabling(p)'
               PROVE  (Hooks!Of(p, Hooks!Live) = {})'
    BY DEF Hooks!DisabledIsSilent
  <2>1. ~Hooks!Enabling(p)
    <3> SUFFICES ASSUME NEW b \in Admins, v3[b].plugin = p, v3[b].pc # "idle", v3[b].pc # "onDisable"
                 PROVE  FALSE
      BY EnablingIs
    <3>1. v3'[b].plugin = p /\ v3'[b].pc # "idle" /\ v3'[b].pc # "onDisable"
      BY <1>1
    <3> QED
      BY <3>1 DEF Hooks!Enabling, Hooks!InFlight
  <2>2. Hooks!Of(p, Hooks!Live) = {}
    BY <2>1, HooksParts DEF Hooks!DisabledIsSilent
  <2> QED
    BY <2>2 DEF Hooks!Of, Hooks!Live, Hooks!Now
<1> QED
  BY <1>2, <1>3, <1>4, <1>5 DEF Hooks!HooksInv

\* A job whose step changes is the same plugin's job at the new step.
LEMMA JobIs ==
  ASSUME NEW j \in Job, NEW pc
  PROVE  [j EXCEPT !.pc = pc] = [pc |-> pc, plugin |-> j.plugin]
  BY DEF Job

(* The steps of the loader.                                                 *)
LEMMA AdminKeeps ==
  ASSUME Hooks!HooksInv, NEW a \in Admins,
         \/ \E p \in Plugins : Hooks!EnableBegins(a, p) \/ Hooks!DisableBegins(a, p)
         \/ Hooks!OnLoadReturns(a) \/ Hooks!Enabled(a) \/ Hooks!EnableFails(a) \/ Hooks!DisableFails(a)
  PROVE  Hooks!HooksInv'
<1> USE HooksTypes, HooksAssumption
<1>1. v3[a] \in Job
  OBVIOUS
<1>2. ASSUME NEW p \in Plugins, Hooks!EnableBegins(a, p) \/ Hooks!DisableBegins(a, p)
      PROVE  Hooks!HooksInv'
  <2>1. PICK pc \in {"onLoad", "onDisable"} : v3' = [v3 EXCEPT ![a] = [pc |-> pc, plugin |-> p]]
    BY <1>2 DEF Hooks!EnableBegins, Hooks!DisableBegins
  <2>2. /\ v3[a].pc = "idle" /\ v5 < MaxOps /\ v5' = v5 + 1
        /\ v1' = v1 /\ v2' = v2 /\ v4' = v4
    BY <1>2 DEF Hooks!EnableBegins, Hooks!DisableBegins
  <2>3. [pc |-> pc, plugin |-> p] \in Job
    BY DEF Job, Hooks!AdminPc
  <2>4. v5' \in 0..MaxOps /\ v5' >= v5 /\ v5' > v5
    BY <2>2
  <2> QED
    BY <2>1, <2>2, <2>3, <2>4, LoaderKeeps
<1>3. \A pc : v3' = [v3 EXCEPT ![a].pc = pc] => v3' = [v3 EXCEPT ![a] = [pc |-> pc, plugin |-> v3[a].plugin]]
  <2> SUFFICES ASSUME NEW pc, v3' = [v3 EXCEPT ![a].pc = pc]
               PROVE  v3' = [v3 EXCEPT ![a] = [pc |-> pc, plugin |-> v3[a].plugin]]
    OBVIOUS
  <2>1. [v3[a] EXCEPT !.pc = pc] = [pc |-> pc, plugin |-> v3[a].plugin]
    BY <1>1, JobIs
  <2>2. v3' = [v3 EXCEPT ![a] = [v3[a] EXCEPT !.pc = pc]]
    OBVIOUS
  <2> QED
    BY <2>1, <2>2
<1>4. \A pc \in {"onEnable", "idle"} : /\ [pc |-> pc, plugin |-> v3[a].plugin] \in Job
                                     /\ [pc |-> pc, plugin |-> v3[a].plugin].plugin = v3[a].plugin
                                     /\ [pc |-> pc, plugin |-> v3[a].plugin].pc = pc
  BY <1>1 DEF Job, Hooks!AdminPc
<1>5. ASSUME Hooks!OnLoadReturns(a)
      PROVE  Hooks!HooksInv'
  <2> DEFINE r == [pc |-> "onEnable", plugin |-> v3[a].plugin]
  <2>1. /\ v3[a].pc = "onLoad" /\ v3' = [v3 EXCEPT ![a].pc = "onEnable"]
        /\ v1' = v1 /\ v2' = v2 /\ v4' = v4 /\ v5' = v5
    BY <1>5 DEF Hooks!OnLoadReturns, Hooks!Goes
  <2>2. v3' = [v3 EXCEPT ![a] = r] /\ r \in Job /\ r.plugin = v3[a].plugin /\ r.pc = "onEnable"
    BY <1>3, <1>4, <2>1
  <2> HIDE DEF r
  <2>3. v5' \in 0..MaxOps /\ v5' >= v5
    BY <2>1
  <2>4. v1' \in [Plugins -> Hooks!Statuses] /\ \A p \in Plugins : v1'[p] = "DISABLED" => v1[p] = "DISABLED"
    BY <2>1
  <2>5. v3[a].pc \in {"onLoad", "onEnable"} /\ r.plugin = v3[a].plugin /\ r.pc \notin {"idle", "onDisable"}
    BY <2>1, <2>2
  <2> QED
    BY <2>1, <2>2, <2>3, <2>4, <2>5, LoaderKeeps
<1>6. ASSUME Hooks!Enabled(a) \/ Hooks!EnableFails(a) \/ Hooks!DisableFails(a)
      PROVE  Hooks!HooksInv'
  <2> DEFINE r == [pc |-> "idle", plugin |-> v3[a].plugin]
  <2>1. PICK status \in {"ENABLED", "ERROR"} : v1' = [v1 EXCEPT ![v3[a].plugin] = status]
    BY <1>6 DEF Hooks!Enabled, Hooks!EnableFails, Hooks!DisableFails
  <2>2. /\ v3' = [v3 EXCEPT ![a].pc = "idle"]
        /\ v2' = v2 /\ v4' = v4 /\ v5' = v5
    BY <1>6 DEF Hooks!Enabled, Hooks!EnableFails, Hooks!DisableFails, Hooks!Goes
  <2>3. v3' = [v3 EXCEPT ![a] = r] /\ r \in Job /\ r.pc = "idle" /\ v3[a].plugin \in Plugins
    BY <1>1, <1>3, <1>4, <2>2 DEF Job
  <2> HIDE DEF r
  <2>4. v1' \in [Plugins -> Hooks!Statuses]
    BY <2>1 DEF Hooks!Statuses
  <2>5. /\ v1'[v3[a].plugin] # "DISABLED"
        /\ \A p \in Plugins : v1'[p] = "DISABLED" => v1[p] = "DISABLED"
    BY <2>1, <2>3
  <2>6. v5' \in 0..MaxOps /\ v5' >= v5
    BY <2>2
  <2>7. r.pc \notin {"onLoad", "onEnable"}
    BY <2>3
  <2> QED
    BY <2>2, <2>3, <2>4, <2>5, <2>6, <2>7, LoaderKeeps
<1> QED
  BY <1>2, <1>5, <1>6


(* Older than what any administrator will register, after the step.         *)
OlderThen(s) == s.id <= v5' /\ (v3'[s.by].pc \in {"onLoad", "onEnable"} => s.id < v5')

LEMMA OlderIf ==
  ASSUME \A n \in DOMAIN v2' : \A i \in DOMAIN v2'[n] : OlderThen(v2'[n][i]),
         \A f \in Firings : \A i \in DOMAIN v4'[f].found : OlderThen(v4'[f].found[i])
  PROVE  Hooks!RegistrationsAreOlder'
BY DEF Hooks!RegistrationsAreOlder, Hooks!IsOlder, OlderThen

(* Chains that ended stay as they are while their records do.               *)
LEMMA EndedStay ==
  ASSUME Hooks!ChainServesAll, v4' = v4
  PROVE  Hooks!ChainServesAll'
BY DEF Hooks!ChainServesAll, Hooks!Handlers

(* A plugin that is disabled: its handlers are filtered out of the live     *)
(* array into a new one; chains that are under way keep theirs.             *)
LEMMA DisabledKeeps ==
  ASSUME Hooks!HooksInv, NEW a \in Admins, Hooks!Disabled(a)
  PROVE  Hooks!HooksInv'
<1> DEFINE p == v3[a].plugin
           kept == Hooks!Filtered(p, Hooks!Live)
           r == [pc |-> "idle", plugin |-> p]
<1>1. /\ v3[a].pc = "onDisable" /\ v3' = [v3 EXCEPT ![a].pc = "idle"]
      /\ v1' = [v1 EXCEPT ![p] = "DISABLED"]
      /\ v4' = v4 /\ v5' = v5
      /\ v2' = IF Hooks!Of(p, Hooks!Live) = {} THEN v2 ELSE Append(v2, kept)
  BY DEF Hooks!Disabled, Hooks!Goes, Hooks!unregisterPlugin
<1>2. v3[a] \in Job /\ p \in Plugins
  BY HooksTypes DEF Job
<1>3. v3' = [v3 EXCEPT ![a] = r] /\ r \in Job /\ r.pc = "idle" /\ r.plugin = p
  <2>1. [v3[a] EXCEPT !.pc = "idle"] = r
    BY <1>2 DEF Job
  <2>2. v3' = [v3 EXCEPT ![a] = [v3[a] EXCEPT !.pc = "idle"]]
    BY <1>1
  <2>3. r \in Job
    BY <1>2 DEF Job, Hooks!AdminPc
  <2> QED
    BY <2>1, <2>2, <2>3
<1> HIDE DEF r
<1>4. /\ v3' \in [Admins -> Job] /\ v3'[a] = r
      /\ \A b \in Admins : b # a => v3'[b] = v3[b]
  BY <1>3, HooksTypes
<1>5. v1' \in [Plugins -> Hooks!Statuses]
  BY <1>1, HooksTypes DEF Hooks!Statuses
<1>6. /\ kept \in Seq(Hooks!Reg)
      /\ \A i \in DOMAIN kept : /\ kept[i].plugin # p
                                /\ \E k \in DOMAIN Hooks!Live : kept[i] = Hooks!Live[k]
  BY ArraysAre, FilteredIs
<1> HIDE DEF kept
<1>7. /\ v2' \in Seq(Seq(Hooks!Reg)) /\ v2' # <<>>
      /\ \A n \in DOMAIN v2 : n \in DOMAIN v2' /\ v2'[n] = v2[n]
      /\ \A n \in DOMAIN v2' : n \in DOMAIN v2 \/ v2'[n] = kept
      /\ \/ Hooks!Of(p, Hooks!Live) = {} /\ Hooks!Live' = Hooks!Live
         \/ Hooks!Live' = kept
  <2>1. CASE Hooks!Of(p, Hooks!Live) = {}
    <3>1. v2' = v2
      BY <1>1, <2>1
    <3>2. v2 # <<>>
      BY HooksParts DEF Hooks!TypeOK
    <3> QED
      BY <2>1, <3>1, <3>2, HooksTypes DEF Hooks!Live, Hooks!Now
  <2>2. CASE Hooks!Of(p, Hooks!Live) # {}
    <3>1. v2' = Append(v2, kept)
      BY <1>1, <2>2
    <3>2. Len(v2') = Len(v2) + 1 /\ v2' \in Seq(Seq(Hooks!Reg))
      BY <1>6, <3>1, HooksTypes
    <3>3. v2'[Len(v2')] = kept /\ v2' # <<>>
      BY <1>6, <3>1, <3>2, HooksTypes
    <3>4. \A n \in DOMAIN v2 : n \in DOMAIN v2' /\ v2'[n] = v2[n]
      BY <1>6, <3>1, HooksTypes
    <3>5. \A n \in DOMAIN v2' : n \in DOMAIN v2 \/ n = Len(v2')
      BY <3>2, HooksTypes
    <3> QED
      BY <3>2, <3>3, <3>4, <3>5 DEF Hooks!Live, Hooks!Now
  <2> QED
    BY <2>1, <2>2
<1>8. \A s \in Hooks!Reg : Hooks!IsOlder(s) => OlderThen(s)
  <2>1. \A s \in Hooks!Reg : s.by \in Admins
    BY DEF Hooks!Reg
  <2> QED
    BY <1>1, <1>3, <1>4, <2>1 DEF Hooks!IsOlder, OlderThen
<1>9. Hooks!RegistrationsAreOlder'
  <2>1. \A n \in DOMAIN v2 : \A i \in DOMAIN v2[n] : v2[n][i] \in Hooks!Reg /\ Hooks!IsOlder(v2[n][i])
    BY ArraysAre, HooksParts DEF Hooks!RegistrationsAreOlder
  <2>2. \A i \in DOMAIN kept : kept[i] \in Hooks!Reg /\ Hooks!IsOlder(kept[i])
    <3>1. \A k \in DOMAIN Hooks!Live : Hooks!Live[k] \in Hooks!Reg /\ Hooks!IsOlder(Hooks!Live[k])
      BY <2>1, ArraysAre DEF Hooks!Live
    <3> QED
      BY <1>6, <3>1
  <2>3. \A f \in Firings : \A i \in DOMAIN v4[f].found :
           v4[f].found[i] \in Hooks!Reg /\ Hooks!IsOlder(v4[f].found[i])
    <3>1. \A f \in Firings : v4[f].found \in Seq(Hooks!Reg)
      BY HooksTypes DEF Hooks!Chain
    <3> QED
      BY <3>1, HooksParts DEF Hooks!RegistrationsAreOlder
  <2>4. \A n \in DOMAIN v2' : \A i \in DOMAIN v2'[n] : OlderThen(v2'[n][i])
    BY <1>7, <1>8, <2>1, <2>2
  <2>5. \A f \in Firings : \A i \in DOMAIN v4'[f].found : OlderThen(v4'[f].found[i])
    BY <1>1, <1>8, <2>3
  <2> QED
    BY <2>4, <2>5, OlderIf
<1>10. Hooks!TypeOK'
  <2>1. \A f \in Firings : v4[f].pc = "running" => v4[f].at \in DOMAIN v2'[v4[f].array] /\ v4[f].array \in DOMAIN v2'
    BY <1>7, HooksTypes
  <2>2. v4' \in [Firings -> Hooks!Chain] /\ v5' \in 0..MaxOps
    BY <1>1, HooksTypes
  <2> QED
    BY <1>1, <1>4, <1>5, <1>7, <2>1, <2>2 DEF Hooks!TypeOK, Job
<1>11. Hooks!ChainsServe' /\ Hooks!ChainServesAll'
  <2>1. Hooks!ChainsServe'
    BY <1>1, <1>7, HooksTypes, HooksParts DEF Hooks!ChainsServe
  <2>2. Hooks!ChainServesAll'
    BY <1>1, HooksParts, EndedStay
  <2> QED
    BY <2>1, <2>2
<1>12. Hooks!DisabledIsSilent'
  <2> SUFFICES ASSUME NEW q \in Plugins, v1'[q] = "DISABLED", ~Hooks!Enabling(q)',
                      NEW i \in DOMAIN Hooks!Live', Hooks!Live'[i].plugin = q
               PROVE  FALSE
    BY DEF Hooks!DisabledIsSilent, Hooks!Of, Hooks!Live, Hooks!Now
  <2>1. CASE q = p
    BY <1>6, <1>7, <2>1 DEF Hooks!Of
  <2>2. CASE q # p
    <3>1. v1[q] = "DISABLED"
      BY <1>1, <2>2, HooksTypes
    <3>2. ~Hooks!Enabling(q)
      <4> SUFFICES ASSUME NEW b \in Admins, v3[b].plugin = q, v3[b].pc # "idle", v3[b].pc # "onDisable"
                   PROVE  FALSE
        BY EnablingIs
      <4>1. v3'[b].plugin = q /\ v3'[b].pc # "idle" /\ v3'[b].pc # "onDisable"
        BY <1>1, <1>4
      <4> QED
        BY <4>1 DEF Hooks!Enabling, Hooks!InFlight
    <3>3. \A k \in DOMAIN Hooks!Live : Hooks!Live[k].plugin # q
      BY <3>1, <3>2, HooksParts DEF Hooks!DisabledIsSilent, Hooks!Of
    <3> QED
      BY <1>6, <1>7, <3>3
  <2> QED
    BY <2>1, <2>2
<1> QED
  BY <1>9, <1>10, <1>11, <1>12 DEF Hooks!HooksInv


(* A chain whose array takes a registration goes on: its handlers are there *)
(* still, and the one that came is none that it found.                      *)
LEMMA ServesOn ==
  ASSUME NEW c \in Hooks!Chain, NEW d \in Hooks!Chain, NEW array \in Seq(Hooks!Reg), NEW reg \in Hooks!Reg,
         Hooks!Serves(c, array), c.at \in DOMAIN array, reg \notin Hooks!Handlers(c.found),
         d.found = c.found, d.called = c.called, d.at = c.at, d.moved
  PROVE  Hooks!Serves(d, Hooks!Inserted(reg, array))
<1> DEFINE new == Hooks!Inserted(reg, array)
<1>1. new \in Seq(Hooks!Reg) /\ Len(new) = Len(array) + 1 /\ Len(array) \in Nat
  BY InsertedIs
<1>2. PICK here \in 1..(Len(array) + 1) :
        \A i \in 1..(Len(array) + 1) :
           new[i] = IF i < here THEN array[i] ELSE IF i = here THEN reg ELSE array[i - 1]
  BY InsertedIs
<1> HIDE DEF new
<1>3. \A k \in DOMAIN array : \E i \in DOMAIN new : array[k] = new[i]
  <2> SUFFICES ASSUME NEW k \in 1..Len(array)
               PROVE  \E i \in 1..(Len(array) + 1) : array[k] = new[i]
    BY <1>1
  <2>1. CASE k < here
    BY <1>1, <1>2, <2>1
  <2>2. CASE k >= here
    <3>1. k + 1 \in 1..(Len(array) + 1) /\ ~(k + 1 < here) /\ k + 1 # here /\ (k + 1) - 1 = k
      BY <1>1, <2>2
    <3>2. new[k + 1] = array[k]
      BY <1>2, <3>1
    <3> QED
      BY <3>1, <3>2
  <2> QED
    BY <2>1, <2>2
<1>4. Hooks!Handlers(d.found) \subseteq Hooks!Handlers(new)
  <2>1. Hooks!Handlers(array) \subseteq Hooks!Handlers(new)
    BY <1>3 DEF Hooks!Handlers
  <2>2. Hooks!Handlers(c.found) \subseteq Hooks!Handlers(array)
    BY DEF Hooks!Serves
  <2> QED
    BY <2>1, <2>2
<1>5. ASSUME NEW i \in 1..d.at, new[i] \in Hooks!Handlers(d.found)
      PROVE  new[i] \in Hooks!Handlers(d.called)
  <2>1. i \in 1..(Len(array) + 1) /\ c.at \in 1..Len(array) /\ i \in 1..c.at
    BY <1>1
  <2>2. CASE i < here
    BY <1>2, <1>5, <2>1, <2>2 DEF Hooks!Serves
  <2>3. CASE i = here
    BY <1>2, <1>5, <2>1, <2>3
  <2>4. CASE i > here
    <3>1. i - 1 \in 1..c.at /\ ~(i < here) /\ i # here
      BY <2>1, <2>4
    <3>2. new[i] = array[i - 1]
      BY <1>2, <2>1, <3>1
    <3> QED
      BY <1>5, <3>1, <3>2 DEF Hooks!Serves
  <2> QED
    BY <2>1, <2>2, <2>3, <2>4
<1> QED
  BY <1>4, <1>5 DEF Hooks!Serves, new

LEMMA RegistersKeeps ==
  ASSUME Hooks!HooksInv, NEW a \in Admins, Hooks!Registers(a)
  PROVE  Hooks!HooksInv'
<1> DEFINE p == v3[a].plugin
           reg == [plugin |-> p, by |-> a, id |-> v5]
           new == Hooks!Inserted(reg, Hooks!Live)
           r == [pc |-> "registered", plugin |-> p]
           After(f) == [v4[f] EXCEPT !.moved = @ \/ (v4[f].pc = "running" /\ v4[f].array = Hooks!Now)]
<1>1. /\ v3[a].pc = "onEnable" /\ v3' = [v3 EXCEPT ![a].pc = "registered"]
      /\ v2' = [v2 EXCEPT ![Hooks!Now] = new]
      /\ v4' = [f \in Firings |-> After(f)]
      /\ v1' = v1 /\ v5' = v5
  <2>1. v3[a].pc = "onEnable" /\ v3' = [v3 EXCEPT ![a].pc = "registered"] /\ v1' = v1 /\ v5' = v5
    BY DEF Hooks!Registers, Hooks!Goes
  <2>2. Hooks!register(p, a)
    BY DEF Hooks!Registers
  <2>3. v2' = [v2 EXCEPT ![Hooks!Now] = new]
    BY <2>2 DEF Hooks!register, Hooks!Live
  <2>4. v4' = [f \in Firings |-> After(f)]
    BY <2>2 DEF Hooks!register
  <2> QED
    BY <2>1, <2>3, <2>4
<1>2. v3[a] \in Job /\ p \in Plugins /\ v5 \in Nat
  BY HooksTypes, HooksAssumption DEF Job
<1>3. v3' = [v3 EXCEPT ![a] = r] /\ r \in Job /\ r.pc = "registered" /\ r.plugin = p
  <2>1. [v3[a] EXCEPT !.pc = "registered"] = r
    BY <1>2 DEF Job
  <2>2. v3' = [v3 EXCEPT ![a] = [v3[a] EXCEPT !.pc = "registered"]]
    BY <1>1
  <2>3. r \in Job
    BY <1>2 DEF Job, Hooks!AdminPc
  <2> QED
    BY <2>1, <2>2, <2>3
<1> HIDE DEF r
<1>4. /\ v3' \in [Admins -> Job] /\ v3'[a] = r
      /\ \A b \in Admins : b # a => v3'[b] = v3[b]
  BY <1>3, HooksTypes
<1>5. /\ reg \in Hooks!Reg /\ reg.by = a /\ reg.id = v5 /\ reg.plugin = p
  BY <1>2 DEF Hooks!Reg
<1> HIDE DEF reg
<1>6. /\ new \in Seq(Hooks!Reg) /\ Len(new) = Len(Hooks!Live) + 1
      /\ \A i \in DOMAIN new : new[i] = reg \/ \E k \in DOMAIN Hooks!Live : new[i] = Hooks!Live[k]
  <2>1. Hooks!Live \in Seq(Hooks!Reg)
    BY ArraysAre
  <2>2. new \in Seq(Hooks!Reg) /\ Len(new) = Len(Hooks!Live) + 1 /\ Len(Hooks!Live) \in Nat
    BY <1>5, <2>1, InsertedIs
  <2>3. PICK here \in 1..(Len(Hooks!Live) + 1) :
          \A i \in 1..(Len(Hooks!Live) + 1) :
             new[i] = IF i < here THEN Hooks!Live[i] ELSE IF i = here THEN reg ELSE Hooks!Live[i - 1]
    BY <1>5, <2>1, InsertedIs
  <2> HIDE DEF new
  <2>4. ASSUME NEW i \in DOMAIN new, new[i] # reg
        PROVE  \E k \in DOMAIN Hooks!Live : new[i] = Hooks!Live[k]
    <3>1. i \in 1..(Len(Hooks!Live) + 1) /\ DOMAIN Hooks!Live = 1..Len(Hooks!Live)
      BY <2>1, <2>2
    <3>2. CASE i < here
      BY <2>2, <2>3, <3>1, <3>2
    <3>3. CASE i > here
      <4>1. i - 1 \in 1..Len(Hooks!Live) /\ ~(i < here) /\ i # here
        BY <2>2, <3>1, <3>3
      <4> QED
        BY <2>3, <3>1, <4>1
    <3> QED
      BY <2>3, <2>4, <3>1, <3>2, <3>3
  <2> QED
    BY <2>2, <2>4
<1>7. /\ v2' \in Seq(Seq(Hooks!Reg)) /\ v2' # <<>> /\ DOMAIN v2' = DOMAIN v2
      /\ v2'[Hooks!Now] = new
      /\ \A n \in DOMAIN v2 : n # Hooks!Now => v2'[n] = v2[n]
      /\ Hooks!Live' = new
  <2> HIDE DEF new
  <2>1. v2' \in Seq(Seq(Hooks!Reg)) /\ Len(v2') = Len(v2)
    BY <1>1, <1>6, ArraysAre, HooksTypes
  <2>2. v2'[Hooks!Now] = new /\ \A n \in DOMAIN v2 : n # Hooks!Now => v2'[n] = v2[n]
    BY <1>1, ArraysAre, HooksTypes
  <2>3. Hooks!Now' = Hooks!Now
    BY <2>1 DEF Hooks!Now
  <2>4. Hooks!Live' = v2'[Hooks!Now]
    BY <2>3 DEF Hooks!Live
  <2> QED
    BY <2>1, <2>2, <2>4, HooksTypes
<1>8. \A f \in Firings :
         /\ v4'[f] \in Hooks!Chain
         /\ v4'[f].pc = v4[f].pc /\ v4'[f].array = v4[f].array /\ v4'[f].at = v4[f].at
         /\ v4'[f].called = v4[f].called /\ v4'[f].found = v4[f].found
         /\ v4'[f].moved = (v4[f].moved \/ (v4[f].pc = "running" /\ v4[f].array = Hooks!Now))
  <2> SUFFICES ASSUME NEW f \in Firings
               PROVE  /\ After(f) \in Hooks!Chain
                      /\ After(f).pc = v4[f].pc /\ After(f).array = v4[f].array /\ After(f).at = v4[f].at
                      /\ After(f).called = v4[f].called /\ After(f).found = v4[f].found
                      /\ After(f).moved = (v4[f].moved \/ (v4[f].pc = "running" /\ v4[f].array = Hooks!Now))
    BY <1>1
  <2>1. v4[f] \in Hooks!Chain
    BY HooksTypes
  <2>2. v4[f].moved \in BOOLEAN
    BY <2>1 DEF Hooks!Chain
  <2> DEFINE m == v4[f].moved \/ (v4[f].pc = "running" /\ v4[f].array = Hooks!Now)
  <2>3. After(f) = [v4[f] EXCEPT !.moved = m] /\ m \in BOOLEAN
    BY <2>2
  <2> HIDE DEF m
  <2> QED
    BY <2>1, <2>3 DEF Hooks!Chain, m
<1> HIDE DEF After
<1>9. v4' \in [Firings -> Hooks!Chain]
  BY <1>1, <1>8
<1>10. \A f \in Firings : /\ v4[f].found \in Seq(Hooks!Reg)
                          /\ \A i \in DOMAIN v4[f].found : v4[f].found[i] \in Hooks!Reg
  <2>1. \A f \in Firings : v4[f].found \in Seq(Hooks!Reg)
    BY HooksTypes DEF Hooks!Chain
  <2> QED
    BY <2>1
<1>11. \A s \in Hooks!Reg : Hooks!IsOlder(s) => OlderThen(s)
  <2>1. \A s \in Hooks!Reg : s.by \in Admins
    BY DEF Hooks!Reg
  <2> QED
    BY <1>1, <1>3, <1>4, <2>1 DEF Hooks!IsOlder, OlderThen
<1>12. Hooks!RegistrationsAreOlder'
  <2>1. OlderThen(reg)
    BY <1>1, <1>2, <1>3, <1>4, <1>5 DEF OlderThen
  <2>2. \A n \in DOMAIN v2 : \A i \in DOMAIN v2[n] : v2[n][i] \in Hooks!Reg /\ Hooks!IsOlder(v2[n][i])
    BY ArraysAre, HooksParts DEF Hooks!RegistrationsAreOlder
  <2>3. \A k \in DOMAIN Hooks!Live : OlderThen(Hooks!Live[k])
    BY <1>11, <2>2, ArraysAre DEF Hooks!Live
  <2>4. \A i \in DOMAIN new : OlderThen(new[i])
    BY <1>6, <2>1, <2>3
  <2> HIDE DEF new
  <2>5. \A n \in DOMAIN v2' : \A i \in DOMAIN v2'[n] : OlderThen(v2'[n][i])
    BY <1>7, <1>11, <2>2, <2>4
  <2>6. \A f \in Firings : \A i \in DOMAIN v4'[f].found : OlderThen(v4'[f].found[i])
    BY <1>8, <1>10, <1>11, HooksParts DEF Hooks!RegistrationsAreOlder
  <2> QED
    BY <2>5, <2>6, OlderIf
<1>13. Hooks!TypeOK'
  <2>1. ASSUME NEW f \in Firings, v4'[f].pc = "running"
        PROVE  v4'[f].array \in DOMAIN v2' /\ v4'[f].at \in DOMAIN v2'[v4'[f].array]
    <3>1. /\ v4[f].array \in DOMAIN v2 /\ v4[f].at \in DOMAIN v2[v4[f].array]
          /\ v4'[f].array = v4[f].array /\ v4'[f].at = v4[f].at
      BY <1>8, <2>1, HooksTypes
    <3>2. DOMAIN Hooks!Live \subseteq DOMAIN new
      BY <1>6, ArraysAre
    <3> HIDE DEF new
    <3> QED
      BY <1>7, <3>1, <3>2 DEF Hooks!Live
  <2> QED
    BY <1>1, <1>4, <1>7, <1>9, <2>1, HooksTypes DEF Hooks!TypeOK, Job
<1>14. Hooks!ChainsServe'
  <2> SUFFICES ASSUME NEW f \in Firings, v4'[f].pc = "running"
               PROVE  Hooks!Serves(v4'[f], v2'[v4'[f].array])
    BY DEF Hooks!ChainsServe
  <2>1. /\ v4[f].pc = "running" /\ v4[f].array \in DOMAIN v2 /\ v4[f].at \in DOMAIN v2[v4[f].array]
        /\ v4[f] \in Hooks!Chain /\ v4'[f] \in Hooks!Chain
    BY <1>8, HooksTypes
  <2>2. Hooks!Serves(v4[f], v2[v4[f].array])
    BY <2>1, HooksParts DEF Hooks!ChainsServe
  <2>3. CASE v4[f].array = Hooks!Now
    <3>1. reg \notin Hooks!Handlers(v4[f].found)
      <4> SUFFICES ASSUME NEW i \in DOMAIN v4[f].found, v4[f].found[i] = reg
                   PROVE  FALSE
        BY DEF Hooks!Handlers
      <4>1. Hooks!IsOlder(reg)
        BY HooksParts DEF Hooks!RegistrationsAreOlder
      <4> QED
        BY <1>1, <1>2, <1>5, <4>1 DEF Hooks!IsOlder
    <3>2. Hooks!Serves(v4[f], Hooks!Live) /\ v4[f].at \in DOMAIN Hooks!Live /\ Hooks!Live \in Seq(Hooks!Reg)
      BY <2>1, <2>2, <2>3, ArraysAre DEF Hooks!Live
    <3>3. /\ v4'[f].found = v4[f].found /\ v4'[f].called = v4[f].called /\ v4'[f].at = v4[f].at
          /\ v4'[f].moved
      BY <1>8, <2>1, <2>3
    <3>4. Hooks!Serves(v4'[f], new)
      BY <1>5, <2>1, <3>1, <3>2, <3>3, ServesOn
    <3> HIDE DEF new
    <3> QED
      BY <1>7, <1>8, <2>3, <3>4
  <2>4. CASE v4[f].array # Hooks!Now
    <3>1. v2'[v4'[f].array] = v2[v4[f].array]
      BY <1>7, <1>8, <2>1, <2>4
    <3>2. v4'[f].moved = v4[f].moved
      BY <1>8, <2>1, <2>4 DEF Hooks!Chain
    <3> QED
      BY <1>8, <2>2, <3>1, <3>2 DEF Hooks!Serves
  <2> QED
    BY <2>3, <2>4
<1>15. Hooks!ChainServesAll'
  <2>1. \A f \in Firings : v4[f].pc = "ended" => v4'[f].moved = v4[f].moved
    <3>1. \A f \in Firings : v4[f].moved \in BOOLEAN
      BY HooksTypes DEF Hooks!Chain
    <3> QED
      BY <1>8, <3>1
  <2>2. Hooks!ChainServesAll
    BY HooksParts
  <2> QED
    BY <1>8, <2>1, <2>2 DEF Hooks!ChainServesAll
<1>16. Hooks!DisabledIsSilent'
  <2> SUFFICES ASSUME NEW q \in Plugins, v1'[q] = "DISABLED", ~Hooks!Enabling(q)',
                      NEW i \in DOMAIN Hooks!Live', Hooks!Live'[i].plugin = q
               PROVE  FALSE
    BY DEF Hooks!DisabledIsSilent, Hooks!Of, Hooks!Live, Hooks!Now
  <2>1. \A b \in Admins : v3'[b].plugin = q => v3'[b].pc \in {"idle", "onDisable"}
    BY DEF Hooks!Enabling, Hooks!InFlight
  <2>2. q # p
    BY <1>3, <1>4, <2>1
  <2>3. ~Hooks!Enabling(q)
    BY <1>1, <1>4, <2>1, <2>2, EnablingIs
  <2>4. \A k \in DOMAIN Hooks!Live : Hooks!Live[k].plugin # q
    BY <1>1, <2>3, HooksParts DEF Hooks!DisabledIsSilent, Hooks!Of
  <2> HIDE DEF new
  <2> QED
    BY <1>5, <1>6, <1>7, <2>2, <2>4
<1> QED
  BY <1>12, <1>13, <1>14, <1>15, <1>16 DEF Hooks!HooksInv


(* The chain's own steps touch nothing else.                                *)
LEMMA ChainStepKeeps ==
  ASSUME Hooks!HooksInv, NEW f \in Firings, NEW c \in Hooks!Chain,
         v4' = [v4 EXCEPT ![f] = c], v1' = v1, v2' = v2, v3' = v3, v5' = v5,
         \A i \in DOMAIN c.found : Hooks!IsOlder(c.found[i]),
         c.pc = "running" => /\ c.array \in DOMAIN v2 /\ c.at \in DOMAIN v2[c.array]
                             /\ Hooks!Serves(c, v2[c.array]),
         c.pc = "ended" => /\ Hooks!Handlers(c.found) \subseteq Hooks!Handlers(c.called)
                           /\ ~c.moved => c.called = c.found
  PROVE  Hooks!HooksInv'
<1>1. /\ v4' \in [Firings -> Hooks!Chain] /\ v4'[f] = c
      /\ \A g \in Firings : g # f => v4'[g] = v4[g]
  BY HooksTypes
<1>2. Hooks!TypeOK'
  <2>1. \A g \in Firings : v4'[g].pc = "running" =>
           v4'[g].array \in DOMAIN v2 /\ v4'[g].at \in DOMAIN v2[v4'[g].array]
    BY <1>1, HooksTypes
  <2>2. v2 # <<>>
    BY HooksParts DEF Hooks!TypeOK
  <2> QED
    BY <1>1, <2>1, <2>2, HooksTypes DEF Hooks!TypeOK, Job
<1>3. Hooks!RegistrationsAreOlder'
  <2>1. Hooks!RegistrationsAreOlder
    BY HooksParts
  <2>2. \A n \in DOMAIN v2' : \A i \in DOMAIN v2'[n] : OlderThen(v2'[n][i])
    BY <2>1 DEF Hooks!RegistrationsAreOlder, Hooks!IsOlder, OlderThen
  <2>3. \A g \in Firings : \A i \in DOMAIN v4'[g].found : OlderThen(v4'[g].found[i])
    <3>1. \A i \in DOMAIN c.found : OlderThen(c.found[i])
      BY DEF Hooks!IsOlder, OlderThen
    <3>2. \A g \in Firings : \A i \in DOMAIN v4[g].found : OlderThen(v4[g].found[i])
      BY <2>1 DEF Hooks!RegistrationsAreOlder, Hooks!IsOlder, OlderThen
    <3> QED
      BY <1>1, <3>1, <3>2
  <2> QED
    BY <2>2, <2>3, OlderIf
<1>4. Hooks!ChainsServe'
  BY <1>1, HooksParts DEF Hooks!ChainsServe
<1>5. Hooks!ChainServesAll'
  <2>1. Hooks!ChainServesAll
    BY HooksParts
  <2> QED
    BY <1>1, <2>1 DEF Hooks!ChainServesAll
<1>6. Hooks!DisabledIsSilent'
  <2>1. Hooks!DisabledIsSilent
    BY HooksParts
  <2> QED
    BY <2>1 DEF Hooks!DisabledIsSilent, Hooks!Enabling, Hooks!InFlight, Hooks!Of, Hooks!Live, Hooks!Now
<1> QED
  BY <1>2, <1>3, <1>4, <1>5, <1>6 DEF Hooks!HooksInv

LEMMA FiresKeeps ==
  ASSUME Hooks!HooksInv, NEW f \in Firings, Hooks!Fires(f)
  PROVE  Hooks!HooksInv'
<1> DEFINE first == Hooks!Live[1]
           begun == [pc |-> "running", array |-> Hooks!Now, at |-> 1, called |-> <<first>>,
                     found |-> Hooks!Live, moved |-> FALSE]
<1>1. /\ Hooks!Live # <<>> /\ v4' = [v4 EXCEPT ![f] = begun]
      /\ v1' = v1 /\ v2' = v2 /\ v3' = v3 /\ v5' = v5
  BY ArraysAre DEF Hooks!Fires
<1>2. Hooks!Live \in Seq(Hooks!Reg) /\ Hooks!Now \in DOMAIN v2 /\ Hooks!Now \in Nat
  BY ArraysAre, HooksTypes
<1>3. 1 \in DOMAIN Hooks!Live /\ first \in Hooks!Reg
  BY <1>1, <1>2
<1> HIDE DEF first
<1>4. <<first>> \in Seq(Hooks!Reg) /\ Len(<<first>>) = 1 /\ <<first>>[1] = first /\ DOMAIN <<first>> = {1}
  BY <1>3
<1>5. begun \in Hooks!Chain
  BY <1>2, <1>4 DEF Hooks!Chain
<1>6. Hooks!Serves(begun, Hooks!Live)
  <2>1. \A i \in 1..1 : i = 1
    OBVIOUS
  <2>2. first \in Hooks!Handlers(<<first>>)
    BY <1>4 DEF Hooks!Handlers
  <2> QED
    BY <1>4, <2>1, <2>2 DEF Hooks!Serves, first
<1>7. \A i \in DOMAIN Hooks!Live : Hooks!IsOlder(Hooks!Live[i])
  BY <1>2, HooksParts DEF Hooks!RegistrationsAreOlder, Hooks!Live
<1>8. /\ begun.pc = "running" /\ begun.array = Hooks!Now /\ begun.at = 1 /\ begun.found = Hooks!Live
      /\ v2[Hooks!Now] = Hooks!Live
  BY DEF Hooks!Live
<1> HIDE DEF begun
<1> QED
  BY <1>1, <1>2, <1>3, <1>5, <1>6, <1>7, <1>8, ChainStepKeeps

LEMMA HandlerReturnsKeeps ==
  ASSUME Hooks!HooksInv, NEW f \in Firings, Hooks!HandlerReturns(f)
  PROVE  Hooks!HooksInv'
<1> DEFINE c == v4[f]
           array == v2[c.array]
           on == [c EXCEPT !.at = c.at + 1, !.called = Append(c.called, array[c.at + 1])]
           ended == [c EXCEPT !.pc = "ended"]
<1>1. /\ c.pc = "running"
      /\ v4' = [v4 EXCEPT ![f] = IF c.at < Len(array) THEN on ELSE ended]
      /\ v1' = v1 /\ v2' = v2 /\ v3' = v3 /\ v5' = v5
  BY DEF Hooks!HandlerReturns
<1>2. /\ c \in Hooks!Chain /\ c.array \in DOMAIN v2 /\ c.at \in DOMAIN array
      /\ array \in Seq(Hooks!Reg)
      /\ Hooks!Serves(c, array)
  BY <1>1, HooksTypes, ArraysAre, HooksParts DEF Hooks!ChainsServe
<1>3. \A i \in DOMAIN c.found : Hooks!IsOlder(c.found[i])
  BY HooksParts DEF Hooks!RegistrationsAreOlder
<1>4. c.called \in Seq(Hooks!Reg) /\ c.found \in Seq(Hooks!Reg) /\ c.at \in Nat /\ Len(c.called) = c.at
  BY <1>2 DEF Hooks!Chain, Hooks!Serves
<1> HIDE DEF c, array
<1>5. CASE c.at < Len(array)
  <2> DEFINE next == array[c.at + 1]
             longer == Append(c.called, next)
  <2>1. next \in Hooks!Reg /\ c.at + 1 \in DOMAIN array /\ c.at + 1 \in Nat
    BY <1>2, <1>4, <1>5
  <2> HIDE DEF next
  <2>2. /\ longer \in Seq(Hooks!Reg) /\ Len(longer) = c.at + 1
        /\ longer[c.at + 1] = next
        /\ \A i \in 1..c.at : longer[i] = c.called[i]
    BY <1>4, <2>1
  <2> HIDE DEF longer
  <2>3. on = [c EXCEPT !.at = c.at + 1, !.called = longer]
    BY DEF longer, next
  <2> HIDE DEF on
  <2>4. /\ on \in Hooks!Chain /\ on.pc = c.pc /\ on.array = c.array /\ on.at = c.at + 1 /\ on.called = longer
        /\ on.found = c.found /\ on.moved = c.moved
    BY <1>2, <2>1, <2>2, <2>3 DEF Hooks!Chain
  <2>5. Hooks!Handlers(c.called) \cup {next} \subseteq Hooks!Handlers(longer)
    <3>1. next \in Hooks!Handlers(longer)
      BY <1>4, <2>2 DEF Hooks!Handlers
    <3>2. \A i \in DOMAIN c.called : i \in 1..c.at /\ i \in DOMAIN longer
      BY <1>4, <2>2
    <3>3. Hooks!Handlers(c.called) \subseteq Hooks!Handlers(longer)
      BY <2>2, <3>2 DEF Hooks!Handlers
    <3> QED
      BY <3>1, <3>3
  <2>6. Hooks!Serves(on, array)
    <3>1. \A i \in 1..(c.at + 1) : i \in 1..c.at \/ i = c.at + 1
      BY <1>4
    <3>2. \A i \in 1..on.at : array[i] \in Hooks!Handlers(on.found) => array[i] \in Hooks!Handlers(on.called)
      BY <1>2, <2>4, <2>5, <3>1 DEF Hooks!Serves, next
    <3>3. ~on.moved => array = on.found /\ \A i \in 1..on.at : on.called[i] = array[i]
      BY <1>2, <2>2, <2>4, <3>1 DEF Hooks!Serves, next
    <3>4. Hooks!Handlers(on.found) \subseteq Hooks!Handlers(array) /\ Len(on.called) = on.at
      BY <1>2, <2>2, <2>4 DEF Hooks!Serves
    <3> QED
      BY <3>2, <3>3, <3>4 DEF Hooks!Serves
  <2>7. v4' = [v4 EXCEPT ![f] = on]
    BY <1>1, <1>5
  <2>8. Hooks!Serves(on, v2[on.array]) /\ on.at \in DOMAIN v2[on.array] /\ on.array \in DOMAIN v2
    BY <1>2, <2>1, <2>4, <2>6 DEF array
  <2> QED
    BY <1>1, <1>3, <2>4, <2>7, <2>8, ChainStepKeeps
<1>6. CASE ~(c.at < Len(array))
  <2>1. /\ ended \in Hooks!Chain /\ ended.pc = "ended" /\ ended.called = c.called /\ ended.found = c.found
        /\ ended.moved = c.moved
    BY <1>2 DEF Hooks!Chain
  <2> HIDE DEF ended
  <2>2. c.at = Len(array) /\ DOMAIN array = 1..c.at
    BY <1>2, <1>4, <1>6
  <2>3. Hooks!Handlers(c.found) \subseteq Hooks!Handlers(c.called)
    BY <1>2, <2>2 DEF Hooks!Serves, Hooks!Handlers
  <2>4. ~c.moved => c.called = c.found
    <3> SUFFICES ASSUME ~c.moved
                 PROVE  c.called = c.found
      OBVIOUS
    <3>1. c.found = array /\ \A i \in 1..c.at : c.called[i] = array[i]
      BY <1>2 DEF Hooks!Serves
    <3> QED
      BY <1>2, <1>4, <2>2, <3>1
  <2>5. v4' = [v4 EXCEPT ![f] = ended]
    BY <1>1, <1>6
  <2> QED
    BY <1>1, <1>3, <2>1, <2>3, <2>4, <2>5, ChainStepKeeps
<1> QED
  BY <1>5, <1>6

LEMMA HandlerStopsKeeps ==
  ASSUME Hooks!HooksInv, NEW f \in Firings, Hooks!HandlerStops(f)
  PROVE  Hooks!HooksInv'
<1> DEFINE c == v4[f]
           stopped == [c EXCEPT !.pc = "stopped"]
<1>1. /\ v4' = [v4 EXCEPT ![f].pc = "stopped"]
      /\ v1' = v1 /\ v2' = v2 /\ v3' = v3 /\ v5' = v5
  BY DEF Hooks!HandlerStops
<1>2. c \in Hooks!Chain /\ v4' = [v4 EXCEPT ![f] = stopped]
  BY <1>1, HooksTypes
<1>3. stopped \in Hooks!Chain /\ stopped.pc = "stopped" /\ stopped.found = c.found
  BY <1>2 DEF Hooks!Chain
<1>4. \A i \in DOMAIN c.found : Hooks!IsOlder(c.found[i])
  BY HooksParts DEF Hooks!RegistrationsAreOlder
<1> HIDE DEF stopped, c
<1> QED
  BY <1>1, <1>2, <1>3, <1>4, ChainStepKeeps

LEMMA HooksStep == Hooks!HooksInv /\ [Hooks!Next]_(Hooks!hookVars) => Hooks!HooksInv'
<1> SUFFICES ASSUME Hooks!HooksInv, [Hooks!Next]_(Hooks!hookVars)
             PROVE  Hooks!HooksInv'
  OBVIOUS
<1>1. CASE UNCHANGED Hooks!hookVars
  <2>1. v1' = v1 /\ v2' = v2 /\ v3' = v3 /\ v4' = v4 /\ v5' = v5
    BY <1>1 DEF Hooks!hookVars
  <2>2. Hooks!TypeOK'
    BY <2>1, HooksParts DEF Hooks!TypeOK
  <2>3. Hooks!RegistrationsAreOlder'
    BY <2>1, HooksParts DEF Hooks!RegistrationsAreOlder, Hooks!IsOlder
  <2>4. Hooks!DisabledIsSilent'
    BY <2>1, HooksParts DEF Hooks!DisabledIsSilent, Hooks!Enabling, Hooks!InFlight, Hooks!Of, Hooks!Live, Hooks!Now
  <2> QED
    BY <2>1, <2>2, <2>3, <2>4, HooksParts, ChainsStay DEF Hooks!HooksInv
<1>2. CASE Hooks!Next
  BY <1>2, AdminKeeps, DisabledKeeps, RegistersKeeps, FiresKeeps, HandlerReturnsKeeps, HandlerStopsKeeps
     DEF Hooks!Next
<1> QED
  BY <1>1, <1>2

LEMMA HooksInit == Hooks!Init => Hooks!HooksInv
<1> SUFFICES ASSUME Hooks!Init
             PROVE  Hooks!HooksInv
  OBVIOUS
<1>1. /\ v1 = [p \in Plugins |-> "INSTALLED"] /\ v2 = << <<>> >>
      /\ v3 \in [Admins -> [pc : {"idle"}, plugin : {CHOOSE p \in Plugins : TRUE}]]
      /\ v4 = [f \in Firings |-> Hooks!NoChain] /\ v5 = 0
  BY DEF Hooks!Init
<1>2. v1 \in [Plugins -> Hooks!Statuses] /\ \A p \in Plugins : v1[p] # "DISABLED"
  BY <1>1 DEF Hooks!Statuses
<1>3. v2 \in Seq(Seq(Hooks!Reg)) /\ v2 # <<>> /\ DOMAIN v2 = {1} /\ v2[1] = <<>>
  BY <1>1
<1>4. (CHOOSE p \in Plugins : TRUE) \in Plugins
  BY HooksAssumption
<1>5. v3 \in [Admins -> Job]
  BY <1>1, <1>4 DEF Job, Hooks!AdminPc
<1>6. Hooks!NoChain \in Hooks!Chain /\ Hooks!NoChain.pc = "idle" /\ Hooks!NoChain.found = <<>>
  BY DEF Hooks!NoChain, Hooks!Chain
<1>7. v5 \in 0..MaxOps
  BY <1>1, HooksAssumption
<1>8. \A f \in Firings : v4[f] = Hooks!NoChain
  BY <1>1
<1>9. Hooks!TypeOK
  BY <1>1, <1>2, <1>3, <1>5, <1>6, <1>7, <1>8 DEF Hooks!TypeOK, Job
<1>10. Hooks!RegistrationsAreOlder
  <2>1. DOMAIN <<>> = {}
    OBVIOUS
  <2> QED
    BY <1>3, <1>6, <1>8, <2>1 DEF Hooks!RegistrationsAreOlder
<1>11. Hooks!ChainsServe /\ Hooks!ChainServesAll
  BY <1>6, <1>8 DEF Hooks!ChainsServe, Hooks!ChainServesAll
<1>12. Hooks!DisabledIsSilent
  BY <1>2 DEF Hooks!DisabledIsSilent
<1> QED
  BY <1>9, <1>10, <1>11, <1>12 DEF Hooks!HooksInv

-----------------------------------------------------------------------------
(* The media files.                                                        *)

LEMMA MediaCounts ==
  /\ \A S : Media!Cardinality(S) = Cardinality(S)
  /\ \A S : Media!IsFiniteSet(S) <=> IsFiniteSet(S)
  BY DEF Media!Cardinality, Cardinality, Media!IsFiniteSet, IsFiniteSet

(* What is counted is at most what contains it.                             *)
LEMMA Within ==
  ASSUME NEW S \in SUBSET Files, NEW T \in SUBSET Files, S \subseteq T
  PROVE  /\ Media!Cardinality(S) \in 0..Media!Cardinality(Files)
         /\ Media!Cardinality(S) <= Media!Cardinality(T)
<1>1. IsFiniteSet(T) /\ Cardinality(S) <= Cardinality(T)
  BY MediaAssumption, FS_Subset
<1>2. IsFiniteSet(S) /\ Cardinality(S) <= Cardinality(Files)
  BY MediaAssumption, FS_Subset
<1>3. Cardinality(S) \in Nat /\ Cardinality(Files) \in Nat
  BY <1>2, MediaAssumption, FS_CardinalityType
<1> QED
  BY <1>1, <1>2, <1>3, MediaCounts

LEMMA MediaStep == Media!MediaInv /\ [Media!Next]_(Media!storageVars) => Media!MediaInv'
<1> SUFFICES ASSUME Media!MediaInv, [Media!Next]_(Media!storageVars)
             PROVE  Media!MediaInv'
  OBVIOUS
<1>1. /\ Media!TypeOK /\ Media!ImportCounts /\ Media!CountedIsListed /\ Media!ExportIsWhole
      /\ v6 # Media!Idle => v7 = Media!NoResult
  BY DEF Media!MediaInv
<1>2. /\ v1 \in {"local", "s3"} /\ v2 \in {"unknown", "asked", "creating", "available", "lost"}
      /\ v3 \subseteq Files /\ v4 \subseteq Files /\ v5 \subseteq Files
      /\ v6 \in Media!Job \cup {Media!Idle} /\ v7 \in Media!Result /\ v8 \in BOOLEAN
      /\ v9 \in 0..MaxFileFailures
  BY <1>1 DEF Media!TypeOK
<1>3. /\ Media!Idle.kind = "none"
      /\ v6 \in Media!Job => v6.kind \in {"export", "import"} /\ v6.todo \subseteq Files /\ v6.done \subseteq Files
      /\ Media!listFiles \subseteq Files
  BY <1>2 DEF Media!Idle, Media!Job, Media!listFiles
<1>4. Media!NoResult \in Media!Result /\ Media!NoResult.count = 0 /\ Media!NoResult.put = {}
        /\ Media!NoResult.count <= Media!Cardinality(Media!NoResult.listed \cap v5)
  <2>1. Media!Cardinality({}) = 0
    BY MediaCounts, FS_EmptySet
  <2>2. Media!Cardinality(Files) \in Nat
    BY MediaCounts, MediaAssumption, FS_CardinalityType
  <2> QED
    BY <2>1, <2>2 DEF Media!NoResult, Media!Result
<1>5. ASSUME Media!BucketAnswers
      PROVE  Media!MediaInv'
  <2>1. /\ v1' = v1 /\ v3' = v3 /\ v4' = v4 /\ v5' = v5 /\ v6' = v6 /\ v7' = v7 /\ v9' = v9
        /\ v8' = (v8 \/ (v6 # Media!Idle /\ v2' = "available"))
        /\ v2 # "available" /\ v2' \in {"unknown", "asked", "creating", "available", "lost"}
    BY <1>5 DEF Media!BucketAnswers
  <2>2. v6 # Media!Idle /\ ~v8' => ~v8 /\ Media!listFiles' = Media!listFiles
    BY <1>2, <2>1 DEF Media!listFiles, Media!InBucket
  <2>3. Media!TypeOK'
    BY <1>1, <1>2, <2>1 DEF Media!TypeOK
  <2>4. Media!ImportCounts' /\ Media!ExportIsWhole'
    BY <1>1, <1>3, <2>1, <2>2 DEF Media!ImportCounts, Media!ExportIsWhole
  <2>5. Media!CountedIsListed'
    BY <1>1, <2>1 DEF Media!CountedIsListed
  <2> QED
    BY <1>1, <2>1, <2>3, <2>4, <2>5 DEF Media!MediaInv
<1>6. ASSUME Media!ExportBegins \/ Media!ImportBegins
      PROVE  Media!MediaInv'
  <2> DEFINE kind == v6'.kind
  <2>1. /\ v1' = v1 /\ v2' = v2 /\ v3' = v3 /\ v4' = v4 /\ v5' = v5 /\ v9' = v9
        /\ v8' = FALSE /\ v7' = Media!NoResult
    BY <1>6 DEF Media!ExportBegins, Media!ImportBegins
  <2>2. \/ v6' = [kind |-> "export", todo |-> Media!listFiles, done |-> {}]
        \/ v6' = [kind |-> "import", todo |-> v5, done |-> {}]
    BY <1>6 DEF Media!ExportBegins, Media!ImportBegins
  <2>3. Media!listFiles' = Media!listFiles
    BY <2>1 DEF Media!listFiles, Media!InBucket
  <2>4. v6' \in Media!Job
    BY <1>2, <1>3, <2>2 DEF Media!Job
  <2>5. Media!TypeOK'
    BY <1>2, <1>4, <2>1, <2>4 DEF Media!TypeOK
  <2>6. Media!ImportCounts' /\ Media!ExportIsWhole'
    BY <1>4, <2>1, <2>2, <2>3 DEF Media!ImportCounts, Media!ExportIsWhole
  <2>7. Media!CountedIsListed'
    BY <1>4, <2>1 DEF Media!CountedIsListed
  <2> QED
    BY <2>1, <2>5, <2>6, <2>7 DEF Media!MediaInv
<1>7. ASSUME NEW f \in Files, Media!Archives(f)
      PROVE  Media!MediaInv'
  <2>1. /\ v1' = v1 /\ v2' = v2 /\ v3' = v3 /\ v4' = v4 /\ v5' = v5 /\ v7' = v7 /\ v8' = v8
        /\ v6.kind = "export" /\ f \in v6.todo
        /\ \/ /\ v6' = [v6 EXCEPT !.todo = @ \ {f}, !.done = IF Media!getFile(f) THEN @ \cup {f} ELSE @]
              /\ v9' = v9
           \/ v9 < MaxFileFailures /\ v9' = v9 + 1 /\ v6' = [v6 EXCEPT !.todo = @ \ {f}]
    BY <1>7 DEF Media!Archives
  <2>2. v6 \in Media!Job /\ v6 # Media!Idle
    BY <1>2, <1>3, <2>1
  <2>3. /\ v6' \in Media!Job /\ v6'.kind = "export"
        /\ v9' = v9 /\ Media!getFile(f) => v6'.todo \cup v6'.done = v6.todo \cup v6.done
    <3>1. v6.todo \subseteq Files /\ v6.done \subseteq Files /\ f \in v6.todo
      BY <1>3, <2>1, <2>2
    <3>2. CASE /\ v6' = [v6 EXCEPT !.todo = @ \ {f}, !.done = IF Media!getFile(f) THEN @ \cup {f} ELSE @]
               /\ v9' = v9
      <4>1. CASE Media!getFile(f)
        <5>1. v6' = [v6 EXCEPT !.todo = @ \ {f}, !.done = @ \cup {f}]
          BY <3>2, <4>1
        <5> QED
          BY <2>1, <2>2, <3>1, <5>1 DEF Media!Job
      <4>2. CASE ~Media!getFile(f)
        <5>1. v6' = [v6 EXCEPT !.todo = @ \ {f}, !.done = @]
          BY <3>2, <4>2
        <5> QED
          BY <2>1, <2>2, <3>1, <4>2, <5>1 DEF Media!Job
      <4> QED
        BY <4>1, <4>2
    <3>3. CASE v9' = v9 + 1 /\ v6' = [v6 EXCEPT !.todo = @ \ {f}]
      <4>1. v9' # v9
        BY <1>2, <3>3
      <4> QED
        BY <2>1, <2>2, <3>1, <3>3, <4>1 DEF Media!Job
    <3> QED
      BY <2>1, <3>2, <3>3
  <2>4. v9' \in 0..MaxFileFailures /\ (v9' = v9 \/ v9' # 0) /\ (v9' # 0 \/ v9 = 0)
    BY <1>2, <2>1, MediaAssumption
  <2>5. Media!listFiles' = Media!listFiles /\ (Media!getFile(f) <=> f \in Media!listFiles)
    BY <2>1 DEF Media!listFiles, Media!InBucket, Media!getFile
  <2>6. Media!TypeOK'
    BY <1>2, <2>1, <2>3, <2>4 DEF Media!TypeOK
  <2>7. Media!ImportCounts'
    BY <2>3 DEF Media!ImportCounts
  <2>8. Media!ExportIsWhole'
    <3>1. ASSUME ~v8, v9' = 0
          PROVE  v6'.todo \cup v6'.done = Media!listFiles'
      <4>1. v6.todo \cup v6.done = Media!listFiles /\ v9' = v9
        BY <1>1, <2>1, <2>4, <3>1 DEF Media!ExportIsWhole
      <4>2. f \in Media!listFiles
        BY <2>1, <4>1
      <4> QED
        BY <2>3, <2>5, <4>1, <4>2
    <3> QED
      BY <1>1, <2>1, <3>1 DEF Media!ExportIsWhole
  <2>9. Media!CountedIsListed'
    BY <1>1, <2>1 DEF Media!CountedIsListed
  <2> QED
    BY <1>1, <2>1, <2>2, <2>6, <2>7, <2>8, <2>9 DEF Media!MediaInv
<1>8. ASSUME Media!ExportEnds
      PROVE  Media!MediaInv'
  <2>1. /\ v1' = v1 /\ v2' = v2 /\ v3' = v3 /\ v4' = v4 /\ v7' = v7 /\ v8' = v8 /\ v9' = v9
        /\ v6.kind = "export" /\ v5' = v6.done /\ v6' = Media!Idle
    BY <1>8 DEF Media!ExportEnds
  <2>2. v7 = Media!NoResult /\ v5' \subseteq Files
    BY <1>1, <1>2, <1>3, <2>1
  <2>3. Media!TypeOK'
    BY <1>2, <2>1, <2>2 DEF Media!TypeOK
  <2>4. Media!ImportCounts' /\ Media!ExportIsWhole'
    BY <1>1, <1>3, <2>1 DEF Media!ImportCounts, Media!ExportIsWhole
  <2>5. Media!CountedIsListed'
    <3>1. Media!Cardinality(Media!NoResult.listed \cap v5') \in Nat
      BY <2>2, MediaAssumption, MediaCounts, FS_CardinalityType, FS_Subset
    <3> QED
      BY <1>4, <2>1, <2>2, <3>1 DEF Media!CountedIsListed
  <2> QED
    BY <2>1, <2>3, <2>4, <2>5 DEF Media!MediaInv
<1>9. ASSUME NEW f \in Files, Media!Extracts(f)
      PROVE  Media!MediaInv'
  <2>1. /\ v1' = v1 /\ v2' = v2 /\ v5' = v5 /\ v7' = v7 /\ v8' = v8
        /\ v6.kind = "import" /\ f \in v6.todo
        /\ \/ /\ Media!Put(f) /\ v6' = [v6 EXCEPT !.todo = @ \ {f}, !.done = @ \cup {f}]
              /\ v9' = v9
           \/ /\ v9 < MaxFileFailures /\ v9' = v9 + 1
              /\ v6' = [v6 EXCEPT !.todo = @ \ {f}] /\ v3' = v3 /\ v4' = v4
    BY <1>9 DEF Media!Extracts, Media!NotPut
  <2>2. v6 \in Media!Job /\ v6 # Media!Idle
    BY <1>2, <1>3, <2>1
  <2>3. /\ v6' \in Media!Job /\ v6'.kind = "import" /\ v6'.todo \subseteq v6.todo
        /\ \/ v6'.done = v6.done
           \/ v6'.done = v6.done \cup {f} /\ f \in v3' \cup v4' /\ f \in Media!listFiles'
    <3>1. Media!Put(f) => f \in v3' \cup v4' /\ f \in Media!listFiles'
      BY <2>1 DEF Media!Put, Media!listFiles, Media!InBucket
    <3>2. v6.todo \subseteq Files /\ v6.done \subseteq Files /\ v6.kind = "import"
      BY <1>3, <2>1, <2>2
    <3>3. CASE v6' = [v6 EXCEPT !.todo = @ \ {f}, !.done = @ \cup {f}] /\ Media!Put(f)
      BY <2>2, <3>1, <3>2, <3>3 DEF Media!Job
    <3>4. CASE v6' = [v6 EXCEPT !.todo = @ \ {f}]
      BY <2>2, <3>2, <3>4 DEF Media!Job
    <3> QED
      BY <2>1, <3>3, <3>4
  <2>4. v3 \subseteq v3' /\ v4 \subseteq v4' /\ v3' \subseteq Files /\ v4' \subseteq Files
        /\ Media!listFiles \subseteq Media!listFiles'
    BY <1>2, <2>1 DEF Media!Put, Media!listFiles, Media!InBucket
  <2>5. v9' \in 0..MaxFileFailures
    BY <1>2, <2>1, MediaAssumption
  <2>6. Media!TypeOK'
    BY <1>2, <2>1, <2>3, <2>4, <2>5 DEF Media!TypeOK
  <2>7. Media!ImportCounts'
    BY <1>1, <2>1, <2>3, <2>4 DEF Media!ImportCounts
  <2>8. Media!ExportIsWhole' /\ Media!CountedIsListed'
    BY <1>1, <2>1, <2>3, <2>4 DEF Media!ExportIsWhole, Media!CountedIsListed
  <2> QED
    BY <1>1, <2>1, <2>2, <2>6, <2>7, <2>8 DEF Media!MediaInv
<1>10. ASSUME Media!ImportEnds
       PROVE  Media!MediaInv'
  <2>1. /\ v1' = v1 /\ v2' = v2 /\ v3' = v3 /\ v4' = v4 /\ v5' = v5 /\ v8' = v8 /\ v9' = v9
        /\ v6.kind = "import" /\ v6' = Media!Idle
        /\ v7' = [count |-> Media!Cardinality(v6.done), put |-> v6.done, listed |-> Media!listFiles]
    BY <1>10 DEF Media!ImportEnds
  <2>2. v6.done \subseteq Files
    BY <1>2, <1>3, <2>1
  <2>3. /\ v6.done \subseteq v5 /\ v6.done \subseteq v3 \cup v4
        /\ ~v8 => v6.done \subseteq Media!listFiles
    BY <1>1, <2>1 DEF Media!ImportCounts
  <2>4. v7' \in Media!Result
    BY <1>3, <2>1, <2>2, Within DEF Media!Result
  <2>5. Media!TypeOK'
    BY <1>2, <2>1, <2>4 DEF Media!TypeOK
  <2>6. Media!CountedIsListed'
    <3>1. ~v8 => Media!Cardinality(v6.done) <= Media!Cardinality(Media!listFiles \cap v5)
      BY <1>2, <1>3, <2>2, <2>3, Within
    <3> QED
      BY <2>1, <3>1 DEF Media!CountedIsListed
  <2>7. Media!ImportCounts' /\ Media!ExportIsWhole'
    BY <1>3, <2>1, <2>3 DEF Media!ImportCounts, Media!ExportIsWhole
  <2> QED
    BY <2>1, <2>5, <2>6, <2>7 DEF Media!MediaInv
<1>11. ASSUME Media!ImportBreaks
       PROVE  Media!MediaInv'
  <2>1. /\ v1' = v1 /\ v2' = v2 /\ v3' = v3 /\ v4' = v4 /\ v5' = v5 /\ v7' = v7 /\ v8' = v8
        /\ v9 < MaxFileFailures /\ v9' = v9 + 1 /\ v6' = Media!Idle
    BY <1>11 DEF Media!ImportBreaks
  <2>2. v9' \in 0..MaxFileFailures
    BY <1>2, <2>1, MediaAssumption
  <2>3. Media!TypeOK'
    BY <1>2, <2>1, <2>2 DEF Media!TypeOK
  <2>4. Media!ImportCounts' /\ Media!ExportIsWhole' /\ Media!CountedIsListed'
    BY <1>1, <1>3, <2>1 DEF Media!ImportCounts, Media!ExportIsWhole, Media!CountedIsListed
  <2> QED
    BY <2>1, <2>3, <2>4 DEF Media!MediaInv
<1>12. CASE UNCHANGED Media!storageVars
  <2>1. Media!listFiles' = Media!listFiles
    BY <1>12 DEF Media!storageVars, Media!listFiles, Media!InBucket
  <2> QED
    BY <1>1, <1>12, <2>1 DEF Media!storageVars, Media!MediaInv, Media!TypeOK, Media!ImportCounts,
       Media!CountedIsListed, Media!ExportIsWhole
<1> QED
  BY <1>5, <1>6, <1>7, <1>8, <1>9, <1>10, <1>11, <1>12 DEF Media!Next

LEMMA MediaInit == Media!Init => Media!MediaInv
<1> SUFFICES ASSUME Media!Init
             PROVE  Media!MediaInv
  OBVIOUS
<1>1. /\ v1 \in {"local", "s3"} /\ v2 \in {"unknown", "asked"}
      /\ v3 \subseteq Files /\ v4 \subseteq Files /\ v5 = {} /\ v6 = Media!Idle
      /\ v7 = Media!NoResult /\ v8 = FALSE /\ v9 = 0
  BY DEF Media!Init
<1>2. Media!Cardinality({}) = 0 /\ Media!Cardinality(Files) \in Nat
  BY MediaAssumption, MediaCounts, FS_EmptySet, FS_CardinalityType
<1>3. Media!TypeOK
  <2>1. Media!NoResult \in Media!Result
    BY <1>2 DEF Media!NoResult, Media!Result
  <2>2. v9 \in 0..MaxFileFailures
    BY <1>1, MediaAssumption
  <2> QED
    BY <1>1, <2>1, <2>2 DEF Media!TypeOK
<1>4. Media!CountedIsListed
  BY <1>1, <1>2 DEF Media!CountedIsListed, Media!NoResult
<1> QED
  BY <1>1, <1>3, <1>4 DEF Media!MediaInv, Media!ImportCounts, Media!ExportIsWhole, Media!Idle,
     Media!NoResult

-----------------------------------------------------------------------------
(* The transfer of the data.                                               *)

(* The tables, written out.                                                *)
LEMMA TransferTables ==
  /\ Transfer!Exported = <<"sessions", "webhooks", "messages", "batches">>
  /\ Transfer!ImportOrder = Transfer!Exported
  /\ Transfer!Len(Transfer!Exported) = 4
  /\ Transfer!ToSet(Transfer!Exported) = {"sessions", "webhooks", "messages", "batches"}
  /\ Transfer!Tables = {"sessions", "webhooks", "messages", "batches", "templates"}
  /\ Transfer!Bound = {"webhooks", "templates"}
<1>1. /\ Transfer!Exported = <<"sessions", "webhooks", "messages", "batches">>
      /\ Transfer!ImportOrder = Transfer!Exported
      /\ Transfer!Len(Transfer!Exported) = 4
      /\ DOMAIN Transfer!Exported = 1..4
  BY DEF Transfer!Exported, Transfer!ImportOrder
<1>2. 1..4 = {1, 2, 3, 4}
  OBVIOUS
<1>3. Transfer!ToSet(Transfer!Exported) = {Transfer!Exported[i] : i \in {1, 2, 3, 4}}
  BY <1>1, <1>2 DEF Transfer!ToSet
<1>4. /\ Transfer!Exported[1] = "sessions" /\ Transfer!Exported[2] = "webhooks"
      /\ Transfer!Exported[3] = "messages" /\ Transfer!Exported[4] = "batches"
  BY <1>1
<1>5. Transfer!ToSet(Transfer!Exported) = {"sessions", "webhooks", "messages", "batches"}
  BY <1>3, <1>4
<1> QED
  BY <1>1, <1>5 DEF Transfer!Tables, Transfer!Bound

(* What an answer says stays true: it is the last thing that happens.       *)
Said == /\ Transfer!CleanImportIsExact /\ Transfer!AnswerTellsTrue
        /\ Transfer!ThrownChangesNothing /\ Transfer!ExportFitsTogether

LEMMA SaidStays ==
  ASSUME Said, v6' = v6,
         v6 = Transfer!NoAnswer \/ (v4' = v4 /\ v1' = v1 /\ v7 \subseteq v7' /\ v9' = v9)
  PROVE  Said'
<1>1. CASE v6 = Transfer!NoAnswer
  <2>1. v6'.told = "nothing"
    BY <1>1 DEF Transfer!NoAnswer
  <2> QED
    BY <2>1 DEF Said, Transfer!CleanImportIsExact, Transfer!AnswerTellsTrue,
       Transfer!ThrownChangesNothing, Transfer!ExportFitsTogether
<1>2. CASE v4' = v4 /\ v1' = v1 /\ v7 \subseteq v7' /\ v9' = v9
  BY <1>2 DEF Said, Transfer!CleanImportIsExact, Transfer!AnswerTellsTrue, Transfer!Tabular,
     Transfer!ThrownChangesNothing, Transfer!ExportFitsTogether
<1> QED
  BY <1>1, <1>2

LEMMA TransferParts ==
  Transfer!TransferInv <=>
    Transfer!TypeOK /\ Transfer!AnswerIsLast /\ Transfer!ExportFollows /\ Transfer!ImportGoes
      /\ Transfer!ImportIsClean /\ Said
BY DEF Transfer!TransferInv, Said

(* What the invariant says of the import, read off.                         *)
LEMMA ImportRead ==
  ASSUME Transfer!TransferInv
  PROVE  /\ v1 \in {"sqlite", "postgres"} /\ v2 \subseteq Transfer!Row /\ v4 \subseteq Transfer!Row
         /\ v3 \in Transfer!Export \cup {Transfer!NoExport}
         /\ v5 \in Transfer!Import \cup {Transfer!NoImport}
         /\ v6 \in Transfer!Told \cup {Transfer!NoAnswer} /\ v7 \subseteq WaSessions
         /\ v8 \in 0..MaxRowChanges /\ v9 \in 0..MaxFailures
         /\ v5 # Transfer!NoImport =>
              /\ v5 \in Transfer!Import /\ v5.pc \in 1..6
              /\ v5.gone \subseteq Transfer!Row /\ v5.put \subseteq Transfer!Row
              /\ v5.others \subseteq Transfer!Row /\ v5.gave \in BOOLEAN
              /\ v5.counted \subseteq Transfer!Row /\ v5.warned \subseteq Transfer!Row
              /\ v5.before \subseteq Transfer!Row
              /\ v6 = Transfer!NoAnswer
         /\ v3 # Transfer!NoExport =>
              /\ v3 \in Transfer!Export /\ v3.pc \in 1..4 /\ v3.rows \subseteq Transfer!Row
              /\ v6 = Transfer!NoAnswer
<1>1. Transfer!TypeOK /\ Transfer!AnswerIsLast
  BY DEF Transfer!TransferInv
<1> QED
  BY <1>1, TransferTables DEF Transfer!TypeOK, Transfer!AnswerIsLast, Transfer!Import, Transfer!Export

(* The rows of a session, by name.                                          *)
LEMMA SessionRows ==
  ASSUME NEW s \in WaSessions
  PROVE  /\ Transfer!SessionRow(s) \in Transfer!Row
         /\ Transfer!SessionRow(s).table = "sessions" /\ Transfer!SessionRow(s).session = s
         /\ \A r \in Transfer!Row : r.table = "sessions" /\ r.session = s => r = Transfer!SessionRow(s)
BY TransferTables DEF Transfer!SessionRow, Transfer!Row

(* The gateway's own work.                                                  *)
LEMMA SavedKeeps ==
  ASSUME Transfer!TransferInv, NEW r \in Transfer!Row, Transfer!Saved(r)
  PROVE  Transfer!TransferInv'
<1>1. /\ Transfer!TypeOK /\ Transfer!AnswerIsLast /\ Transfer!ExportFollows /\ Transfer!ImportGoes
      /\ Transfer!ImportIsClean /\ Said
  BY TransferParts
<1>2. /\ v1' = v1 /\ v3' = v3 /\ v4' = v4 /\ v6' = v6 /\ v9' = v9
      /\ v8 < MaxRowChanges /\ v8' = v8 + 1
      /\ r.table = "sessions" \/ Transfer!SessionRow(r.session) \in v2
      /\ v7' = IF r.table = "sessions" THEN v7 \cup {r.session} ELSE v7
  BY DEF Transfer!Saved
<1>3. /\ r.session \in WaSessions
      /\ r.table = "sessions" => r = Transfer!SessionRow(r.session)
      /\ \A s \in WaSessions : Transfer!SessionRow(s).table = "sessions" /\ Transfer!SessionRow(s).session = s
  BY SessionRows DEF Transfer!Row
<1>4. v7 \subseteq v7' /\ v7' \subseteq WaSessions /\ v8' \in 0..MaxRowChanges
  <2>1. v8' \in 0..MaxRowChanges
    BY <1>2, ImportRead, TransferAssumption
  <2>2. v7 \subseteq WaSessions
    BY ImportRead
  <2> QED
    BY <1>2, <1>3, <2>1, <2>2
<1>5. Said'
  BY <1>1, <1>2, <1>4, SaidStays
<1>6. ASSUME v5 = Transfer!NoImport \/ (v1 = "postgres" /\ r.table = "messages"),
             v2' = v2 \cup {r}, v5' = v5
      PROVE  Transfer!TransferInv'
  <2>1. Transfer!TypeOK' /\ Transfer!AnswerIsLast'
    BY <1>1, <1>2, <1>4, <1>6 DEF Transfer!TypeOK, Transfer!AnswerIsLast
  <2>2. Transfer!ExportFollows'
    BY <1>1, <1>2, <1>3, <1>4, <1>6, TransferTables
       DEF Transfer!ExportFollows, Transfer!WebhooksFit, Transfer!FindsIn
  <2>3. Transfer!ImportGoes'
    BY <1>1, <1>2, <1>6 DEF Transfer!ImportGoes, Transfer!Of
  <2>4. Transfer!ImportIsClean'
    BY <1>1, <1>2, <1>4, <1>6 DEF Transfer!ImportIsClean
  <2> QED
    BY <1>5, <2>1, <2>2, <2>3, <2>4 DEF Transfer!TransferInv, Said
<1>7. ASSUME v5 # Transfer!NoImport, r.table = "messages", v2' = v2,
             v5' = [v5 EXCEPT !.put = @ \cup {r}, !.others = @ \cup {r}]
      PROVE  Transfer!TransferInv'
  <2>1. /\ v5 \in Transfer!Import /\ v5.put \subseteq Transfer!Row /\ v5.others \subseteq Transfer!Row
        /\ v6 = Transfer!NoAnswer
    BY <1>7, ImportRead
  <2>2. /\ v5' \in Transfer!Import
        /\ v5'.put = v5.put \cup {r} /\ v5'.others = v5.others \cup {r} /\ v5'.pc = v5.pc
        /\ v5'.gone = v5.gone /\ v5'.counted = v5.counted /\ v5'.warned = v5.warned
        /\ v5'.gave = v5.gave /\ v5'.before = v5.before
    BY <1>7, <2>1 DEF Transfer!Import
  <2>3. v5' # Transfer!NoImport
    BY <2>2, TransferTables DEF Transfer!Import, Transfer!NoImport
  <2>4. Transfer!TypeOK' /\ Transfer!AnswerIsLast'
    BY <1>1, <1>2, <1>4, <1>7, <2>1, <2>2 DEF Transfer!TypeOK, Transfer!AnswerIsLast
  <2>5. Transfer!ExportFollows'
    BY <1>1, <1>2, <1>4, <1>7 DEF Transfer!ExportFollows, Transfer!WebhooksFit, Transfer!FindsIn
  <2>6. Transfer!ImportGoes'
    BY <1>1, <1>2, <1>7, <2>2 DEF Transfer!ImportGoes, Transfer!Of
  <2>7. Transfer!ImportIsClean'
    BY <1>1, <1>2, <1>4, <1>7, <2>2 DEF Transfer!ImportIsClean
  <2> QED
    BY <1>5, <2>4, <2>5, <2>6, <2>7 DEF Transfer!TransferInv, Said
<1> QED
  BY <1>6, <1>7 DEF Transfer!Saved

LEMMA DeletedKeeps ==
  ASSUME Transfer!TransferInv, NEW s \in WaSessions, Transfer!Deleted(s)
  PROVE  Transfer!TransferInv'
<1>1. /\ Transfer!TypeOK /\ Transfer!AnswerIsLast /\ Transfer!ExportFollows /\ Said
  BY TransferParts
<1>2. /\ v1' = v1 /\ v3' = v3 /\ v4' = v4 /\ v5' = v5 /\ v6' = v6 /\ v7' = v7 /\ v9' = v9
      /\ v8 < MaxRowChanges /\ v8' = v8 + 1 /\ v5 = Transfer!NoImport
      /\ v2' = {r \in v2 : r.session = s => r.table \notin Transfer!Bound \cup {"sessions"}}
  BY DEF Transfer!Deleted
<1>3. v8' \in 0..MaxRowChanges
  BY <1>2, ImportRead, TransferAssumption
<1>4. Transfer!TypeOK' /\ Transfer!AnswerIsLast'
  BY <1>1, <1>2, <1>3 DEF Transfer!TypeOK, Transfer!AnswerIsLast
<1>5. \A r \in v2 : r.session \in WaSessions
  BY ImportRead DEF Transfer!Row
<1>6. \A r \in v2' : r.table \in Transfer!Bound /\ Transfer!SessionRow(r.session) \in v2
                      => Transfer!SessionRow(r.session) \in v2'
  BY <1>2, <1>5, SessionRows
<1>7. Transfer!ExportFollows'
  BY <1>1, <1>2, <1>6 DEF Transfer!ExportFollows, Transfer!WebhooksFit, Transfer!FindsIn
<1>8. Transfer!ImportGoes' /\ Transfer!ImportIsClean'
  BY <1>2 DEF Transfer!ImportGoes, Transfer!ImportIsClean
<1>9. Said'
  BY <1>1, <1>2, SaidStays
<1> QED
  BY <1>4, <1>7, <1>8, <1>9 DEF Transfer!TransferInv, Said

(* The export.                                                              *)
LEMMA ExportKeeps ==
  ASSUME Transfer!TransferInv,
         Transfer!ExportBegins \/ Transfer!ExportReads \/ Transfer!ExportMisses \/ Transfer!Moves
  PROVE  Transfer!TransferInv'
<1>1. /\ Transfer!TypeOK /\ Transfer!AnswerIsLast /\ Transfer!ExportFollows /\ Transfer!ImportGoes
      /\ Transfer!ImportIsClean /\ Said
  BY TransferParts
<1>2. v5' = v5 /\ v6' = v6 /\ v8' = v8 /\ v6 = Transfer!NoAnswer
  BY ImportRead DEF Transfer!ExportBegins, Transfer!ExportReads, Transfer!ExportMisses, Transfer!Moves
<1>3. Said'
  BY <1>1, <1>2, SaidStays
<1>4. v5 = Transfer!NoImport => Transfer!AnswerIsLast'
  BY <1>2 DEF Transfer!AnswerIsLast
<1>5. CASE Transfer!ExportBegins
  <2>1. /\ v1' = v1 /\ v2' = v2 /\ v9' = v9 /\ v3' = [pc |-> 1, rows |-> {}] /\ v7' = {} /\ v4' = {}
        /\ v5 = Transfer!NoImport
    BY <1>5 DEF Transfer!ExportBegins, Transfer!NoFile
  <2>2. v3' \in Transfer!Export /\ v3'.pc = 1 /\ v3'.rows = {}
    BY <2>1, TransferTables DEF Transfer!Export
  <2>3. Transfer!TypeOK'
    BY <1>1, <1>2, <2>1, <2>2 DEF Transfer!TypeOK
  <2>4. Transfer!ExportFollows'
    BY <1>1, <1>2, <2>1, <2>2 DEF Transfer!ExportFollows, Transfer!WebhooksFit
  <2>5. Transfer!ImportGoes' /\ Transfer!ImportIsClean'
    BY <1>2, <2>1 DEF Transfer!ImportGoes, Transfer!ImportIsClean
  <2> QED
    BY <1>3, <1>4, <2>1, <2>3, <2>4, <2>5 DEF Transfer!TransferInv, Said
<1>6. ASSUME v1' = v1, v2' = v2, v7' = v7, v9' \in 0..MaxFailures, v5 = Transfer!NoImport,
             v3 # Transfer!NoExport,
             NEW rows \in SUBSET Transfer!Row, v3.rows \subseteq rows,
             \A r \in rows : r.table \in Transfer!ToSet(Transfer!Exported),
             \A q \in WaSessions : Transfer!SessionRow(q) \in v2
               => Transfer!SessionRow(q) \in rows \/ q \in v7,
             Transfer!WebhooksFit(rows), Transfer!Exports(rows)
      PROVE  Transfer!TransferInv'
  <2>1. v3 \in Transfer!Export /\ v3.pc \in 1..4
    BY <1>6, ImportRead
  <2>2. \/ v4' = rows /\ v3' = Transfer!NoExport
        \/ /\ v3.pc \in 1..3 /\ v4' = v4
           /\ v3' = [pc |-> v3.pc + 1, rows |-> rows]
    BY <1>6, <2>1, TransferTables DEF Transfer!Exports
  <2>3. v3' = Transfer!NoExport \/ (v3' \in Transfer!Export /\ v3'.rows = rows)
    BY <2>2, TransferTables DEF Transfer!Export
  <2>4. Transfer!TypeOK'
    BY <1>1, <1>2, <1>6, <2>2, <2>3 DEF Transfer!TypeOK
  <2>5. Transfer!WebhooksFit(rows)' /\ Transfer!WebhooksFit(v4)' <=> Transfer!WebhooksFit(rows) /\ Transfer!WebhooksFit(v4')
    BY <1>6 DEF Transfer!WebhooksFit, Transfer!FindsIn
  <2>6. Transfer!ExportFollows'
    BY <1>1, <1>2, <1>6, <2>2, <2>3, <2>5 DEF Transfer!ExportFollows, Transfer!WebhooksFit, Transfer!FindsIn
  <2>7. Transfer!ImportGoes' /\ Transfer!ImportIsClean'
    BY <1>2, <1>6 DEF Transfer!ImportGoes, Transfer!ImportIsClean
  <2> QED
    BY <1>3, <1>4, <1>6, <2>4, <2>6, <2>7 DEF Transfer!TransferInv, Said
<1>7. v3 # Transfer!NoExport => v5 = Transfer!NoImport
  BY <1>1 DEF Transfer!AnswerIsLast
<1>8. CASE Transfer!ExportReads
  <2> DEFINE read == Transfer!Of(Transfer!Exported[v3.pc], v2)
             rows == v3.rows \cup read
  <2>1. /\ v1' = v1 /\ v2' = v2 /\ v7' = v7 /\ v9' = v9 /\ v3 # Transfer!NoExport
        /\ Transfer!Exports(rows)
    BY <1>8 DEF Transfer!ExportReads
  <2>2. /\ v3.pc \in 1..4 /\ v3.rows \subseteq Transfer!Row /\ v2 \subseteq Transfer!Row
        /\ v9 \in 0..MaxFailures /\ v6 = Transfer!NoAnswer
    BY <2>1, ImportRead
  <2>3. \A r \in read : r \in v2 /\ r.table = Transfer!Exported[v3.pc]
    BY DEF Transfer!Of
  <2>4. /\ v3.pc = 1 => Transfer!Exported[v3.pc] = "sessions"
        /\ v3.pc > 1 => Transfer!Exported[v3.pc] # "sessions"
        /\ Transfer!Exported[v3.pc] = "webhooks" => v3.pc > 1
        /\ Transfer!Exported[v3.pc] \in Transfer!ToSet(Transfer!Exported)
    BY <2>2, TransferTables
  <2>5. rows \in SUBSET Transfer!Row /\ v3.rows \subseteq rows
    BY <2>2, <2>3
  <2>6. \A r \in rows : r.table \in Transfer!ToSet(Transfer!Exported)
    BY <1>1, <2>1, <2>3, <2>4 DEF Transfer!ExportFollows
  <2>7. \A q \in WaSessions : Transfer!SessionRow(q) \in v2
          => Transfer!SessionRow(q) \in rows \/ q \in v7
    <3> SUFFICES ASSUME NEW q \in WaSessions, Transfer!SessionRow(q) \in v2
                 PROVE  Transfer!SessionRow(q) \in rows \/ q \in v7
      OBVIOUS
    <3>1. CASE v3.pc = 1
      BY <2>4, <3>1, SessionRows DEF Transfer!Of
    <3>2. CASE v3.pc > 1
      BY <1>1, <2>1, <3>2 DEF Transfer!ExportFollows
    <3> QED
      BY <2>2, <3>1, <3>2
  <2>8. Transfer!WebhooksFit(rows)
    <3> SUFFICES ASSUME NEW r \in rows, r.table = "webhooks"
                 PROVE  Transfer!SessionRow(r.session) \in rows \/ r.session \in v7
      BY DEF Transfer!WebhooksFit, Transfer!FindsIn
    <3>1. CASE r \in v3.rows
      BY <1>1, <2>1, <3>1 DEF Transfer!ExportFollows, Transfer!WebhooksFit, Transfer!FindsIn
    <3>2. CASE r \in read
      <4>1. r \in v2 /\ r.session \in WaSessions
        BY <2>2, <2>3, <3>2 DEF Transfer!Row
      <4>2. Transfer!SessionRow(r.session) \in v2
        BY <1>1, <2>2, <4>1, TransferTables DEF Transfer!ExportFollows
      <4> QED
        BY <2>7, <4>1, <4>2
    <3> QED
      BY <3>1, <3>2
  <2> HIDE DEF rows, read
  <2> QED
    BY <1>6, <1>7, <2>1, <2>2, <2>5, <2>6, <2>7, <2>8
<1>9. CASE Transfer!ExportMisses
  <2>1. /\ v1' = v1 /\ v2' = v2 /\ v7' = v7 /\ v3 # Transfer!NoExport
        /\ v9 < MaxFailures /\ v9' = v9 + 1
        /\ IF Transfer!Exported[v3.pc] \in {"messages", "batches"}
           THEN Transfer!Exports(v3.rows)
           ELSE v3' = Transfer!NoExport /\ v4' = v4
    BY <1>9 DEF Transfer!ExportMisses
  <2>2. v9' \in 0..MaxFailures
    BY <2>1, ImportRead, TransferAssumption
  <2>3. v3.pc \in 1..4 /\ v3.rows \in SUBSET Transfer!Row
    BY <2>1, ImportRead
  <2>4. CASE Transfer!Exported[v3.pc] \in {"messages", "batches"}
    <3>1. v3.pc > 1
      BY <2>3, <2>4, TransferTables
    <3>2. /\ \A r \in v3.rows : r.table \in Transfer!ToSet(Transfer!Exported)
          /\ \A q \in WaSessions : Transfer!SessionRow(q) \in v2
                => Transfer!SessionRow(q) \in v3.rows \/ q \in v7
          /\ Transfer!WebhooksFit(v3.rows)
      BY <1>1, <2>1, <3>1 DEF Transfer!ExportFollows
    <3> QED
      BY <1>6, <1>7, <2>1, <2>2, <2>3, <2>4, <3>2
  <2>5. CASE Transfer!Exported[v3.pc] \notin {"messages", "batches"}
    <3>1. v3' = Transfer!NoExport /\ v4' = v4
      BY <2>1, <2>5
    <3>2. Transfer!TypeOK'
      BY <1>1, <1>2, <2>1, <2>2, <3>1 DEF Transfer!TypeOK
    <3>3. Transfer!ExportFollows'
      BY <1>1, <1>2, <2>1, <3>1 DEF Transfer!ExportFollows, Transfer!WebhooksFit, Transfer!FindsIn
    <3>4. Transfer!ImportGoes' /\ Transfer!ImportIsClean'
      BY <1>2, <1>7, <2>1 DEF Transfer!ImportGoes, Transfer!ImportIsClean
    <3>5. Transfer!AnswerIsLast'
      BY <1>1, <1>2, <3>1 DEF Transfer!AnswerIsLast
    <3> QED
      BY <1>3, <3>2, <3>3, <3>4, <3>5 DEF Transfer!TransferInv, Said
  <2> QED
    BY <2>4, <2>5
<1>10. CASE Transfer!Moves
  <2>1. /\ v2' = {} /\ v1' = "postgres" /\ v3' = v3 /\ v4' = v4 /\ v7' = v7 /\ v9' = v9
        /\ v3 = Transfer!NoExport /\ v5 = Transfer!NoImport
    BY <1>10 DEF Transfer!Moves
  <2>2. Transfer!TypeOK'
    BY <1>1, <1>2, <2>1 DEF Transfer!TypeOK
  <2>3. Transfer!ExportFollows'
    BY <1>1, <1>2, <2>1 DEF Transfer!ExportFollows, Transfer!WebhooksFit, Transfer!FindsIn
  <2>4. Transfer!ImportGoes' /\ Transfer!ImportIsClean' /\ Transfer!AnswerIsLast'
    BY <1>2, <2>1 DEF Transfer!ImportGoes, Transfer!ImportIsClean, Transfer!AnswerIsLast
  <2> QED
    BY <1>3, <2>2, <2>3, <2>4 DEF Transfer!TransferInv, Said
<1> QED
  BY <1>5, <1>8, <1>9, <1>10

(* The import.                                                              *)
LEMMA ImportBeginsKeeps ==
  ASSUME Transfer!TransferInv, Transfer!ImportBegins
  PROVE  Transfer!TransferInv'
<1>1. /\ Transfer!TypeOK /\ Transfer!AnswerIsLast /\ Transfer!ExportFollows /\ Said
  BY TransferParts
<1>2. /\ v1' = v1 /\ v2' = v2 /\ v3' = v3 /\ v4' = v4 /\ v6' = v6 /\ v7' = v7 /\ v8' = v8 /\ v9' = v9
      /\ v5' = [pc |-> 1, gone |-> {}, put |-> {}, others |-> {}, gave |-> FALSE,
                counted |-> {}, warned |-> {}, before |-> v2]
      /\ v3 = Transfer!NoExport /\ v6 = Transfer!NoAnswer
  BY DEF Transfer!ImportBegins
<1>3. v5' \in Transfer!Import
  BY <1>2, ImportRead, TransferTables DEF Transfer!Import
<1>4. Transfer!TypeOK' /\ Transfer!AnswerIsLast'
  BY <1>1, <1>2, <1>3 DEF Transfer!TypeOK, Transfer!AnswerIsLast
<1>5. Transfer!ExportFollows'
  BY <1>1, <1>2 DEF Transfer!ExportFollows, Transfer!WebhooksFit, Transfer!FindsIn
<1>6. Transfer!ImportGoes'
  BY <1>2, TransferTables DEF Transfer!ImportGoes
<1>7. Transfer!ImportIsClean'
  BY <1>2 DEF Transfer!ImportIsClean
<1>8. Said'
  BY <1>1, <1>2, SaidStays
<1> QED
  BY <1>4, <1>5, <1>6, <1>7, <1>8 DEF Transfer!TransferInv, Said

LEMMA ImportDeletesKeeps ==
  ASSUME Transfer!TransferInv, Transfer!ImportDeletes
  PROVE  Transfer!TransferInv'
<1>1. /\ Transfer!TypeOK /\ Transfer!AnswerIsLast /\ Transfer!ExportFollows /\ Transfer!ImportGoes
      /\ Transfer!ImportIsClean /\ Said
  BY TransferParts
<1>2. /\ v1' = v1 /\ v2' = v2 /\ v3' = v3 /\ v4' = v4 /\ v6' = v6 /\ v7' = v7 /\ v8' = v8
      /\ v5 # Transfer!NoImport /\ v5.pc = 1
  BY DEF Transfer!ImportDeletes
<1>3. PICK rows, gave :
        /\ v5' = Transfer!Without(rows, gave)
        /\ \/ v9' = v9 /\ rows = Transfer!Seen /\ gave = v5.gave
           \/ v9 < MaxFailures /\ v9' = v9 + 1 /\ gave = (v1 = "postgres")
  BY DEF Transfer!ImportDeletes, Transfer!Cleared
<1>4. /\ v5 \in Transfer!Import /\ v5.put \subseteq Transfer!Row /\ v2 \subseteq Transfer!Row
      /\ v6 = Transfer!NoAnswer /\ v9 \in 0..MaxFailures /\ v5.gave \in BOOLEAN
  BY <1>2, ImportRead
<1>5. v9' \in 0..MaxFailures /\ (v9' = 0 => v9' = v9 /\ rows = Transfer!Seen /\ gave = v5.gave)
  BY <1>3, <1>4, TransferAssumption
<1>6. /\ v5' \in Transfer!Import /\ v5'.pc = 2
      /\ v5'.gone = v2 \cap rows /\ v5'.put = v5.put \ rows /\ v5'.gave = gave
      /\ v5'.others = v5.others /\ v5'.counted = v5.counted /\ v5'.warned = v5.warned
      /\ v5'.before = v5.before
  <2>1. gave \in BOOLEAN
    BY <1>3, <1>4
  <2>2. v2 \cap rows \in SUBSET Transfer!Row /\ v5.put \ rows \in SUBSET Transfer!Row
    BY <1>4
  <2>3. v5' = [v5 EXCEPT !.pc = 2, !.gone = v2 \cap rows, !.put = v5.put \ rows, !.gave = gave]
    BY <1>3 DEF Transfer!Without
  <2>4. 2 \in 1..(Transfer!Len(Transfer!Exported) + 2)
    BY TransferTables
  <2> QED
    BY <1>4, <2>1, <2>2, <2>3, <2>4 DEF Transfer!Import
<1>7. /\ v5.before \subseteq v2 /\ v5.gone = {} /\ v5.counted = {} /\ v5.warned = {} /\ ~v5.gave
      /\ \A r \in v5.others : r.table = "messages"
  BY <1>1, <1>2 DEF Transfer!ImportGoes
<1>8. Transfer!TypeOK' /\ Transfer!AnswerIsLast'
  <2>1. v5' # Transfer!NoImport
    BY <1>6 DEF Transfer!NoImport
  <2> QED
    BY <1>1, <1>2, <1>4, <1>5, <1>6 DEF Transfer!TypeOK, Transfer!AnswerIsLast
<1>9. Transfer!ExportFollows'
  BY <1>1, <1>2 DEF Transfer!ExportFollows, Transfer!WebhooksFit, Transfer!FindsIn
<1>10. Transfer!ImportGoes'
  <2>1. v1 = "sqlite" => ~gave
    BY <1>3, <1>7
  <2>2. \A n \in 1..Transfer!Len(Transfer!ImportOrder) : ~(n + 1 < 2)
    BY TransferTables
  <2> QED
    BY <1>2, <1>6, <1>7, <2>1, <2>2, TransferTables DEF Transfer!ImportGoes
<1>11. Transfer!ImportIsClean'
  <2> SUFFICES ASSUME v9' = 0
               PROVE  /\ v5'.put \subseteq v5'.counted \cup v5'.others
                      /\ v2 \ v5'.gone = {} /\ v5'.warned = {} /\ ~v5'.gave
    BY <1>2 DEF Transfer!ImportIsClean
  <2>1. v2 \subseteq rows /\ v5.put \subseteq rows /\ ~gave
    BY <1>5, <1>7 DEF Transfer!Seen
  <2> QED
    BY <1>6, <1>7, <2>1
<1>12. Said'
  BY <1>1, <1>2, <1>4, SaidStays
<1> QED
  BY <1>8, <1>9, <1>10, <1>11, <1>12 DEF Transfer!TransferInv, Said

LEMMA ImportInsertsKeeps ==
  ASSUME Transfer!TransferInv, NEW r \in Transfer!Row, Transfer!ImportInserts(r)
  PROVE  Transfer!TransferInv'
<1>1. /\ Transfer!TypeOK /\ Transfer!AnswerIsLast /\ Transfer!ExportFollows /\ Transfer!ImportGoes
      /\ Transfer!ImportIsClean /\ Said
  BY TransferParts
<1>2. /\ v1' = v1 /\ v2' = v2 /\ v3' = v3 /\ v4' = v4 /\ v6' = v6 /\ v7' = v7 /\ v8' = v8
      /\ v5 # Transfer!NoImport /\ v5.pc \in 2..5 /\ r \in Transfer!NextInTable
  BY TransferTables DEF Transfer!ImportInserts
<1>3. PICK ok \in BOOLEAN :
        /\ v5' = Transfer!AfterInsert(r, ok)
        /\ \/ v9' = v9 /\ ok = (Transfer!Accepted(r) /\ ~v5.gave)
           \/ v9 < MaxFailures /\ v9' = v9 + 1 /\ ok = FALSE
  BY DEF Transfer!ImportInserts
<1>4. /\ v5 \in Transfer!Import /\ v5.put \subseteq Transfer!Row /\ v5.counted \subseteq Transfer!Row
      /\ v5.warned \subseteq Transfer!Row /\ v5.gave \in BOOLEAN
      /\ v6 = Transfer!NoAnswer /\ v9 \in 0..MaxFailures
  BY <1>2, ImportRead
<1>5. /\ v9' \in 0..MaxFailures
      /\ v9' = 0 => v9 = 0 /\ ok = (Transfer!Accepted(r) /\ ~v5.gave)
  BY <1>3, <1>4, TransferAssumption
<1>6. /\ r \in v4 /\ r.table = Transfer!ImportOrder[v5.pc - 1]
      /\ r \notin v5.counted /\ r \notin v5.warned
  BY <1>2 DEF Transfer!NextInTable, Transfer!Of
<1>7. /\ v5' \in Transfer!Import /\ v5'.pc = v5.pc /\ v5'.gone = v5.gone /\ v5'.others = v5.others
      /\ v5'.before = v5.before
      /\ ok => /\ v5'.put = v5.put \cup {r} /\ v5'.counted = v5.counted \cup {r}
               /\ v5'.warned = v5.warned /\ v5'.gave = v5.gave
      /\ ~ok => /\ v5'.put = v5.put /\ v5'.counted = v5.counted
                /\ v5'.warned = v5.warned \cup {r} /\ v5'.gave = (v5.gave \/ v1 = "postgres")
  <2>1. CASE ok
    <3>1. v5' = [v5 EXCEPT !.put = v5.put \cup {r}, !.counted = v5.counted \cup {r}]
      BY <1>3, <2>1 DEF Transfer!AfterInsert
    <3> QED
      BY <1>4, <2>1, <3>1 DEF Transfer!Import
  <2>2. CASE ~ok
    <3>1. v5' = [v5 EXCEPT !.warned = v5.warned \cup {r}, !.gave = v5.gave \/ v1 = "postgres"]
      BY <1>3, <2>2 DEF Transfer!AfterInsert
    <3>2. (v5.gave \/ v1 = "postgres") \in BOOLEAN
      OBVIOUS
    <3> QED
      BY <1>4, <2>2, <3>1, <3>2 DEF Transfer!Import
  <2> QED
    BY <2>1, <2>2
<1>8. Transfer!TypeOK' /\ Transfer!AnswerIsLast'
  <2>1. v3 = Transfer!NoExport
    BY <1>1, <1>2 DEF Transfer!AnswerIsLast
  <2> QED
    BY <1>1, <1>2, <1>4, <1>5, <1>7, <2>1 DEF Transfer!TypeOK, Transfer!AnswerIsLast
<1>9. Transfer!ExportFollows'
  BY <1>1, <1>2 DEF Transfer!ExportFollows, Transfer!WebhooksFit, Transfer!FindsIn
<1>10. Transfer!ImportGoes'
  BY <1>1, <1>2, <1>6, <1>7 DEF Transfer!ImportGoes, Transfer!Of
<1>11. Transfer!ImportIsClean'
  <2> SUFFICES ASSUME v9' = 0
               PROVE  /\ v5'.put \subseteq v5'.counted \cup v5'.others
                      /\ \A q \in v2 \ v5'.gone : q.table = "messages" /\ v1 = "postgres"
                      /\ v5'.warned = {} => ~v5'.gave
                      /\ v1 = "sqlite" => \A q \in v5'.warned :
                           \/ q.table \in {"messages", "batches"}
                           \/ q.table = "webhooks" /\ q.session \in v7
    BY <1>2 DEF Transfer!ImportIsClean
  <2>1. /\ v5.put \subseteq v5.counted \cup v5.others
        /\ \A q \in v2 \ v5.gone : q.table = "messages" /\ v1 = "postgres"
        /\ v5.warned = {} => ~v5.gave
        /\ v1 = "sqlite" => \A q \in v5.warned :
             \/ q.table \in {"messages", "batches"}
             \/ q.table = "webhooks" /\ q.session \in v7
    BY <1>1, <1>2, <1>5 DEF Transfer!ImportIsClean
  <2>2. ok = (Transfer!Accepted(r) /\ ~v5.gave)
    BY <1>5
  <2>3. v5'.warned = {} => ~v5'.gave
    BY <1>7, <2>1
  <2>4. ASSUME v1 = "sqlite", ~ok
        PROVE  r.table \in {"messages", "batches"} \/ (r.table = "webhooks" /\ r.session \in v7)
    <3>1. ~v5.gave /\ ~Transfer!Accepted(r) /\ \A q \in v5.others : q.table = "messages"
      BY <1>1, <1>2, <2>2, <2>4 DEF Transfer!ImportGoes
    <3>2. r.table \in {"sessions", "webhooks", "messages", "batches"}
      BY <1>1, <1>6, TransferTables DEF Transfer!ExportFollows
    <3>3. \A q \in Transfer!Seen : q.table # "messages" => q \in v5.counted
      BY <2>1, <2>4, <3>1 DEF Transfer!Seen
    <3>4. CASE r.table = "sessions"
      BY <1>6, <3>1, <3>3, <3>4, TransferTables DEF Transfer!Accepted
    <3>5. CASE r.table = "webhooks"
      <4>1. v5.pc = 3
        <5>1. v5.pc \in {2, 3, 4, 5}
          BY <1>2
        <5>2. /\ Transfer!ImportOrder[2 - 1] = "sessions" /\ Transfer!ImportOrder[4 - 1] = "messages"
              /\ Transfer!ImportOrder[5 - 1] = "batches"
          BY TransferTables
        <5> QED
          BY <1>6, <3>5, <5>1, <5>2
      <4>2. r.session \in WaSessions /\ Transfer!SessionRow(r.session) \notin Transfer!Seen
        BY <1>6, <3>1, <3>3, <3>5, TransferTables DEF Transfer!Accepted, Transfer!Row
      <4>3. Transfer!SessionRow(r.session) \in v4 \/ r.session \in v7
        BY <1>1, <1>6, <3>5 DEF Transfer!ExportFollows, Transfer!WebhooksFit, Transfer!FindsIn
      <4>4. Transfer!SessionRow(r.session) \notin v4
        <5> SUFFICES ASSUME Transfer!SessionRow(r.session) \in v4
                     PROVE  FALSE
          OBVIOUS
        <5>1. Transfer!SessionRow(r.session).table = "sessions"
          BY <4>2, SessionRows
        <5>2. Transfer!ImportOrder[1] = "sessions" /\ 1 \in 1..Transfer!Len(Transfer!ImportOrder)
          BY TransferTables
        <5>3. Transfer!SessionRow(r.session) \in Transfer!Of(Transfer!ImportOrder[1], v4)
          BY <5>1, <5>2 DEF Transfer!Of
        <5>4. Transfer!Of(Transfer!ImportOrder[1], v4) \subseteq v5.counted \cup v5.warned
              /\ v5.counted \subseteq v5.put
          BY <1>1, <1>2, <4>1, <5>2 DEF Transfer!ImportGoes
        <5>5. Transfer!SessionRow(r.session) \notin v5.warned
          BY <2>1, <2>4, <5>1
        <5> QED
          BY <4>2, <5>3, <5>4, <5>5 DEF Transfer!Seen
      <4> QED
        BY <3>5, <4>3, <4>4
    <3> QED
      BY <3>2, <3>4, <3>5
  <2>5. CASE ok
    BY <1>7, <2>1, <2>3, <2>5
  <2>6. CASE ~ok
    BY <1>7, <2>1, <2>3, <2>4, <2>6
  <2> QED
    BY <2>5, <2>6
<1>12. Said'
  BY <1>1, <1>2, <1>4, SaidStays
<1> QED
  BY <1>8, <1>9, <1>10, <1>11, <1>12 DEF Transfer!TransferInv, Said

LEMMA ImportTableDoneKeeps ==
  ASSUME Transfer!TransferInv, Transfer!ImportTableDone
  PROVE  Transfer!TransferInv'
<1>1. /\ Transfer!TypeOK /\ Transfer!AnswerIsLast /\ Transfer!ExportFollows /\ Transfer!ImportGoes
      /\ Transfer!ImportIsClean /\ Said
  BY TransferParts
<1>2. /\ v1' = v1 /\ v2' = v2 /\ v3' = v3 /\ v4' = v4 /\ v6' = v6 /\ v7' = v7 /\ v8' = v8
      /\ v9' = v9 /\ v5' = [v5 EXCEPT !.pc = @ + 1]
      /\ v5 # Transfer!NoImport /\ v5.pc \in 2..5 /\ Transfer!NextInTable = {}
  BY TransferTables DEF Transfer!ImportTableDone
<1>3. v5 \in Transfer!Import /\ v6 = Transfer!NoAnswer
  BY <1>2, ImportRead
<1>4. /\ v5' \in Transfer!Import /\ v5'.pc = v5.pc + 1 /\ v5'.gone = v5.gone
      /\ v5'.others = v5.others /\ v5'.before = v5.before /\ v5'.put = v5.put
      /\ v5'.counted = v5.counted /\ v5'.warned = v5.warned /\ v5'.gave = v5.gave
  <2>1. v5.pc + 1 \in 1..(Transfer!Len(Transfer!Exported) + 2)
    BY <1>2, TransferTables
  <2> QED
    BY <1>2, <1>3, <2>1 DEF Transfer!Import
<1>5. Transfer!TypeOK' /\ Transfer!AnswerIsLast'
  <2>1. v3 = Transfer!NoExport
    BY <1>1, <1>2 DEF Transfer!AnswerIsLast
  <2> QED
    BY <1>1, <1>2, <1>3, <1>4, <2>1 DEF Transfer!TypeOK, Transfer!AnswerIsLast
<1>6. Transfer!ExportFollows'
  BY <1>1, <1>2 DEF Transfer!ExportFollows, Transfer!WebhooksFit, Transfer!FindsIn
<1>7. Transfer!ImportGoes'
  <2>1. \A n \in 1..Transfer!Len(Transfer!ImportOrder) : n + 1 < v5.pc + 1 =>
          Transfer!Of(Transfer!ImportOrder[n], v4) \subseteq v5.counted \cup v5.warned
    <3> SUFFICES ASSUME NEW n \in 1..4, n + 1 < v5.pc + 1
                 PROVE  Transfer!Of(Transfer!ImportOrder[n], v4) \subseteq v5.counted \cup v5.warned
      BY TransferTables
    <3>1. CASE n = v5.pc - 1
      BY <1>2, <3>1 DEF Transfer!NextInTable
    <3>2. CASE n + 1 < v5.pc
      BY <1>1, <1>2, <3>2, TransferTables DEF Transfer!ImportGoes
    <3> QED
      BY <1>2, <3>1, <3>2
  <2>2. v5'.pc # 1
    BY <1>2, <1>4
  <2> QED
    BY <1>1, <1>2, <1>4, <2>1, <2>2 DEF Transfer!ImportGoes
<1>8. Transfer!ImportIsClean'
  <2>1. v5.pc > 1
    BY <1>2
  <2> QED
    BY <1>1, <1>2, <1>4, <2>1 DEF Transfer!ImportIsClean
<1>9. Said'
  BY <1>1, <1>2, <1>3, SaidStays
<1> QED
  BY <1>5, <1>6, <1>7, <1>8, <1>9 DEF Transfer!TransferInv, Said

LEMMA ImportEndsKeeps ==
  ASSUME Transfer!TransferInv, Transfer!ImportCommits \/ Transfer!ImportThrows
  PROVE  Transfer!TransferInv'
<1>1. /\ Transfer!TypeOK /\ Transfer!AnswerIsLast /\ Transfer!ExportFollows /\ Transfer!ImportGoes
      /\ Transfer!ImportIsClean /\ Said
  BY TransferParts
<1>2. /\ v1' = v1 /\ v4' = v4 /\ v3' = v3 /\ v7' = v7 /\ v8' = v8
      /\ v5 # Transfer!NoImport /\ v5' = Transfer!NoImport
  BY DEF Transfer!ImportCommits, Transfer!ImportThrows, Transfer!Ends
<1>3. PICK told \in {"imported", "thrown"} :
        /\ v6' = [told |-> told, counted |-> v5.counted, warned |-> v5.warned,
                  before |-> v5.before, others |-> v5.others, after |-> v2']
        /\ \/ /\ told = "imported" /\ v5.pc = 6 /\ v9' = v9
              /\ v2' = IF v5.gave THEN v2 ELSE Transfer!Seen
           \/ told = "thrown" /\ v9 < MaxFailures /\ v9' = v9 + 1 /\ v2' = v2
  <2>1. CASE Transfer!ImportCommits
    BY <2>1, TransferTables DEF Transfer!ImportCommits, Transfer!Ends
  <2>2. CASE Transfer!ImportThrows
    BY <2>2 DEF Transfer!ImportThrows, Transfer!Ends, Transfer!RolledBack
  <2> QED
    BY <2>1, <2>2
<1>4. /\ v5 \in Transfer!Import /\ v5.put \subseteq Transfer!Row /\ v5.counted \subseteq Transfer!Row
      /\ v5.warned \subseteq Transfer!Row /\ v5.others \subseteq Transfer!Row
      /\ v5.before \subseteq Transfer!Row /\ v2 \subseteq Transfer!Row
      /\ v9 \in 0..MaxFailures /\ v1 \in {"sqlite", "postgres"}
  BY <1>2, ImportRead
<1>5. v2' \subseteq Transfer!Row
  BY <1>3, <1>4 DEF Transfer!Seen
<1>6. v6' \in Transfer!Told /\ v6' # Transfer!NoAnswer
  <2>1. v6' \in Transfer!Told /\ v6'.told # "nothing"
    BY <1>3, <1>4, <1>5 DEF Transfer!Told
  <2> QED
    BY <2>1 DEF Transfer!NoAnswer
<1>7. /\ v6'.told = told /\ v6'.counted = v5.counted /\ v6'.warned = v5.warned
      /\ v6'.before = v5.before /\ v6'.others = v5.others /\ v6'.after = v2'
  BY <1>3
<1>8. v9' \in 0..MaxFailures
  BY <1>3, <1>4, TransferAssumption
<1>9. v3 = Transfer!NoExport
  BY <1>1, <1>2 DEF Transfer!AnswerIsLast
<1>10. Transfer!TypeOK' /\ Transfer!AnswerIsLast'
  BY <1>1, <1>2, <1>5, <1>6, <1>8, <1>9 DEF Transfer!TypeOK, Transfer!AnswerIsLast
<1>11. Transfer!ExportFollows' /\ Transfer!ImportGoes' /\ Transfer!ImportIsClean'
  BY <1>1, <1>2, <1>6, <1>9 DEF Transfer!ExportFollows, Transfer!ImportGoes, Transfer!ImportIsClean,
     Transfer!WebhooksFit, Transfer!FindsIn
<1>12. CASE told = "thrown"
  <2>1. v5.before \subseteq v2'
    BY <1>1, <1>2, <1>3, <1>12 DEF Transfer!ImportGoes
  <2>2. Said'
    BY <1>7, <1>12, <2>1 DEF Said, Transfer!CleanImportIsExact, Transfer!AnswerTellsTrue,
       Transfer!ThrownChangesNothing, Transfer!ExportFitsTogether
  <2> QED
    BY <1>10, <1>11, <2>2 DEF Transfer!TransferInv, Said
<1>13. CASE told = "imported"
  <2>1. /\ v5.pc = 6 /\ v9' = v9 /\ v2' = IF v5.gave THEN v2 ELSE Transfer!Seen
    BY <1>3, <1>13
  <2>2. /\ v5.counted \subseteq v5.put /\ v5.counted \cap v5.warned = {}
        /\ v5.counted \cup v5.warned \subseteq v4
        /\ \A q \in v5.others : q.table = "messages"
        /\ v1 = "sqlite" => ~v5.gave
    BY <1>1, <1>2 DEF Transfer!ImportGoes
  <2>3. v4 \subseteq v5.counted \cup v5.warned
    <3> SUFFICES ASSUME NEW q \in v4
                 PROVE  q \in v5.counted \cup v5.warned
      OBVIOUS
    <3>1. q.table \in {"sessions", "webhooks", "messages", "batches"}
      BY <1>1, TransferTables DEF Transfer!ExportFollows
    <3>2. /\ Transfer!ImportOrder[1] = "sessions" /\ Transfer!ImportOrder[2] = "webhooks"
          /\ Transfer!ImportOrder[3] = "messages" /\ Transfer!ImportOrder[4] = "batches"
      BY TransferTables
    <3>3. PICK n \in 1..4 : q.table = Transfer!ImportOrder[n]
      BY <3>1, <3>2
    <3>4. n + 1 < v5.pc
      BY <2>1
    <3>5. Transfer!Of(Transfer!ImportOrder[n], v4) \subseteq v5.counted \cup v5.warned
      BY <1>1, <1>2, <3>4, TransferTables DEF Transfer!ImportGoes
    <3> QED
      BY <3>3, <3>5 DEF Transfer!Of
  <2>4. ~v5.gave => v5.counted \subseteq v2'
    BY <2>1, <2>2 DEF Transfer!Seen
  <2>5. v9' = 0 => /\ v5.put \subseteq v5.counted \cup v5.others
                   /\ \A q \in v2 \ v5.gone : q.table = "messages" /\ v1 = "postgres"
                   /\ v5.warned = {} => ~v5.gave
                   /\ v1 = "sqlite" => \A q \in v5.warned :
                        q.table \in {"messages", "batches"} \/ (q.table = "webhooks" /\ q.session \in v7)
    BY <1>1, <1>2, <2>1 DEF Transfer!ImportIsClean
  <2>6. Transfer!CleanImportIsExact'
    <3> SUFFICES ASSUME v5.warned = {}, v9' = 0
                 PROVE  /\ v4 \subseteq v2'
                        /\ \A q \in Transfer!Tabular(v2') \ v4 : q.table = "messages"
      BY <1>2, <1>7 DEF Transfer!CleanImportIsExact, Transfer!Tabular
    <3>1. v2' = Transfer!Seen
      BY <2>1, <2>5
    <3> QED
      BY <2>2, <2>3, <2>5, <3>1 DEF Transfer!Seen, Transfer!Tabular
  <2>7. Transfer!AnswerTellsTrue'
    <3> SUFFICES ASSUME v1 = "sqlite"
                 PROVE  /\ v5.counted \subseteq v2'
                        /\ v9' = 0 => v5.warned \cap (v2' \ v5.others) = {}
                        /\ v5.counted \cup v5.warned = v4
      BY <1>2, <1>7 DEF Transfer!AnswerTellsTrue
    <3>1. v2' = Transfer!Seen
      BY <2>1, <2>2
    <3>2. v9' = 0 => v5.warned \cap (v2' \ v5.others) = {}
      BY <2>2, <2>5, <3>1 DEF Transfer!Seen
    <3> QED
      BY <2>2, <2>3, <2>4, <3>2
  <2>8. Transfer!ThrownChangesNothing'
    BY <1>7, <1>13 DEF Transfer!ThrownChangesNothing
  <2>9. Transfer!ExportFitsTogether'
    BY <1>2, <1>7, <2>5 DEF Transfer!ExportFitsTogether
  <2> QED
    BY <1>10, <1>11, <2>6, <2>7, <2>8, <2>9 DEF Transfer!TransferInv
<1> QED
  BY <1>12, <1>13

LEMMA TransferStep == Transfer!TransferInv /\ [Transfer!Next]_(Transfer!transferVars) => Transfer!TransferInv'
<1> SUFFICES ASSUME Transfer!TransferInv, [Transfer!Next]_(Transfer!transferVars)
             PROVE  Transfer!TransferInv'
  OBVIOUS
<1>1. CASE UNCHANGED Transfer!transferVars
  BY <1>1 DEF Transfer!transferVars, Transfer!TransferInv, Transfer!TypeOK, Transfer!AnswerIsLast,
     Transfer!ExportFollows, Transfer!WebhooksFit, Transfer!FindsIn, Transfer!ImportGoes,
     Transfer!ImportIsClean, Transfer!CleanImportIsExact, Transfer!AnswerTellsTrue,
     Transfer!ThrownChangesNothing, Transfer!ExportFitsTogether, Transfer!Of, Transfer!Tabular
<1> QED
  BY <1>1, SavedKeeps, DeletedKeeps, ExportKeeps, ImportBeginsKeeps, ImportDeletesKeeps,
     ImportInsertsKeeps, ImportTableDoneKeeps, ImportEndsKeeps DEF Transfer!Next

LEMMA TransferInit == Transfer!Init => Transfer!TransferInv
<1> SUFFICES ASSUME Transfer!Init
             PROVE  Transfer!TransferInv
  OBVIOUS
<1>1. /\ v1 \in {"sqlite", "postgres"} /\ v3 = Transfer!NoExport /\ v4 = {}
      /\ v5 = Transfer!NoImport /\ v6 = Transfer!NoAnswer /\ v7 = {} /\ v8 = 0 /\ v9 = 0
  BY DEF Transfer!Init, Transfer!NoFile
<1>2. PICK S \in SUBSET WaSessions : v2 = {r \in Transfer!Row : r.session \in S}
  BY DEF Transfer!Init
<1>3. v8 \in 0..MaxRowChanges /\ v9 \in 0..MaxFailures
  BY <1>1, TransferAssumption
<1>4. Transfer!TypeOK /\ Transfer!AnswerIsLast
  BY <1>1, <1>2, <1>3 DEF Transfer!TypeOK, Transfer!AnswerIsLast
<1>5. Transfer!ExportFollows
  <2>1. \A r \in v2 : Transfer!SessionRow(r.session) \in v2
    BY <1>2, SessionRows
  <2> QED
    BY <1>1, <2>1 DEF Transfer!ExportFollows, Transfer!WebhooksFit
<1>6. Said
  BY <1>1 DEF Said, Transfer!CleanImportIsExact, Transfer!AnswerTellsTrue,
     Transfer!ThrownChangesNothing, Transfer!ExportFitsTogether, Transfer!NoAnswer
<1> QED
  BY <1>1, <1>4, <1>5, <1>6 DEF Transfer!TransferInv, Transfer!ImportGoes, Transfer!ImportIsClean, Said
-----------------------------------------------------------------------------
(* The restart of the infrastructure.                                      *)


(* Services that are to be gone through have a first one.                   *)
LEMMA FirstIsOne ==
  ASSUME NEW set, set \subseteq Infra!Names, set # {}
  PROVE  Infra!First(set) \in set
<1>1. \A s \in set : Infra!Place(s) \in DOMAIN Services
  BY DEF Infra!Names, Infra!Place
<1> DEFINE places == {Infra!Place(s) : s \in set}
<1>2. places \subseteq Nat /\ places # {}
  BY <1>1, InfraAssumption
<1> HIDE DEF places
<1>3. PICK n \in places : \A k \in places : n <= k
  BY <1>2, LeastOf
<1>4. \E s \in set : \A t \in set : Infra!Place(s) <= Infra!Place(t)
  BY <1>3 DEF places
<1> QED
  BY <1>4 DEF Infra!First

(* Who works: the dashboards' requests and the boot.                        *)
Workers == Dashboards \cup {Infra!Boot}
WorkItem ==
  [pc : {"idle", "look", "act", "pull"}, remove : SUBSET Infra!Names, start : SUBSET Infra!Names,
   wants : SUBSET Infra!Names, seen : BOOLEAN, ok : BOOLEAN]

(* What the boot reads is settings.                                         *)
LEMMA EffectiveIs ==
  ASSUME NEW settings \in [Infra!Names -> Infra!Setting]
  PROVE  Infra!Effective(settings) \in [Infra!Names -> Infra!Setting]
<1>1. ASSUME NEW s \in Infra!Names
      PROVE  /\ Infra!Fixed(s, "on", settings[s].on) \in BOOLEAN
             /\ Infra!Fixed(s, "builtIn", settings[s].builtIn) \in BOOLEAN
  <2>1. settings[s].on \in BOOLEAN /\ settings[s].builtIn \in BOOLEAN
    BY DEF Infra!Setting
  <2> QED
    BY <2>1, InfraAssumption DEF Infra!Fixed
<1> QED
  BY <1>1 DEF Infra!Effective, Infra!Setting

(* The types, and what each step may assume.                                *)
LEMMA InfraTypes ==
  ASSUME Infra!InfraInv
  PROVE  /\ v1 \in [Infra!Names -> Infra!Setting] /\ v2 \in [Infra!Names -> Infra!Setting]
         /\ v3 \in [Infra!Names -> {"absent", "stopped", "running"}]
         /\ v4 \in {"down", "booting", "up", "alone"} /\ v5 \in 0..MaxSaves
         /\ v6 \in [Dashboards -> [pending : SUBSET Infra!Names, previous : SUBSET Infra!Names, asks : BOOLEAN]]
         /\ v7 \in [Workers -> WorkItem]
         /\ v8 \in 0..MaxFailures /\ v9 \in 0..MaxSaves /\ v10 \in BOOLEAN /\ v11 \in BOOLEAN
BY DEF Infra!InfraInv, Infra!TypeOK, Workers, WorkItem

(* A finished step of a request takes the first service off the list that   *)
(* is gone through.                                                         *)
LEMMA OnwardIs ==
  ASSUME NEW w \in Workers, NEW ok \in BOOLEAN, v7 \in [Workers -> WorkItem]
  PROVE  LET o == Infra!Onward(v7[w], ok)
         IN  /\ o \in WorkItem
             /\ o.wants = v7[w].wants
             /\ o.ok = (v7[w].ok /\ ok)
             /\ o.pc = "look"
             /\ Infra!Removing(w) => o.remove = v7[w].remove \ {Infra!Current(w)} /\ o.start = v7[w].start
             /\ ~Infra!Removing(w) => o.start = v7[w].start \ {Infra!Current(w)} /\ o.remove = v7[w].remove
<1>1. v7[w] \in WorkItem
  OBVIOUS
<1>2. CASE v7[w].remove # {}
  <2>1. Infra!Onward(v7[w], ok) =
          [pc |-> "look", remove |-> v7[w].remove \ {Infra!First(v7[w].remove)}, start |-> v7[w].start,
           wants |-> v7[w].wants, seen |-> FALSE, ok |-> v7[w].ok /\ ok]
    BY <1>1, <1>2 DEF Infra!Onward, WorkItem
  <2> QED
    BY <1>1, <1>2, <2>1 DEF Infra!Removing, Infra!Current, WorkItem
<1>3. CASE v7[w].remove = {}
  <2>1. Infra!Onward(v7[w], ok) =
          [pc |-> "look", remove |-> v7[w].remove, start |-> v7[w].start \ {Infra!First(v7[w].start)},
           wants |-> v7[w].wants, seen |-> FALSE, ok |-> v7[w].ok /\ ok]
    BY <1>1, <1>3 DEF Infra!Onward, WorkItem
  <2> QED
    BY <1>1, <1>3, <2>1 DEF Infra!Removing, Infra!Current, WorkItem
<1> QED
  BY <1>2, <1>3

(* Containers that run go on running in a step that removes none.           *)
LEMMA UpStays ==
  ASSUME NEW set, Infra!Up(set), \A s \in set : v3[s] = "running" => v3'[s] = "running"
  PROVE  \A s \in set : v3'[s] = "running"
BY DEF Infra!Up

LEMMA RequestsAre ==
  ASSUME Infra!InfraInv
  PROVE  /\ \A w \in Workers : /\ v7[w].remove \cap v7[w].wants = {}
                               /\ v7[w].ok => \A s \in v7[w].wants \ v7[w].start : v3[s] = "running"
         /\ v7[0].remove = {}
         /\ v7[0].pc # "idle" => /\ v4 = "booting"
                                 /\ v7[0].ok => \A s \in Infra!Marked(v2) \ v7[0].start : v3[s] = "running"
         /\ v4 = "alone" => ~v11
         /\ v4 = "up" /\ v11 => \A s \in Infra!Marked(v2) : v3[s] = "running"
         /\ v10 => \A s \in Infra!Profiles(Infra!Effective(v1)) : v3[s] = "running"
BY DEF Infra!InfraInv, Infra!RequestsHold, Infra!BootHolds, Infra!BuiltInsRun, Infra!Up, Workers,
   Infra!Boot

(* What a step has to leave: the invariant in terms of the new state.       *)
LEMMA InfraHoldsIf ==
  ASSUME Infra!TypeOK',
         \A w \in Workers : /\ v7'[w].remove \cap v7'[w].wants = {}
                            /\ v7'[w].ok => \A s \in v7'[w].wants \ v7'[w].start : v3'[s] = "running",
         v7'[0].remove = {},
         v7'[0].pc # "idle" => /\ v4' = "booting"
                               /\ v7'[0].ok => \A s \in Infra!Marked(v2') \ v7'[0].start : v3'[s] = "running",
         v4' = "alone" => ~v11',
         v4' = "up" /\ v11' => \A s \in Infra!Marked(v2') : v3'[s] = "running",
         v10' => \A s \in Infra!Profiles(Infra!Effective(v1')) : v3'[s] = "running"
  PROVE  Infra!InfraInv'
BY DEF Infra!InfraInv, Infra!RequestsHold, Infra!BootHolds, Infra!BuiltInsRun, Infra!Up, Workers,
   Infra!Boot, Infra!Marked, Infra!Profiles


LEMMA SaveKeeps ==
  ASSUME Infra!InfraInv, NEW p \in Dashboards, NEW settings \in [Infra!Names -> Infra!Setting],
         Infra!MaySave(p), Infra!Save(p, settings)
  PROVE  Infra!InfraInv'
<1> USE InfraTypes, RequestsAre, InfraAssumption
<1> DEFINE new == [pending |-> Infra!Profiles(settings), previous |-> v6[p].pending, asks |-> TRUE]
<1>1. /\ v9' = v9 + 1 /\ v1' = settings /\ v6' = [v6 EXCEPT ![p] = new]
      /\ v10' = (v10 /\ Infra!Profiles(Infra!Effective(settings)) = Infra!Profiles(Infra!Effective(v1)))
      /\ v2' = v2 /\ v3' = v3 /\ v4' = v4 /\ v5' = v5 /\ v7' = v7 /\ v8' = v8 /\ v11' = v11
  BY DEF Infra!Save
<1>2. v9' \in 0..MaxSaves
  BY <1>1 DEF Infra!MaySave
<1>3. new \in [pending : SUBSET Infra!Names, previous : SUBSET Infra!Names, asks : BOOLEAN]
  BY DEF Infra!Profiles
<1> HIDE DEF new
<1>4. Infra!TypeOK'
  BY <1>1, <1>2, <1>3 DEF Infra!TypeOK, Workers, WorkItem
<1>5. Infra!Profiles(Infra!Effective(v1')) = Infra!Profiles(Infra!Effective(settings))
  BY <1>1
<1> QED
  BY <1>1, <1>4, <1>5, InfraHoldsIf DEF Infra!Marked

(* A page that is loaded again, and a request that found no Docker, change  *)
(* nothing of the containers.                                               *)
LEMMA PageKeeps ==
  ASSUME Infra!InfraInv, NEW p \in Dashboards, Infra!Reload(p) \/ Infra!RestartWithoutDocker(p)
  PROVE  Infra!InfraInv'
<1> USE InfraTypes, RequestsAre, InfraAssumption, TransferAssumption
<1>1. /\ v1' = v1 /\ v2' = v2 /\ v3' = v3 /\ v4' = v4 /\ v7' = v7 /\ v9' = v9 /\ v11' = v11
      /\ (v10' => v10) /\ v10' \in BOOLEAN
  <2>1. CASE Infra!Reload(p)
    BY <2>1 DEF Infra!Reload
  <2>2. CASE Infra!RestartWithoutDocker(p)
    BY <2>2 DEF Infra!RestartWithoutDocker
  <2> QED
    BY <2>1, <2>2
<1>2. v5' \in 0..MaxSaves /\ v8' \in 0..MaxFailures
  <2>1. \/ v5' = v5 /\ v8' = v8
        \/ v5 < MaxSaves /\ v5' = v5 + 1 /\ v8' = v8
    BY DEF Infra!Reload, Infra!RestartWithoutDocker
  <2> QED
    BY <2>1
<1>3. v6' \in [Dashboards -> [pending : SUBSET Infra!Names, previous : SUBSET Infra!Names, asks : BOOLEAN]]
  <2>1. CASE Infra!Reload(p)
    <3>1. v6' = [v6 EXCEPT ![p] = [pending |-> {}, previous |-> {}, asks |-> FALSE]]
      BY <2>1 DEF Infra!Reload, Infra!NoPage
    <3> QED
      BY <3>1
  <2>2. CASE Infra!RestartWithoutDocker(p)
    <3>1. v6' = [v6 EXCEPT ![p].asks = FALSE]
      BY <2>2 DEF Infra!RestartWithoutDocker
    <3> QED
      BY <3>1
  <2> QED
    BY <2>1, <2>2
<1>4. Infra!TypeOK'
  BY <1>1, <1>2, <1>3 DEF Infra!TypeOK, Workers, WorkItem
<1> QED
  BY <1>1, <1>4, InfraHoldsIf DEF Infra!Marked, Infra!Profiles

LEMMA RestartKeeps ==
  ASSUME Infra!InfraInv, NEW p \in Dashboards, Infra!Restart(p)
  PROVE  Infra!InfraInv'
<1> USE InfraTypes, RequestsAre, InfraAssumption
<1> DEFINE begun == [pc |-> "look", remove |-> v6[p].previous \ v6[p].pending, start |-> v6[p].pending,
                     wants |-> v6[p].pending, seen |-> FALSE, ok |-> TRUE]
<1>1. /\ v7' = [v7 EXCEPT ![p] = begun] /\ v6' = [v6 EXCEPT ![p].asks = FALSE]
      /\ v1' = v1 /\ v2' = v2 /\ v3' = v3 /\ v4' = v4 /\ v5' = v5 /\ v8' = v8 /\ v9' = v9
      /\ v10' = v10 /\ v11' = v11
  BY DEF Infra!Restart, Infra!Begun
<1>2. begun \in WorkItem /\ begun.wants \ begun.start = {} /\ begun.remove \cap begun.wants = {}
  BY DEF WorkItem
<1> HIDE DEF begun
<1>3. p \in Workers /\ p # 0 /\ 0 \in Workers
  BY DEF Workers, Infra!Boot
<1>4. v6' \in [Dashboards -> [pending : SUBSET Infra!Names, previous : SUBSET Infra!Names, asks : BOOLEAN]]
  BY <1>1
<1>5. /\ v7' \in [Workers -> WorkItem] /\ v7'[p] = begun
      /\ \A w \in Workers : w # p => v7'[w] = v7[w]
  BY <1>1, <1>2, <1>3
<1>6. Infra!TypeOK'
  BY <1>1, <1>4, <1>5 DEF Infra!TypeOK, Workers, WorkItem
<1>7. \A w \in Workers :
         /\ v7'[w].remove \cap v7'[w].wants = {}
         /\ v7'[w].ok => \A s \in v7'[w].wants \ v7'[w].start : v3'[s] = "running"
  BY <1>1, <1>2, <1>5
<1>8. v7'[0] = v7[0]
  BY <1>3, <1>5
<1> QED
  BY <1>1, <1>6, <1>7, <1>8, InfraHoldsIf DEF Infra!Marked, Infra!Profiles

(* A look, and a container that is made, take down nothing and leave the    *)
(* lists of who works.                                                      *)
LEMMA RecordKeeps ==
  ASSUME Infra!InfraInv, NEW w \in Workers, v7[w].pc # "idle",
         NEW r \in WorkItem, r.remove = v7[w].remove, r.wants = v7[w].wants,
         r.start = v7[w].start, r.ok => v7[w].ok,
         v7' = [v7 EXCEPT ![w] = r],
         v3' \in [Infra!Names -> {"absent", "stopped", "running"}],
         \A s \in Infra!Names : v3[s] = "running" => v3'[s] = "running",
         v8' \in 0..MaxFailures,
         v1' = v1, v2' = v2, v4' = v4, v5' = v5, v6' = v6, v9' = v9, v10' = v10, v11' = v11
  PROVE  Infra!InfraInv'
<1> USE InfraTypes, RequestsAre, InfraAssumption
<1>1. /\ v7' \in [Workers -> WorkItem] /\ v7'[w] = r
      /\ \A w2 \in Workers : w2 # w => v7'[w2] = v7[w2]
  OBVIOUS
<1>2. Infra!TypeOK'
  BY <1>1 DEF Infra!TypeOK, Workers, WorkItem
<1>3. \A w2 \in Workers : /\ v7'[w2].remove = v7[w2].remove /\ v7'[w2].wants = v7[w2].wants
                          /\ v7'[w2].start = v7[w2].start /\ (v7'[w2].ok => v7[w2].ok)
                          /\ (v7'[w2].pc # "idle" => v7[w2].pc # "idle")
  BY <1>1
<1>4. 0 \in Workers
  BY DEF Workers, Infra!Boot
<1>5. \A u \in Workers : v7[u].wants \subseteq Infra!Names
  BY DEF WorkItem
<1>6. Infra!Marked(v2) \subseteq Infra!Names /\ Infra!Profiles(Infra!Effective(v1)) \subseteq Infra!Names
  BY DEF Infra!Marked, Infra!Profiles
<1>7. \A w2 \in Workers :
         /\ v7'[w2].remove \cap v7'[w2].wants = {}
         /\ v7'[w2].ok => \A s \in v7'[w2].wants \ v7'[w2].start : v3'[s] = "running"
  BY <1>3, <1>5
<1>8. /\ v7'[0].remove = {}
      /\ v7'[0].pc # "idle" => /\ v4 = "booting"
                               /\ v7'[0].ok => \A s \in Infra!Marked(v2) \ v7'[0].start : v3'[s] = "running"
      /\ (v4 = "up" /\ v11) => \A s \in Infra!Marked(v2) : v3'[s] = "running"
      /\ v10 => \A s \in Infra!Profiles(Infra!Effective(v1)) : v3'[s] = "running"
  BY <1>3, <1>4, <1>6
<1> QED
  BY <1>2, <1>7, <1>8, InfraHoldsIf

LEMMA LooksKeeps ==
  ASSUME Infra!InfraInv, NEW w \in Workers, Infra!Looks(w) \/ Infra!LooksAgain(w)
  PROVE  Infra!InfraInv'
<1> USE InfraTypes, TransferAssumption
<1> DEFINE there  == v3[Infra!Current(w)] # "absent"
           found  == [v7[w] EXCEPT !.pc = "act", !.seen = there]
           again  == [v7[w] EXCEPT !.seen = there, !.pc = IF there THEN "act" ELSE "pull"]
           missed == [v7[w] EXCEPT !.pc = "act", !.seen = FALSE, !.ok = FALSE]
           failed == [v7[w] EXCEPT !.pc = "pull", !.ok = FALSE]
<1>1. /\ v7[w].pc \in {"look", "act"}
      /\ v8' = v8 \/ (v8 < MaxFailures /\ v8' = v8 + 1)
      /\ \E r \in {found, again, missed, failed} : v7' = [v7 EXCEPT ![w] = r]
      /\ v1' = v1 /\ v2' = v2 /\ v3' = v3 /\ v4' = v4 /\ v5' = v5 /\ v6' = v6 /\ v9' = v9
      /\ v10' = v10 /\ v11' = v11
  <2>1. CASE Infra!Looks(w)
    BY <2>1 DEF Infra!Looks
  <2>2. CASE Infra!LooksAgain(w)
    <3>1. (IF v3[Infra!Current(w)] = "absent" THEN "pull" ELSE "act") = (IF there THEN "act" ELSE "pull")
      OBVIOUS
    <3> QED
      BY <2>2, <3>1 DEF Infra!LooksAgain
  <2> QED
    BY <2>1, <2>2
<1>2. PICK r \in {found, again, missed, failed} : v7' = [v7 EXCEPT ![w] = r]
  BY <1>1
<1>3. /\ r \in WorkItem /\ r.remove = v7[w].remove /\ r.wants = v7[w].wants
      /\ r.start = v7[w].start /\ (r.ok => v7[w].ok)
  <2>1. there \in BOOLEAN /\ v7[w] \in WorkItem
    OBVIOUS
  <2> HIDE DEF there
  <2> DEFINE Same(x) == /\ x \in WorkItem /\ x.remove = v7[w].remove /\ x.wants = v7[w].wants
                        /\ x.start = v7[w].start /\ (x.ok => v7[w].ok)
  <2>2. Same(found)
    BY <2>1 DEF WorkItem
  <2>3. Same(again)
    BY <2>1 DEF WorkItem
  <2>4. Same(missed)
    BY <2>1 DEF WorkItem
  <2>5. Same(failed)
    BY <2>1 DEF WorkItem
  <2> HIDE DEF found, again, missed, failed
  <2> QED
    BY <2>2, <2>3, <2>4, <2>5
<1> HIDE DEF there, found, again, missed, failed
<1>4. v8' \in 0..MaxFailures
  BY <1>1
<1> QED
  BY <1>1, <1>2, <1>3, <1>4, RecordKeeps

(* A removal, whole or half done, leaves the invariant: what it takes down  *)
(* was none of its own request's, and every other request is disturbed.     *)
LEMMA RemovalKeeps ==
  ASSUME Infra!InfraInv, NEW w \in Workers, NEW ok \in BOOLEAN,
         Infra!Removing(w), Infra!Disturbs(w, ok),
         v3' \in [Infra!Names -> {"absent", "stopped", "running"}],
         \A t \in Infra!Names \ {Infra!Current(w)} : v3'[t] = v3[t],
         v8' \in 0..MaxFailures, v10' = FALSE, v11' = FALSE,
         v1' = v1, v2' = v2, v4' = v4, v5' = v5, v6' = v6, v9' = v9
  PROVE  Infra!InfraInv'
<1> USE InfraTypes, RequestsAre, InfraAssumption
<1> DEFINE s == Infra!Current(w)
           disturbed == [u \in Workers |-> [v7[u] EXCEPT !.ok = FALSE]]
<1>1. s \in v7[w].remove
  <2>1. v7[w].remove # {} /\ v7[w].remove \subseteq Infra!Names
    BY DEF Infra!Removing, WorkItem
  <2> QED
    BY <2>1, FirstIsOne DEF Infra!Current, Infra!Removing
<1>2. \A u \in Workers : /\ disturbed[u] \in WorkItem /\ ~disturbed[u].ok
                         /\ disturbed[u].remove = v7[u].remove /\ disturbed[u].start = v7[u].start
                         /\ disturbed[u].wants = v7[u].wants /\ disturbed[u].pc = v7[u].pc
  <2> SUFFICES ASSUME NEW u \in Workers
               PROVE  /\ disturbed[u] \in WorkItem /\ ~disturbed[u].ok
                      /\ disturbed[u].remove = v7[u].remove /\ disturbed[u].start = v7[u].start
                      /\ disturbed[u].wants = v7[u].wants /\ disturbed[u].pc = v7[u].pc
    OBVIOUS
  <2>1. v7[u] \in WorkItem
    OBVIOUS
  <2>2. disturbed[u] = [v7[u] EXCEPT !.ok = FALSE]
    OBVIOUS
  <2> HIDE DEF disturbed
  <2> QED
    BY <2>1, <2>2 DEF WorkItem
<1>3. v7' = [u \in Workers |-> IF u = w THEN Infra!Onward(v7[w], ok) ELSE disturbed[u]]
  <2>1. DOMAIN v7 = Workers
    OBVIOUS
  <2> QED
    BY <2>1 DEF Infra!Disturbs
<1> HIDE DEF disturbed
<1>4. /\ v7'[w] \in WorkItem
      /\ v7'[w].wants = v7[w].wants /\ v7'[w].start = v7[w].start
      /\ v7'[w].remove = v7[w].remove \ {s}
      /\ v7'[w].ok => v7[w].ok
  BY <1>3, OnwardIs
<1> HIDE DEF s
<1>5. \A u \in Workers : u # w => v7'[u] = disturbed[u]
  BY <1>3
<1>6. v7' \in [Workers -> WorkItem]
  <2>1. \A u \in Workers : v7'[u] \in WorkItem
    BY <1>2, <1>4, <1>5
  <2> QED
    BY <1>3, <2>1
<1>7. Infra!TypeOK'
  BY <1>6 DEF Infra!TypeOK, Workers, WorkItem
<1>8. \A u \in Workers :
         /\ v7'[u].remove \cap v7'[u].wants = {}
         /\ v7'[u].ok => \A t \in v7'[u].wants \ v7'[u].start : v3'[t] = "running"
  <2> SUFFICES ASSUME NEW u \in Workers
               PROVE  /\ v7'[u].remove \cap v7'[u].wants = {}
                      /\ v7'[u].ok => \A t \in v7'[u].wants \ v7'[u].start : v3'[t] = "running"
    OBVIOUS
  <2>1. CASE u # w
    BY <1>2, <1>5, <2>1
  <2>2. CASE u = w
    <3>1. v7[w].wants \subseteq Infra!Names /\ v7[w].remove \cap v7[w].wants = {}
      BY DEF WorkItem
    <3>2. \A t \in v7[w].wants : t # s /\ v3'[t] = v3[t]
      BY <1>1, <3>1 DEF s
    <3> QED
      BY <1>4, <2>2, <3>1, <3>2
  <2> QED
    BY <2>1, <2>2
<1>9. 0 \in Workers /\ 0 # w
  BY <1>1 DEF Workers, Infra!Boot
<1>10. /\ v7'[0].remove = {}
       /\ v7'[0].pc = v7[0].pc /\ ~v7'[0].ok
  BY <1>2, <1>5, <1>9
<1> QED
  BY <1>7, <1>8, <1>10, InfraHoldsIf

LEMMA RemovesKeeps ==
  ASSUME Infra!InfraInv, NEW w \in Workers, Infra!Removes(w)
  PROVE  Infra!InfraInv'
<1> DEFINE ok == ~v7[w].seen \/ v3[Infra!Current(w)] # "absent"
<1>1. /\ Infra!Removing(w)
      /\ Infra!Disturbs(w, ok)
      /\ v3' = v3 \/ v3' = [v3 EXCEPT ![Infra!Current(w)] = "absent"]
      /\ v10' = FALSE /\ v11' = FALSE
      /\ v1' = v1 /\ v2' = v2 /\ v4' = v4 /\ v5' = v5 /\ v6' = v6 /\ v8' = v8 /\ v9' = v9
  BY DEF Infra!Removes
<1>2. ok \in BOOLEAN
  OBVIOUS
<1> HIDE DEF ok
<1>3. /\ v3' \in [Infra!Names -> {"absent", "stopped", "running"}]
      /\ \A t \in Infra!Names \ {Infra!Current(w)} : v3'[t] = v3[t]
  BY <1>1, InfraTypes
<1>4. v8' \in 0..MaxFailures
  BY <1>1, InfraTypes
<1> QED
  BY <1>1, <1>2, <1>3, <1>4, RemovalKeeps

(* A start, whole or failed, takes nothing down.                            *)
LEMMA StartKeeps ==
  ASSUME Infra!InfraInv, NEW w \in Workers, NEW ok \in BOOLEAN,
         ~Infra!Removing(w), v7[w].pc \in {"act", "pull"},
         v7' = [v7 EXCEPT ![w] = Infra!Onward(v7[w], ok)],
         v3' = v3 \/ v3' = [v3 EXCEPT ![Infra!Current(w)] = "running"],
         ok => v3' = [v3 EXCEPT ![Infra!Current(w)] = "running"],
         v8' \in 0..MaxFailures, v10' = v10, v11' \in BOOLEAN, v11' => v11,
         v1' = v1, v2' = v2, v4' = v4, v5' = v5, v6' = v6, v9' = v9
  PROVE  Infra!InfraInv'
<1> USE InfraTypes, RequestsAre, InfraAssumption
<1> DEFINE s == Infra!Current(w)
<1>1. /\ v7'[w] \in WorkItem
      /\ v7'[w].wants = v7[w].wants /\ v7'[w].remove = v7[w].remove
      /\ v7'[w].start = v7[w].start \ {s}
      /\ v7'[w].ok => v7[w].ok /\ ok
      /\ v7' \in [Workers -> WorkItem]
      /\ \A u \in Workers : u # w => v7'[u] = v7[u]
  BY OnwardIs
<1>2. /\ v3' \in [Infra!Names -> {"absent", "stopped", "running"}]
      /\ \A t \in Infra!Names : v3[t] = "running" => v3'[t] = "running"
      /\ ok => (s \in Infra!Names => v3'[s] = "running")
  OBVIOUS
<1> HIDE DEF s
<1>3. Infra!TypeOK'
  BY <1>1, <1>2 DEF Infra!TypeOK, Workers, WorkItem
<1>4. \A u \in Workers : v7[u].wants \subseteq Infra!Names
  BY DEF WorkItem
<1>5. Infra!Marked(v2) \subseteq Infra!Names /\ Infra!Profiles(Infra!Effective(v1)) \subseteq Infra!Names
  BY DEF Infra!Marked, Infra!Profiles
<1>6. \A u \in Workers :
         /\ v7'[u].remove \cap v7'[u].wants = {}
         /\ v7'[u].ok => \A t \in v7'[u].wants \ v7'[u].start : v3'[t] = "running"
  <2> SUFFICES ASSUME NEW u \in Workers
               PROVE  /\ v7'[u].remove \cap v7'[u].wants = {}
                      /\ v7'[u].ok => \A t \in v7'[u].wants \ v7'[u].start : v3'[t] = "running"
    OBVIOUS
  <2>1. CASE u # w
    BY <1>1, <1>2, <1>4, <2>1
  <2>2. CASE u = w
    <3>1. v7'[w].remove \cap v7'[w].wants = {}
      BY <1>1
    <3>2. ASSUME v7'[w].ok, NEW t \in v7[w].wants \ (v7[w].start \ {s})
          PROVE  v3'[t] = "running"
      <4>1. v7[w].ok /\ ok /\ t \in Infra!Names
        BY <1>1, <1>4, <3>2
      <4>2. CASE t = s
        BY <1>2, <4>1, <4>2
      <4>3. CASE t # s
        BY <1>2, <3>2, <4>1, <4>3
      <4> QED
        BY <4>2, <4>3
    <3> QED
      BY <1>1, <2>2, <3>1, <3>2
  <2> QED
    BY <2>1, <2>2
<1>7. 0 \in Workers
  BY DEF Workers, Infra!Boot
<1>8. v7'[0].pc # "idle" => v7[0].pc # "idle"
  BY <1>1, <1>7
<1>9. v7'[0].remove = {}
  BY <1>1, <1>7
<1>10. v7'[0].pc # "idle" /\ v7'[0].ok => \A t \in Infra!Marked(v2) \ v7'[0].start : v3'[t] = "running"
  <2>1. CASE w # 0
    BY <1>1, <1>2, <1>5, <1>7, <1>8, <2>1
  <2>2. CASE w = 0
    <3>1. ASSUME v7'[0].pc # "idle", v7'[0].ok, NEW t \in Infra!Marked(v2) \ (v7[0].start \ {s})
          PROVE  v3'[t] = "running"
      <4>1. v7[0].ok /\ ok /\ v7[0].pc # "idle" /\ t \in Infra!Names
        BY <1>1, <1>5, <1>8, <2>2, <3>1
      <4>2. CASE t = s
        BY <1>2, <4>1, <4>2
      <4>3. CASE t # s
        BY <1>2, <3>1, <4>1, <4>3
      <4> QED
        BY <4>2, <4>3
    <3> QED
      BY <1>1, <2>2, <3>1
  <2> QED
    BY <2>1, <2>2
<1>11. /\ (v4' = "up" /\ v11') => \A t \in Infra!Marked(v2) : v3'[t] = "running"
       /\ v10' => \A t \in Infra!Profiles(Infra!Effective(v1)) : v3'[t] = "running"
  BY <1>2, <1>5
<1> QED
  BY <1>3, <1>6, <1>8, <1>9, <1>10, <1>11, InfraHoldsIf

(* A container that is made is to be started next; one whose name is taken  *)
(* fails.                                                                   *)
LEMMA CreatesKeeps ==
  ASSUME Infra!InfraInv, NEW w \in Workers, Infra!Creates(w)
  PROVE  Infra!InfraInv'
<1> DEFINE s == Infra!Current(w)
<1>1. /\ ~Infra!Removing(w) /\ v7[w].pc = "pull"
      /\ v10' = v10 /\ v11' = v11
      /\ v1' = v1 /\ v2' = v2 /\ v4' = v4 /\ v5' = v5 /\ v6' = v6 /\ v8' = v8 /\ v9' = v9
  BY DEF Infra!Creates
<1>2. v8' \in 0..MaxFailures /\ v11' \in BOOLEAN
  BY <1>1, InfraTypes
<1>3. CASE v3[s] = "absent"
  <2> DEFINE made == [v7[w] EXCEPT !.pc = "act", !.seen = TRUE]
  <2>1. v3' = [v3 EXCEPT ![s] = "stopped"] /\ v7' = [v7 EXCEPT ![w] = made]
    BY <1>3 DEF Infra!Creates
  <2>2. /\ made \in WorkItem /\ made.remove = v7[w].remove /\ made.wants = v7[w].wants
        /\ made.start = v7[w].start /\ made.ok = v7[w].ok
    BY InfraTypes DEF WorkItem
  <2> HIDE DEF made, s
  <2>3. /\ v3' \in [Infra!Names -> {"absent", "stopped", "running"}]
        /\ \A t \in Infra!Names : v3[t] = "running" => v3'[t] = "running"
    BY <1>3, <2>1, InfraTypes
  <2> QED
    BY <1>1, <1>2, <2>1, <2>2, <2>3, RecordKeeps
<1>4. CASE v3[s] # "absent"
  <2>1. v3' = v3 /\ v7' = [v7 EXCEPT ![w] = Infra!Onward(v7[w], FALSE)]
    BY <1>4 DEF Infra!Creates
  <2> QED
    BY <1>1, <1>2, <2>1, StartKeeps
<1> QED
  BY <1>3, <1>4

LEMMA StartsKeeps ==
  ASSUME Infra!InfraInv, NEW w \in Workers, Infra!Starts(w)
  PROVE  Infra!InfraInv'
<1> DEFINE ok == v3[Infra!Current(w)] # "absent"
<1>1. /\ ~Infra!Removing(w) /\ v7[w].pc = "act"
      /\ v3' = IF ok THEN [v3 EXCEPT ![Infra!Current(w)] = "running"] ELSE v3
      /\ v7' = [v7 EXCEPT ![w] = Infra!Onward(v7[w], ok)]
      /\ v10' = v10 /\ v11' = v11
      /\ v1' = v1 /\ v2' = v2 /\ v4' = v4 /\ v5' = v5 /\ v6' = v6 /\ v8' = v8 /\ v9' = v9
  BY DEF Infra!Starts
<1>2. /\ v3' = v3 \/ v3' = [v3 EXCEPT ![Infra!Current(w)] = "running"]
      /\ ok => v3' = [v3 EXCEPT ![Infra!Current(w)] = "running"]
      /\ ok \in BOOLEAN
  BY <1>1
<1> HIDE DEF ok
<1>3. v8' \in 0..MaxFailures /\ v11' \in BOOLEAN
  BY <1>1, InfraTypes
<1> QED
  BY <1>1, <1>2, <1>3, StartKeeps

LEMMA CallFailsKeeps ==
  ASSUME Infra!InfraInv, NEW w \in Workers, Infra!CallFails(w)
  PROVE  Infra!InfraInv'
<1>1. /\ v7[w].pc \in {"act", "pull"}
      /\ v8 < MaxFailures /\ v8' = v8 + 1
      /\ v10' = (v10 /\ ~Infra!Removing(w)) /\ v11' = FALSE
      /\ v1' = v1 /\ v2' = v2 /\ v4' = v4 /\ v5' = v5 /\ v6' = v6 /\ v9' = v9
  BY DEF Infra!CallFails
<1>2. v8' \in 0..MaxFailures
  BY <1>1, InfraTypes, TransferAssumption
<1>3. CASE Infra!Removing(w)
  <2>1. /\ v3' = v3 \/ v3' = [v3 EXCEPT ![Infra!Current(w)] =
                                IF v3[Infra!Current(w)] = "running" THEN "stopped" ELSE v3[Infra!Current(w)]]
        /\ Infra!Disturbs(w, FALSE)
    BY <1>3 DEF Infra!CallFails
  <2>2. /\ v3' \in [Infra!Names -> {"absent", "stopped", "running"}]
        /\ \A t \in Infra!Names \ {Infra!Current(w)} : v3'[t] = v3[t]
    BY <2>1, InfraTypes
  <2> QED
    BY <1>1, <1>2, <1>3, <2>1, <2>2, RemovalKeeps
<1>4. CASE ~Infra!Removing(w)
  <2>1. v3' = v3 /\ v7' = [v7 EXCEPT ![w] = Infra!Onward(v7[w], FALSE)]
    BY <1>4 DEF Infra!CallFails
  <2>2. v10' = v10
    BY <1>1, <1>4, InfraTypes
  <2> QED
    BY <1>1, <1>2, <1>4, <2>1, <2>2, StartKeeps
<1> QED
  BY <1>3, <1>4


(* What a request found done is done when it orders the restart: its list   *)
(* of starts is at an end.                                                  *)
LEMMA OrderedKeeps ==
  ASSUME Infra!InfraInv, NEW p \in Dashboards, Infra!Ordered(p)
  PROVE  Infra!InfraInv'
<1> USE InfraTypes, RequestsAre, InfraAssumption
<1>1. /\ v7[p].pc = "look" /\ Infra!Finished(v7[p]) /\ v5 < MaxSaves /\ v5' = v5 + 1
      /\ v7' = [v7 EXCEPT ![p] = Infra!NoWork]
      /\ v10' = (v7[p].ok /\ v7[p].wants = Infra!Profiles(Infra!Effective(v1)))
      /\ v1' = v1 /\ v2' = v2 /\ v3' = v3 /\ v4' = v4 /\ v6' = v6 /\ v8' = v8 /\ v9' = v9
      /\ v11' = v11
  BY DEF Infra!Ordered
<1>2. Infra!NoWork \in WorkItem /\ Infra!NoWork.remove = {} /\ Infra!NoWork.wants = {}
  BY DEF Infra!NoWork, WorkItem
<1>3. p \in Workers /\ 0 \in Workers /\ p # 0
  BY DEF Workers, Infra!Boot
<1>4. /\ v7' \in [Workers -> WorkItem] /\ v7'[p] = Infra!NoWork
      /\ \A w \in Workers : w # p => v7'[w] = v7[w]
  BY <1>1, <1>2, <1>3
<1>5. v5' \in 0..MaxSaves
  BY <1>1
<1>6. v10' \in BOOLEAN
  BY <1>1, <1>3 DEF WorkItem
<1>7. Infra!TypeOK'
  BY <1>1, <1>4, <1>5, <1>6 DEF Infra!TypeOK, Workers, WorkItem
<1>8. v10' => \A s \in Infra!Profiles(Infra!Effective(v1)) : v3[s] = "running"
  BY <1>1, <1>3 DEF Infra!Finished
<1>9. \A w \in Workers :
         /\ v7'[w].remove \cap v7'[w].wants = {}
         /\ v7'[w].ok => \A s \in v7'[w].wants \ v7'[w].start : v3'[s] = "running"
  BY <1>1, <1>2, <1>4
<1>10. v7'[0] = v7[0]
  BY <1>3, <1>4
<1> QED
  BY <1>1, <1>7, <1>8, <1>9, <1>10, InfraHoldsIf DEF Infra!Marked, Infra!Profiles

(* A process that exits leaves its containers where they are.               *)
LEMMA ExitsKeeps ==
  ASSUME Infra!InfraInv, Infra!Exits
  PROVE  Infra!InfraInv'
<1> USE InfraTypes, RequestsAre, InfraAssumption, TransferAssumption
<1>1. /\ v4' = "down" /\ v5' = 0 /\ v7' = [w \in Workers |-> Infra!NoWork]
      /\ v8' = v8 \/ (v8 < MaxFailures /\ v8' = v8 + 1)
      /\ v1' = v1 /\ v2' = v2 /\ v3' = v3 /\ v6' = v6 /\ v9' = v9 /\ v10' = v10 /\ v11' = v11
  <2>1. v8' = v8 \/ (v8 < MaxFailures /\ v8' = v8 + 1)
    BY DEF Infra!Exits
  <2>2. v7' = [w \in Workers |-> Infra!NoWork]
    BY DEF Infra!Exits, Workers
  <2> QED
    BY <2>1, <2>2 DEF Infra!Exits
<1>2. /\ Infra!NoWork \in WorkItem /\ Infra!NoWork.remove = {} /\ Infra!NoWork.wants = {}
      /\ Infra!NoWork.pc = "idle"
  BY DEF Infra!NoWork, WorkItem
<1>3. v8' \in 0..MaxFailures /\ v5' \in 0..MaxSaves
  BY <1>1
<1>4. \A w \in Workers : v7'[w] = Infra!NoWork
  BY <1>1
<1>5. Infra!TypeOK'
  BY <1>1, <1>2, <1>3 DEF Infra!TypeOK, Workers, WorkItem
<1>6. 0 \in Workers
  BY DEF Workers, Infra!Boot
<1> QED
  BY <1>1, <1>2, <1>4, <1>5, <1>6, InfraHoldsIf DEF Infra!Profiles

(* The boot begins with every marked service still to be started.           *)
LEMMA BootsKeeps ==
  ASSUME Infra!InfraInv, Infra!Boots
  PROVE  Infra!InfraInv'
<1> USE InfraTypes, RequestsAre, InfraAssumption
<1> DEFINE begun == [pc |-> "look", remove |-> {}, start |-> Infra!Marked(Infra!Effective(v1)), wants |-> {},
                     seen |-> FALSE, ok |-> TRUE]
<1>1. /\ v4' = "booting" /\ v2' = Infra!Effective(v1) /\ v7' = [v7 EXCEPT ![0] = begun]
      /\ v1' = v1 /\ v3' = v3 /\ v5' = v5 /\ v6' = v6 /\ v8' = v8 /\ v9' = v9 /\ v10' = v10 /\ v11' = v11
  BY DEF Infra!Boots, Infra!Begun, Infra!Boot
<1>2. /\ begun \in WorkItem /\ begun.remove = {} /\ begun.wants = {}
      /\ begun.start = Infra!Marked(Infra!Effective(v1))
  BY DEF WorkItem, Infra!Marked
<1> HIDE DEF begun
<1>3. 0 \in Workers
  BY DEF Workers, Infra!Boot
<1>4. /\ v7' \in [Workers -> WorkItem] /\ v7'[0] = begun
      /\ \A w \in Workers : w # 0 => v7'[w] = v7[w]
  BY <1>1, <1>2, <1>3
<1>5. Infra!TypeOK'
  BY <1>1, <1>4, EffectiveIs DEF Infra!TypeOK, Workers, WorkItem
<1>6. \A w \in Workers :
         /\ v7'[w].remove \cap v7'[w].wants = {}
         /\ v7'[w].ok => \A s \in v7'[w].wants \ v7'[w].start : v3'[s] = "running"
  BY <1>1, <1>2, <1>4
<1>7. Infra!Marked(v2') \ v7'[0].start = {}
  BY <1>1, <1>2, <1>4
<1> QED
  BY <1>1, <1>2, <1>4, <1>5, <1>6, <1>7, InfraHoldsIf DEF Infra!Profiles

LEMMA AloneKeeps ==
  ASSUME Infra!InfraInv, Infra!BootsWithoutDocker \/ Infra!DockerAnswers
  PROVE  Infra!InfraInv'
<1> USE InfraTypes, RequestsAre, InfraAssumption, TransferAssumption
<1>1. /\ v4 \in {"down", "alone"} /\ v4' \in {"alone", "up"}
      /\ v2' = v2 \/ v2' = Infra!Effective(v1)
      /\ v8' = v8 \/ (v8 < MaxFailures /\ v8' = v8 + 1)
      /\ v11' \in BOOLEAN
      /\ v1' = v1 /\ v3' = v3 /\ v5' = v5 /\ v6' = v6 /\ v7' = v7 /\ v9' = v9 /\ v10' = v10
  BY DEF Infra!BootsWithoutDocker, Infra!DockerAnswers
<1>2. v8' \in 0..MaxFailures
  BY <1>1
<1>3. v2' \in [Infra!Names -> Infra!Setting]
  BY <1>1, EffectiveIs
<1>4. Infra!TypeOK'
  BY <1>1, <1>2, <1>3 DEF Infra!TypeOK, Workers, WorkItem
<1>5. v7'[0].pc = "idle"
  BY <1>1 DEF WorkItem
<1>6. ~v11'
  <2>1. CASE Infra!BootsWithoutDocker
    BY <2>1 DEF Infra!BootsWithoutDocker
  <2>2. CASE Infra!DockerAnswers
    BY <2>2 DEF Infra!DockerAnswers
  <2> QED
    BY <2>1, <2>2
<1> QED
  BY <1>1, <1>4, <1>5, <1>6, InfraHoldsIf DEF Infra!Profiles

LEMMA BootedKeeps ==
  ASSUME Infra!InfraInv, Infra!Booted
  PROVE  Infra!InfraInv'
<1> USE InfraTypes, RequestsAre, InfraAssumption
<1>1. /\ v7[0].pc = "look" /\ Infra!Finished(v7[0]) /\ v4' = "up"
      /\ v7' = [v7 EXCEPT ![0] = Infra!NoWork] /\ v11' = v7[0].ok
      /\ v1' = v1 /\ v2' = v2 /\ v3' = v3 /\ v5' = v5 /\ v6' = v6 /\ v8' = v8 /\ v9' = v9 /\ v10' = v10
  BY DEF Infra!Booted, Infra!Boot
<1>2. /\ Infra!NoWork \in WorkItem /\ Infra!NoWork.remove = {} /\ Infra!NoWork.wants = {}
      /\ Infra!NoWork.pc = "idle"
  BY DEF Infra!NoWork, WorkItem
<1>3. 0 \in Workers
  BY DEF Workers, Infra!Boot
<1>4. /\ v7' \in [Workers -> WorkItem] /\ v7'[0] = Infra!NoWork
      /\ \A w \in Workers : w # 0 => v7'[w] = v7[w]
  BY <1>1, <1>2, <1>3
<1>5. v11' \in BOOLEAN
  BY <1>1, <1>3 DEF WorkItem
<1>6. Infra!TypeOK'
  BY <1>1, <1>4, <1>5 DEF Infra!TypeOK, Workers, WorkItem
<1>7. v11' => \A s \in Infra!Marked(v2') : v3'[s] = "running"
  BY <1>1 DEF Infra!Finished, Infra!Marked
<1>8. \A w \in Workers :
         /\ v7'[w].remove \cap v7'[w].wants = {}
         /\ v7'[w].ok => \A s \in v7'[w].wants \ v7'[w].start : v3'[s] = "running"
  BY <1>1, <1>2, <1>4
<1> QED
  BY <1>1, <1>2, <1>4, <1>6, <1>7, <1>8, InfraHoldsIf DEF Infra!Profiles

LEMMA InfraStep == Infra!InfraInv /\ [Infra!Next]_(Infra!infraVars) => Infra!InfraInv'
<1> SUFFICES ASSUME Infra!InfraInv, [Infra!Next]_(Infra!infraVars)
             PROVE  Infra!InfraInv'
  OBVIOUS
<1>1. CASE UNCHANGED Infra!infraVars
  <2>1. /\ v1' = v1 /\ v2' = v2 /\ v3' = v3 /\ v4' = v4 /\ v5' = v5 /\ v6' = v6 /\ v7' = v7
        /\ v8' = v8 /\ v9' = v9 /\ v10' = v10 /\ v11' = v11
    BY <1>1 DEF Infra!infraVars
  <2>2. Infra!TypeOK'
    BY <2>1, InfraTypes DEF Infra!TypeOK, Workers, WorkItem
  <2> QED
    BY <2>1, <2>2, RequestsAre, InfraHoldsIf DEF Infra!Marked, Infra!Profiles
<1>2. CASE Infra!Next
  BY <1>2, SaveKeeps, PageKeeps, RestartKeeps, OrderedKeeps, LooksKeeps, RemovesKeeps, StartsKeeps,
     CreatesKeeps, CallFailsKeeps, ExitsKeeps, BootsKeeps, AloneKeeps, BootedKeeps DEF Infra!Next, Workers
<1> QED
  BY <1>1, <1>2

LEMMA InfraInit == Infra!Init => Infra!InfraInv
<1> SUFFICES ASSUME Infra!Init
             PROVE  Infra!InfraInv
  OBVIOUS
<1>1. /\ v1 = Infra!NoFile /\ v2 = Infra!Effective(Infra!NoFile) /\ v3 = [s \in Infra!Names |-> "absent"]
      /\ v4 = "down" /\ v5 = 0 /\ v6 = [p \in Dashboards |-> Infra!NoPage]
      /\ v7 = [w \in Workers |-> Infra!NoWork]
      /\ v8 = 0 /\ v9 = 0 /\ v10 = FALSE /\ v11 = FALSE
  BY DEF Infra!Init, Workers
<1>2. /\ Infra!NoFile \in [Infra!Names -> Infra!Setting]
      /\ Infra!Effective(Infra!NoFile) \in [Infra!Names -> Infra!Setting]
  BY EffectiveIs DEF Infra!NoFile, Infra!Setting
<1>3. Infra!NoPage \in [pending : SUBSET Infra!Names, previous : SUBSET Infra!Names, asks : BOOLEAN]
  BY DEF Infra!NoPage
<1>4. /\ Infra!NoWork \in WorkItem /\ Infra!NoWork.remove = {} /\ Infra!NoWork.wants = {}
      /\ Infra!NoWork.pc = "idle"
  BY DEF Infra!NoWork, WorkItem
<1>5. 0 \in 0..MaxSaves /\ 0 \in 0..MaxFailures
  BY InfraAssumption, TransferAssumption
<1>6. Infra!TypeOK
  BY <1>1, <1>2, <1>3, <1>4, <1>5 DEF Infra!TypeOK, Workers, WorkItem
<1>7. \A w \in Workers : v7[w] = Infra!NoWork
  BY <1>1
<1>8. 0 \in Workers
  BY DEF Workers, Infra!Boot
<1> QED
  BY <1>1, <1>4, <1>6, <1>7, <1>8 DEF Infra!InfraInv, Infra!RequestsHold, Infra!BootHolds,
     Infra!BuiltInsRun, Infra!Up, Workers, Infra!Boot

(* The database is one of the services the file asks for, when it does.     *)
LEMMA InfraFollows == Infra!InfraInv => Infra!RestartBoots /\ Infra!BuiltInsRun
BY DEF Infra!InfraInv, Infra!RestartBoots, Infra!Bootable, Infra!Up

-----------------------------------------------------------------------------
(* The statistics and the usage.                                            *)

(* The number of elements of a set, as the module of the statistics means it. *)
LEMMA StatsCardinality == \A S : Stats!Cardinality(S) = Cardinality(S)
BY DEF Cardinality, Stats!Cardinality

(* The parts into which g divides a finite set add up to those it divides.  *)
LEMMA PartsAddUp ==
  ASSUME NEW I, IsFiniteSet(I), NEW g, NEW S
  PROVE  Stats!SumOver([x \in S |-> Stats!Cardinality({i \in I : g[i] = x})])
           = Cardinality({i \in I : g[i] \in S})
<1> DEFINE Part(x) == {i \in I : g[i] = x}
           All == {i \in I : g[i] \in S}
           f == [x \in S |-> Stats!Cardinality(Part(x))]
           P == UNION {{x} \X (1..f[x]) : x \in DOMAIN f}
           b == [x \in S |-> CHOOSE b \in Bijection(1..f[x], Part(x)) : TRUE]
           h == [p \in P |-> b[p[1]][p[2]]]
<1>1. IsFiniteSet(All) /\ \A x \in S : IsFiniteSet(Part(x))
  BY FS_Subset
<1>2. \A x \in S : f[x] = Cardinality(Part(x))
  BY StatsCardinality
<1>3. \A x \in S : b[x] \in Bijection(1..f[x], Part(x))
  BY <1>1, <1>2, FS_CardinalityType DEF ExistsBijection
<1>4. \A p \in P : p[1] \in S /\ p[2] \in 1..f[p[1]] /\ p = <<p[1], p[2]>>
  <2> SUFFICES ASSUME NEW p \in P
               PROVE  p[1] \in S /\ p[2] \in 1..f[p[1]] /\ p = <<p[1], p[2]>>
    OBVIOUS
  <2>0. DOMAIN f = S
    OBVIOUS
  <2> HIDE DEF f
  <2>1. PICK x \in S : p \in {x} \X (1..f[x])
    BY <2>0
  <2> QED
    BY <2>1
<1>5. \A x \in S : \A n \in 1..f[x] : <<x, n>> \in P
  <2> SUFFICES ASSUME NEW x \in S, NEW n \in 1..f[x]
               PROVE  <<x, n>> \in P
    OBVIOUS
  <2>0. DOMAIN f = S
    OBVIOUS
  <2> HIDE DEF f
  <2>1. <<x, n>> \in {x} \X (1..f[x])
    OBVIOUS
  <2> QED
    BY <2>0, <2>1
<1> HIDE DEF f, b, P, Part
<1>6. \A x \in S : /\ \A n \in 1..f[x] : b[x][n] \in Part(x)
                   /\ \A n, m \in 1..f[x] : b[x][n] = b[x][m] => n = m
                   /\ \A i \in Part(x) : \E n \in 1..f[x] : b[x][n] = i
  BY <1>3 DEF Bijection, Injection, Surjection, IsInjective
<1>7. h \in [P -> All]
  BY <1>4, <1>6 DEF Part
<1>8. \A p, q \in P : h[p] = h[q] => p = q
  <2> SUFFICES ASSUME NEW p \in P, NEW q \in P, h[p] = h[q]
               PROVE  p = q
    OBVIOUS
  <2>1. h[p] \in Part(p[1]) /\ h[q] \in Part(q[1])
    BY <1>4, <1>6
  <2>2. p[1] = q[1]
    BY <2>1 DEF Part
  <2>3. p[2] = q[2]
    BY <1>4, <1>6, <2>2
  <2> QED
    BY <1>4, <2>2, <2>3
<1>9. \A i \in All : \E p \in P : h[p] = i
  <2> SUFFICES ASSUME NEW i \in All
               PROVE  \E p \in P : h[p] = i
    OBVIOUS
  <2>1. g[i] \in S /\ i \in Part(g[i])
    BY DEF Part
  <2>2. PICK n \in 1..f[g[i]] : b[g[i]][n] = i
    BY <1>6, <2>1
  <2>3. <<g[i], n>> \in P /\ h[<<g[i], n>>] = i
    BY <1>5, <2>1, <2>2
  <2> QED
    BY <2>3
<1>10. h \in Bijection(P, All)
  <2> HIDE DEF h, All
  <2> QED
    BY <1>7, <1>8, <1>9 DEF Bijection, Injection, Surjection, IsInjective
<1>11. Cardinality(P) = Cardinality(All)
  <2>1. ExistsBijection(All, P)
    BY <1>10, Fun_ExistsBijSymmetric DEF ExistsBijection
  <2> QED
    BY <1>1, <2>1, FS_Bijection
<1>12. Stats!SumOver(f) = Stats!Cardinality(P)
  BY DEF Stats!SumOver, P
<1>13. f = [x \in S |-> Stats!Cardinality({i \in I : g[i] = x})] /\ All = {i \in I : g[i] \in S}
  BY DEF f, Part
<1> QED
  BY <1>11, <1>12, <1>13, StatsCardinality

(* Sets of messages are finite, and a part has no more than the whole.      *)
LEMMA MessagesCount ==
  ASSUME v1 \in Seq(Stats!Message)
  PROVE  /\ \A S \in SUBSET Stats!Ids : IsFiniteSet(S) /\ Stats!Cardinality(S) \in Nat
         /\ \A S, T \in SUBSET Stats!Ids : S \subseteq T => Stats!Cardinality(S) <= Stats!Cardinality(T)
<1>1. IsFiniteSet(Stats!Ids)
  <2>1. 1 \in Int /\ Len(v1) \in Int
    OBVIOUS
  <2> QED
    BY <2>1, FS_Interval DEF Stats!Ids
<1> HIDE DEF Stats!Ids
<1>2. \A S \in SUBSET Stats!Ids : IsFiniteSet(S) /\ Cardinality(S) \in Nat
  BY <1>1, FS_Subset, FS_CardinalityType
<1>3. \A S, T \in SUBSET Stats!Ids : S \subseteq T => Cardinality(S) <= Cardinality(T)
  BY <1>2, FS_Subset
<1> QED
  BY <1>2, <1>3, StatsCardinality

LEMMA NumbersAre ==
  ASSUME v1 \in Seq(Stats!Message)
  PROVE  /\ \A dir, of, ages : /\ Stats!Those(dir, of, ages) \subseteq Stats!Ids
                               /\ Stats!Number(dir, of, ages) \in Nat
         /\ \A of : Stats!TodayOf(of) \in Nat
<1>1. \A dir, of, ages : Stats!Those(dir, of, ages) \subseteq Stats!Ids
  BY DEF Stats!Those
<1>2. \A of : Stats!TodayOf(of) = Stats!Cardinality({i \in Stats!Ids : v1[i].session = of /\ v1[i].age \in Stats!Today})
  BY DEF Stats!TodayOf, Stats!Count, Stats!Where
<1> QED
  BY <1>1, <1>2, MessagesCount DEF Stats!Number

(* A message that is saved is one more of its direction.                    *)
LEMMA SavedCounts ==
  ASSUME v1 \in Seq(Stats!Message), NEW s, NEW way \in {"incoming", "outgoing"}, Stats!Saved(s, way)
  PROVE  /\ \A dir, of, ages : /\ Stats!Number(dir, of, ages)' \in Nat
                               /\ Stats!Number(dir, of, ages) <= Stats!Number(dir, of, ages)'
                               /\ Stats!Number(dir, of, ages)' <= Stats!Number(dir, of, ages) + 1
                               /\ dir # way => Stats!Number(dir, of, ages)' = Stats!Number(dir, of, ages)
         /\ \A of : Stats!TodayOf(of)' \in Nat /\ Stats!TodayOf(of) <= Stats!TodayOf(of)'
         /\ Stats!Ids \subseteq Stats!Ids' /\ \A i \in Stats!Ids : v1'[i] = v1[i]
<1> DEFINE m == [session |-> s, dir |-> way, failed |-> FALSE, age |-> "today"]
           n == Len(v1) + 1
<1>1. v1' = Append(v1, m)
  BY DEF Stats!Saved
<1>2. Len(v1) \in Nat /\ Len(v1') = n /\ v1'[n] = m /\ \A i \in 1..Len(v1) : v1'[i] = v1[i]
  <2> HIDE DEF m
  <2> QED
    BY <1>1
<1>3. Stats!Ids' = Stats!Ids \cup {n} /\ n \notin Stats!Ids
  BY <1>2 DEF Stats!Ids
<1>4. \A i \in Stats!Ids : v1'[i] = v1[i]
  BY <1>2 DEF Stats!Ids
<1>5. \A S \in SUBSET Stats!Ids :
        /\ IsFiniteSet(S) /\ Cardinality(S) \in Nat
        /\ Cardinality(S \cup {n}) = Cardinality(S) + 1
  <2> HIDE DEF n
  <2> QED
    BY <1>3, MessagesCount, StatsCardinality, FS_AddElement
<1>6. ASSUME NEW dir, NEW of, NEW ages
      PROVE  /\ Stats!Number(dir, of, ages)' \in Nat
             /\ Stats!Number(dir, of, ages) <= Stats!Number(dir, of, ages)'
             /\ Stats!Number(dir, of, ages)' <= Stats!Number(dir, of, ages) + 1
             /\ dir # way => Stats!Number(dir, of, ages)' = Stats!Number(dir, of, ages)
  <2> DEFINE S == Stats!Those(dir, of, ages)
             T == {i \in Stats!Ids' : v1'[i].dir = dir /\ v1'[i].session \in of /\ v1'[i].age \in ages}
  <2>1. S \subseteq Stats!Ids /\ S = {i \in Stats!Ids : v1[i].dir = dir /\ v1[i].session \in of /\ v1[i].age \in ages}
    BY DEF Stats!Those
  <2>2. T = S \/ (T = S \cup {n} /\ dir = way)
    BY <1>2, <1>3, <1>4, <2>1
  <2>3. Stats!Number(dir, of, ages) = Cardinality(S)
    BY StatsCardinality DEF Stats!Number
  <2>4. Stats!Number(dir, of, ages)' = Cardinality(T)
    BY StatsCardinality DEF Stats!Number, Stats!Those
  <2> HIDE DEF S, T, n
  <2>5. /\ Cardinality(S) \in Nat /\ Cardinality(S \cup {n}) = Cardinality(S) + 1
    BY <1>5, <2>1
  <2>6. Cardinality(T) = Cardinality(S) \/ (Cardinality(T) = Cardinality(S) + 1 /\ dir = way)
    BY <2>2, <2>5
  <2>7. /\ Stats!Number(dir, of, ages) \in Nat
        /\ \/ Stats!Number(dir, of, ages)' = Stats!Number(dir, of, ages)
           \/ Stats!Number(dir, of, ages)' = Stats!Number(dir, of, ages) + 1 /\ dir = way
    BY <2>3, <2>4, <2>5, <2>6
  <2> QED
    BY <2>7
<1>7. ASSUME NEW of
      PROVE  Stats!TodayOf(of)' \in Nat /\ Stats!TodayOf(of) <= Stats!TodayOf(of)'
  <2> DEFINE S == {i \in Stats!Ids : v1[i].session = of /\ v1[i].age \in Stats!Today}
             T == {i \in Stats!Ids' : v1'[i].session = of /\ v1'[i].age \in Stats!Today}
  <2>1. S \subseteq Stats!Ids
    OBVIOUS
  <2>2. T = S \/ T = S \cup {n}
    BY <1>2, <1>3, <1>4, <2>1
  <2>3. Stats!TodayOf(of) = Cardinality(S)
    BY StatsCardinality DEF Stats!TodayOf, Stats!Count, Stats!Where
  <2>4. Stats!TodayOf(of)' = Cardinality(T)
    BY StatsCardinality DEF Stats!TodayOf, Stats!Count, Stats!Where
  <2> HIDE DEF S, T, n
  <2>5. /\ Cardinality(S) \in Nat /\ Cardinality(S \cup {n}) = Cardinality(S) + 1
    BY <1>5, <2>1
  <2>6. Cardinality(T) = Cardinality(S) \/ Cardinality(T) = Cardinality(S) + 1
    BY <2>2, <2>5
  <2>7. /\ Stats!TodayOf(of) \in Nat
        /\ \/ Stats!TodayOf(of)' = Stats!TodayOf(of)
           \/ Stats!TodayOf(of)' = Stats!TodayOf(of) + 1
    BY <2>3, <2>4, <2>5, <2>6
  <2> QED
    BY <2>7
<1> QED
  BY <1>3, <1>4, <1>6, <1>7

(* One that fails is counted as before, but for the failures.               *)
LEMMA FailedCounts ==
  ASSUME v1 \in Seq(Stats!Message), NEW j \in Stats!Ids, Stats!SendFails(j)
  PROVE  /\ \A dir, of, ages : Stats!Number(dir, of, ages)' = Stats!Number(dir, of, ages)
         /\ \A of : Stats!TodayOf(of)' = Stats!TodayOf(of)
         /\ v1' \in Seq(Stats!Message) /\ Len(v1') = Len(v1) /\ Stats!Ids' = Stats!Ids
         /\ \A i \in Stats!Ids : v1'[i].session = v1[i].session
<1>1. j \in 1..Len(v1) /\ v1[j] \in Stats!Message /\ v1[j].dir = "outgoing"
  BY DEF Stats!Ids, Stats!SendFails
<1>2. v1' = [v1 EXCEPT ![j] = [v1[j] EXCEPT !.failed = TRUE]]
  BY DEF Stats!SendFails
<1> DEFINE m == [v1[j] EXCEPT !.failed = TRUE]
<1>3. m \in Stats!Message /\ m.session = v1[j].session /\ m.dir = v1[j].dir /\ m.age = v1[j].age
  BY <1>1 DEF Stats!Message
<1> HIDE DEF m
<1>4. v1' = [v1 EXCEPT ![j] = m]
  BY <1>2 DEF m
<1>5. /\ v1' \in Seq(Stats!Message) /\ Len(v1') = Len(v1)
      /\ v1'[j] = m /\ \A i \in 1..Len(v1) : i # j => v1'[i] = v1[i]
  BY <1>1, <1>3, <1>4
<1>6. Stats!Ids' = Stats!Ids
  BY <1>5 DEF Stats!Ids
<1>7. \A i \in Stats!Ids : v1'[i].session = v1[i].session /\ v1'[i].dir = v1[i].dir /\ v1'[i].age = v1[i].age
  BY <1>3, <1>5 DEF Stats!Ids
<1>8. \A dir, of, ages : Stats!Those(dir, of, ages)' = Stats!Those(dir, of, ages)
  <2> SUFFICES ASSUME NEW dir, NEW of, NEW ages
               PROVE  Stats!Those(dir, of, ages)' = Stats!Those(dir, of, ages)
    OBVIOUS
  <2> QED
    BY <1>6, <1>7 DEF Stats!Those
<1>9. \A of : Stats!TodayOf(of)' = Stats!TodayOf(of)
  <2> SUFFICES ASSUME NEW of
               PROVE  Stats!TodayOf(of)' = Stats!TodayOf(of)
    OBVIOUS
  <2>1. {i \in Stats!Ids' : v1'[i].session = of /\ v1'[i].age \in Stats!Today}
         = {i \in Stats!Ids : v1[i].session = of /\ v1[i].age \in Stats!Today}
    BY <1>6, <1>7
  <2>2. /\ Stats!TodayOf(of) = Cardinality({i \in Stats!Ids : v1[i].session = of /\ v1[i].age \in Stats!Today})
        /\ Stats!TodayOf(of)' = Cardinality({i \in Stats!Ids' : v1'[i].session = of /\ v1'[i].age \in Stats!Today})
    BY StatsCardinality DEF Stats!TodayOf, Stats!Count, Stats!Where
  <2> QED
    BY <2>1, <2>2
<1>10. \A dir, of, ages : Stats!Number(dir, of, ages)' = Stats!Number(dir, of, ages)
  BY <1>8, StatsCardinality DEF Stats!Number
<1> QED
  BY <1>5, <1>6, <1>7, <1>9, <1>10

(* The queries of the reports in their order.                               *)
LEMMA StepsAre ==
  /\ Stats!Kinds = {"overview", "messageStats", "sessionStats", "usage", "clientUsage"}
  /\ Stats!Steps["overview"] = <<"byDirection", "today", "failed">>
  /\ Stats!Steps["messageStats"] = <<"timeSeries", "bySession">>
  /\ Stats!Steps["sessionStats"] = <<"byDirectionOf", "todayOf", "failedOf", "hourly">>
  /\ Stats!Steps["usage"] = <<"rows", "outgoing">>
  /\ Stats!Steps["clientUsage"] = <<"rows", "outgoingOf">>
BY DEF Stats!Kinds, Stats!Steps

(* What is answered when a query's turn comes.                              *)
Before(q) ==
  CASE q = "today"      -> {"byDirection"}
    [] q = "failed"     -> {"byDirection", "today"}
    [] q = "bySession"  -> {"timeSeries"}
    [] q = "todayOf"    -> {"byDirectionOf"}
    [] q = "failedOf"   -> {"byDirectionOf", "todayOf"}
    [] q = "hourly"     -> {"byDirectionOf", "todayOf", "failedOf"}
    [] q = "outgoing"   -> {"rows"}
    [] q = "outgoingOf" -> {"rows"}
    [] OTHER            -> {}

StatsQueries == {"byDirection", "today", "failed", "timeSeries", "bySession", "byDirectionOf",
                 "todayOf", "failedOf", "hourly", "rows", "outgoing", "outgoingOf"}

LEMMA TurnIs ==
  ASSUME NEW kind \in Stats!Kinds, NEW n \in 1..Len(Stats!Steps[kind])
  PROVE  /\ Stats!Steps[kind][n] \in StatsQueries
         /\ {Stats!Steps[kind][i] : i \in 1..(n - 1)} = Before(Stats!Steps[kind][n])
<1>1. 1..0 = {} /\ 1..1 = {1} /\ 1..2 = {1, 2} /\ 1..3 = {1, 2, 3} /\ 1..4 = {1, 2, 3, 4}
  OBVIOUS
<1>2. CASE kind = "overview"
  <2>1. Stats!Steps[kind] = <<"byDirection", "today", "failed">>
    BY <1>2, StepsAre
  <2>2. n \in 1..3
    BY <2>1
  <2>3. CASE n = 1
    BY <1>1, <2>1, <2>3 DEF Before, StatsQueries
  <2>4. CASE n = 2
    <3>1. Stats!Steps[kind][n] = "today" /\ {Stats!Steps[kind][i] : i \in {1}} = {"byDirection"}
      BY <2>1, <2>4
    <3> QED
      BY <1>1, <2>4, <3>1 DEF Before, StatsQueries
  <2>5. CASE n = 3
    <3>1. Stats!Steps[kind][n] = "failed" /\ {Stats!Steps[kind][i] : i \in {1, 2}} = {"byDirection", "today"}
      BY <2>1, <2>5
    <3>2. Before("failed") = {"byDirection", "today"} /\ "failed" \in StatsQueries
      BY DEF Before, StatsQueries
    <3>3. 1..(n - 1) = {1, 2}
      BY <1>1, <2>5
    <3> QED
      BY <3>1, <3>2, <3>3
  <2> QED
    BY <1>1, <2>2, <2>3, <2>4, <2>5
<1>3. CASE kind = "messageStats"
  <2>1. Stats!Steps[kind] = <<"timeSeries", "bySession">>
    BY <1>3, StepsAre
  <2>2. n \in 1..2
    BY <2>1
  <2>3. CASE n = 1
    BY <1>1, <2>1, <2>3 DEF Before, StatsQueries
  <2>4. CASE n = 2
    <3>1. Stats!Steps[kind][n] = "bySession" /\ {Stats!Steps[kind][i] : i \in {1}} = {"timeSeries"}
      BY <2>1, <2>4
    <3> QED
      BY <1>1, <2>4, <3>1 DEF Before, StatsQueries
  <2> QED
    BY <1>1, <2>2, <2>3, <2>4
<1>4. CASE kind = "sessionStats"
  <2>1. Stats!Steps[kind] = <<"byDirectionOf", "todayOf", "failedOf", "hourly">>
    BY <1>4, StepsAre
  <2>2. n \in 1..4
    BY <2>1
  <2>3. CASE n = 1
    BY <1>1, <2>1, <2>3 DEF Before, StatsQueries
  <2>4. CASE n = 2
    <3>1. Stats!Steps[kind][n] = "todayOf" /\ {Stats!Steps[kind][i] : i \in {1}} = {"byDirectionOf"}
      BY <2>1, <2>4
    <3> QED
      BY <1>1, <2>4, <3>1 DEF Before, StatsQueries
  <2>5. CASE n = 3
    <3>1. Stats!Steps[kind][n] = "failedOf" /\ {Stats!Steps[kind][i] : i \in {1, 2}} = {"byDirectionOf", "todayOf"}
      BY <2>1, <2>5
    <3>2. Before("failedOf") = {"byDirectionOf", "todayOf"} /\ "failedOf" \in StatsQueries
      BY DEF Before, StatsQueries
    <3>3. 1..(n - 1) = {1, 2}
      BY <1>1, <2>5
    <3> QED
      BY <3>1, <3>2, <3>3
  <2>6. CASE n = 4
    <3>1. /\ Stats!Steps[kind][n] = "hourly"
          /\ {Stats!Steps[kind][i] : i \in {1, 2, 3}} = {"byDirectionOf", "todayOf", "failedOf"}
      BY <2>1, <2>6
    <3> QED
      BY <1>1, <2>6, <3>1 DEF Before, StatsQueries
  <2> QED
    BY <1>1, <2>2, <2>3, <2>4, <2>5, <2>6
<1>5. CASE kind \in {"usage", "clientUsage"}
  <2>1. /\ Stats!Steps[kind][1] = "rows" /\ Len(Stats!Steps[kind]) = 2
        /\ Stats!Steps[kind][2] \in {"outgoing", "outgoingOf"}
    <3>1. CASE kind = "usage"
      <4>1. Stats!Steps[kind] = <<"rows", "outgoing">>
        BY <3>1, StepsAre
      <4> QED
        BY <4>1
    <3>2. CASE kind = "clientUsage"
      <4>1. Stats!Steps[kind] = <<"rows", "outgoingOf">>
        BY <3>2, StepsAre
      <4> QED
        BY <4>1
    <3> QED
      BY <1>5, <3>1, <3>2
  <2>2. n \in 1..2
    BY <2>1
  <2>3. CASE n = 1
    BY <1>1, <2>1, <2>3 DEF Before, StatsQueries
  <2>4. CASE n = 2
    <3>1. {Stats!Steps[kind][i] : i \in {1}} = {"rows"}
      BY <2>1, <2>4
    <3> QED
      BY <1>1, <2>1, <2>4, <3>1 DEF Before, StatsQueries
  <2> QED
    BY <1>1, <2>2, <2>3, <2>4
<1> QED
  BY <1>2, <1>3, <1>4, <1>5, StepsAre

(* What a query answers.                                                    *)
LEMMA AnswersAre ==
  ASSUME NEW of
  PROVE  /\ Stats!Answer("byDirection", of) = Stats!Directions(WaSessions, Stats!Ages)
         /\ Stats!Answer("today", of) = Stats!Directions(WaSessions, Stats!Today)
         /\ Stats!Answer("failed", of) = Stats!Cardinality({i \in Stats!Ids : v1[i].failed})
         /\ Stats!Answer("timeSeries", of) = [a \in Stats!Recent |-> Stats!Directions(WaSessions, {a})]
         /\ Stats!Answer("bySession", of) = [s \in WaSessions |-> Stats!Directions({s}, Stats!Recent)]
         /\ Stats!Answer("byDirectionOf", of) = Stats!Directions({of}, Stats!Ages)
         /\ Stats!Answer("todayOf", of) = Stats!TodayOf(of)
         /\ Stats!Answer("failedOf", of)
              = Stats!Cardinality({i \in Stats!Ids : v1[i].session = of /\ v1[i].failed})
         /\ Stats!Answer("hourly", of) = Stats!Directions({of}, Stats!Recent)
         /\ Stats!Answer("rows", of) = v2
         /\ Stats!Answer("outgoing", of) = {i \in Stats!Ids : Stats!Counted(v1[i])}
         /\ Stats!Answer("outgoingOf", of)
              = {i \in {j \in Stats!Ids : Stats!Counted(v1[j])} : v3.answers.rows[v1[i].session] = of}
BY DEF Stats!Answer, Stats!Count, Stats!Where, Stats!OfSession, Stats!TodayOf, Stats!Counted

LEMMA DirectionsAre ==
  ASSUME v1 \in Seq(Stats!Message), NEW of, NEW ages
  PROVE  /\ Stats!Directions(of, ages) \in Stats!Directed
         /\ Stats!Directions(of, ages).sent = Stats!Number("outgoing", of, ages)
         /\ Stats!Directions(of, ages).received = Stats!Number("incoming", of, ages)
<1>1. /\ Stats!Number("outgoing", of, ages) \in Nat /\ Stats!Number("incoming", of, ages) \in Nat
  BY NumbersAre
<1> QED
  BY <1>1 DEF Stats!Directions, Stats!Directed, Stats!Number

(* The directions of a session, or of all of them, are parts of the whole.  *)
LEMMA CountsCompare ==
  ASSUME v1 \in Seq(Stats!Message)
  PROVE  /\ \A dir, of : Stats!Number(dir, of, Stats!Today) <= Stats!Number(dir, of, Stats!Ages)
         /\ \A of : Stats!TodayOf(of) <= Stats!Number("outgoing", {of}, Stats!Recent)
                                           + Stats!Number("incoming", {of}, Stats!Recent)
         /\ \A of : Stats!TodayOf(of) <= Stats!Number("outgoing", {of}, Stats!Ages)
                                           + Stats!Number("incoming", {of}, Stats!Ages)
         /\ \A of : LET failed == Stats!Cardinality({i \in Stats!Ids : v1[i].session = of /\ v1[i].failed})
                    IN  failed \in Nat /\ failed <= Stats!Number("outgoing", {of}, Stats!Ages)
         /\ LET failed == Stats!Cardinality({i \in Stats!Ids : v1[i].failed})
            IN  failed \in Nat /\ failed <= Stats!Number("outgoing", WaSessions, Stats!Ages)
<1>1. \A i \in Stats!Ids : /\ v1[i].dir \in {"incoming", "outgoing"} /\ v1[i].age \in Stats!Ages
                           /\ v1[i].session \in WaSessions
                           /\ v1[i].failed => v1[i].dir = "outgoing"
  <2>1. \A i \in Stats!Ids : v1[i] \in Stats!Message
    BY DEF Stats!Ids
  <2> QED
    BY <2>1 DEF Stats!Message
<1>2. /\ \A S \in SUBSET Stats!Ids : IsFiniteSet(S) /\ Stats!Cardinality(S) \in Nat
      /\ \A S, T \in SUBSET Stats!Ids : S \subseteq T => Stats!Cardinality(S) <= Stats!Cardinality(T)
  BY MessagesCount
<1>3. \A dir, of, ages : /\ Stats!Those(dir, of, ages)
                              = {i \in Stats!Ids : v1[i].dir = dir /\ v1[i].session \in of /\ v1[i].age \in ages}
                         /\ Stats!Number(dir, of, ages) = Stats!Cardinality(Stats!Those(dir, of, ages))
  BY DEF Stats!Those, Stats!Number
<1>4. Stats!Today \subseteq Stats!Recent /\ Stats!Recent \subseteq Stats!Ages
  BY DEF Stats!Today, Stats!Recent, Stats!Ages
<1> HIDE DEF Stats!Ids
<1>5. ASSUME NEW dir, NEW of
      PROVE  Stats!Number(dir, of, Stats!Today) <= Stats!Number(dir, of, Stats!Ages)
  <2>1. Stats!Those(dir, of, Stats!Today) \subseteq Stats!Those(dir, of, Stats!Ages)
    BY <1>3, <1>4
  <2>2. Stats!Those(dir, of, Stats!Ages) \subseteq Stats!Ids
    BY <1>3
  <2> QED
    BY <1>2, <1>3, <2>1, <2>2
<1>6. ASSUME NEW of, NEW ages, Stats!Today \subseteq ages
      PROVE  Stats!TodayOf(of) <= Stats!Number("outgoing", {of}, ages) + Stats!Number("incoming", {of}, ages)
  <2> DEFINE A == Stats!Those("outgoing", {of}, ages)
             B == Stats!Those("incoming", {of}, ages)
             S == {i \in Stats!Ids : v1[i].session = of /\ v1[i].age \in Stats!Today}
  <2>1. S \subseteq A \cup B /\ A \subseteq Stats!Ids /\ B \subseteq Stats!Ids
    BY <1>1, <1>3, <1>6
  <2>2. Stats!TodayOf(of) = Stats!Cardinality(S)
    BY DEF Stats!TodayOf, Stats!Count, Stats!Where
  <2>3. Stats!Number("outgoing", {of}, ages) = Stats!Cardinality(A)
        /\ Stats!Number("incoming", {of}, ages) = Stats!Cardinality(B)
    BY <1>3
  <2> HIDE DEF A, B, S
  <2>4. Stats!Cardinality(S) <= Stats!Cardinality(A \cup B) /\ S \subseteq Stats!Ids
        /\ A \cup B \subseteq Stats!Ids
    BY <1>2, <2>1
  <2>5. Cardinality(A \cup B) = Cardinality(A) + Cardinality(B) - Cardinality(A \cap B)
    BY <1>2, <2>1, FS_Union
  <2>6. /\ Stats!Cardinality(A) \in Nat /\ Stats!Cardinality(B) \in Nat /\ Stats!Cardinality(S) \in Nat
        /\ Stats!Cardinality(A \cap B) \in Nat
    BY <1>2, <2>1, <2>4
  <2>7. Stats!Cardinality(A \cup B) = Stats!Cardinality(A) + Stats!Cardinality(B) - Stats!Cardinality(A \cap B)
    BY <2>5, StatsCardinality
  <2>8. Stats!Cardinality(S) <= Stats!Cardinality(A) + Stats!Cardinality(B)
    BY <2>4, <2>6, <2>7
  <2> QED
    BY <2>2, <2>3, <2>8
<1>7. ASSUME NEW of
      PROVE  LET failed == Stats!Cardinality({i \in Stats!Ids : v1[i].session = of /\ v1[i].failed})
             IN  failed \in Nat /\ failed <= Stats!Number("outgoing", {of}, Stats!Ages)
  <2> DEFINE S == {i \in Stats!Ids : v1[i].session = of /\ v1[i].failed}
  <2>1. S \subseteq Stats!Those("outgoing", {of}, Stats!Ages)
        /\ Stats!Those("outgoing", {of}, Stats!Ages) \subseteq Stats!Ids
    BY <1>1, <1>3
  <2>2. S \subseteq Stats!Ids
    OBVIOUS
  <2> HIDE DEF S
  <2>3. Stats!Cardinality(S) \in Nat /\ Stats!Cardinality(S) <= Stats!Number("outgoing", {of}, Stats!Ages)
    BY <1>2, <1>3, <2>1, <2>2
  <2> QED
    BY <2>3 DEF S
<1>8. LET failed == Stats!Cardinality({i \in Stats!Ids : v1[i].failed})
      IN  failed \in Nat /\ failed <= Stats!Number("outgoing", WaSessions, Stats!Ages)
  <2> DEFINE S == {i \in Stats!Ids : v1[i].failed}
  <2>1. S \subseteq Stats!Those("outgoing", WaSessions, Stats!Ages)
        /\ Stats!Those("outgoing", WaSessions, Stats!Ages) \subseteq Stats!Ids
    BY <1>1, <1>3
  <2>2. S \subseteq Stats!Ids
    OBVIOUS
  <2> HIDE DEF S
  <2>3. Stats!Cardinality(S) \in Nat /\ Stats!Cardinality(S) <= Stats!Number("outgoing", WaSessions, Stats!Ages)
    BY <1>2, <1>3, <2>1, <2>2
  <2> QED
    BY <2>3 DEF S
<1> QED
  BY <1>4, <1>5, <1>6, <1>7, <1>8

(* What the time series counts, and what the sessions count, when they are  *)
(* counted, is all that went out in the period.                            *)
LEMMA SeriesAddUp ==
  ASSUME v1 \in Seq(Stats!Message)
  PROVE  /\ Stats!SumOver([a \in Stats!Recent |-> Stats!Number("outgoing", WaSessions, {a})])
              = Stats!Number("outgoing", WaSessions, Stats!Recent)
         /\ Stats!SumOver([s \in WaSessions |-> Stats!Number("outgoing", {s}, Stats!Recent)])
              = Stats!Number("outgoing", WaSessions, Stats!Recent)
<1> DEFINE I == Stats!Those("outgoing", WaSessions, Stats!Recent)
           g == [i \in Stats!Ids |-> v1[i].age]
           h == [i \in Stats!Ids |-> v1[i].session]
<1>1. I \subseteq Stats!Ids /\ IsFiniteSet(I)
      /\ Stats!Number("outgoing", WaSessions, Stats!Recent) = Cardinality(I)
  BY NumbersAre, MessagesCount, StatsCardinality DEF Stats!Number
<1>2. \A i \in I : g[i] \in Stats!Recent /\ h[i] \in WaSessions
  BY DEF Stats!Those
<1>3. \A a \in Stats!Recent : Stats!Those("outgoing", WaSessions, {a}) = {i \in I : g[i] = a}
  BY DEF Stats!Those
<1>4. \A s \in WaSessions : Stats!Those("outgoing", {s}, Stats!Recent) = {i \in I : h[i] = s}
  BY DEF Stats!Those
<1>5. [a \in Stats!Recent |-> Stats!Number("outgoing", WaSessions, {a})]
        = [a \in Stats!Recent |-> Stats!Cardinality({i \in I : g[i] = a})]
  BY <1>3 DEF Stats!Number
<1>6. [s \in WaSessions |-> Stats!Number("outgoing", {s}, Stats!Recent)]
        = [s \in WaSessions |-> Stats!Cardinality({i \in I : h[i] = s})]
  BY <1>4 DEF Stats!Number
<1> HIDE DEF I, g, h
<1>7. {i \in I : g[i] \in Stats!Recent} = I /\ {i \in I : h[i] \in WaSessions} = I
  BY <1>2
<1>8. Stats!SumOver([a \in Stats!Recent |-> Stats!Cardinality({i \in I : g[i] = a})]) = Cardinality(I)
  BY <1>1, <1>7, PartsAddUp
<1>9. Stats!SumOver([s \in WaSessions |-> Stats!Cardinality({i \in I : h[i] = s})]) = Cardinality(I)
  BY <1>1, <1>7, PartsAddUp
<1> QED
  BY <1>1, <1>5, <1>6, <1>8, <1>9

(* A query adds its answer to those that the ones before it gave.           *)
QueryOf(q) ==
  /\ v3 # Stats!NoReport /\ v3' # Stats!NoReport
  /\ DOMAIN v3.answers = Before(q) /\ DOMAIN v3'.answers = Before(q) \cup {q}
  /\ v3'.answers[q] = Stats!Answer(q, v3.of)
  /\ \A p \in Before(q) : v3'.answers[p] = v3.answers[p]
  /\ v3'.of = v3.of
  /\ v1' = v1 /\ v2' = v2 /\ v4' = v4

LEMMA QueryIs ==
  ASSUME Stats!StatsInv, Stats!Queries
  PROVE  /\ \E q \in StatsQueries : QueryOf(q)
         /\ Stats!TypeOK'
<1> DEFINE q == Stats!Steps[v3.kind][v3.pc]
           n == v3.pc
           a == Stats!With(v3.answers, q, Stats!Answer(q, v3.of))
<1>1. /\ v3 # Stats!NoReport /\ ~Stats!Done
      /\ v3' = Stats!Report(n + 1, v3.kind, v3.of, a)
      /\ v1' = v1 /\ v2' = v2 /\ v4' = v4
  BY DEF Stats!Queries
<1>2. /\ v3.kind \in Stats!Kinds /\ v3.of \in Stats!Abouts(v3.kind)
      /\ n \in 1..(Len(Stats!Steps[v3.kind]) + 1)
      /\ DOMAIN v3.answers = {Stats!Steps[v3.kind][i] : i \in 1..(n - 1)}
  BY <1>1 DEF Stats!StatsInv, Stats!TypeOK
<1>3. Len(Stats!Steps[v3.kind]) \in Nat
  BY <1>2, StepsAre
<1>4. n \in 1..Len(Stats!Steps[v3.kind])
  BY <1>1, <1>2, <1>3 DEF Stats!Done
<1>5. q \in StatsQueries /\ DOMAIN v3.answers = Before(q)
  BY <1>2, <1>4, TurnIs
<1>6. /\ v3'.pc = n + 1 /\ v3'.kind = v3.kind /\ v3'.of = v3.of /\ v3'.answers = a
  BY <1>1 DEF Stats!Report
<1>7. DOMAIN v3' = {"pc", "kind", "of", "answers"} /\ DOMAIN Stats!NoReport = {"pc"}
  BY <1>1 DEF Stats!Report, Stats!NoReport
<1>8. v3' # Stats!NoReport
  BY <1>7
<1>9. /\ DOMAIN a = DOMAIN v3.answers \cup {q} /\ a[q] = Stats!Answer(q, v3.of)
      /\ \A p \in DOMAIN v3.answers : p # q => a[p] = v3.answers[p]
  BY DEF Stats!With
<1>10. {Stats!Steps[v3.kind][i] : i \in 1..(n + 1 - 1)}
         = {Stats!Steps[v3.kind][i] : i \in 1..(n - 1)} \cup {q}
  <2>1. 1..(n + 1 - 1) = 1..(n - 1) \cup {n}
    BY <1>2, <1>3
  <2> QED
    BY <2>1
<1>11. q \notin Before(q)
  BY <1>5 DEF Before, StatsQueries
<1> HIDE DEF a, q, n
<1>12. Stats!TypeOK'
  <2>1. n + 1 \in 1..(Len(Stats!Steps[v3.kind]) + 1)
    BY <1>3, <1>4
  <2>2. DOMAIN v3'.answers = {Stats!Steps[v3.kind][i] : i \in 1..(n + 1 - 1)}
    BY <1>2, <1>6, <1>9, <1>10
  <2>3. v3'.kind \in Stats!Kinds /\ v3'.of \in Stats!Abouts(v3'.kind)
    BY <1>2, <1>6
  <2>4. v3'.pc \in 1..(Len(Stats!Steps[v3'.kind]) + 1)
    BY <1>6, <2>1
  <2>5. DOMAIN v3'.answers = {Stats!Steps[v3'.kind][i] : i \in 1..(v3'.pc - 1)}
    <3>1. Stats!Steps[v3'.kind] = Stats!Steps[v3.kind]
      BY <1>6
    <3>2. n \in Int
      BY <1>3, <1>4
    <3>3. 1..(v3'.pc - 1) = 1..(n + 1 - 1)
      BY <1>6, <3>2
    <3> QED
      BY <2>2, <3>1, <3>3
  <2>6. /\ v1' \in Seq(Stats!Message) /\ Len(v1') <= MaxCounted
        /\ v2' \in [WaSessions -> Payers \cup {NoOne}] /\ v4' \in 0..MaxCounted
    BY <1>1 DEF Stats!StatsInv, Stats!TypeOK
  <2> QED
    BY <2>3, <2>4, <2>5, <2>6 DEF Stats!TypeOK
<1>13. QueryOf(q)
  BY <1>1, <1>5, <1>6, <1>8, <1>9, <1>11 DEF QueryOf
<1> QED
  BY <1>5, <1>12, <1>13

(* The counts do not depend on the report.                                  *)
LEMMA CountsStay ==
  ASSUME v1' = v1
  PROVE  /\ Stats!Ids' = Stats!Ids
         /\ \A dir, of, ages : Stats!Number(dir, of, ages)' = Stats!Number(dir, of, ages)
         /\ \A of : Stats!TodayOf(of)' = Stats!TodayOf(of)
<1>1. Stats!Ids' = Stats!Ids
  BY DEF Stats!Ids
<1>2. \A dir, of, ages : Stats!Number(dir, of, ages)' = Stats!Number(dir, of, ages)
  BY DEF Stats!Number, Stats!Those, Stats!Ids
<1>3. \A of : Stats!TodayOf(of)' = Stats!TodayOf(of)
  BY DEF Stats!TodayOf, Stats!Count, Stats!Where, Stats!Ids
<1> QED
  BY <1>1, <1>2, <1>3

LEMMA OverviewQueries ==
  ASSUME Stats!StatsInv, NEW q \in StatsQueries, QueryOf(q)
  PROVE  Stats!OverviewFollows'
<1>1. /\ v1 \in Seq(Stats!Message) /\ v4 \in Nat /\ Stats!OverviewFollows
      /\ v1' = v1 /\ v4' = v4
  BY StatsAssumption DEF Stats!StatsInv, Stats!TypeOK, QueryOf
<1>2. \A dir, of, ages : Stats!Number(dir, of, ages)' = Stats!Number(dir, of, ages)
  BY <1>1, CountsStay
<1>3. \A dir, of, ages : Stats!Number(dir, of, ages) \in Nat
  BY <1>1, NumbersAre
<1>4. CASE q = "byDirection"
  <2>1. v3'.answers = v3'.answers /\ DOMAIN v3'.answers = {"byDirection"}
    BY <1>4 DEF QueryOf, Before
  <2>2. v3'.answers["byDirection"] = Stats!Directions(WaSessions, Stats!Ages)
    BY <1>4, AnswersAre DEF QueryOf
  <2> DEFINE d == v3'.answers["byDirection"]
  <2>3. /\ d \in Stats!Directed
        /\ d.sent = Stats!Number("outgoing", WaSessions, Stats!Ages)
        /\ d.received = Stats!Number("incoming", WaSessions, Stats!Ages)
    BY <1>1, <2>2, DirectionsAre
  <2>4. Stats!Got("byDirection")' = d /\ ~Stats!Has("today")' /\ ~Stats!Has("failed")'
    BY <2>1 DEF Stats!Got, Stats!Has
  <2> HIDE DEF d
  <2>5. /\ d.sent \in Nat /\ d.received \in Nat
        /\ Stats!Number("outgoing", WaSessions, Stats!Ages) <= d.sent + v4
        /\ Stats!Number("incoming", WaSessions, Stats!Ages) <= d.received + v4
    BY <1>1, <1>3, <2>3
  <2> QED
    BY <1>1, <1>2, <2>3, <2>4, <2>5 DEF Stats!OverviewFollows
<1>5. CASE q = "today"
  <2>1. DOMAIN v3.answers = {"byDirection"} /\ DOMAIN v3'.answers = {"byDirection", "today"}
        /\ v3'.answers["byDirection"] = v3.answers["byDirection"] /\ v3 # Stats!NoReport
    BY <1>5 DEF QueryOf, Before
  <2>2. v3'.answers["today"] = Stats!Directions(WaSessions, Stats!Today)
    BY <1>5, AnswersAre DEF QueryOf
  <2> DEFINE d == v3.answers["byDirection"]
             e == v3'.answers["today"]
  <2>3. /\ e \in Stats!Directed
        /\ e.sent = Stats!Number("outgoing", WaSessions, Stats!Today)
        /\ e.received = Stats!Number("incoming", WaSessions, Stats!Today)
    BY <1>1, <2>2, DirectionsAre
  <2>4. /\ Stats!Got("byDirection")' = d /\ Stats!Got("today")' = e /\ ~Stats!Has("failed")'
        /\ Stats!Has("byDirection") /\ Stats!Got("byDirection") = d
    BY <2>1 DEF Stats!Got, Stats!Has
  <2> HIDE DEF d, e
  <2>5. /\ d \in Stats!Directed
        /\ Stats!Number("outgoing", WaSessions, Stats!Ages) <= d.sent + v4
        /\ Stats!Number("incoming", WaSessions, Stats!Ages) <= d.received + v4
    BY <1>1, <2>4 DEF Stats!OverviewFollows
  <2>6. d.sent \in Nat /\ d.received \in Nat
    BY <2>5 DEF Stats!Directed
  <2>7. /\ Stats!Number("outgoing", WaSessions, Stats!Today) <= Stats!Number("outgoing", WaSessions, Stats!Ages)
        /\ Stats!Number("incoming", WaSessions, Stats!Today) <= Stats!Number("incoming", WaSessions, Stats!Ages)
    BY <1>1, CountsCompare
  <2>8. e.sent <= d.sent + v4 /\ e.received <= d.received + v4
    BY <1>1, <1>3, <2>3, <2>5, <2>6, <2>7
  <2> QED
    BY <1>1, <1>2, <2>3, <2>4, <2>5, <2>8 DEF Stats!OverviewFollows
<1>6. CASE q = "failed"
  <2>1. DOMAIN v3.answers = {"byDirection", "today"} /\ v3 # Stats!NoReport
        /\ v3'.answers["byDirection"] = v3.answers["byDirection"]
        /\ v3'.answers["today"] = v3.answers["today"]
    BY <1>6 DEF QueryOf, Before
  <2>2. v3'.answers["failed"] = Stats!Cardinality({i \in Stats!Ids : v1[i].failed})
    BY <1>6, AnswersAre DEF QueryOf
  <2> DEFINE d == v3.answers["byDirection"]
             e == v3.answers["today"]
             k == v3'.answers["failed"]
  <2>3. k \in Nat /\ k <= Stats!Number("outgoing", WaSessions, Stats!Ages)
    BY <1>1, <2>2, CountsCompare
  <2>4. /\ Stats!Got("byDirection")' = d /\ Stats!Got("today")' = e /\ Stats!Got("failed")' = k
        /\ Stats!Has("byDirection") /\ Stats!Got("byDirection") = d
        /\ Stats!Has("today") /\ Stats!Got("today") = e
    BY <2>1 DEF Stats!Got, Stats!Has
  <2> HIDE DEF d, e, k
  <2>5. /\ d \in Stats!Directed /\ e \in Stats!Directed
        /\ e.sent <= d.sent + v4 /\ e.received <= d.received + v4
        /\ Stats!Number("outgoing", WaSessions, Stats!Ages) <= d.sent + v4
        /\ Stats!Number("incoming", WaSessions, Stats!Ages) <= d.received + v4
    BY <1>1, <2>4 DEF Stats!OverviewFollows
  <2>6. d.sent \in Nat /\ d.received \in Nat
    BY <2>5 DEF Stats!Directed
  <2>7. k <= d.sent + v4
    BY <1>1, <1>3, <2>3, <2>5, <2>6
  <2> QED
    BY <1>1, <1>2, <2>3, <2>4, <2>5, <2>7 DEF Stats!OverviewFollows
<1>7. CASE q \notin {"byDirection", "today", "failed"}
  <2>1. ~Stats!Has("byDirection")' /\ ~Stats!Has("today")' /\ ~Stats!Has("failed")'
    BY <1>7 DEF Stats!Has, QueryOf, Before, StatsQueries
  <2> QED
    BY <2>1 DEF Stats!OverviewFollows
<1> QED
  BY <1>4, <1>5, <1>6, <1>7

(* An answer is there only after those of the queries before it.            *)
LEMMA HaveBefore ==
  ASSUME Stats!StatsInv
  PROVE  \A q \in StatsQueries : Stats!Has(q) => \A p \in Before(q) : Stats!Has(p)
<1> SUFFICES ASSUME NEW q \in StatsQueries, Stats!Has(q), NEW p \in Before(q)
             PROVE  Stats!Has(p)
  OBVIOUS
<1>1. /\ v3 # Stats!NoReport /\ q \in DOMAIN v3.answers
      /\ v3.kind \in Stats!Kinds /\ v3.pc \in 1..(Len(Stats!Steps[v3.kind]) + 1)
      /\ DOMAIN v3.answers = {Stats!Steps[v3.kind][i] : i \in 1..(v3.pc - 1)}
  BY DEF Stats!StatsInv, Stats!TypeOK, Stats!Has
<1>2. PICK n \in 1..(v3.pc - 1) : q = Stats!Steps[v3.kind][n]
  BY <1>1
<1>3. Len(Stats!Steps[v3.kind]) \in Nat
  BY <1>1, StepsAre
<1>4. n \in 1..Len(Stats!Steps[v3.kind]) /\ 1..(n - 1) \subseteq 1..(v3.pc - 1)
  BY <1>1, <1>2, <1>3
<1>5. Before(q) = {Stats!Steps[v3.kind][i] : i \in 1..(n - 1)}
  BY <1>1, <1>2, <1>4, TurnIs
<1> QED
  BY <1>1, <1>4, <1>5 DEF Stats!Has

LEMMA HaveFirst ==
  ASSUME Stats!StatsInv
  PROVE  /\ (Stats!Has("today") \/ Stats!Has("failed")) => Stats!Has("byDirection")
         /\ Stats!Has("bySession") => Stats!Has("timeSeries")
         /\ (Stats!Has("todayOf") \/ Stats!Has("failedOf")) => Stats!Has("byDirectionOf")
<1>1. /\ "byDirection" \in Before("today") /\ "byDirection" \in Before("failed")
      /\ "timeSeries" \in Before("bySession")
      /\ "byDirectionOf" \in Before("todayOf") /\ "byDirectionOf" \in Before("failedOf")
  BY DEF Before
<1>2. {"today", "failed", "bySession", "todayOf", "failedOf"} \subseteq StatsQueries
  BY DEF StatsQueries
<1> QED
  BY <1>1, <1>2, HaveBefore

LEMMA MessageStatsQueries ==
  ASSUME Stats!StatsInv, NEW q \in StatsQueries, QueryOf(q)
  PROVE  Stats!MessageStatsFollow'
<1>1. /\ v1 \in Seq(Stats!Message) /\ v4 \in Nat /\ Stats!MessageStatsFollow
      /\ v1' = v1 /\ v4' = v4
  BY StatsAssumption DEF Stats!StatsInv, Stats!TypeOK, QueryOf
<1>2. \A dir, of, ages : Stats!Number(dir, of, ages)' = Stats!Number(dir, of, ages)
  BY <1>1, CountsStay
<1>3. \A dir, of, ages : Stats!Number(dir, of, ages) \in Nat
  BY <1>1, NumbersAre
<1> DEFINE N == Stats!Number("outgoing", WaSessions, Stats!Recent)
<1>4. CASE q = "timeSeries"
  <2>1. DOMAIN v3'.answers = {"timeSeries"}
    BY <1>4 DEF QueryOf, Before
  <2>2. v3'.answers["timeSeries"] = [a \in Stats!Recent |-> Stats!Directions(WaSessions, {a})]
    BY <1>4, AnswersAre DEF QueryOf
  <2>3. \A a \in Stats!Recent : v3'.answers["timeSeries"][a].sent = Stats!Number("outgoing", WaSessions, {a})
    BY <1>1, <2>2, DirectionsAre
  <2>4. [a \in Stats!Recent |-> v3'.answers["timeSeries"][a].sent]
          = [a \in Stats!Recent |-> Stats!Number("outgoing", WaSessions, {a})]
    BY <2>3
  <2>5. Stats!SentInSeries' = N
    <3>1. Stats!SentInSeries' = Stats!SumOver([a \in Stats!Recent |-> v3'.answers["timeSeries"][a].sent])
      BY DEF Stats!SentInSeries, Stats!Got, Stats!SumOver
    <3> QED
      BY <1>1, <2>4, <3>1, SeriesAddUp
  <2>6. ~Stats!Has("bySession")'
    BY <2>1 DEF Stats!Has
  <2>7. N \in Nat
    BY <1>3
  <2>8. Stats!Number("outgoing", WaSessions, Stats!Recent)' = N
    BY <1>2
  <2> HIDE DEF N
  <2> QED
    BY <1>1, <2>5, <2>6, <2>7, <2>8 DEF Stats!MessageStatsFollow
<1>5. CASE q = "bySession"
  <2>1. DOMAIN v3.answers = {"timeSeries"} /\ v3 # Stats!NoReport
        /\ v3'.answers["timeSeries"] = v3.answers["timeSeries"]
    BY <1>5 DEF QueryOf, Before
  <2>2. v3'.answers["bySession"] = [s \in WaSessions |-> Stats!Directions({s}, Stats!Recent)]
    BY <1>5, AnswersAre DEF QueryOf
  <2>3. \A s \in WaSessions : v3'.answers["bySession"][s].sent = Stats!Number("outgoing", {s}, Stats!Recent)
    BY <1>1, <2>2, DirectionsAre
  <2>4. [s \in WaSessions |-> v3'.answers["bySession"][s].sent]
          = [s \in WaSessions |-> Stats!Number("outgoing", {s}, Stats!Recent)]
    BY <2>3
  <2>5. Stats!SentBySession' = N
    <3>1. Stats!SentBySession' = Stats!SumOver([s \in WaSessions |-> v3'.answers["bySession"][s].sent])
      BY DEF Stats!SentBySession, Stats!Got, Stats!SumOver
    <3> QED
      BY <1>1, <2>4, <3>1, SeriesAddUp
  <2>6. Stats!SentInSeries' = Stats!SentInSeries
    BY <2>1 DEF Stats!SentInSeries, Stats!Got, Stats!SumOver
  <2>7. Stats!Has("timeSeries")
    BY <2>1 DEF Stats!Has
  <2>8. /\ Stats!SentInSeries \in Nat /\ Stats!SentInSeries <= N /\ N <= Stats!SentInSeries + v4
    BY <1>1, <2>7 DEF Stats!MessageStatsFollow
  <2>9. N \in Nat
    BY <1>3
  <2>10. Stats!Number("outgoing", WaSessions, Stats!Recent)' = N
    BY <1>2
  <2> HIDE DEF N
  <2> QED
    BY <1>1, <2>5, <2>6, <2>8, <2>9, <2>10 DEF Stats!MessageStatsFollow
<1>6. CASE q \notin {"timeSeries", "bySession"}
  <2>1. ~Stats!Has("timeSeries")' /\ ~Stats!Has("bySession")'
    BY <1>6 DEF Stats!Has, QueryOf, Before, StatsQueries
  <2> QED
    BY <2>1 DEF Stats!MessageStatsFollow
<1> QED
  BY <1>4, <1>5, <1>6

LEMMA SessionStatsQueries ==
  ASSUME Stats!StatsInv, NEW q \in StatsQueries, QueryOf(q)
  PROVE  Stats!SessionStatsFollow'
<1>1. /\ v1 \in Seq(Stats!Message) /\ v4 \in Nat /\ Stats!SessionStatsFollow
      /\ v1' = v1 /\ v4' = v4 /\ v3'.of = v3.of /\ v3 # Stats!NoReport
  BY StatsAssumption DEF Stats!StatsInv, Stats!TypeOK, QueryOf
<1> DEFINE of == v3.of
           Out(ages) == Stats!Number("outgoing", {of}, ages)
           In(ages) == Stats!Number("incoming", {of}, ages)
           T == Stats!TodayOf(of)
<1>2. /\ \A ages : /\ Out(ages) \in Nat /\ In(ages) \in Nat
                   /\ Stats!Directions({of}, ages) \in Stats!Directed
                   /\ Stats!Directions({of}, ages).sent = Out(ages)
                   /\ Stats!Directions({of}, ages).received = In(ages)
      /\ T \in Nat /\ T <= Out(Stats!Recent) + In(Stats!Recent) /\ T <= Out(Stats!Ages) + In(Stats!Ages)
  BY <1>1, NumbersAre, CountsCompare, DirectionsAre
<1>3. \A dir, ages : Stats!Number(dir, {v3.of}, ages)' = Stats!Number(dir, {of}, ages)
  <2>1. \A dir, set, ages : Stats!Number(dir, set, ages)' = Stats!Number(dir, set, ages)
    BY <1>1, CountsStay
  <2> QED
    BY <1>1, <2>1
<1>4. Stats!TodayOf(v3.of)' = T
  <2>1. \A s : Stats!TodayOf(s)' = Stats!TodayOf(s)
    BY <1>1, CountsStay
  <2> QED
    BY <1>1, <2>1
<1> DEFINE d == v3.answers["byDirectionOf"]
           t == v3.answers["todayOf"]
           k == v3.answers["failedOf"]
<1>5. Stats!Has("byDirectionOf") =>
        /\ d \in Stats!Directed /\ d.sent \in Nat /\ d.received \in Nat
        /\ Out(Stats!Ages) <= d.sent + v4
        /\ Out(Stats!Ages) + In(Stats!Ages) <= d.sent + d.received + v4
  BY <1>1 DEF Stats!SessionStatsFollow, Stats!Got, Stats!Directed
<1>6. Stats!Has("todayOf") => t \in Nat /\ t <= T /\ t <= d.sent + d.received + v4
  BY <1>1 DEF Stats!SessionStatsFollow, Stats!Got
<1>7. Stats!Has("failedOf") => k \in Nat /\ k <= d.sent + v4
  BY <1>1 DEF Stats!SessionStatsFollow, Stats!Got
<1>8. CASE q = "byDirectionOf"
  <2>1. DOMAIN v3'.answers = {"byDirectionOf"}
        /\ v3'.answers["byDirectionOf"] = Stats!Directions({of}, Stats!Ages)
    BY <1>8, AnswersAre DEF QueryOf, Before
  <2> DEFINE e == Stats!Directions({of}, Stats!Ages)
  <2>2. /\ e \in Stats!Directed /\ e.sent = Out(Stats!Ages) /\ e.received = In(Stats!Ages)
        /\ Out(Stats!Ages) \in Nat /\ In(Stats!Ages) \in Nat
    BY <1>2
  <2>3. /\ Stats!Got("byDirectionOf")' = e
        /\ ~Stats!Has("todayOf")' /\ ~Stats!Has("failedOf")' /\ ~Stats!Has("hourly")'
    BY <2>1 DEF Stats!Got, Stats!Has
  <2>4. /\ Stats!Number("outgoing", {v3.of}, Stats!Ages)' = Out(Stats!Ages)
        /\ Stats!Number("incoming", {v3.of}, Stats!Ages)' = In(Stats!Ages)
    BY <1>3
  <2> HIDE DEF Out, In, e, T, d, t, k, of
  <2> QED
    BY <1>1, <2>2, <2>3, <2>4 DEF Stats!SessionStatsFollow
<1>9. CASE q = "todayOf"
  <2>1. /\ DOMAIN v3'.answers = {"byDirectionOf", "todayOf"} /\ DOMAIN v3.answers = {"byDirectionOf"}
        /\ v3'.answers["byDirectionOf"] = d /\ v3'.answers["todayOf"] = T
    BY <1>9, AnswersAre DEF QueryOf, Before
  <2>2. /\ Stats!Got("byDirectionOf")' = d /\ Stats!Got("todayOf")' = T /\ Stats!Has("byDirectionOf")
        /\ ~Stats!Has("failedOf")' /\ ~Stats!Has("hourly")'
    BY <1>1, <2>1 DEF Stats!Got, Stats!Has
  <2>3. /\ Stats!Number("outgoing", {v3.of}, Stats!Ages)' = Out(Stats!Ages)
        /\ Stats!Number("incoming", {v3.of}, Stats!Ages)' = In(Stats!Ages)
    BY <1>3
  <2>4. Out(Stats!Ages) \in Nat /\ In(Stats!Ages) \in Nat /\ T \in Nat /\ T <= Out(Stats!Ages) + In(Stats!Ages)
    BY <1>2
  <2> HIDE DEF Out, In, T, d, t, k, of
  <2>5. T <= d.sent + d.received + v4
    BY <1>1, <1>5, <2>2, <2>4
  <2> QED
    BY <1>1, <1>4, <1>5, <2>2, <2>3, <2>4, <2>5 DEF Stats!SessionStatsFollow
<1>10. CASE q = "failedOf"
  <2> DEFINE n == Stats!Cardinality({i \in Stats!Ids : v1[i].session = of /\ v1[i].failed})
  <2>1. /\ DOMAIN v3'.answers = {"byDirectionOf", "todayOf", "failedOf"}
        /\ DOMAIN v3.answers = {"byDirectionOf", "todayOf"}
        /\ v3'.answers["byDirectionOf"] = d /\ v3'.answers["todayOf"] = t /\ v3'.answers["failedOf"] = n
    BY <1>10, AnswersAre DEF QueryOf, Before
  <2>2. /\ Stats!Got("byDirectionOf")' = d /\ Stats!Got("todayOf")' = t /\ Stats!Got("failedOf")' = n
        /\ Stats!Has("byDirectionOf") /\ Stats!Has("todayOf") /\ ~Stats!Has("hourly")'
    BY <1>1, <2>1 DEF Stats!Got, Stats!Has
  <2>3. /\ Stats!Number("outgoing", {v3.of}, Stats!Ages)' = Out(Stats!Ages)
        /\ Stats!Number("incoming", {v3.of}, Stats!Ages)' = In(Stats!Ages)
    BY <1>3
  <2>4. Out(Stats!Ages) \in Nat /\ n \in Nat /\ n <= Out(Stats!Ages)
    BY <1>1, <1>2, CountsCompare
  <2> HIDE DEF Out, In, T, d, t, k, of, n
  <2>5. n <= d.sent + v4
    BY <1>1, <1>5, <2>2, <2>4
  <2> QED
    BY <1>1, <1>4, <1>5, <1>6, <2>2, <2>3, <2>4, <2>5 DEF Stats!SessionStatsFollow
<1>11. CASE q = "hourly"
  <2> DEFINE e == Stats!Directions({of}, Stats!Recent)
  <2>1. /\ DOMAIN v3'.answers = {"byDirectionOf", "todayOf", "failedOf", "hourly"}
        /\ DOMAIN v3.answers = {"byDirectionOf", "todayOf", "failedOf"}
        /\ v3'.answers["byDirectionOf"] = d /\ v3'.answers["todayOf"] = t
        /\ v3'.answers["failedOf"] = k /\ v3'.answers["hourly"] = e
    BY <1>11, AnswersAre DEF QueryOf, Before
  <2>2. /\ Stats!Got("byDirectionOf")' = d /\ Stats!Got("todayOf")' = t /\ Stats!Got("failedOf")' = k
        /\ Stats!Got("hourly")' = e
        /\ Stats!Has("byDirectionOf") /\ Stats!Has("todayOf") /\ Stats!Has("failedOf")
    BY <1>1, <2>1 DEF Stats!Got, Stats!Has
  <2>3. /\ Stats!Number("outgoing", {v3.of}, Stats!Ages)' = Out(Stats!Ages)
        /\ Stats!Number("incoming", {v3.of}, Stats!Ages)' = In(Stats!Ages)
    BY <1>3
  <2>4. /\ e \in Stats!Directed /\ e.sent = Out(Stats!Recent) /\ e.received = In(Stats!Recent)
        /\ Out(Stats!Recent) \in Nat /\ In(Stats!Recent) \in Nat
        /\ T \in Nat /\ T <= Out(Stats!Recent) + In(Stats!Recent)
    BY <1>2
  <2> HIDE DEF Out, In, T, d, t, k, of, e
  <2>5. e.sent + e.received >= t
    BY <1>6, <2>2, <2>4
  <2> QED
    BY <1>1, <1>4, <1>5, <1>6, <1>7, <2>2, <2>3, <2>4, <2>5 DEF Stats!SessionStatsFollow
<1>12. CASE q \notin {"byDirectionOf", "todayOf", "failedOf", "hourly"}
  <2>1. ~Stats!Has("byDirectionOf")' /\ ~Stats!Has("todayOf")' /\ ~Stats!Has("failedOf")' /\ ~Stats!Has("hourly")'
    BY <1>12 DEF Stats!Has, QueryOf, Before, StatsQueries
  <2> QED
    BY <2>1 DEF Stats!SessionStatsFollow
<1> QED
  BY <1>8, <1>9, <1>10, <1>11, <1>12

LEMMA UsageQueries ==
  ASSUME Stats!StatsInv, NEW q \in StatsQueries, QueryOf(q)
  PROVE  Stats!UsageFollows'
<1>1. /\ v2 \in [WaSessions -> Payers \cup {NoOne}] /\ Stats!UsageFollows
      /\ v1' = v1 /\ v3'.of = v3.of /\ v3 # Stats!NoReport
  BY DEF Stats!StatsInv, Stats!TypeOK, QueryOf
<1>2. Stats!Ids' = Stats!Ids
  BY <1>1, CountsStay
<1>3. Stats!Has("rows") => v3.answers["rows"] \in [WaSessions -> Payers \cup {NoOne}]
  BY <1>1 DEF Stats!UsageFollows, Stats!Got
<1>4. CASE q = "rows"
  <2>1. DOMAIN v3'.answers = {"rows"} /\ v3'.answers["rows"] = v2
    BY <1>4, AnswersAre DEF QueryOf, Before
  <2> QED
    BY <1>1, <2>1 DEF Stats!UsageFollows, Stats!Got, Stats!Has
<1>5. CASE q = "outgoing"
  <2>1. /\ DOMAIN v3'.answers = {"rows", "outgoing"} /\ DOMAIN v3.answers = {"rows"}
        /\ v3'.answers["rows"] = v3.answers["rows"]
        /\ v3'.answers["outgoing"] = {i \in Stats!Ids : Stats!Counted(v1[i])}
    BY <1>5, AnswersAre DEF QueryOf, Before
  <2>2. Stats!Has("rows") /\ v3'.answers["outgoing"] \subseteq Stats!Ids
    BY <1>1, <2>1 DEF Stats!Has
  <2> QED
    BY <1>2, <1>3, <2>1, <2>2 DEF Stats!UsageFollows, Stats!Got, Stats!Has
<1>6. CASE q = "outgoingOf"
  <2>1. /\ DOMAIN v3'.answers = {"rows", "outgoingOf"} /\ DOMAIN v3.answers = {"rows"}
        /\ v3'.answers["rows"] = v3.answers["rows"]
        /\ v3'.answers["outgoingOf"]
             = {i \in {j \in Stats!Ids : Stats!Counted(v1[j])} : v3.answers.rows[v1[i].session] = v3.of}
    BY <1>6, AnswersAre DEF QueryOf, Before
  <2>2. Stats!Has("rows") /\ v3'.answers["outgoingOf"] \subseteq Stats!Ids
        /\ \A i \in v3'.answers["outgoingOf"] : v3'.answers["rows"][v1'[i].session] = v3'.of
    BY <1>1, <2>1 DEF Stats!Has
  <2> QED
    BY <1>2, <1>3, <2>1, <2>2 DEF Stats!UsageFollows, Stats!Got, Stats!Has, Stats!ClientOf
<1>7. CASE q \notin {"rows", "outgoing", "outgoingOf"}
  <2>1. ~Stats!Has("rows")' /\ ~Stats!Has("outgoing")' /\ ~Stats!Has("outgoingOf")'
    BY <1>7 DEF Stats!Has, QueryOf, Before, StatsQueries
  <2> QED
    BY <2>1 DEF Stats!UsageFollows
<1> QED
  BY <1>4, <1>5, <1>6, <1>7

(* A report that is not under way, or has no answer yet, claims nothing.    *)
LEMMA NothingIsClaimed ==
  ASSUME v3' = Stats!NoReport \/ v3'.answers = <<>>
  PROVE  /\ Stats!OverviewFollows' /\ Stats!MessageStatsFollow'
         /\ Stats!SessionStatsFollow' /\ Stats!UsageFollows'
<1>1. \A q : ~Stats!Has(q)'
  BY DEF Stats!Has
<1> QED
  BY <1>1 DEF Stats!OverviewFollows, Stats!MessageStatsFollow, Stats!SessionStatsFollow, Stats!UsageFollows

LEMMA ReportTurns ==
  ASSUME Stats!StatsInv,
         Stats!Queries \/ Stats!Answered
         \/ \E kind \in Stats!Kinds : \E of \in Stats!Abouts(kind) : Stats!Asked(kind, of)
  PROVE  Stats!StatsInv'
<1>1. CASE Stats!Queries
  <2>1. v4' < Len(v1')
    BY <1>1 DEF Stats!StatsInv, Stats!Queries
  <2> QED
    BY <1>1, <2>1, QueryIs, OverviewQueries, MessageStatsQueries, SessionStatsQueries, UsageQueries
       DEF Stats!StatsInv
<1>2. CASE Stats!Answered
  <2>1. v3' = Stats!NoReport /\ v1' = v1 /\ v2' = v2 /\ v4' = v4
    BY <1>2 DEF Stats!Answered
  <2>2. Stats!TypeOK' /\ v4' < Len(v1')
    BY <2>1 DEF Stats!StatsInv, Stats!TypeOK
  <2> QED
    BY <2>1, <2>2, NothingIsClaimed DEF Stats!StatsInv
<1>3. ASSUME NEW kind \in Stats!Kinds, NEW of \in Stats!Abouts(kind), Stats!Asked(kind, of)
      PROVE  Stats!StatsInv'
  <2>1. /\ v3'.pc = 1 /\ v3'.kind = kind /\ v3'.of = of /\ v3'.answers = <<>>
        /\ v1' = v1 /\ v2' = v2 /\ v4' = 0
    BY <1>3 DEF Stats!Asked, Stats!Report
  <2>2. Len(Stats!Steps[kind]) \in Nat
    BY StepsAre
  <2>3. 1 \in 1..(Len(Stats!Steps[kind]) + 1)
    BY <2>2
  <2>4. DOMAIN v3'.answers = {Stats!Steps[v3'.kind][i] : i \in 1..(v3'.pc - 1)}
    <3>1. 1..(v3'.pc - 1) = {}
      BY <2>1
    <3>2. {Stats!Steps[v3'.kind][i] : i \in {}} = {}
      OBVIOUS
    <3> QED
      BY <2>1, <3>1, <3>2
  <2>5. v4' \in 0..MaxCounted
    BY <2>1, StatsAssumption
  <2>6. Stats!TypeOK'
    BY <2>1, <2>3, <2>4, <2>5 DEF Stats!StatsInv, Stats!TypeOK
  <2>7. v4' < Len(v1')
    <3>1. v4 \in Nat /\ v4 < Len(v1) /\ Len(v1) \in Nat
      BY StatsAssumption DEF Stats!StatsInv, Stats!TypeOK
    <3> QED
      BY <2>1, <3>1
  <2> QED
    BY <2>1, <2>6, <2>7, NothingIsClaimed DEF Stats!StatsInv
<1> QED
  BY <1>1, <1>2, <1>3

(* The answers are compared with fewer messages than there are later.       *)
LEMMA SavedFollows ==
  ASSUME Stats!StatsInv, v3 # Stats!NoReport,
         NEW s, NEW way \in {"incoming", "outgoing"}, Stats!Saved(s, way)
  PROVE  /\ Stats!OverviewFollows' /\ Stats!MessageStatsFollow'
         /\ Stats!SessionStatsFollow' /\ Stats!UsageFollows'
<1>1. /\ v1 \in Seq(Stats!Message) /\ v4 \in Nat /\ v3' = v3 /\ v4' = v4 + 1 /\ v2' = v2
  BY StatsAssumption DEF Stats!StatsInv, Stats!TypeOK, Stats!Saved
<1>0. v4 \in Nat
  BY <1>1
<1>2. /\ \A dir, of, ages : /\ Stats!Number(dir, of, ages) \in Nat /\ Stats!Number(dir, of, ages)' \in Nat
                            /\ Stats!Number(dir, of, ages) <= Stats!Number(dir, of, ages)'
                            /\ Stats!Number(dir, of, ages)' <= Stats!Number(dir, of, ages) + 1
      /\ \A of, ages : \/ Stats!Number("outgoing", of, ages)' = Stats!Number("outgoing", of, ages)
                       \/ Stats!Number("incoming", of, ages)' = Stats!Number("incoming", of, ages)
      /\ \A of : Stats!TodayOf(of) \in Nat /\ Stats!TodayOf(of)' \in Nat /\ Stats!TodayOf(of) <= Stats!TodayOf(of)'
      /\ Stats!Ids \subseteq Stats!Ids' /\ \A i \in Stats!Ids : v1'[i] = v1[i]
  BY <1>1, SavedCounts, NumbersAre
<1>3. /\ \A q : Stats!Has(q)' <=> Stats!Has(q)
      /\ \A q : Stats!Got(q)' = Stats!Got(q)
      /\ Stats!SentInSeries' = Stats!SentInSeries /\ Stats!SentBySession' = Stats!SentBySession
  BY <1>1 DEF Stats!Has, Stats!Got, Stats!SentInSeries, Stats!SentBySession, Stats!SumOver
<1>4. Stats!OverviewFollows'
  <2> DEFINE d == Stats!Got("byDirection")
             e == Stats!Got("today")
             k == Stats!Got("failed")
             Out == Stats!Number("outgoing", WaSessions, Stats!Ages)
             In == Stats!Number("incoming", WaSessions, Stats!Ages)
  <2>1. /\ Stats!Has("byDirection") =>
             /\ d \in Stats!Directed /\ d.sent \in Nat /\ d.received \in Nat
             /\ Out <= d.sent + v4 /\ In <= d.received + v4
        /\ Stats!Has("today") =>
             /\ e \in Stats!Directed /\ e.sent \in Nat /\ e.received \in Nat
             /\ e.sent <= d.sent + v4 /\ e.received <= d.received + v4
        /\ Stats!Has("failed") => k \in Nat /\ k <= d.sent + v4
        /\ (Stats!Has("today") \/ Stats!Has("failed")) => Stats!Has("byDirection")
    <3>1. (Stats!Has("today") \/ Stats!Has("failed")) => Stats!Has("byDirection")
      BY HaveFirst
    <3> QED
      BY <3>1 DEF Stats!StatsInv, Stats!OverviewFollows, Stats!Directed
  <2>2. Out \in Nat /\ Out' \in Nat /\ Out' <= Out + 1 /\ In \in Nat /\ In' \in Nat /\ In' <= In + 1
    BY <1>2
  <2>3. d' = d /\ e' = e /\ k' = k
    BY <1>3
  <2> HIDE DEF d, e, k, Out, In
  <2>4. /\ Stats!Has("byDirection") => Out' <= d.sent + (v4 + 1) /\ In' <= d.received + (v4 + 1)
        /\ Stats!Has("today") => e.sent <= d.sent + (v4 + 1) /\ e.received <= d.received + (v4 + 1)
        /\ Stats!Has("failed") => k <= d.sent + (v4 + 1)
    <3>1. ASSUME Stats!Has("byDirection")
          PROVE  Out' <= d.sent + (v4 + 1) /\ In' <= d.received + (v4 + 1)
      <4>1. d.sent \in Nat /\ d.received \in Nat /\ Out <= d.sent + v4 /\ In <= d.received + v4
        BY <2>1, <3>1
      <4> QED
        BY <1>0, <2>2, <4>1
    <3>2. ASSUME Stats!Has("today")
          PROVE  e.sent <= d.sent + (v4 + 1) /\ e.received <= d.received + (v4 + 1)
      <4>1. /\ d.sent \in Nat /\ d.received \in Nat /\ e.sent \in Nat /\ e.received \in Nat
            /\ e.sent <= d.sent + v4 /\ e.received <= d.received + v4
        BY <2>1, <3>2
      <4> QED
        BY <1>0, <4>1
    <3>3. ASSUME Stats!Has("failed")
          PROVE  k <= d.sent + (v4 + 1)
      <4>1. d.sent \in Nat /\ k \in Nat /\ k <= d.sent + v4
        BY <2>1, <3>3
      <4> QED
        BY <1>0, <4>1
    <3> QED
      BY <3>1, <3>2, <3>3
  <2> QED
    BY <1>1, <1>3, <2>1, <2>3, <2>4 DEF Stats!OverviewFollows, d, e, k, Out, In
<1>5. Stats!MessageStatsFollow'
  <2> DEFINE N == Stats!Number("outgoing", WaSessions, Stats!Recent)
             a == Stats!SentInSeries
             b == Stats!SentBySession
  <2>1. /\ Stats!Has("timeSeries") => a \in Nat /\ a <= N /\ N <= a + v4
        /\ Stats!Has("bySession") => b \in Nat /\ a <= b /\ b <= a + v4
        /\ Stats!Has("bySession") => Stats!Has("timeSeries")
    BY HaveFirst DEF Stats!StatsInv, Stats!MessageStatsFollow
  <2>2. N \in Nat /\ N' \in Nat /\ N <= N' /\ N' <= N + 1
    BY <1>2
  <2>3. a' = a /\ b' = b
    BY <1>3
  <2> HIDE DEF N, a, b
  <2>4. /\ Stats!Has("timeSeries") => a <= N' /\ N' <= a + (v4 + 1)
        /\ Stats!Has("bySession") => b <= a + (v4 + 1)
    BY <1>1, <2>1, <2>2
  <2> QED
    BY <1>1, <1>3, <2>1, <2>3, <2>4 DEF Stats!MessageStatsFollow, N, a, b
<1>6. Stats!SessionStatsFollow'
  <2> DEFINE d == Stats!Got("byDirectionOf")
             t == Stats!Got("todayOf")
             k == Stats!Got("failedOf")
             h == Stats!Got("hourly")
             Out == Stats!Number("outgoing", {v3.of}, Stats!Ages)
             In == Stats!Number("incoming", {v3.of}, Stats!Ages)
             T == Stats!TodayOf(v3.of)
  <2>1. /\ Stats!Has("byDirectionOf") =>
             /\ d \in Stats!Directed /\ d.sent \in Nat /\ d.received \in Nat
             /\ Out <= d.sent + v4 /\ Out + In <= d.sent + d.received + v4
        /\ Stats!Has("todayOf") => t \in Nat /\ t <= T /\ t <= d.sent + d.received + v4
        /\ Stats!Has("failedOf") => k \in Nat /\ k <= d.sent + v4
        /\ Stats!Has("hourly") => h \in Stats!Directed /\ h.sent + h.received >= t
        /\ (Stats!Has("todayOf") \/ Stats!Has("failedOf")) => Stats!Has("byDirectionOf")
    BY HaveFirst DEF Stats!StatsInv, Stats!SessionStatsFollow, Stats!Directed
  <2>2. /\ Out \in Nat /\ Out' \in Nat /\ Out' <= Out + 1 /\ In \in Nat /\ In' \in Nat /\ In' <= In + 1
        /\ Out' = Out \/ In' = In
    BY <1>1, <1>2
  <2>3. T \in Nat /\ T' \in Nat /\ T <= T'
    BY <1>1, <1>2
  <2>4. d' = d /\ t' = t /\ k' = k /\ h' = h
    BY <1>3
  <2> HIDE DEF d, t, k, h, Out, In, T
  <2>5. /\ Stats!Has("byDirectionOf") =>
             Out' <= d.sent + (v4 + 1) /\ Out' + In' <= d.sent + d.received + (v4 + 1)
        /\ Stats!Has("todayOf") => t <= T' /\ t <= d.sent + d.received + (v4 + 1)
        /\ Stats!Has("failedOf") => k <= d.sent + (v4 + 1)
    <3>1. ASSUME Stats!Has("byDirectionOf")
          PROVE  Out' <= d.sent + (v4 + 1) /\ Out' + In' <= d.sent + d.received + (v4 + 1)
      <4>1. /\ d.sent \in Nat /\ d.received \in Nat
            /\ Out <= d.sent + v4 /\ Out + In <= d.sent + d.received + v4
        BY <2>1, <3>1
      <4> QED
        BY <1>0, <2>2, <4>1
    <3>2. ASSUME Stats!Has("todayOf")
          PROVE  t <= T' /\ t <= d.sent + d.received + (v4 + 1)
      <4>1. /\ d.sent \in Nat /\ d.received \in Nat /\ t \in Nat
            /\ t <= T /\ t <= d.sent + d.received + v4
        BY <2>1, <3>2
      <4> QED
        BY <1>0, <2>3, <4>1
    <3>3. ASSUME Stats!Has("failedOf")
          PROVE  k <= d.sent + (v4 + 1)
      <4>1. d.sent \in Nat /\ k \in Nat /\ k <= d.sent + v4
        BY <2>1, <3>3
      <4> QED
        BY <1>0, <4>1
    <3> QED
      BY <3>1, <3>2, <3>3
  <2> QED
    BY <1>1, <1>3, <2>1, <2>4, <2>5 DEF Stats!SessionStatsFollow, d, t, k, h, Out, In, T
<1>7. Stats!UsageFollows'
  <2>1. Stats!UsageFollows
    BY DEF Stats!StatsInv
  <2> QED
    BY <1>1, <1>2, <1>3, <2>1 DEF Stats!UsageFollows, Stats!ClientOf
<1> QED
  BY <1>4, <1>5, <1>6, <1>7

LEMMA MessageSavedKeeps ==
  ASSUME Stats!StatsInv, NEW s \in WaSessions, NEW way \in {"incoming", "outgoing"}, Stats!Saved(s, way)
  PROVE  Stats!StatsInv'
<1> DEFINE m == [session |-> s, dir |-> way, failed |-> FALSE, age |-> "today"]
<1>1. /\ v1 \in Seq(Stats!Message) /\ v4 \in 0..MaxCounted /\ Len(v1) < MaxCounted
      /\ v1' = Append(v1, m) /\ v2' = v2 /\ v3' = v3
      /\ v4' = IF v3 = Stats!NoReport THEN 0 ELSE v4 + 1
  BY DEF Stats!StatsInv, Stats!TypeOK, Stats!Saved
<1>2. m \in Stats!Message
  BY DEF Stats!Message, Stats!Ages
<1> HIDE DEF m
<1>3. v1' \in Seq(Stats!Message) /\ Len(v1') <= MaxCounted
  <2>1. Len(v1) \in Nat /\ Len(v1') = Len(v1) + 1 /\ MaxCounted \in Nat
    BY <1>1, <1>2, StatsAssumption
  <2> QED
    BY <1>1, <1>2, <2>1
<1>4. v4' \in 0..MaxCounted
  <2>1. v4 < Len(v1) /\ Len(v1) \in Nat
    BY <1>1 DEF Stats!StatsInv
  <2> QED
    BY <1>1, <2>1, StatsAssumption
<1>5. Stats!TypeOK' /\ v4' < Len(v1')
  <2>1. v4 \in Nat /\ v4 < Len(v1) /\ Len(v1) \in Nat /\ Len(v1') = Len(v1) + 1
    BY <1>1, <1>2, StatsAssumption DEF Stats!StatsInv
  <2>2. v4' < Len(v1')
    BY <1>1, <2>1
  <2> QED
    BY <1>1, <1>3, <1>4, <2>2 DEF Stats!StatsInv, Stats!TypeOK
<1>6. CASE v3 = Stats!NoReport
  BY <1>1, <1>5, <1>6, NothingIsClaimed DEF Stats!StatsInv
<1>7. CASE v3 # Stats!NoReport
  BY <1>5, <1>7, SavedFollows DEF Stats!StatsInv
<1> QED
  BY <1>6, <1>7

(* A failure, or a session that is assigned, changes no count that the       *)
(* answers are compared with.                                               *)
LEMMA ChangeKeeps ==
  ASSUME Stats!StatsInv,
         v2' \in [WaSessions -> Payers \cup {NoOne}], v3' = v3, v4' = v4,
         v1' \in Seq(Stats!Message), Len(v1') = Len(v1), Stats!Ids' = Stats!Ids,
         \A dir, of, ages : Stats!Number(dir, of, ages)' = Stats!Number(dir, of, ages),
         \A of : Stats!TodayOf(of)' = Stats!TodayOf(of),
         \A i \in Stats!Ids : v1'[i].session = v1[i].session
  PROVE  Stats!StatsInv'
<1>1. Stats!TypeOK' /\ v4' < Len(v1')
  BY DEF Stats!StatsInv, Stats!TypeOK
<1>2. /\ \A q : Stats!Has(q)' <=> Stats!Has(q)
      /\ \A q : Stats!Got(q)' = Stats!Got(q)
      /\ Stats!SentInSeries' = Stats!SentInSeries /\ Stats!SentBySession' = Stats!SentBySession
  BY DEF Stats!Has, Stats!Got, Stats!SentInSeries, Stats!SentBySession, Stats!SumOver
<1>3. \A dir, ages : Stats!Number(dir, {v3.of}, ages)' = Stats!Number(dir, {v3.of}, ages)
  <2>1. \A dir, set, ages : Stats!Number(dir, set, ages)' = Stats!Number(dir, set, ages)
    OBVIOUS
  <2>2. v3' = v3
    OBVIOUS
  <2> QED
    BY ONLY <2>1, <2>2
<1>4. Stats!TodayOf(v3.of)' = Stats!TodayOf(v3.of)
  <2>1. \A of : Stats!TodayOf(of)' = Stats!TodayOf(of)
    OBVIOUS
  <2>2. v3' = v3
    OBVIOUS
  <2> QED
    BY ONLY <2>1, <2>2
<1>5. Stats!OverviewFollows' /\ Stats!MessageStatsFollow'
  BY <1>2 DEF Stats!StatsInv, Stats!OverviewFollows, Stats!MessageStatsFollow
<1>6. Stats!SessionStatsFollow'
  BY <1>2, <1>3, <1>4 DEF Stats!StatsInv, Stats!SessionStatsFollow
<1>7. Stats!UsageFollows'
  BY <1>2 DEF Stats!StatsInv, Stats!UsageFollows, Stats!ClientOf
<1> QED
  BY <1>1, <1>5, <1>6, <1>7 DEF Stats!StatsInv

LEMMA StatsStep == Stats!StatsInv /\ [Stats!Next]_(Stats!statsVars) => Stats!StatsInv'
<1> SUFFICES ASSUME Stats!StatsInv, [Stats!Next]_(Stats!statsVars)
             PROVE  Stats!StatsInv'
  OBVIOUS
<1>1. v1 \in Seq(Stats!Message) /\ v2 \in [WaSessions -> Payers \cup {NoOne}]
  BY DEF Stats!StatsInv, Stats!TypeOK
<1>2. CASE UNCHANGED Stats!statsVars
  <2>1. v1' = v1 /\ v2' = v2 /\ v3' = v3 /\ v4' = v4
    BY <1>2 DEF Stats!statsVars
  <2> QED
    BY <1>1, <2>1, CountsStay, ChangeKeeps
<1>3. ASSUME NEW s \in WaSessions, NEW c \in Payers \cup {NoOne}, Stats!Assigned(s, c)
      PROVE  Stats!StatsInv'
  <2>1. v1' = v1 /\ v2' = [v2 EXCEPT ![s] = c] /\ v3' = v3 /\ v4' = v4
    BY <1>3 DEF Stats!Assigned
  <2>2. v2' \in [WaSessions -> Payers \cup {NoOne}]
    BY <1>1, <2>1
  <2> QED
    BY <1>1, <2>1, <2>2, CountsStay, ChangeKeeps
<1>4. ASSUME NEW i \in Stats!Ids, Stats!SendFails(i)
      PROVE  Stats!StatsInv'
  <2>1. v2' = v2 /\ v3' = v3 /\ v4' = v4
    BY <1>4 DEF Stats!SendFails
  <2> QED
    BY <1>1, <1>4, <2>1, FailedCounts, ChangeKeeps
<1> QED
  BY <1>2, <1>3, <1>4, ReportTurns, MessageSavedKeeps DEF Stats!Next

LEMMA StatsInit == Stats!Init => Stats!StatsInv
<1> SUFFICES ASSUME Stats!Init
             PROVE  Stats!StatsInv
  OBVIOUS
<1>1. PICK m \in Stats!Message : v1 = <<m>>
  BY DEF Stats!Init
<1>2. /\ v2 \in [WaSessions -> Payers \cup {NoOne}] /\ v3 = Stats!NoReport /\ v4 = 0
      /\ v1 \in Seq(Stats!Message) /\ Len(v1) = 1
  BY <1>1 DEF Stats!Init
<1>3. v4 \in 0..MaxCounted /\ Len(v1) <= MaxCounted /\ v4 < Len(v1)
  BY <1>2, StatsAssumption
<1>4. \A q : ~Stats!Has(q)
  BY <1>2 DEF Stats!Has
<1>5. Stats!TypeOK
  BY <1>2, <1>3 DEF Stats!TypeOK
<1> QED
  BY <1>3, <1>4, <1>5 DEF Stats!StatsInv, Stats!OverviewFollows, Stats!MessageStatsFollow,
     Stats!SessionStatsFollow, Stats!UsageFollows

(* A report that is done has all the answers of its queries.                *)
LEMMA DoneHasAll ==
  ASSUME Stats!StatsInv, Stats!Done
  PROVE  /\ v3 # Stats!NoReport
         /\ v3.kind = "overview" => Stats!Has("byDirection") /\ Stats!Has("today") /\ Stats!Has("failed")
         /\ v3.kind = "messageStats" => Stats!Has("timeSeries") /\ Stats!Has("bySession")
         /\ v3.kind = "sessionStats" => /\ Stats!Has("byDirectionOf") /\ Stats!Has("todayOf")
                                        /\ Stats!Has("failedOf") /\ Stats!Has("hourly")
         /\ v3.kind = "usage" => Stats!Has("rows") /\ Stats!Has("outgoing")
         /\ v3.kind = "clientUsage" => Stats!Has("rows") /\ Stats!Has("outgoingOf")
<1>1. /\ v3 # Stats!NoReport /\ v3.kind \in Stats!Kinds
      /\ v3.pc \in 1..(Len(Stats!Steps[v3.kind]) + 1) /\ v3.pc > Len(Stats!Steps[v3.kind])
      /\ DOMAIN v3.answers = {Stats!Steps[v3.kind][i] : i \in 1..(v3.pc - 1)}
  BY DEF Stats!StatsInv, Stats!TypeOK, Stats!Done
<1>2. Len(Stats!Steps[v3.kind]) \in Nat
  BY <1>1, StepsAre
<1>3. 1..(v3.pc - 1) = 1..Len(Stats!Steps[v3.kind])
  BY <1>1, <1>2
<1>4. \A i \in 1..Len(Stats!Steps[v3.kind]) : Stats!Has(Stats!Steps[v3.kind][i])
  BY <1>1, <1>3 DEF Stats!Has
<1>5. ASSUME NEW s, s = Stats!Steps[v3.kind], NEW a, NEW b, s = <<a, b>>
      PROVE  Stats!Has(a) /\ Stats!Has(b)
  <2>1. Len(s) = 2 /\ s[1] = a /\ s[2] = b
    BY <1>5
  <2> QED
    BY <1>4, <1>5, <2>1
<1>6. v3.kind = "overview" => Stats!Has("byDirection") /\ Stats!Has("today") /\ Stats!Has("failed")
  <2> SUFFICES ASSUME v3.kind = "overview"
               PROVE  Stats!Has("byDirection") /\ Stats!Has("today") /\ Stats!Has("failed")
    OBVIOUS
  <2> DEFINE s == Stats!Steps[v3.kind]
  <2>1. Len(s) = 3 /\ s[1] = "byDirection" /\ s[2] = "today" /\ s[3] = "failed"
    BY StepsAre
  <2>2. \A i \in 1..Len(s) : Stats!Has(s[i])
    BY <1>4
  <2> HIDE DEF s
  <2>3. Stats!Has(s[1]) /\ Stats!Has(s[2]) /\ Stats!Has(s[3])
    BY <2>1, <2>2
  <2> QED
    BY <2>1, <2>3
<1>7. v3.kind = "sessionStats" => /\ Stats!Has("byDirectionOf") /\ Stats!Has("todayOf")
                                  /\ Stats!Has("failedOf") /\ Stats!Has("hourly")
  <2> SUFFICES ASSUME v3.kind = "sessionStats"
               PROVE  /\ Stats!Has("byDirectionOf") /\ Stats!Has("todayOf")
                      /\ Stats!Has("failedOf") /\ Stats!Has("hourly")
    OBVIOUS
  <2> DEFINE s == Stats!Steps[v3.kind]
  <2>1. Len(s) = 4 /\ s[1] = "byDirectionOf" /\ s[2] = "todayOf" /\ s[3] = "failedOf" /\ s[4] = "hourly"
    BY StepsAre
  <2>2. \A i \in 1..Len(s) : Stats!Has(s[i])
    BY <1>4
  <2> HIDE DEF s
  <2>3. Stats!Has(s[1]) /\ Stats!Has(s[2]) /\ Stats!Has(s[3]) /\ Stats!Has(s[4])
    BY <2>1, <2>2
  <2> QED
    BY <2>1, <2>3
<1>8. /\ v3.kind = "messageStats" => Stats!Has("timeSeries") /\ Stats!Has("bySession")
      /\ v3.kind = "usage" => Stats!Has("rows") /\ Stats!Has("outgoing")
      /\ v3.kind = "clientUsage" => Stats!Has("rows") /\ Stats!Has("outgoingOf")
  BY <1>5, StepsAre
<1> QED
  BY <1>1, <1>6, <1>7, <1>8

LEMMA ReportsFollow == Stats!StatsInv => Stats!ReportsAddUp
<1> SUFFICES ASSUME Stats!StatsInv, Stats!Done
             PROVE  Stats!ReportsAddUp
  BY DEF Stats!ReportsAddUp, Stats!Reporting
<1>1. v3.kind = "overview" =>
        /\ Stats!Got("today").sent <= Stats!Got("byDirection").sent + v4
        /\ Stats!Got("today").received <= Stats!Got("byDirection").received + v4
        /\ Stats!Got("failed") <= Stats!Got("byDirection").sent + v4
  BY DoneHasAll DEF Stats!StatsInv, Stats!OverviewFollows
<1>2. v3.kind = "messageStats" =>
        Stats!SentBySession <= Stats!SentInSeries + v4 /\ Stats!SentBySession >= Stats!SentInSeries
  <2> SUFFICES ASSUME v3.kind = "messageStats"
               PROVE  Stats!SentBySession <= Stats!SentInSeries + v4 /\ Stats!SentBySession >= Stats!SentInSeries
    OBVIOUS
  <2>1. /\ Stats!SentInSeries \in Nat /\ Stats!SentBySession \in Nat
        /\ Stats!SentInSeries <= Stats!SentBySession /\ Stats!SentBySession <= Stats!SentInSeries + v4
    BY DoneHasAll DEF Stats!StatsInv, Stats!MessageStatsFollow
  <2> QED
    BY <2>1
<1>3. v3.kind = "sessionStats" =>
        /\ Stats!Got("todayOf") <= Stats!Got("byDirectionOf").sent + Stats!Got("byDirectionOf").received + v4
        /\ Stats!Got("failedOf") <= Stats!Got("byDirectionOf").sent + v4
        /\ Stats!Got("hourly").sent + Stats!Got("hourly").received >= Stats!Got("todayOf")
  BY DoneHasAll DEF Stats!StatsInv, Stats!SessionStatsFollow
<1> QED
  BY <1>1, <1>2, <1>3 DEF Stats!ReportsAddUp, Stats!Reporting

(* The sums of the usage are sums over parts of the one list that was read. *)
LEMMA UsageSums ==
  ASSUME Stats!StatsInv, Stats!Has("rows"), NEW L \in SUBSET Stats!Ids
  PROVE  /\ Stats!SumOver([c \in Payers |-> Stats!Cardinality({i \in L : Stats!ClientOf(i) = c})])
              <= Stats!Cardinality(L)
         /\ \A c \in Payers :
              Stats!SumOver([s \in Stats!OwnSessions(c) |-> Stats!Cardinality({i \in L : v1[i].session = s})])
                = Stats!Cardinality({i \in L : Stats!ClientOf(i) = c})
<1>1. v1 \in Seq(Stats!Message)
  BY DEF Stats!StatsInv, Stats!TypeOK
<1>2. \A i \in Stats!Ids : v1[i].session \in WaSessions
  <2>1. \A i \in Stats!Ids : v1[i] \in Stats!Message
    BY <1>1 DEF Stats!Ids
  <2> QED
    BY <2>1 DEF Stats!Message
<1>3. IsFiniteSet(L) /\ \A S \in SUBSET L : Stats!Cardinality(S) <= Stats!Cardinality(L)
  BY <1>1, MessagesCount
<1> DEFINE g == [i \in L |-> Stats!ClientOf(i)]
           h == [i \in L |-> v1[i].session]
<1>4. [c \in Payers |-> Stats!Cardinality({i \in L : Stats!ClientOf(i) = c})]
        = [c \in Payers |-> Stats!Cardinality({i \in L : g[i] = c})]
  <2>1. \A c : {i \in L : Stats!ClientOf(i) = c} = {i \in L : g[i] = c}
    OBVIOUS
  <2> HIDE DEF g
  <2> QED
    BY <2>1
<1>5. Stats!SumOver([c \in Payers |-> Stats!Cardinality({i \in L : g[i] = c})])
        = Cardinality({i \in L : g[i] \in Payers})
  <2> HIDE DEF g
  <2> QED
    BY <1>3, PartsAddUp
<1>6. ASSUME NEW c \in Payers
      PROVE  Stats!SumOver([s \in Stats!OwnSessions(c) |-> Stats!Cardinality({i \in L : v1[i].session = s})])
               = Stats!Cardinality({i \in L : Stats!ClientOf(i) = c})
  <2> DEFINE O == Stats!OwnSessions(c)
  <2>1. {i \in L : h[i] \in O} = {i \in L : Stats!ClientOf(i) = c}
    BY <1>2 DEF Stats!OwnSessions, Stats!ClientOf
  <2>2. [s \in O |-> Stats!Cardinality({i \in L : v1[i].session = s})]
          = [s \in O |-> Stats!Cardinality({i \in L : h[i] = s})]
    <3>1. \A s : {i \in L : v1[i].session = s} = {i \in L : h[i] = s}
      OBVIOUS
    <3> HIDE DEF h, O
    <3> QED
      BY <3>1
  <2>3. Stats!SumOver([s \in O |-> Stats!Cardinality({i \in L : h[i] = s})]) = Cardinality({i \in L : h[i] \in O})
    <3> HIDE DEF h, O
    <3> QED
      BY <1>3, PartsAddUp
  <2> QED
    BY <2>1, <2>2, <2>3, StatsCardinality
<1>7. Stats!Cardinality({i \in L : g[i] \in Payers}) <= Stats!Cardinality(L)
  BY <1>3
<1> QED
  BY <1>4, <1>5, <1>6, <1>7, StatsCardinality

LEMMA UsageFollow == Stats!StatsInv => Stats!UsageIsShared
<1> SUFFICES ASSUME Stats!StatsInv, Stats!Done
             PROVE  Stats!UsageIsShared
  BY DEF Stats!UsageIsShared, Stats!Reporting
<1>1. ASSUME v3.kind = "usage"
      PROVE  /\ \A ages : Stats!SumOver([c \in Payers |-> Stats!PerClient(c, ages)]) <= Stats!Totals(ages)
             /\ \A c \in Payers :
                  Stats!PerClient(c, Stats!Recent)
                    = Stats!SumOver([s \in Stats!OwnSessions(c) |-> Stats!PerSession(s, Stats!Recent)])
  <2> DEFINE L(ages) == Stats!Since(ages, Stats!Got("outgoing"))
  <2>1. Stats!Has("rows") /\ Stats!Got("outgoing") \subseteq Stats!Ids
    BY <1>1, DoneHasAll DEF Stats!StatsInv, Stats!UsageFollows
  <2>2. \A ages : L(ages) \in SUBSET Stats!Ids
    BY <2>1 DEF Stats!Since
  <2>3. \A ages : \A c : Stats!PerClient(c, ages) = Stats!Cardinality({i \in L(ages) : Stats!ClientOf(i) = c})
    BY DEF Stats!PerClient
  <2>4. \A ages : \A s : Stats!PerSession(s, ages) = Stats!Cardinality({i \in L(ages) : v1[i].session = s})
    BY DEF Stats!PerSession
  <2>5. \A ages : Stats!Totals(ages) = Stats!Cardinality(L(ages))
    BY DEF Stats!Totals
  <2> HIDE DEF L
  <2>6. ASSUME NEW ages
        PROVE  Stats!SumOver([c \in Payers |-> Stats!PerClient(c, ages)]) <= Stats!Totals(ages)
    <3>1. [c \in Payers |-> Stats!PerClient(c, ages)]
            = [c \in Payers |-> Stats!Cardinality({i \in L(ages) : Stats!ClientOf(i) = c})]
      BY <2>3
    <3>2. Stats!SumOver([c \in Payers |-> Stats!Cardinality({i \in L(ages) : Stats!ClientOf(i) = c})])
            <= Stats!Cardinality(L(ages))
      BY <2>1, <2>2, UsageSums
    <3> QED
      BY <2>5, <3>1, <3>2
  <2>7. ASSUME NEW c \in Payers
        PROVE  Stats!PerClient(c, Stats!Recent)
                 = Stats!SumOver([s \in Stats!OwnSessions(c) |-> Stats!PerSession(s, Stats!Recent)])
    <3>1. [s \in Stats!OwnSessions(c) |-> Stats!PerSession(s, Stats!Recent)]
            = [s \in Stats!OwnSessions(c) |-> Stats!Cardinality({i \in L(Stats!Recent) : v1[i].session = s})]
      BY <2>4
    <3>2. Stats!SumOver([s \in Stats!OwnSessions(c) |->
                           Stats!Cardinality({i \in L(Stats!Recent) : v1[i].session = s})])
            = Stats!Cardinality({i \in L(Stats!Recent) : Stats!ClientOf(i) = c})
      BY <2>1, <2>2, UsageSums
    <3> QED
      BY <2>3, <3>1, <3>2
  <2> QED
    BY <2>6, <2>7
<1>2. ASSUME v3.kind = "clientUsage"
      PROVE  /\ Stats!TotalOf(Stats!Today) <= Stats!TotalOf(Stats!Recent)
             /\ Stats!TotalOf(Stats!Recent)
                  <= Stats!SumOver([s \in Stats!OwnSessions(v3.of) |-> Stats!TotalOfSession(s)])
  <2> DEFINE L == Stats!Got("outgoingOf")
  <2>1. /\ Stats!Has("rows") /\ L \in SUBSET Stats!Ids /\ \A i \in L : Stats!ClientOf(i) = v3.of
        /\ v3 # Stats!NoReport
    BY <1>2, DoneHasAll DEF Stats!StatsInv, Stats!UsageFollows
  <2>2. v3.of \in Payers
    BY <1>2, <2>1 DEF Stats!StatsInv, Stats!TypeOK, Stats!Abouts
  <2>3. v1 \in Seq(Stats!Message)
    BY DEF Stats!StatsInv, Stats!TypeOK
  <2>4. Stats!Since(Stats!Today, L) \subseteq Stats!Since(Stats!Recent, L) /\ Stats!Since(Stats!Recent, L) \subseteq L
    BY DEF Stats!Since, Stats!Today, Stats!Recent
  <2>5. /\ Stats!Cardinality(Stats!Since(Stats!Today, L)) <= Stats!Cardinality(Stats!Since(Stats!Recent, L))
        /\ Stats!Cardinality(Stats!Since(Stats!Recent, L)) <= Stats!Cardinality(L)
    BY <2>1, <2>3, <2>4, MessagesCount
  <2>6. {i \in L : Stats!ClientOf(i) = v3.of} = L
    BY <2>1
  <2>7. Stats!SumOver([s \in Stats!OwnSessions(v3.of) |-> Stats!Cardinality({i \in L : v1[i].session = s})])
          = Stats!Cardinality(L)
    <3> HIDE DEF L
    <3>1. Stats!SumOver([s \in Stats!OwnSessions(v3.of) |-> Stats!Cardinality({i \in L : v1[i].session = s})])
            = Stats!Cardinality({i \in L : Stats!ClientOf(i) = v3.of})
      BY <2>1, <2>2, UsageSums
    <3> QED
      BY <2>6, <3>1
  <2>8. \A s : Stats!TotalOfSession(s) = Stats!Cardinality({i \in L : v1[i].session = s})
    BY DEF Stats!TotalOfSession
  <2>9. \A ages : Stats!TotalOf(ages) = Stats!Cardinality(Stats!Since(ages, L))
    BY DEF Stats!TotalOf
  <2> HIDE DEF L
  <2>10. [s \in Stats!OwnSessions(v3.of) |-> Stats!TotalOfSession(s)]
           = [s \in Stats!OwnSessions(v3.of) |-> Stats!Cardinality({i \in L : v1[i].session = s})]
    BY <2>8
  <2> QED
    BY <2>5, <2>7, <2>9, <2>10
<1> QED
  BY <1>1, <1>2 DEF Stats!UsageIsShared, Stats!Reporting

-----------------------------------------------------------------------------
(* The components together: a step is one of the component that is checked. *)

OperationsInv ==
  /\ part = "hooks" => Hooks!HooksInv
  /\ part = "stats" => Stats!StatsInv
  /\ part = "infra" => Infra!InfraInv
  /\ part = "transfer" => Transfer!TransferInv
  /\ part = "media" => Media!MediaInv

LEMMA OperationsStep == OperationsInv /\ [Next]_componentVars => OperationsInv'
<1> SUFFICES ASSUME OperationsInv, [Next]_componentVars
             PROVE  OperationsInv'
  OBVIOUS
<1>1. ASSUME part' = "hooks"
      PROVE  Hooks!HooksInv'
  <2>1. part = "hooks" /\ [Hooks!Next]_(Hooks!hookVars)
    BY <1>1 DEF Next, componentVars, Hooks!hookVars
  <2> QED
    BY <2>1, HooksStep DEF OperationsInv
<1>2. ASSUME part' = "stats"
      PROVE  Stats!StatsInv'
  <2>1. part = "stats" /\ [Stats!Next]_(Stats!statsVars)
    BY <1>2 DEF Next, componentVars, Stats!statsVars
  <2> QED
    BY <2>1, StatsStep DEF OperationsInv
<1>3. ASSUME part' = "infra"
      PROVE  Infra!InfraInv'
  <2>1. part = "infra" /\ [Infra!Next]_(Infra!infraVars)
    BY <1>3 DEF Next, componentVars, Infra!infraVars
  <2> QED
    BY <2>1, InfraStep DEF OperationsInv
<1>4. ASSUME part' = "transfer"
      PROVE  Transfer!TransferInv'
  <2>1. part = "transfer" /\ [Transfer!Next]_(Transfer!transferVars)
    BY <1>4 DEF Next, componentVars, Transfer!transferVars
  <2> QED
    BY <2>1, TransferStep DEF OperationsInv
<1>5. ASSUME part' = "media"
      PROVE  Media!MediaInv'
  <2>1. part = "media" /\ [Media!Next]_(Media!storageVars)
    BY <1>5 DEF Next, componentVars, Media!storageVars
  <2> QED
    BY <2>1, MediaStep DEF OperationsInv
<1> QED
  BY <1>1, <1>2, <1>3, <1>4, <1>5 DEF OperationsInv

(* The inductive invariants hold of every behaviour.                        *)
THEOREM OperationsAreKept == Spec => []OperationsInv
<1>1. Init => OperationsInv
  BY HooksInit, StatsInit, InfraInit, TransferInit, MediaInit DEF Init, OperationsInv
<1> QED
  BY <1>1, OperationsStep, PTL DEF Spec

(* A disabled plugin is reached by no event, and a chain of handlers skips   *)
(* none that it found, however the plugins come and go.                     *)
THEOREM HooksFollowPlugins == Spec => []HandlersFollowPlugins
<1>1. OperationsInv => HandlersFollowPlugins
  BY DEF OperationsInv, HandlersFollowPlugins, Hooks!HooksInv
<1> QED
  BY <1>1, OperationsAreKept, PTL

(* A restart request that did all the saved configuration asks for leaves a *)
(* server that can boot, whatever other dashboards do meanwhile; an import  *)
(* without a failure leaves the rows of its file and its answer tells what  *)
(* it did; a file that is counted is listed and exported.                   *)
THEOREM OperationsDoWhatTheySay == Spec => []InfraHolds
<1>1. OperationsInv => InfraHolds
  BY InfraFollows DEF OperationsInv, InfraHolds, Transfer!TransferInv, Media!MediaInv
<1> QED
  BY <1>1, OperationsAreKept, PTL
=================================================================================
